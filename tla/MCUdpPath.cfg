\* Two versions of a row, two sessions of its client, and another client.
CONSTANTS
    t = t  x = x
    s1 = s1  s2 = s2  s3 = s3
    p1 = p1  p2 = p2
    other = other
    Sock = {s1, s2, s3}
    Own = {s1, s2}
    Tunnel = {t, x}
    Mine = t
    Port = {p1, p2}
    Version = {1, 2}
    Create <- MCCreate
    Stop <- MCStop
    SockOf <- MCSockOf
    TunnelOf <- MCTunnelOf
    PortOf <- MCPortOf
    Ask <- MCAsk
    Nobody = Nobody
    None = None
SPECIFICATION PathSpec
INVARIANTS PathTypeOK NewestHears OwnService PathMirrorsRow
PROPERTIES OrphanOnlyWhenLate UdpPortsAreLeases
CHECK_DEADLOCK FALSE
