\* Two logins for one tunnel whose port changes between two ports, under fairness.
CONSTANTS
    c1 = c1  c2 = c2
    t1 = t1
    p1 = p1  p2 = p2
    Conn = {c1, c2}
    Tunnel = {t1}
    Port = {p1, p2}
    NoPort = NoPort
    TunnelOf <- MCTunnelOf
SPECIFICATION FairSpec
INVARIANTS TypeOK TurnedAwayHoldsNothing
PROPERTIES OrphanOnlyByRace PortsAreLeases EndFreesPort RefusedIsDropped
CHECK_DEADLOCK FALSE
