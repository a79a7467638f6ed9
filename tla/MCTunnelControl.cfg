\* An add, an update and a delete of two tunnels of one client.
CONSTANTS
    t1 = t1  t2 = t2
    p1 = p1  p2 = p2
    l1 = l1  l2 = l2
    n1 = n1  n2 = n2
    v1 = v1  v2 = v2
    a1 = a1  u1 = u1  d1 = d1
    i1 = i1  i2 = i2
    Tunnel = {t1, t2}
    Port = {p1, p2}
    Setting <- MCSetting
    Naming <- MCNaming
    Add = {a1}
    Update = {u1}
    Delete = {d1}
    TunnelOf <- MCTunnelOf
    First <- MCFirst
    Forms <- MCForms
    Inst = {i1, i2}
    None = None
SPECIFICATION Spec
INVARIANTS TypeOK MirrorsRows ClientIsSpared
PROPERTIES LostOnlyByReplacement IndexOnlyUnguarded
SYMMETRY MCSymmetry
CHECK_DEADLOCK FALSE
