CONSTANTS
    a = a  b = b
    v1 = v1  v2 = v2  v3 = v3
    m1 = m1  m2 = m2
    Conn = {a, b}
    Visitor = {v1, v2, v3}
    MPort = {m1, m2}
    NoMPort = NoMPort
    Nobody = Nobody
    HomeOf <- MCHomeOf
SPECIFICATION Spec
INVARIANTS TypeOK MiddleFollowsVisitor OneLocalPerVisitor
PROPERTIES OnlyTheLateGoAstray
SYMMETRY MCSymmetry
CHECK_DEADLOCK FALSE
