CONSTANTS
    a = a  b = b  t = t
    Local = {l1}
    Client = {a, b, t}
    Target = t
    Owner <- MCOwner
SPECIFICATION FairSpec
INVARIANTS OnePath StrayOnlyWhenLate OnlyOwnLinksAreHit
PROPERTIES NobodyWaitsForEver
CHECK_DEADLOCK FALSE
