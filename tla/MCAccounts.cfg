\* Two registrations for one name, and four pages of the account.
CONSTANTS
    r1 = r1  r2 = r2  a1 = a1  a2 = a2  m = m  d = d
    D1 = D1  D2 = D2  D3 = D3
    Register = {r1, r2}
    Add = {a1, a2}
    Update = {m}
    Delete = {d}
    Username <- MCUsername
    Email <- MCEmail
    UserOf <- MCUserOf
    NameOf <- MCNameOf
    Name = {D1, D2, D3}
    Device1 = D1
    Device2 = D2
    Limit = 2
    Id <- MCId
    Start <- MCStart
    None = None
SPECIFICATION Spec
INVARIANTS WithinQuota FailureHasReason DevicesComplete AddressedUnlessInterrupted AddressesInNetwork
CHECK_DEADLOCK FALSE
