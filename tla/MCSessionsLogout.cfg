\* A refresh and a logout of one user run together.
CONSTANTS
    ann = ann  bob = bob  NoUser = NoUser
    c1 = c1  c2 = c2  c3 = c3  c4 = c4
    Users = {ann}
    Calls = {c1, c2, c3}
    Op <- OneOfEach
    Roles = {"CUSTOMER"}
    AccessTtl = 2
    RefreshTtl = 4
    Delay = 0
    Horizon = 0
SPECIFICATION Spec
INVARIANT LoggedOut
\* Once every call is answered nothing is left to do.
CHECK_DEADLOCK FALSE
