\* Two logins, a refresh and a logout, and roles that change.
CONSTANTS
    ann = ann  bob = bob  NoUser = NoUser
    c1 = c1  c2 = c2  c3 = c3  c4 = c4
    Users = {ann}
    Calls = {c1, c2, c3, c4}
    Op <- LoginTwice
    Roles = {"CUSTOMER", "ADMIN"}
    AccessTtl = 2
    RefreshTtl = 3
    Delay = 1
    Horizon = 4
SPECIFICATION Spec
INVARIANTS HeldTokensRefresh RoleCurrent
\* Once every call is answered and the clock is at its bound nothing is left to do.
CHECK_DEADLOCK FALSE
