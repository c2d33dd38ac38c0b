\* Redis fails after the commit.
CONSTANTS
    ann = ann  bob = bob  k1 = k1
    r1 = r1  r2 = r2  r3 = r3  ref1 = ref1  ref2 = ref2
    NoUser = NoUser  NoKey = NoKey  NoReq = NoReq
    Users = {ann, bob}
    Keys = {k1}
    Requests = {r1}
    Accounts = {1, 2}
    Refs = {ref1}
    Dtos <- RetryDtos
    Openings <- OpenTwo
    AdminStatuses = {}
    PoolSize = 1
    Failures = {"redis"}
SPECIFICATION Spec
INVARIANT FailedMovesNoMoney
\* Once every request is answered nothing is left to do.
CHECK_DEADLOCK FALSE
