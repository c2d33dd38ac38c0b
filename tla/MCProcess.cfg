\* Two requests, their events and their responses in one process that may die.
CONSTANTS
    ann = ann  bob = bob  k1 = k1  r1 = r1  r2 = r2  ref1 = ref1  ref2 = ref2
    NoUser = NoUser  NoKey = NoKey  NoReq = NoReq
    Users = {ann, bob}
    Keys = {k1}
    Requests = {r1, r2}
    Accounts = {1, 2}
    Refs = {ref1, ref2}
    Dtos <- TwoWays
    Openings <- OpenTwo
    AdminStatuses = {}
    PoolSize = 1
    Failures = {"lookup", "begin", "statement", "commitAck", "redis", "publish", "audit", "crash"}
    ConsumerFailures = {"mail", "broker", "crash"}
    Unsaved = {r1}
    Window = 1
    Latencies = {1, 2}
SPECIFICATION FairProcessSpec
INVARIANTS ErrorsAreSilent WindowIsRecent
PROPERTIES CustomersSpec BookedIsTold
\* Once every request and its event are over nothing is left to do.
CHECK_DEADLOCK FALSE
