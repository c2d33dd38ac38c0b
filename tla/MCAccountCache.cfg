\* Two transfers and a reader; deletes fail, are skipped or lost in a crash.
CONSTANTS
    ann = ann  bob = bob  k1 = k1  r1 = r1  r2 = r2  ref1 = ref1  ref2 = ref2
    g1 = g1
    NoUser = NoUser  NoKey = NoKey  NoReq = NoReq
    Users = {ann, bob}
    Keys = {k1}
    Requests = {r1, r2}
    Accounts = {1, 2}
    Refs = {ref1, ref2}
    Dtos <- OneWay
    Openings <- OpenTwo
    AdminStatuses = {}
    PoolSize = 2
    Failures = {"redis", "crash"}
    Readers = {g1}
    Ttl = 1
    Delay = 1
    Horizon = 3
SPECIFICATION CacheSpec
INVARIANTS BoundedStaleness OnlyLateFillsStale
SYMMETRY Symmetry
\* Once every request is answered nothing is left to do.
CHECK_DEADLOCK FALSE
