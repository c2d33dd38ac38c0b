\* Three requests, any mix of retries of one keyed transfer and of transfers
\* the other way; everything may fail.
CONSTANTS
    ann = ann  bob = bob  k1 = k1
    r1 = r1  r2 = r2  r3 = r3  ref1 = ref1  ref2 = ref2
    NoUser = NoUser  NoKey = NoKey  NoReq = NoReq
    Users = {ann, bob}
    Keys = {k1}
    Requests = {r1, r2, r3}
    Accounts = {1, 2}
    Refs = {ref1, ref2}
    Dtos <- RetryDtos
    Openings <- OpenTwo
    AdminStatuses = {}
    PoolSize = 2
    Failures = {"lookup", "begin", "statement", "commitAck", "redis", "publish", "audit", "crash"}
SPECIFICATION Spec
INVARIANTS NoWaitCycle NoDuplicateDebit DoubleEntry RepliesHonest LedgerExplainsBalance Isolation
    NothingLeftOpen
PROPERTY BankSpec
SYMMETRY Symmetry
\* Once every request is answered nothing is left to do.
CHECK_DEADLOCK FALSE
