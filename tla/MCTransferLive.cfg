\* A pool of one connection, operators at work, amounts finer than a cent.
CONSTANTS
    ann = ann  bob = bob  k1 = k1  r1 = r1  r2 = r2  r3 = r3  ref1 = ref1  ref2 = ref2
    NoUser = NoUser  NoKey = NoKey  NoReq = NoReq
    Users = {ann, bob}
    Keys = {k1}
    Requests = {r1, r2}
    Accounts = {1, 2}
    Refs = {ref1, ref2}
    Dtos <- MixedDtos
    Openings <- OpenTwo
    AdminStatuses = {"ACTIVE", "BLOCKED"}
    PoolSize = 1
    Failures = {"lookup", "statement", "commitAck", "redis", "publish", "audit", "crash"}
SPECIFICATION FairSpec
INVARIANTS TypeOK DriftBounded
PROPERTIES EveryRequestAnswered CommitAuthorised
