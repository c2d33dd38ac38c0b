\* Two transfers around a midnight of a database and a process an hour ahead of
\* UTC, reports at any moment.
CONSTANTS
    ann = ann  bob = bob  k1 = k1  r1 = r1  r2 = r2  ref1 = ref1  ref2 = ref2
    NoUser = NoUser  NoKey = NoKey  NoReq = NoReq
    Users = {ann, bob}
    Keys = {k1}
    Requests = {r1, r2}
    Accounts = {1, 2}
    Refs = {ref1, ref2}
    Dtos <- BothWays
    Openings <- OpenTwo
    AdminStatuses = {}
    PoolSize = 2
    Failures = {"commitAck"}
    Offset = 1
    Dates = {0, 1}
    Hours = {23, 24}
SPECIFICATION ReportsSpec
INVARIANTS NoFalseAlarm SettledIsPosted RowInOneReport
SYMMETRY Symmetry
