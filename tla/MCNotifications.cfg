\* Receipts and welcomes; everything fails.
CONSTANTS
    t1 = t1  t2 = t2  u1 = u1  u2 = u2
    Transfers = {t1, t2}
    Registrations = {u1, u2}
    WithPhone = {t1, t2, u1}
    Unlogged = {t2, u2}
    Failures = {"mail", "broker", "crash"}
SPECIFICATION FairSpec
INVARIANTS AtMostOneEach SuccessIsSent OneRowEach
PROPERTY TextFollows
\* Once every event is handled or lost nothing is left to do.
CHECK_DEADLOCK FALSE
