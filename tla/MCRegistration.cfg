\* Three people register at once; two type one address, some give a phone.
CONSTANTS
    c1 = c1  c2 = c2  c3 = c3  p1 = p1
    Calls = {c1, c2, c3}
    Typed = {"Ada@bank", "ada@bank", "phoebe@phone"}
    Email <- InLowerCase
    Phones = {p1}
    NoPhone = NoPhone
    Phonelike = {"phoebe@phone"}
    Failures = {"database", "commitAck", "broker", "crash"}
SPECIFICATION Spec
INVARIANTS OneUserEach ConflictIsTrue CreatedIsStored
SYMMETRY Symmetry
\* Once every call is answered nothing is left to do.
CHECK_DEADLOCK FALSE
