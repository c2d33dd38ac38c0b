\* Four commands on an empty database and on one that was synchronized.
CONSTANTS
    m1 = m1  m2 = m2  m3 = m3  m4 = m4
    Runners = {m1, m2, m3, m4}
SPECIFICATION Spec
INVARIANTS RecordedIsComplete AppliedOnce NeverRefused
PROPERTY RevertIsClean
SYMMETRY Symmetry
\* Once every command has ended nothing is left to do.
CHECK_DEADLOCK FALSE
