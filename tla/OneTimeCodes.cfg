\* Two requests at a time on three codes, with two events of trouble (changes of
\* the connection, failing commands, restarts).  Outside production every code of
\* production can be made too.
CONSTANTS
    Slots = {s1, s2}
    Tags = {t1, t2}
    Ttl <- MCTtl
    Production = FALSE
    MaxCodes = 3
    MaxNow = 3
    MaxTrouble = 2
SPECIFICATION Spec
SYMMETRY MCSymmetry
INVARIANTS
    TypeOK
    OneTime
    Bound
    HeldOnce
CHECK_DEADLOCK FALSE
