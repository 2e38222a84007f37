\* Three tasks that overlap, fail and time out.
SPECIFICATION Spec
CONSTANTS
    Tasks = {t1, t2, t3}
    Nil = Nil
    MaxFailed = 2
SYMMETRY Symmetry
INVARIANTS
    EveryStatementIssued
    LaterTaskWins
    SequentialAgrees
CHECK_DEADLOCK FALSE
