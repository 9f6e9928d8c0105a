SPECIFICATION FairSpec
CONSTANTS
    Queries = {q1, q2}
    Workers = {w1, w2}
    Intervals = {i1, i2}
    OldIntervals = {i1}
    NewIntervals = {i1, i2}
INVARIANTS
    WholeResult NoSendAfterClose WaitGroupExact
PROPERTY
    PoolReturns
CHECK_DEADLOCK FALSE
