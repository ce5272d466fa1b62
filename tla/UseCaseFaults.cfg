SPECIFICATION BoundedSpec
CONSTANTS
    r1 = r1
    r2 = r2
    r3 = r3
    UseCaseIds = {u1}
    Requests = {r1, r2, r3}
    NoKey = NoKey
    Faults <- AllFaults
\* The system rests when every request has ended and nothing is left to expire.
CHECK_DEADLOCK FALSE
INVARIANT TypeOK
INVARIANT NoLostStack
INVARIANT LiveConfigKept
INVARIANT SequentiallyConsistent
PROPERTY ConfigBeforeCfn
PROPERTY FollowsLife
PROPERTY Reclaimed
