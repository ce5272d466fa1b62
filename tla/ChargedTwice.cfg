SPECIFICATION Spec
CONSTANTS
    c1 = c1
    c2 = c2
    Conns = {c1, c2}
    MaxTurns <- Asks
    MaxWorkers = 1
    MaxBatch = 1
    MaxReceive = 3
    Included = 10
    Faults <- Hangups
    MaxMishaps = 1
\* The system rests when every turn has been settled.
CHECK_DEADLOCK FALSE
INVARIANT ChargedOnce
