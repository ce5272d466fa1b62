SPECIFICATION FairSpec
CONSTANTS
    c1 = c1
    c2 = c2
    Conns = {c1, c2}
    MaxTurns <- Asks
    MaxWorkers = 2
    MaxBatch = 2
    MaxReceive = 2
    Included = 1
    Faults <- AllFaults
    MaxMishaps = 1
\* The system rests when every turn has been settled.
CHECK_DEADLOCK FALSE
INVARIANT TypeOK
INVARIANT NamedChargedOnce
INVARIANT QuotaHolds
INVARIANT SettledIsTold
INVARIANT AnsweredInOrder
PROPERTY TurnsSettle
