SPECIFICATION FairSpec
CONSTANTS
    Requests = {1, 2}
    Mains = {1, 2}
    Gateways = {4, 5}
    MaxMishaps = 1
\* The system rests when every request has ended.
CHECK_DEADLOCK FALSE
INVARIANT TypeOK
INVARIANT NoTwins
INVARIANT ToolsAreThere
PROPERTY KeepsPromise
PROPERTY RetrySucceeds
