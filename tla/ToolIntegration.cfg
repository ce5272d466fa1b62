SPECIFICATION Spec
CONSTANTS
    Workspaces = {w1}
    MaxEvents = 2
    MaxAttempts = 2
    MaxSecrets = 2
    FigmaDefault = 3
    MaxMishaps = 1
\* The system rests when every event has been handled.
CHECK_DEADLOCK FALSE
INVARIANT TypeOK
INVARIANT SyncedIsLive
PROPERTY OthersAreKept
