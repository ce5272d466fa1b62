SPECIFICATION Spec
CONSTANTS
    Events = {e1, e2}
    Versions = {1, 2}
    Forbidding = {2}
    MaxEngines = 2
    MaxAttempts = 2
    MaxDeletes = 2
    Faults <- AllMishaps
SYMMETRY Symmetry
\* The system rests when every event has been handled.
CHECK_DEADLOCK FALSE
INVARIANT TypeOK
INVARIANT AppliedIsEnforced
INVARIANT DetachedIsGone
INVARIANT NeverLeftBare
INVARIANT EndIsReported
