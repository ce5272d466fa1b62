SPECIFICATION FairSpec
CONSTANTS
    Files = {f1}
    Requests = {r1, r2, r3}
    NoUuid = NoUuid
    MaxAttempts = 2
    Faults <- TheseFaults
\* The system rests when every request has ended and nothing is left to expire.
CHECK_DEADLOCK FALSE
INVARIANT UploadedIsStored
INVARIANT DeletedIsGone
INVARIANT UploadedIsGenuine
PROPERTY PostedIsProcessed
PROPERTY FollowsLife
