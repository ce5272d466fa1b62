SPECIFICATION RacedFairSpec
CONSTANTS
    author = author
    page = page
    Specialists = {s1}
    Orchestrators = {}
    Slugs = {n1, n2}
    Renames <- OneRename
    n1 = n1
    n2 = n2
    Bodies = {b1}
    Workers = {author, page}
    Asks <- OneAuthor
    Poller = page
    MaxStacks = 2
    MaxMishaps = 1
\* The system rests when a template is archived.
CHECK_DEADLOCK FALSE
INVARIANT OneTestStack
INVARIANT PublishedWasUp
PROPERTY TestSettles
PROPERTY FollowsLife
