SPECIFICATION RacedSpec
CONSTANTS
    author = author
    page = page
    Specialists = {s1}
    Orchestrators = {}
    Slugs = {n1, n2}
    n1 = n1
    n2 = n2
    Renames <- OneRename
    Bodies = {b1, b2}
    Workers = {author}
    Asks <- OneAuthor
    Poller = author
    MaxStacks = 1
    MaxMishaps = 0
CHECK_DEADLOCK FALSE
INVARIANT PublishedIsProven
