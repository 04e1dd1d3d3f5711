SPECIFICATION MCSpec
CONSTANTS
    p1 = p1
    p2 = p2
    r1 = r1
    r2 = r2
    Publishers = {p1, p2}
    Rows = {r1, r2}
    Human = human
    User = user
    None = none
    MaxIntent = 4
    Scopes <- Alone
    Processes = {o1, o2, o3}
    Commands = {c1, c2}
    Nil = nil
CHECK_DEADLOCK FALSE
INVARIANTS
    PublisherExcludesGit
    OrphansAreReclaimable
PROPERTIES
    EventuallyPublished
