SPECIFICATION Spec
CONSTANTS
    p1 = p1
    p2 = p2
    r1 = r1
    r2 = r2
    Publishers = {p1, p2}
    Rows = {r1, r2}
    Human = human
    User = user
    None = none
    MaxIntent = 3
    Scopes <- AllScopes
INVARIANTS
    NoMissingRows
    NoStagedReversal
    CompletedIsPublished
    PublishedOnce
PROPERTIES
    WorktreeEditKept
    ConcurrentMoveKept
    JournalGivenUpSafely
