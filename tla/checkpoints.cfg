\* Two tabs, three prompts, one file, at most two jobs for the lock.
CONSTANTS
    Tabs = {A, B}
    Prompts = {p1, p2, p3}
    Files = {f}
    NoPrompt = NoPrompt
    MaxJobs = 2
SPECIFICATION Spec
INVARIANTS
    TypeOK
    TagsFollowPrompts
    NothingTwice
    SnapshotsWhole
SYMMETRY Symmetry
CHECK_DEADLOCK FALSE
