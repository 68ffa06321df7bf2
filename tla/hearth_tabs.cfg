\* Two tabs at once, queues of two, three messages and one permission.
CONSTANTS
    Tabs = {t1, t2}
    NoTab = NoTab
    MaxTabs = 2
    MaxQueued = 2
    MaxPrompts = 3
    MaxAsks = 1
SPECIFICATION Spec
INVARIANTS
    TypeOK
    NoIdleWithWork
    PromptsInOrder
PROPERTY WorkspaceCloses
CHECK_DEADLOCK FALSE
