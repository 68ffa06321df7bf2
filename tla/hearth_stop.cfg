\* One tab, two messages and one permission: a stop in the first turn.
CONSTANTS
    Tabs = {t1}
    NoTab = NoTab
    MaxTabs = 1
    MaxQueued = 2
    MaxPrompts = 2
    MaxAsks = 1
SPECIFICATION Spec
PROPERTY AbortEndsOneTurn
CHECK_DEADLOCK FALSE
