\* As checkpoints.cfg.
CONSTANTS
    Tabs = {A, B}
    Prompts = {p1, p2, p3}
    Files = {f}
    NoPrompt = NoPrompt
    MaxJobs = 2
SPECIFICATION Spec
PROPERTY DroppedIsStashed
CHECK_DEADLOCK FALSE
