\* Two prompts and one continuation; one stall and one retry are allowed.
CONSTANTS
    Prompts = {m1, m2}
    Continues = {k1}
    NoCall = NoCall
    MaxQueue = 1
    MaxStalls = 1
    MaxRetries = 1
    StallCap = 2
    MaxCompacts = 1
SPECIFICATION Spec
PROPERTY QueueMoves
INVARIANTS
    TypeOK
    OneStreamWhileCalm
    QueueHoldsQueued
