\* Every kind of prompt at once, every interleaving of the two halves.
CONSTANTS
    w1 = w1
    w2 = w2
    o1 = o1
    d1 = d1
    q1 = q1
    NoAsk = NoAsk
    WebAsks = {w1, w2}
    OutsideAsks = {o1}
    DestructiveAsks = {d1}
    Questions = {q1}
SPECIFICATION Spec
INVARIANTS
    TypeOK
    NoSilentAllow
    DecidedPromptsLeavePhone
PROPERTY
    DecisionsFinal
SYMMETRY Symmetry
