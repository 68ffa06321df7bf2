\* Two requests, a fire and a probe of the watchdog; four workers.
CONSTANTS
    Requests = {r1, r2}
    Probes = {p1}
    Fires = {f1}
    NoCall = NoCall
    MaxRestarts = 2
    MaxWorkers = 4
SPECIFICATION Spec
INVARIANTS
    TypeOK
    InFlightIsPending
    AnswersAreOwn
CHECK_DEADLOCK FALSE
