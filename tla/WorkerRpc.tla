----------------------------- MODULE WorkerRpc -----------------------------
(***************************************************************************)
(* Calls from the main thread to a worker thread and back: numbered        *)
(* messages, answers matched by number, a timer for each call, a worker    *)
(* that holds calls back while it initializes, crashes, restarts up to a   *)
(* limit, and the heap watchdog that recycles an idle worker.              *)
(*                                                                         *)
(* core/workers/rpc.ts 67-180 (worker) and 199-435 (client);               *)
(* core/workers/intelligence-client.ts 231-261; stores/workers.ts 60-75.   *)
(* Left out: callbacks from the worker to the main thread, events.         *)
(***************************************************************************)
EXTENDS Naturals, Sequences, FiniteSets

CONSTANTS
    Requests,      \* calls of the application
    Probes,        \* the watchdog's calls of __memoryUsage
    Fires,         \* messages sent with fire(), which wait for no answer
    NoCall,
    MaxRestarts,   \* WorkerClient.MAX_RESTARTS
    MaxWorkers     \* bound of this model: workers spawned

Awaited == Requests \cup Probes
Calls == Awaited \cup Fires
Workers == 1..MaxWorkers
Ids == 0..Cardinality(Calls) - 1
Messages == [id : Ids, call : Calls]
NoMessage == [id |-> 0, call |-> NoCall]
InitMessage == [id |-> 0, call |-> "init"]
DisposeMessage == [id |-> 0, call |-> "dispose"]

ASSUME CallsAssumption ==
    /\ IsFiniteSet(Calls)
    /\ NoCall \notin Calls /\ "init" \notin Calls /\ "dispose" \notin Calls
    /\ Requests \cap (Probes \cup Fires) = {} /\ Probes \cap Fires = {}
ASSUME BoundsAssumption == MaxRestarts \in Nat /\ MaxWorkers \in Nat \ {0}

VARIABLES
    outcome,   \* of each call: not made, waiting, answered, failed; a probe
               \* that was answered becomes "checked" when its result is used
    answer,    \* of each call: the call whose result it was given (history)
    pending,   \* the client's map from number to call
    nextId,
    inFlight,  \* rpcInFlight in the store of the workers
    cur,       \* the client's worker of the moment
    restarts,  \* restartCount
    disposed,
    life,      \* of each worker: up, terminated, or gone with its close event
    inbox,     \* of each worker: messages on their way to it
    outbox,    \* of each worker: results on their way to the client
    init,      \* of each worker: the init message not handled, onInit running,
               \* done, which it is from the start without an init message
    initQueue, \* of each worker: calls held back until the end of onInit
    flushing,  \* of each worker: the held-back call it is working on
    handling   \* of each worker: the calls whose handlers run

clientVars == <<outcome, answer, pending, nextId, inFlight>>
restartVars == <<cur, restarts, disposed>>
localVars == <<init, initQueue, flushing, handling>>
workerVars == <<life, inbox, outbox, localVars>>
vars == <<clientVars, restartVars, workerVars>>

\* The first message to a worker; a client without initConfig (IOClient) sends
\* none.
Greeting(w) == IF init[w] = "none" THEN <<InitMessage>> ELSE <<>>

Waiting == {i \in Ids : pending[i] # NoCall}

TypeOK ==
    /\ outcome \in [Calls -> {"unsent", "waiting", "answered", "checked", "failed", "fired"}]
    /\ answer \in [Calls -> Calls \cup {NoCall}]
    /\ pending \in [Ids -> Calls \cup {NoCall}]
    /\ nextId \in 0..Cardinality(Calls)
    /\ inFlight \in Nat
    /\ cur \in Workers
    /\ restarts \in 0..MaxRestarts
    /\ disposed \in BOOLEAN
    /\ life \in [Workers -> {"unborn", "up", "terminated", "gone"}]
    /\ \A w \in Workers : w =< cur <=> life[w] # "unborn"
    /\ inbox \in [Workers -> Seq(Messages \cup {InitMessage, DisposeMessage})]
    /\ outbox \in [Workers -> Seq(Messages)]
    /\ init \in [Workers -> {"none", "running", "done"}]
    /\ initQueue \in [Workers -> Seq(Messages)]
    /\ flushing \in [Workers -> Messages \cup {NoMessage}]
    /\ handling \in [Workers -> SUBSET Messages]

Init ==
    /\ outcome = [c \in Calls |-> "unsent"]
    /\ answer = [c \in Calls |-> NoCall]
    /\ pending = [i \in Ids |-> NoCall]
    /\ nextId = 0 /\ inFlight = 0
    /\ cur = 1 /\ restarts = 0 /\ disposed = FALSE
    /\ life = [w \in Workers |-> IF w = 1 THEN "up" ELSE "unborn"]
    /\ \E initConfig \in BOOLEAN :
         init = [w \in Workers |-> IF initConfig THEN "none" ELSE "done"]
    /\ inbox = [w \in Workers |-> IF w = 1 THEN Greeting(1) ELSE <<>>]
    /\ outbox = [w \in Workers |-> <<>>]
    /\ initQueue = [w \in Workers |-> <<>>]
    /\ flushing = [w \in Workers |-> NoMessage]
    /\ handling = [w \in Workers |-> {}]

----------------------------------------------------------------------------
(* The client.                                                             *)

\* postMessage to the worker of the moment; a dead worker hears nothing.
Post(m) ==
    inbox' = IF life[cur] = "up" THEN [inbox EXCEPT ![cur] = Append(@, m)] ELSE inbox

\* A number is given once, and the number of calls in flight goes up.
Send(c) ==
    /\ outcome[c] = "unsent"
    /\ IF disposed
       THEN /\ outcome' = [outcome EXCEPT ![c] = "failed"]
            /\ UNCHANGED <<pending, nextId, inFlight, inbox>>
       ELSE /\ Post([id |-> nextId, call |-> c])
            /\ nextId' = nextId + 1
            /\ IF c \in Fires
               THEN /\ outcome' = [outcome EXCEPT ![c] = "fired"]
                    /\ UNCHANGED <<pending, inFlight>>
               ELSE /\ outcome' = [outcome EXCEPT ![c] = "waiting"]
                    /\ pending' = [pending EXCEPT ![nextId] = c]
                    /\ inFlight' = inFlight + 1
    /\ UNCHANGED <<answer, restartVars, life, outbox, localVars>>

\* The watchdog measures only when nothing is in flight.
Probe(c) == c \in Probes /\ inFlight = 0 /\ Send(c)

Request(c) == c \in Requests \cup Fires /\ Send(c)

\* The timer of a call.
TimesOut(i) ==
    /\ i \in Waiting
    /\ outcome' = [outcome EXCEPT ![pending[i]] = "failed"]
    /\ pending' = [pending EXCEPT ![i] = NoCall]
    /\ inFlight' = inFlight - 1
    /\ UNCHANGED <<answer, nextId, restartVars, workerVars>>

\* A result, or an error, from any worker that still has its close event
\* ahead.
ReceiveResult(w) ==
    /\ outbox[w] # <<>>
    /\ outbox' = [outbox EXCEPT ![w] = Tail(@)]
    /\ LET m == Head(outbox[w])
           c == pending[m.id] IN
       IF c = NoCall THEN UNCHANGED <<outcome, answer, pending, inFlight>>
       ELSE /\ \E kind \in {"answered", "failed"} : outcome' = [outcome EXCEPT ![c] = kind]
            /\ answer' = [answer EXCEPT ![c] = m.call]
            /\ pending' = [pending EXCEPT ![m.id] = NoCall]
            /\ inFlight' = inFlight - 1
    /\ UNCHANGED <<nextId, restartVars, life, inbox, localVars>>

\* What a worker was doing ends with it; its results may still arrive.
StopWorker(w) ==
    /\ init' = [init EXCEPT ![w] = "none"]
    /\ initQueue' = [initQueue EXCEPT ![w] = <<>>]
    /\ flushing' = [flushing EXCEPT ![w] = NoMessage]
    /\ handling' = [handling EXCEPT ![w] = {}]

\* Mutant of RejectAll: the calls are forgotten, their counter is not.
RejectAllQuietly ==
    /\ outcome' = [c \in Calls |-> IF outcome[c] = "waiting" THEN "failed" ELSE outcome[c]]
    /\ pending' = [i \in Ids |-> NoCall]
    /\ UNCHANGED inFlight

\* Every waiting call is rejected, whichever worker it was sent to.
RejectAll ==
    /\ outcome' = [c \in Calls |-> IF outcome[c] = "waiting" THEN "failed" ELSE outcome[c]]
    /\ pending' = [i \in Ids |-> NoCall]
    /\ inFlight' = inFlight - Cardinality(Waiting)

\* Terminate the worker of the moment and spawn another.  When the spawn
\* throws, the client keeps the terminated one.
Respawn(count, lives) ==
    /\ restarts' = count + 1
    /\ StopWorker(cur)
    /\ LET stopped == [lives EXCEPT ![cur] = IF @ = "up" THEN "terminated" ELSE @] IN
       \/ /\ cur' = cur + 1
          /\ life' = [stopped EXCEPT ![cur + 1] = "up"]
          /\ inbox' = [inbox EXCEPT ![cur] = <<>>, ![cur + 1] = Greeting(cur + 1)]
       \/ /\ life' = stopped
          /\ inbox' = [inbox EXCEPT ![cur] = <<>>]
          /\ UNCHANGED cur

StaysDown(count, lives) ==
    /\ restarts' = count
    /\ life' = lives
    /\ UNCHANGED <<cur, inbox, localVars>>

\* Mutant of TryRestart: the new worker's calls are numbered from zero again.
TryRestartNumbers(count, lives) ==
    IF disposed \/ count >= MaxRestarts \/ cur = MaxWorkers
    THEN StaysDown(count, lives) /\ UNCHANGED nextId
    ELSE Respawn(count, lives) /\ nextId' = 0

\* Mutant of TryRestart: one restart more than the limit.
TryRestartOnceMore(count, lives) ==
    IF disposed \/ count > MaxRestarts \/ cur = MaxWorkers
    THEN StaysDown(count, lives) /\ UNCHANGED nextId
    ELSE Respawn(count, lives) /\ UNCHANGED nextId

\* tryRestart, from a given count.  Bound: MaxWorkers.
TryRestart(count, lives) ==
    IF disposed \/ count >= MaxRestarts \/ cur = MaxWorkers
    THEN StaysDown(count, lives) /\ UNCHANGED nextId
    ELSE Respawn(count, lives) /\ UNCHANGED nextId

\* handleWorkerClose, for the close event of any worker, the terminated ones
\* included.
Close(w) ==
    /\ life[w] = "terminated"
    /\ RejectAll
    /\ TryRestart(restarts, [life EXCEPT ![w] = "gone"])
    /\ outbox' = [outbox EXCEPT ![w] = <<>>]
    /\ UNCHANGED <<answer, disposed>>

\* The watchdog has its measurement: too much, and still nothing in flight.
CheckHeap(c) ==
    /\ c \in Probes
    /\ outcome[c] = "answered"
    /\ outcome' = [outcome EXCEPT ![c] = "checked"]
    /\ \E above \in BOOLEAN :
         IF above /\ inFlight = 0
         THEN TryRestart(0, life)
         ELSE UNCHANGED <<restarts, life, cur, inbox, nextId, localVars>>
    /\ UNCHANGED <<answer, pending, inFlight, disposed, outbox>>

Dispose ==
    /\ ~disposed
    /\ disposed' = TRUE
    /\ RejectAll
    /\ Post(DisposeMessage)
    /\ UNCHANGED <<answer, nextId, cur, restarts, life, outbox, localVars>>

----------------------------------------------------------------------------
(* The worker.                                                             *)

\* onmessage: calls are held back while onInit runs.  The dispose message is
\* the last one; it is taken here when onDispose has ended and the worker
\* exits, until which it answers calls as before.
ReceiveMessage(w) ==
    /\ life[w] = "up"
    /\ inbox[w] # <<>>
    /\ LET m == Head(inbox[w]) IN
       \/ /\ m = DisposeMessage
          /\ life' = [life EXCEPT ![w] = "terminated"]
          /\ inbox' = [inbox EXCEPT ![w] = <<>>]
          /\ StopWorker(w)
       \/ /\ m # DisposeMessage
          /\ inbox' = [inbox EXCEPT ![w] = Tail(@)]
          /\ \/ /\ m = InitMessage
                /\ init' = [init EXCEPT ![w] = "running"]
                /\ UNCHANGED <<initQueue, handling>>
             \/ /\ m # InitMessage /\ init[w] = "running"
                /\ initQueue' = [initQueue EXCEPT ![w] = Append(@, m)]
                /\ UNCHANGED <<init, handling>>
             \/ /\ m # InitMessage /\ init[w] # "running"
                /\ handling' = [handling EXCEPT ![w] = @ \cup {m}]
                /\ UNCHANGED <<init, initQueue>>
          /\ UNCHANGED <<life, flushing>>
    /\ UNCHANGED <<clientVars, restartVars, outbox>>

\* onInit returns or throws: either way the worker takes calls from now on.
InitEnds(w) ==
    /\ life[w] = "up"
    /\ init[w] = "running"
    /\ init' = [init EXCEPT ![w] = "done"]
    /\ UNCHANGED <<clientVars, restartVars, life, inbox, outbox, initQueue, flushing, handling>>

\* The held-back calls are worked off one by one; others overtake them.
FlushNext(w) ==
    /\ life[w] = "up"
    /\ init[w] = "done"
    /\ initQueue[w] # <<>>
    /\ flushing[w] = NoMessage
    /\ flushing' = [flushing EXCEPT ![w] = Head(initQueue[w])]
    /\ initQueue' = [initQueue EXCEPT ![w] = Tail(@)]
    /\ handling' = [handling EXCEPT ![w] = @ \cup {Head(initQueue[w])}]
    /\ UNCHANGED <<clientVars, restartVars, life, inbox, outbox, init>>

\* A handler returns or throws; both are answered.
HandlerEnds(w, m) ==
    /\ life[w] = "up"
    /\ m \in handling[w]
    /\ handling' = [handling EXCEPT ![w] = @ \ {m}]
    /\ flushing' = [flushing EXCEPT ![w] = IF @ = m THEN NoMessage ELSE @]
    /\ outbox' = [outbox EXCEPT ![w] = Append(@, m)]
    /\ UNCHANGED <<clientVars, restartVars, life, inbox, init, initQueue>>

\* The worker dies, with an error event (handleWorkerError) or without.
Crash(w) ==
    /\ life[w] = "up"
    /\ life' = [life EXCEPT ![w] = "terminated"]
    /\ RejectAll \/ UNCHANGED <<outcome, pending, inFlight>>
    /\ inbox' = [inbox EXCEPT ![w] = <<>>]
    /\ StopWorker(w)
    /\ UNCHANGED <<answer, nextId, restartVars, outbox>>

----------------------------------------------------------------------------
Next ==
    \/ Dispose
    \/ \E c \in Calls : Request(c) \/ Probe(c) \/ CheckHeap(c)
    \/ \E i \in Ids : TimesOut(i)
    \/ \E w \in Workers :
         \/ ReceiveResult(w) \/ Close(w) \/ Crash(w)
         \/ ReceiveMessage(w) \/ InitEnds(w) \/ FlushNext(w)
         \/ \E m \in handling[w] : HandlerEnds(w, m)

Spec == Init /\ [][Next]_vars

----------------------------------------------------------------------------
(* Properties.                                                             *)

\* The counter the watchdog looks at is the number of calls that wait: each
\* call is counted down once, by its answer, its timer, an error, a close or
\* the disposal (rpc.ts 274-299, 401-430).
InFlightIsPending ==
    /\ inFlight = Cardinality(Waiting)
    /\ \A c \in Calls : outcome[c] = "waiting" <=> \E i \in Ids : pending[i] = c

\* No call is given another call's result: late results of a terminated
\* worker find their number gone, not given again (rpc.ts 276, 330-348).
AnswersAreOwn == \A c \in Calls : answer[c] \in {c, NoCall}

=============================================================================
