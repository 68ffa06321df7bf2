------------------------------ MODULE Dispatch ------------------------------
(***************************************************************************)
(* The scheduler of one multi-agent dispatch: subagent-tools.ts runs every *)
(* task of an accepted plan as an asynchronous function, agent-runner.ts   *)
(* carries out one task with its retries, and the AgentBus keeps results,  *)
(* waits on dependencies, counts provider failures and aborts everyone.    *)
(*                                                                         *)
(* One action is the code between two awaits of one task; an event from    *)
(* outside (Idle) waits until no continuation is left.  What a language    *)
(* model does inside agent.generate() is a choice of outcome; backoff and  *)
(* proxy repair between attempts are part of the loop head.                *)
(***************************************************************************)
EXTENDS Naturals, FiniteSets, Sequences

CONSTANTS
  N,                 (* number of tasks; tasks are 1..N in plan order       *)
  DepGraphs,         (* the dependency relations a plan may have            *)
  Coders,            (* tasks with role "code"                              *)
  MaxConcurrent,     (* taskRouter.maxConcurrentAgents, clamped to 2..8     *)
  MaxRetries,        (* retry.maxTransientRetries                           *)
  BreakerThreshold,  (* CIRCUIT_BREAKER_THRESHOLD                           *)
  PeerCancels,       (* may an agent call cancel_dispatch?                  *)
  WaitsExpire        (* may waitForAgent's timer fire?                      *)

Agents == 1 .. N

ASSUME ConstantsAssumption ==
  /\ N \in Nat
  /\ Coders \subseteq Agents
  /\ MaxConcurrent \in Nat \ {0}
  /\ MaxRetries \in Nat
  /\ BreakerThreshold \in Nat \ {0}
  /\ PeerCancels \in BOOLEAN
  /\ WaitsExpire \in BOOLEAN

ASSUME DepGraphsAssumption == DepGraphs \subseteq [Agents -> SUBSET Agents]

VARIABLES
  deps,        (* task.dependsOn                                           *)
  pc,          (* where each task's run() stands                           *)
  pending,     (* dependencies of the task's Promise.all still unsettled   *)
  outcome,     (* how that Promise.all settled                             *)
  result,      (* bus.results                                              *)
  attempts,    (* attemptsMade in runAgentTask                             *)
  inflight,    (* inflightCount                                            *)
  slotQueue,   (* inflightWaiters                                          *)
  failures,    (* provider failures inside the breaker's window            *)
  userAborted, (* the caller's abortSignal                                 *)
  busAborted,  (* bus.abortSignal                                          *)
  phase,       (* where the dispatch's own execute() stands                *)
  gate         (* is the tab counted as having active agents?              *)

busVars  == <<pending, outcome, result, failures, busAborted>>
slotVars == <<inflight, slotQueue>>
mainVars == <<deps, userAborted, phase, gate>>
vars == <<deps, pc, pending, outcome, result, attempts, inflight, slotQueue,
          failures, userAborted, busAborted, phase, gate>>

PCs == {"staggered", "awaiting", "queued", "woken", "holding", "ready",
        "generating", "focusing", "leaving", "returned", "threw"}

Results == {"done", "nodone", "salvaged", "failed", "skipped"}

(* success: true is what dependents look at; [no-done] text is a success.  *)
Succeeded == {"done", "nodone", "salvaged"}

Aborted == userAborted \/ busAborted

(* The tasks between acquireConcurrencySlot and releaseConcurrencySlot.    *)
Holders == {a \in Agents :
              pc[a] \in {"holding", "ready", "generating", "focusing", "leaving"}}

Woken == {a \in Agents : pc[a] = "woken"}

(* The microtask queue is empty: no task has a continuation to run, and    *)
(* neither has execute().  Timers, provider answers and the user are only  *)
(* heard then, because the event loop drains microtasks first.  An abort   *)
(* turns every staggered start into a continuation.                        *)
Idle ==
  /\ \A a \in Agents :
       /\ pc[a] \notin {"woken", "leaving"}
       /\ pc[a] = "staggered" => ~Aborted
       /\ pc[a] \in {"awaiting", "holding"} => outcome[a] = "pending"
  /\ phase = "agents" =>
       /\ \E a \in Agents : pc[a] # "returned"
       /\ \A a \in Agents : pc[a] # "threw"

TypeOK ==
  /\ deps \in DepGraphs
  /\ pc \in [Agents -> PCs]
  /\ pending \in [Agents -> SUBSET Agents]
  /\ outcome \in [Agents -> {"pending", "ok", "depfail", "error"}]
  /\ result \in [Agents -> Results \union {"none"}]
  /\ attempts \in [Agents -> 0 .. MaxRetries + 1]
  /\ inflight \in Nat
  /\ slotQueue \in Seq(Agents)
  /\ failures \in 0 .. BreakerThreshold
  /\ userAborted \in BOOLEAN
  /\ busAborted \in BOOLEAN
  /\ phase \in {"agents", "desloppify", "verify", "ended"}
  /\ gate \in BOOLEAN

Init ==
  /\ deps \in DepGraphs
  /\ pc = [a \in Agents |-> IF deps[a] = {} THEN "staggered" ELSE "awaiting"]
  /\ pending = deps
  /\ outcome = [a \in Agents |-> IF deps[a] = {} THEN "ok" ELSE "pending"]
  /\ result = [a \in Agents |-> "none"]
  /\ attempts = [a \in Agents |-> 0]
  /\ inflight = 0
  /\ slotQueue = <<>>
  /\ failures = 0
  /\ userAborted = FALSE
  /\ busAborted = FALSE
  /\ phase = "agents"
  /\ gate = TRUE

-----------------------------------------------------------------------------
(* The bus: results, waits and the breaker.                                *)

(* A callback that resolves its wait whatever the result (sensitivity).    *)
SettledAsSuccess(d, r) == [a \in Agents |->
  IF outcome[a] # "pending" \/ d \notin pending[a] THEN outcome[a]
  ELSE IF pending[a] = {d} THEN "ok" ELSE "pending"]

(* A callback that rejects nobody: failures leave the wait open            *)
(* (sensitivity).                                                          *)
SettledBySuccessOnly(d, r) == [a \in Agents |->
  IF r \in Succeeded /\ outcome[a] = "pending" /\ pending[a] = {d} THEN "ok" ELSE outcome[a]]

(* A wait that settles with a failure rejects its Promise.all at once; one *)
(* that succeeds resolves it when it is the last.                          *)
SettledBy(d, r) == [a \in Agents |->
  IF outcome[a] # "pending" \/ d \notin pending[a] THEN outcome[a]
  ELSE IF r \notin Succeeded THEN "depfail"
  ELSE IF pending[a] = {d} THEN "ok" ELSE "pending"]

SetResult(a, r) ==
  /\ result' = [result EXCEPT ![a] = r]
  /\ pending' = [b \in Agents |-> pending[b] \ {a}]
  /\ outcome' = SettledBy(a, r)

(* drainAllWaiters fires every registered completion callback: without a   *)
(* result, "Agent bus disposed while waiting".                             *)
DrainWaits ==
  /\ pending' = [a \in Agents |-> {}]
  /\ outcome' = [a \in Agents |-> IF outcome[a] = "pending" THEN "error" ELSE outcome[a]]

-----------------------------------------------------------------------------
(* Concurrency slots.                                                      *)

(* Entering without the second wait: the outcome of the first is taken for *)
(* success (sensitivity).                                                  *)
EnterRunAtOnce(a) ==
  /\ inflight' = inflight + 1
  /\ pc' = [pc EXCEPT ![a] = "ready"]
  /\ UNCHANGED <<pending, outcome>>

(* The first lines of runAgentTask, reached in the same turn: register the *)
(* waits on the dependencies once more.                                    *)
EnterRun(a) ==
  /\ inflight' = inflight + 1
  /\ pc' = [pc EXCEPT ![a] = IF deps[a] = {} THEN "ready" ELSE "holding"]
  /\ pending' = [pending EXCEPT ![a] = {d \in deps[a] : result[d] = "none"}]
  /\ outcome' = [outcome EXCEPT ![a] =
       IF \E d \in deps[a] : result[d] \notin Succeeded \union {"none"} THEN "depfail"
       ELSE IF \A d \in deps[a] : result[d] # "none" THEN "ok" ELSE "pending"]

(* acquireConcurrencySlot: take a slot, or queue behind the others.        *)
TrySlot(a) ==
  /\ \/ /\ inflight < MaxConcurrent
        /\ EnterRun(a)
        /\ UNCHANGED slotQueue
     \/ /\ inflight >= MaxConcurrent
        /\ slotQueue' = Append(slotQueue, a)
        /\ pc' = [pc EXCEPT ![a] = "queued"]
        /\ UNCHANGED <<inflight, pending, outcome>>
  /\ UNCHANGED <<result, attempts, failures, busAborted, mainVars>>

(* A releaseConcurrencySlot that forgets to wake anybody (sensitivity).    *)
ReleaseSlotSilently(a, to) ==
  /\ inflight' = inflight - 1
  /\ pc' = [pc EXCEPT ![a] = to]
  /\ UNCHANGED slotQueue

(* releaseConcurrencySlot: the first waiter is woken, not handed the slot. *)
ReleaseSlot(a, to) ==
  /\ inflight' = inflight - 1
  /\ IF slotQueue = <<>>
       THEN /\ pc' = [pc EXCEPT ![a] = to]
            /\ UNCHANGED slotQueue
       ELSE /\ pc' = [pc EXCEPT ![a] = to, ![Head(slotQueue)] = "woken"]
            /\ slotQueue' = Tail(slotQueue)

(* sleep(delay).then(run): the stagger grows with the index, and an abort  *)
(* ends every sleep at once, in that same order, while the waits it drains *)
(* go on too.                                                              *)
StaggerEnds(a) ==
  /\ Idle \/ Aborted
  /\ pc[a] = "staggered"
  /\ \A b \in 1 .. a - 1 : pc[b] # "staggered"
  /\ TrySlot(a)

(* The first wait on the dependencies is over, whatever its outcome.       *)
WaitEnds(a) ==
  /\ pc[a] = "awaiting"
  /\ outcome[a] # "pending"
  /\ TrySlot(a)

(* "if" instead of "while": the woken waiter does not look again           *)
(* (sensitivity).                                                          *)
RecheckNothing(a) ==
  /\ pc[a] = "woken"
  /\ EnterRun(a)
  /\ UNCHANGED <<slotQueue, result, attempts, failures, busAborted, mainVars>>

(* A woken waiter tests the loop condition again: a newcomer may have      *)
(* taken the slot, and then it queues again at the back.                   *)
Recheck(a) ==
  /\ pc[a] = "woken"
  /\ TrySlot(a)

-----------------------------------------------------------------------------
(* runAgentTask.                                                           *)

DepsHold(a) ==
  /\ pc[a] = "holding"
  /\ outcome[a] = "ok"
  /\ pc' = [pc EXCEPT ![a] = "ready"]
  /\ UNCHANGED <<attempts, busVars, slotVars, mainVars>>

(* DependencyFailedError: the task gets a result of its own.               *)
SkipFailedDep(a) ==
  /\ pc[a] = "holding"
  /\ outcome[a] = "depfail"
  /\ SetResult(a, "skipped")
  /\ pc' = [pc EXCEPT ![a] = "leaving"]
  /\ UNCHANGED <<attempts, failures, busAborted, slotVars, mainVars>>

(* Any other error is rethrown: no result, and run()'s finally releases.   *)
Rethrow(a) ==
  /\ pc[a] = "holding"
  /\ outcome[a] = "error"
  /\ ReleaseSlot(a, "threw")
  /\ UNCHANGED <<attempts, busVars, mainVars>>

(* The loop head without its two abort checks (sensitivity).               *)
BeginAttemptAnyway(a) ==
  /\ pc[a] = "ready"
  /\ attempts' = [attempts EXCEPT ![a] = @ + 1]
  /\ pc' = [pc EXCEPT ![a] = "generating"]
  /\ UNCHANGED <<busVars, slotVars, mainVars>>

(* The head of the retry loop; the backoff before it ends early on abort.  *)
BeginAttempt(a) ==
  /\ pc[a] = "ready"
  /\ ~Aborted
  /\ attempts' = [attempts EXCEPT ![a] = @ + 1]
  /\ pc' = [pc EXCEPT ![a] = "generating"]
  /\ UNCHANGED <<busVars, slotVars, mainVars>>

(* The end of runAgentTask's failing path.  Whatever the agent read, found *)
(* or edited in any attempt is salvaged and counts as a success.           *)
Fail(a) ==
  /\ \E r \in {"salvaged", "failed"} : SetResult(a, r)
  /\ pc' = [pc EXCEPT ![a] = "leaving"]

(* An abort seen at the loop head leaves the loop for the failing path.    *)
StopAtAbort(a) ==
  /\ pc[a] = "ready"
  /\ Aborted
  /\ Fail(a)
  /\ UNCHANGED <<attempts, failures, busAborted, slotVars, mainVars>>

(* A code agent that edited nothing is reported as [no-done].              *)
GenerateSucceeds(a) ==
  /\ Idle
  /\ pc[a] \in {"generating", "focusing"}
  /\ \E r \in {"done"} \union (IF a \in Coders THEN {"nodone"} ELSE {}) : SetResult(a, r)
  /\ pc' = [pc EXCEPT ![a] = "leaving"]
  /\ UNCHANGED <<attempts, failures, busAborted, slotVars, mainVars>>

(* Only the first attempt of a code agent that edited nothing is followed  *)
(* by a run with the focused prompt.                                       *)
FocusedRetry(a) ==
  /\ Idle
  /\ pc[a] = "generating"
  /\ a \in Coders
  /\ attempts[a] = 1
  /\ ~Aborted
  /\ pc' = [pc EXCEPT ![a] = "focusing"]
  /\ UNCHANGED <<attempts, busVars, slotVars, mainVars>>

GenerateFails(a) ==
  /\ Idle
  /\ pc[a] = "generating"
  /\ Fail(a)
  /\ UNCHANGED <<attempts, failures, busAborted, slotVars, mainVars>>

(* attempt > MAX_RETRIES instead of ===: one attempt too many              *)
(* (sensitivity).                                                          *)
ProviderFailsOnceMore(a) ==
  /\ Idle
  /\ pc[a] = "generating"
  /\ ~Aborted
  /\ failures + 1 < BreakerThreshold
  /\ failures' = failures + 1
  /\ pc' = [pc EXCEPT ![a] = "ready"]
  /\ UNCHANGED <<attempts, pending, outcome, result, busAborted, slotVars, mainVars>>

(* A retryable error: recordProviderFailure, and another attempt.          *)
ProviderFails(a) ==
  /\ Idle
  /\ pc[a] = "generating"
  /\ ~Aborted
  /\ failures + 1 < BreakerThreshold
  /\ failures' = failures + 1
  /\ \/ /\ attempts[a] <= MaxRetries
        /\ pc' = [pc EXCEPT ![a] = "ready"]
        /\ UNCHANGED <<pending, outcome, result>>
     \/ /\ attempts[a] = MaxRetries + 1
        /\ Fail(a)
  /\ UNCHANGED <<attempts, busAborted, slotVars, mainVars>>

(* The failure that trips the breaker: bus.abort() drains the waits, then  *)
(* the task fails in the same turn.                                        *)
BreakerTrips(a) ==
  /\ Idle
  /\ pc[a] = "generating"
  /\ ~Aborted
  /\ failures + 1 >= BreakerThreshold
  /\ failures' = BreakerThreshold
  /\ busAborted' = TRUE
  /\ DrainWaits
  /\ \E r \in {"salvaged", "failed"} : result' = [result EXCEPT ![a] = r]
  /\ pc' = [pc EXCEPT ![a] = "leaving"]
  /\ UNCHANGED <<attempts, slotVars, mainVars>>

(* The cancel_dispatch tool, called by an agent that is running.           *)
CancelDispatch(a) ==
  /\ Idle
  /\ PeerCancels
  /\ pc[a] \in {"generating", "focusing"}
  /\ busAborted' = TRUE
  /\ DrainWaits
  /\ UNCHANGED <<pc, result, attempts, failures, slotVars, mainVars>>

(* run() without its finally: the slot is never given back (sensitivity).  *)
LeaveWithoutFinally(a) ==
  /\ pc[a] = "leaving"
  /\ pc' = [pc EXCEPT ![a] = "returned"]
  /\ UNCHANGED <<attempts, busVars, slotVars, mainVars>>

Leave(a) ==
  /\ pc[a] = "leaving"
  /\ ReleaseSlot(a, "returned")
  /\ UNCHANGED <<attempts, busVars, mainVars>>

-----------------------------------------------------------------------------
(* Timers and the caller.                                                  *)

(* No wait is shorter than five minutes; the staggered starts are over     *)
(* within a second.                                                        *)
WaitExpires(a) ==
  /\ Idle
  /\ WaitsExpire
  /\ \A b \in Agents : pc[b] # "staggered"
  /\ pc[a] \in {"awaiting", "holding"}
  /\ outcome[a] = "pending"
  /\ outcome' = [outcome EXCEPT ![a] = "error"]
  /\ pending' = [pending EXCEPT ![a] = {}]
  /\ UNCHANGED <<pc, result, attempts, failures, busAborted, slotVars, mainVars>>

(* A failure older than the window no longer counts (of no interest once   *)
(* the bus is aborted: nothing is counted any more).                       *)
FailureAges ==
  /\ Idle
  /\ failures > 0
  /\ ~busAborted
  /\ failures' = failures - 1
  /\ UNCHANGED <<pc, pending, outcome, result, attempts, busAborted, slotVars, mainVars>>

(* The caller's signal: only a task that still runs can notice it.         *)
UserAborts ==
  /\ Idle
  /\ ~userAborted
  /\ \E a \in Agents : pc[a] \notin {"returned", "threw"}
  /\ userAborted' = TRUE
  /\ UNCHANGED <<deps, pc, attempts, phase, gate, busVars, slotVars>>

-----------------------------------------------------------------------------
(* execute() after it has started the tasks.                               *)

(* await Promise.all(promises) resolves.                                   *)
AllReturned ==
  /\ phase = "agents"
  /\ \A a \in Agents : pc[a] = "returned"
  /\ phase' = "desloppify"
  /\ UNCHANGED <<deps, pc, attempts, userAborted, gate, busVars, slotVars>>

(* editingDone: the tab's active-agent count is given back.                *)
DesloppifyEnds ==
  /\ Idle
  /\ phase = "desloppify"
  /\ phase' = "verify"
  /\ gate' = FALSE
  /\ UNCHANGED <<deps, pc, attempts, userAborted, busVars, slotVars>>

VerifyEnds ==
  /\ Idle
  /\ phase = "verify"
  /\ phase' = "ended"
  /\ DrainWaits
  /\ UNCHANGED <<deps, pc, result, attempts, failures, userAborted, busAborted, gate, slotVars>>

(* One rejection rejects Promise.all: execute() runs its finally block and *)
(* is gone, whatever the other tasks are doing.                            *)
PromiseAllRejects ==
  /\ phase = "agents"
  /\ \E a \in Agents : pc[a] = "threw"
  /\ phase' = "ended"
  /\ gate' = FALSE
  /\ DrainWaits
  /\ UNCHANGED <<deps, pc, result, attempts, failures, userAborted, busAborted, slotVars>>

-----------------------------------------------------------------------------
GenerateStep(a) ==
  \/ GenerateSucceeds(a) \/ FocusedRetry(a) \/ GenerateFails(a)
  \/ ProviderFails(a) \/ BreakerTrips(a)

(* What the event loop runs without anyone's help.                         *)
TaskStep(a) ==
  \/ StaggerEnds(a) \/ WaitEnds(a) \/ Recheck(a)
  \/ DepsHold(a) \/ SkipFailedDep(a) \/ Rethrow(a)
  \/ BeginAttempt(a) \/ StopAtAbort(a) \/ Leave(a)

MainStep == AllReturned \/ DesloppifyEnds \/ VerifyEnds \/ PromiseAllRejects

(* Everything has stopped: the model stutters instead of deadlocking.      *)
Finished ==
  /\ phase = "ended"
  /\ \A a \in Agents : pc[a] \in {"returned", "threw"}
  /\ UNCHANGED vars

Next ==
  \/ \E a \in Agents : TaskStep(a) \/ GenerateStep(a) \/ CancelDispatch(a) \/ WaitExpires(a)
  \/ FailureAges \/ UserAborts \/ MainStep \/ Finished

(* The event loop runs what is runnable, and a call to the provider ends   *)
(* (it has a step timeout and an abort signal).  Of the waits' timers only *)
(* those of the second wait are counted on.  Nobody has to cancel or abort.*)
Fairness ==
  /\ \A a \in Agents : /\ WF_vars(TaskStep(a))
                       /\ WF_vars(GenerateStep(a))
                       /\ WF_vars(pc[a] = "holding" /\ WaitExpires(a))
  /\ WF_vars(MainStep)

Spec == Init /\ [][Next]_vars
FairSpec == Spec /\ Fairness

-----------------------------------------------------------------------------
(* Properties.                                                             *)

(* inflightCount is the number of tasks inside their slot and never        *)
(* exceeds the configured maximum, whoever aborts, throws or expires       *)
(* (subagent-tools.ts, acquireConcurrencySlot / releaseConcurrencySlot).   *)
SlotAccounting ==
  /\ inflight = Cardinality(Holders)
  /\ inflight <= MaxConcurrent

(* No wake-up is lost: while a task waits for a slot, the slots are taken  *)
(* or promised to woken tasks that have yet to test the condition again.   *)
NoLostWakeup ==
  slotQueue # <<>> => inflight + Cardinality(Woken) >= MaxConcurrent

(* An agent reaches the model only after every agent it depends on has     *)
(* succeeded, also when a cancel, the breaker or a timer ended its first   *)
(* wait early (runAgentTask waits again).                                  *)
RunsAfterDeps ==
  \A a \in Agents : pc[a] \in {"ready", "generating", "focusing"} =>
    \A d \in deps[a] : result[d] \in Succeeded

(* A result, once set on the bus, is never replaced, and after an abort no *)
(* task starts another attempt (what the loop head of runAgentTask and     *)
(* bus.setResult may never do).                                            *)
ResultsFinal ==
  [][\A a \in Agents : /\ result[a] # "none" => result'[a] = result[a]
                       /\ Aborted => attempts'[a] = attempts[a]]_vars

(* Unless a peer cancels, the breaker trips or a wait expires, a dispatch  *)
(* ends, after every one of its agents got a result: nothing waits for     *)
(* ever for its dependencies or a slot, where no timer has to help, even   *)
(* when agents fail or the user aborts (dispatch.execute, run;             *)
(* waitForAgent settled by setResult).                                     *)
EveryAgentReported ==
  <>(\/ phase = "ended" /\ \A a \in Agents : result[a] # "none"
     \/ busAborted
     \/ \E a \in Agents : outcome[a] = "error")

(* With them, execute() still returns and every task function ends.        *)
EverythingStops ==
  <>[](phase = "ended" /\ \A a \in Agents : pc[a] \in {"returned", "threw"})

(* subagent-tools.ts, run(): "Wait for dependencies BEFORE acquiring a     *)
(* concurrency slot. Otherwise dependent agents hold slots while waiting,  *)
(* deadlocking the agents they depend on from ever starting."              *)
NoSlotDeadlock ==
  ~ /\ inflight = MaxConcurrent
    /\ \A a \in Holders :
         /\ pc[a] = "holding" /\ outcome[a] = "pending"
         /\ \A d \in pending[a] : pc[d] = "queued"

-----------------------------------------------------------------------------
(* The promise to the caller that this scheduler implements.               *)
Status == [a \in Agents |->
  IF pc[a] \in {"ready", "generating", "focusing"} THEN "working"
  ELSE IF result[a] = "none" THEN "waiting"
  ELSE IF result[a] \in Succeeded THEN "succeeded" ELSE "failed"]

Pool == INSTANCE AgentPool WITH status <- Status

PoolSpec == Pool!Spec
=============================================================================
