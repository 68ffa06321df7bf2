# SoulForge: a TLA+ verification project

SoulForge is a terminal coding agent: one or more tabs each run a chat loop with
a language model, a tab may dispatch several sub-agents that work in parallel,
and a daemon (Hearth) lets messengers drive tabs remotely. Everything runs in
one JavaScript process (plus worker threads for indexing and I/O), so what is
hard here is not threads but *awaits*: state read before one and used after it,
promises settled by whichever of an event, a timer or an abort comes first, and
several agents or tabs sharing maps, locks, counters and files.

This directory holds models of those parts, configurations that check them with
TLC, and proofs checked by TLAPS. Paths below are relative to the repository
root. `PROJECT.json` maps every definition to the lines it models.

## 1. Inventory

### Modelled

**Dispatch scheduler** (`src/core/agents/subagent-tools.ts`, `agent-runner.ts`).
State: `inflightCount`, `inflightWaiters`, one asynchronous `run()` per task,
attempts per task, the tab's active-agent count. Operations: staggered starts,
waits on dependencies, concurrency slots, retries, the focused second prompt,
salvage, `Promise.all`, the `finally` block. Talks to the bus (results, waits,
breaker), the coordinator (`agentStarted`/`agentFinished`), the user's abort
signal. Hard: two waits per dependency, one before and one inside the slot; a
woken waiter that finds its slot taken; one rejection that ends the dispatch
while peers go on; four ways for a wait to end (result, failure, timer, drain).
Correct when: slots are counted exactly, no wake-up is lost, an agent runs only
after its dependencies succeeded, results are final, everything ends.

**Agent bus: results, waits, breaker** (`agent-bus.ts`). State: `results`,
completion callbacks, provider failures in a window, the bus's abort
controller. Operations: `setResult`, `waitForAgent`, `recordProviderFailure`,
`abort`, `dispose`, and the agents' `cancel_dispatch` tool. Modelled with the
scheduler, whose every step depends on it.

**Agent bus: edit lock and file cache** (`agent-bus.ts`, `tools/bus-cache.ts`,
`edit-file.ts`, `multi-edit.ts`). State: `_editLockHeld`, `_editLockQueues`, a
timer per grant, `_fileOwners`, `_filesEdited`, the cached copy of each file.
Hard: a timer passes the lock on while the edit it belonged to is running; an
abort grants it to the whole queue; the copy is refreshed without waiting.
Correct when: a lock is always given back, a late return never frees another's
lock, and no edit is lost while the lock is unbroken.

**Cross-tab coordinator** (`coordination/WorkspaceCoordinator.ts`,
`tool-wrapper.ts`, `commands/claims.ts`, `TabInstance.tsx`). State: advisory
claims, an idle timer and a dispatch count per tab, the last fifty closed tabs,
batched events. Operations: claim, release, force, mark idle/active, agent
started/finished, close, change of session, sweep, flush. Hard: every counter and claim is cleared
from several sides (abort, command, timer, sweep, close) while the owner is
still working. Correct when: closed tabs hold nothing, the idle release never
hits a working tab, the git gate closes and opens with the dispatches, and the
tab bar shows the truth.

**Desloppify and verifier agents** (`agent-verification.ts`): only their place
after the agents, and the moment between them at which the tab's count is given
back; what they do is a choice of outcome.

**Chat loop of a tab** (`hooks/useChat.ts`, `InputBox.tsx`, `TabInstance.tsx`).
State: the abort controller a tab holds, `isLoading`, the message queue and its
copy of the last render, the stall and retry counters, the compaction flags.
Operations: submit (typed, drained, continued, sent from a phone), the head of
the retry loop, the end, failure, retry or stall of a stream, the `finally`
block, steering, abort, compaction. Hard: one guard, read before an await,
keeps a tab to one stream; `finally` runs once per *round* of the loop; the
queue is read from the last render and written through React state. Correct
when: a tab has one stream, the queue neither loses nor repeats a prompt, a
queued prompt moves on, and an abort wins.

**Prompts of a tab and their remote halves** (`useChat.ts` 1404-1672,
`hearth/bridge.ts`). State: two promise chains used as mutexes, two "allow all"
flags, one `pendingQuestion` and its copy of the last render, the callbacks
registered for the phone and the counter of them. Hard: four kinds of prompt
share one place on the screen; screen, phone, timer, cancel and abort settle the
same promise; the remote half begins after an import. Correct when: nothing is
allowed that the user has not allowed, a decision is final, and nothing decided
stays on the phone.

**Hearth tab loop and workspace** (`hearth/tab-loop.ts`, `workspace.ts`,
`headless/run.ts`). State: the tabs of a chat, per tab a prompt queue, a waiting
`readPrompt`, an abort controller. Hard: a prompt meets the loop just before it
waits; `abortTurn` renews a controller whose first signal is the only one the
loop knows; a turn may wait for a permission nobody gives; tabs leave on their
own while the workspace closes them. Correct when: no prompt waits beside an idle
loop, prompts run in order, an abort ends one turn, a close ends.

**Worker RPC** (`core/workers/rpc.ts`, `intelligence-client.ts`). State: pending
calls by number, the restart count, the queue held back during `init`, the
count the heap watchdog trusts. Hard: time-outs, crashes, close events of
terminated workers, restarts and disposal all settle calls; answers of an old
worker arrive after its successor has started. Correct when: a call gets its own
answer or none, and is counted down once.

**Checkpoints** (`stores/checkpoints.ts`, `commands/checkpoint.ts`,
`TabInstance.tsx`). State: checkpoints rebuilt from the messages, tags, the redo
stack, a chain of promises as lock on the repository. Hard: undo and redo read,
wait for the lock and git, then write; an index may belong to another prompt by
then; tabs share one repository. Correct when: a tag stays with its prompt,
nothing is redone twice or lost, and no tag holds a half restored tree.

### Not modelled

| Component | Why |
|---|---|
| Dispatch planning (`subagent-tools.ts` 600-909) | runs once, without awaits, before the scheduler; its result is the constant `DepGraphs`, which the theorems leave arbitrary. Its hazard (an order added against a dependency) is in `PROJECT.json` |
| Shared tool results and findings (`agent-bus.ts` 386-430, 585-677, 763) | whether a shared result is stale depends on the files a tool reads, which its key does not name; a model would have to invent them |
| Undo stack (`tools/edit-stack.ts`) | a stack per file, its operations one at a time; a unit test reaches what a model would |
| Worker callbacks and events (`rpc.ts` 330-380) | only the indexer uses them; the hazard of a restart between the two is listed |
| Hearth daemon, pairing, surfaces; the approvals registry | protocol plumbing to messengers; what reaches a tab is in `HearthTabs` and `Permissions`, a surface's approvals as far as they hold up a turn |
| Forge agent, context manager | prompt assembly, pruning and summaries: transformations of text |
| Repo map, language servers, memory | parsing, ranking and SQL behind the worker RPC |
| Sessions, proxy, MCP, git and other tools | file, process and network I/O; what they tell the modelled parts (a proxy repair between attempts, git's question to the coordinator) is environment |
| UI, editor, providers, theme | rendering and streaming |

## 2. How the modules are built

```
AgentPool  <--refined by--  Dispatch  <-- MCDispatch (instances)
                               ^------- Dispatch_proofs
Coordinator  <-- MCCoordinator,  Coordinator_proofs
BusEdits     <-- MCBusEdits,     BusEdits_proofs
ChatTurn     <--                 ChatTurn_proofs
Permissions  <-- MCPermissions,  Permissions_proofs
HearthTabs   <--                 HearthTabs_proofs
WorkerRpc    <--                 WorkerRpc_proofs
Checkpoints  <-- MCCheckpoints,  Checkpoints_proofs
```

The components meet through a few values, and each module takes those of the
others as environment: `Dispatch` counts itself in `Coordinator`
(`DispatchStarts`, `DispatchEnds`), whose prompts (`PromptStarts`,
`PromptAborted`) are the turns of `ChatTurn`; a turn's questions are
`Permissions`, whose `StartTurn`, `Abort` and `TurnEnds` are the turn's; a
message from a phone is `SendRemotely` of `ChatTurn` for a tab of the terminal
and `Send` of `HearthTabs` for a tab of the daemon; the end of a turn is
`TurnEnds` of `Checkpoints`. A product of them would multiply states that share
no variable.

One action is the code between two awaits of one task. JavaScript runs it
without interruption, so this granularity loses no interleaving and adds none.
Names follow the source where they can.

### AgentPool and Dispatch

`AgentPool` is what the caller of the dispatch tool may rely on: an agent is
waiting, working, succeeded or failed; it works only when the agents it depends
on have succeeded, and success and failure are final. `Dispatch` implements it
with the mapping `Status`: an agent works between the end of its second wait
and its result.

| In `Dispatch` | In the code |
|---|---|
| `deps` | `task.dependsOn` of the accepted plan (the planning before it is not modelled: `DepGraphs` is any set of relations, cyclic ones included in the proofs) |
| `pc` | the await at which a task's `run()` or `runAgentTask` stands |
| `pending`, `outcome` | the `Promise.all` over `waitForAgent`, once before the slot (`"awaiting"`) and once inside it (`"holding"`) |
| `result` | `bus.results`; `"nodone"` is a success whose text says the agent edited nothing, `"salvaged"` a failure turned into a success because something had been read, found or edited |
| `inflight`, `slotQueue` | `inflightCount`, `inflightWaiters` |
| `attempts`, `failures` | the retry loop's counter, the breaker's window |
| `userAborted`, `busAborted` | the caller's signal, `bus.abort()` |
| `phase`, `gate` | where `execute()` stands, and whether the tab is still counted as having agents |

`Idle` says that the microtask queue is empty. Continuations (`WaitEnds`,
`Recheck`, `Leave`, `AllReturned`...) run before it is, in any order; timers,
provider answers and the user are heard only then. The order among
continuations is left free, which is more than the queue's FIFO order allows.
Two facts about timers are kept because without them the model would do what
the program cannot: starts are staggered in index order, and no dependency wait
(five minutes or more) can expire before the staggered starts are over.

Not in the model: the path for a plan with one task, what an agent says, the
backoff's length (it ends early on an abort and lies between two attempts), and
repair of the proxy.

### BusEdits

One file, because locks and caches of different paths do not interact. Edits
are to different regions, so the file's content is the set of calls whose edit
it holds; a write stores what its own read contained plus itself, which is how
a lost edit shows. `MatchOldString` is the first read, `CompareOnDisk` the
second one (skipped by calls that name a hash), `WriteFile` the atomic write,
`CreateFile` the unconditional write of an empty `oldString`, or its failure,
`Return` the wrapper's end with its `finally`, `Reread` and `UpdateFile` (or
`InvalidateFile`, when the read fails) the refresh of the bus's copy. `armed` is the set of grants whose `released`
flag is not set, that is, whose timer is running; `breaks` is a history
variable recording whether a timer or a drain has broken the lock.

Left out: auto-format within the lock, the cache's size cap, `acquireFileRead`
(no caller outside tests), and the compound editors (`ast_edit`, rename, move,
refactor), which do not take this lock.

### Coordinator

Each coordinator method is an operator that the environment's actions call, as
the code does: a tab's prompt (`PromptStarts`, `PromptEnds`, and after an abort
`PromptAborted`, which marks the tab idle at once, and `Unwind`, the `finally`
block that releases its claims later), its edits, the dispatch tool
(`DispatchPrepares`, `DispatchStarts` after the clean-up of the directory,
`DispatchEnds`), the user (`Show`, `CloseTab`, `ChangeSession`, `Unclaim`,
`UnclaimAll`, `forceClaim`) and time (`IdleFires`, `ClaimAges`, `AgentsAge`,
`sweepStale`, `flushEvents`). `ChangeSession` is the clean-up effect of a tab
whose session changes: it closes the tab for the coordinator while the tab
stays. A dispatch records both the tab that runs it and the tab it is counted
for, because the code takes the latter from a global that follows the screen.
Events are flushed in a microtask, so timers and users are heard only when none
is left (`Flushed`). Clock readings are abstracted to "recent or past the
limit". `releaseAllGlobal` and `dispose`, which run at process exit, are left
out.

### ChatTurn

A *call* is one run of `handleSubmit`, for a prompt or for the "Continue." a
compaction sends. `where` says how far it is: at the guard and past it
(`"preparing"` is the await of a hook or an image), in a stream, in a backoff.
`HandleSubmit` includes the two returns before the loop, a hook's refusal and a
missing model, which leave without `finally`. `Begin` is the way to the first
stream, `LoopTop` the head of the `for(;;)`, `Opens` the end of the await for the
provider's options, before which nothing can arrive from the stream,
`FinallyQueue` the part of the `finally` block that hands on the queue or the
deferred compaction, `Leave` the rest of it when the loop is left. A stream ends
as `StreamEnds`, `StreamRetries` (and `Retry` after the backoff) or
`StreamFails`; `Stall` is the watchdog's abort, which the first of these do not
see as an end. `queue` and `queueRef` are React's state and the value of the
last render, with `Render` between them. `stopped`, `calm` and `refused` are
history variables for the properties.

### Permissions

`status` follows one prompt from its mutex to its decision; `slot` is
`pendingQuestion`, `shown` the reference to its last render; `remote` is the
prompt's callback, `"importing"` while the bridge is loaded. The chain of
promises behind a mutex is `line`, its head's turn `holder`. `LocalAnswer`,
`RemoteAnswer`, `RemoteExpires`, `Abort` and `Enter` (which finds "allow all"
chosen meanwhile) are the ways a prompt is decided or fails to be. An abort
cancels the callbacks only when its own import of the bridge resolves
(`AbortImported`); until then they can be answered. The order of imports is left
free.

### HearthTabs

`run` is where a tab's `runChat` is; `closed` and `queue` are `TabLoop`'s;
`signal` is the one signal `runChat` was given, `stopping` the controller of the
turn. `Enqueue` chooses between the waiting `readPrompt` and the queue, `Shut`
is `TabLoop.close`, `CloseNext` one round of the loop in `ChatWorkspace.close`.
Prompts are numbered in the order they were sent, which is what
`PromptsInOrder` compares.

`parked` is a turn that waits for a permission (`hearth/callbacks.ts` 75-134)
asked of the chat through its surface: no surface has a timer for it, and
neither an abort nor a close of the tab answers it, since both cancel callbacks
of the bridge only (the comment at `tab-loop.ts:143` says more). What ends the
wait is an answer, the surface stopping (`SurfaceStops`, which answers no to
all), or, after an abort, the stream breaking off on its own (`BreaksOff`, which
nothing makes happen). Questions through the bridge are no wait here: the daemon
binds no tab to it, so `askRemote` falls back at once. A surface that starts
again is not modelled.

### WorkerRpc

Client and workers exchange messages through `inbox` and `outbox`. `pending`,
`nextId`, `restarts` and `inFlight` are the client's fields, `init`, `initQueue`,
`flushing` and `handling` the worker's. A worker is `"up"`, `"terminated"` with
its close event ahead, or `"gone"`; results posted before the end may arrive
until then. `Crash` may or may not raise an error event first. Messages carry
the call they belong to, which the code does not see: `AnswersAreOwn` compares
it with the call that is given the answer. A client without `initConfig` sends
no `init` (`Greeting`); a spawn that throws leaves it with the terminated worker
(`Respawn`); an answer is a result or an error (`ReceiveResult`), and only a
result of a probe reaches `CheckHeap`.

### Checkpoints

The content of a file is the prompt that wrote it last, so a tree is a function
from files to prompts. `Show` is `setMessages` with the effect that follows it
(`syncFromMessages`): the conversation is a sequence of exchanges, a prompt with
the answers after it. `InOrder` stands for the code's
passes over the checkpoints in order, as the set of sequences in order; that there
is one is proved (`HasOrder`), so it blocks no step. `Sorted` is the stable sort by
index; that each of its places is taken by an entry of the list is proved
(`PlaceTaken`). `jobs` is the chain of promises behind `withGitLock`: the job at
its head runs, in steps where the code awaits git (`TagCommit`, `TagName`,
`TagReset`; `RestoreFile` for each file, `RestoreEnds`). `Undo` and `Redo` put into
their job (`UndoJob`, `RedoJob`) what the code reads before it awaits, `Undone` and
`Redone` write it afterwards. Only `/checkpoint save` tags
(`Save`): the effect that would tag when an agent finishes (`TabInstance.tsx`
357-367) compares with a reference the effect before it (313-327) has already
overwritten, and so never sees the change.

## 3. What the runs show

| Run | Question | Instance | States |
|---|---|---|---|
| `dispatch_aborts` | With peer cancels, breaker trips and expiring waits: `SlotAccounting`, `NoLostWakeup`, `RunsAfterDeps`, `ResultsFinal`, `PoolSpec` (refinement), `EverythingStops`. Undisturbed, does every agent get a result? (`EveryAgentReported`) | 4 tasks, a fan-out listed in reverse, a diamond and a chain, 2 slots, 1 retry, breaker at 2 | 368 k |
| `bus_edits` | `LockNeverLeaks`, `EditsSerialized`, `GrantsExclusive`, `EditsKept`, `EveryEditReturns` | 3 calls of 2 agents, one creating, one with a hash | 123 k |
| `coordinator` | `ClosedTabsHoldNothing`, `IdleTimerOnlyWhenIdle`, `GateNeverSticks`, `ShownCountCurrent`, `StaleClaimsSwept` | 2 tabs, 1 file, 2 dispatches | 1,182 k |
| `chat_turn` | One stream per tab, a queue without losses or repeats, and no prompt stuck in it? (`OneStreamWhileCalm`, `QueueHoldsQueued`, `QueueMoves`) | 2 prompts, 1 continuation, queue of 1, 1 stall, 1 retry, 1 compaction | 263 k |
| `permissions` | Can two halves, four kinds and an abort allow what nobody allowed, or change a decision? (`NoSilentAllow`, `DecidedPromptsLeavePhone`, `DecisionsFinal`) | 2 web requests, one prompt of each other kind | 1,661 k |
| `hearth_tabs` | `NoIdleWithWork`, `PromptsInOrder`, `WorkspaceCloses` | 2 tabs, 3 messages, queues of 2, 1 permission | 329 k |
| `worker_rpc` | Is each call counted down once and answered with its own answer, across restarts? (`InFlightIsPending`, `AnswersAreOwn`) | 2 requests, 1 fire, 1 probe, 4 workers, 2 restarts | 911 k |
| `checkpoints` | `TagsFollowPrompts`, `NothingTwice`, `SnapshotsWhole` | 2 tabs, 3 prompts, 1 file, 2 jobs at the lock | 1,405 k |

Each run checks its module's `TypeOK` as well. `checkpoints` counts states up to
the exchange of its two tabs, `permissions` of its two web requests.

**Why these bounds are enough.** Slots matter when there are more ready tasks
than slots: 4 tasks on 2 slots give a queue of two, a newcomer that overtakes a
woken waiter, and dependents that fill the slots. One retry reaches both sides
of the budget test; a breaker at 2 trips across two agents or across two
attempts of one. The three plans have a chain, a fork and a join; the theorems
have every plan. Three lock calls are the least with a holder, a waiter and
a late return; the second agent's two calls make "the agent has edited" differ
from "the call has edited". Two tabs are the least at which one is counted for
the other, two dispatches the least at which a cleared count meets a late
`agentFinished`; a second file would only multiply claims that do not interact.
`ClosedLimit = 1` stands for fifty; a session that changes closes a tab that
stays, so the list overflows in the run; the proofs hold for every limit and any
number of tabs.

Two prompts and a continuation are the least at which a drained prompt, a
remote one and the turn itself compete for the guard; a queue of one is full
when the second prompt is typed behind the first during a continuation, and one stall and one retry reach both sides of
their limits (`StallCap` only has to exceed `MaxStalls`; beyond it the counter
decides nothing). Longer queues are the proof's business. Two web requests are
the least with one behind the other's mutex; the other kinds have one prompt
each because only the shared screen connects them. Three messages overflow a
queue of two while a turn runs. Two requests are the least at which an answer
can reach the wrong one; four workers outlive two restarts by crashes and one by
the watchdog, which resets the count. For checkpoints, two prompts of one tab
are needed to undo, and a third to take the index of an undone one; two jobs are
a holder and a waiter, of one tab or of two. One file suffices to be half
restored: a job that restores it holds the lock before and after.

Four runs state what a comment says and find it violated:

| Run | Statement | What the code does |
|---|---|---|
| `dispatch_slot_deadlock` | waiting before the slot keeps dependents from blocking the agents they wait for (`subagent-tools.ts:940`) | after a cancel or a breaker trip the first wait is over at once; the dependents enter the slots and wait there, a second time, for agents queued behind them, until a timer of five minutes or more |
| `chat_abort` | "User abort (Ctrl-X) always wins" (`useChat.ts:3607`) | a failed call that is not retried neither breaks nor returns, so after `finally` the loop starts another stream with a new controller |
| `hearth_stop` | an abort is of one turn, the next one listens to a fresh signal (`tab-loop.ts:136-138`; `hearth.mdx:53`: "Abort the current turn") | `runChat` is given the tab's first signal once, so the first `/stop` ends the loop and with it the tab; later ones reach nobody |
| `checkpoints_dropped` | everything an undo drops is stashed for a redo (`checkpoints.ts:394`) | the answer to the prompt it returns to is neither kept nor stashed |

Each passing property also has, in `PROJECT.json`, a deliberate mistake in a
modelled operation that violates it. Where the mistake is an operator of its
own, the module calls it *(sensitivity)* or *Mutant of* the operation.

### What else the modelling showed

Places where the code and a text differ, or where the models have an outcome a
reader may not expect. They are in the models, and in no property:

* *Dispatch and git.* Git is announced as blocked while another tab has active
  agents (`docs`, cross-tab page). One rejected task ends the dispatch and its
  count while peers go on editing; and the dispatch is counted for the tab on
  screen, not for the one that runs it (`subagent-tools.ts:475`).
* *Idle.* The last `agentFinished` only decrements; no idle timer starts, and
  the claims stay until the sweep (`WorkspaceCoordinator.ts:230`).
* *Edits.* Failed edits are recorded as edits (`bus-cache.ts:136`), and the
  runner's check for edits without effect compares with a copy that was
  refreshed from disk after the edit (`agent-runner.ts:641`).
* *Chat.* A prompt that a hook refuses, or that finds no model chosen, ends
  without the `finally` block, so what is queued behind it stays queued: the
  exception in `QueueMoves`. Steering
  empties the queue of the last render, and a prompt queued since is lost
  (`"lost"`). A remote message that meets a running turn is dropped by the guard.
  After an abort, or while a call awaits a hook, a second call may pass the
  guard: the condition `calm` of `OneStreamWhileCalm`.
* *Permissions.* A prompt posted over another leaves it undecided; if that one
  held a mutex, the prompts behind it, of this turn and of later ones, wait for
  good unless the phone answers it.
* *Hearth.* A turn that waits for a permission on a connected surface waits as
  long as nobody answers, and `/unpair` (`daemon.ts:1389`) or a claimed workspace
  (567) close with the surface up, so `close()` may wait with it: the second
  disjunct of `WorkspaceCloses`. On Telegram and Discord nobody can answer: the
  button's data is split at ":" while the approval's id contains one
  (`telegram.ts` 424-436, `discord.ts` 329-340), and the tap finds the request
  expired. `releaseSurfaces` stops the surfaces first and comes to rest. A prompt
  handed to the waiting loop after an abort still runs. Messages to a chat whose
  last tab has left are dropped.
* *Coordinator.* A tab whose session changes is remembered as closed although it
  stays, and can claim nothing until fifty others have closed; so is a tab that a
  restored session opens under the id of one that was closed.
* *Workers.* The close event of a worker the client itself terminated rejects
  the calls of its healthy successor and replaces it too, until the limit of
  restarts.
* *Checkpoints.* Without a repository `git show` fails and an undo deletes the
  files, where the documentation says the restore is skipped
  (`tools/checkpoints.mdx:75`). The first of several redos counts as a new
  prompt and clears the rest of the stack. A prompt sent while an undo awaits
  git is dropped with its answer. Two redos at once restore one entry and drop
  two. A redone checkpoint has lost its tag, and `/checkpoint save` cannot give
  it back: git refuses the name, which exists. What is tagged when an agent
  finishes, by the comment, is never tagged (see `Checkpoints` above).

## 4. Fairness

* `Dispatch`: weak fairness of each task's own steps and of `execute()`, because
  the event loop runs what is runnable; of `GenerateStep`, because a call to the
  provider ends: it has a step timeout and an abort signal (with the tool
  timeout configured as 0 there is no step timeout, and only the provider or the
  user ends it); and of the timer of the second wait, the one inside the slot.
  The timer of the first wait may fire and need not. Nothing makes a peer cancel
  or a user abort. `EveryAgentReported` speaks of behaviours that are not
  disturbed; in those nobody waits inside a slot (`NoSlotDeadlockInPeace`), so
  its liveness does not lean on the timers.
* `BusEdits`: weak fairness of each call's and each re-read's steps, which are
  file operations; no fairness for timers and drains, so calls return even when
  no timer ever helps.
* `Coordinator`: weak fairness of a claim's ageing and of the flush; strong
  fairness of the sweep, a repeating timer that runs whenever the microtask queue
  has emptied, again and again, while each `flushEvents` may fill it anew. None for prompts, dispatches or users.
* `ChatTurn`: weak fairness of timers, hooks and image loads (`Scheduled`,
  `Prepared`, `Retry`), of renders, of compactions, and of each stream's end *of
  some kind*: the provider answers or fails, or the watchdog, where one is configured
  (`useChat.ts:2640`), aborts it and the abort ends it. Not of a good end: a stream may fail for ever, since a failure
  starts the loop again, and the queue still moves because `finally` runs each
  round. None for the user, for steering or for stalls.
* `HearthTabs`: weak fairness of set-up, of turns that wait for nobody, of saving
  and the look at the queue, and of the workspace's loop over its tabs. None for
  messages, switches, stops or closes, for a surface that stops, and none for
  answers: no surface has a timer, and nobody need answer.
* `Permissions`, `WorkerRpc` and `Checkpoints` state none: a prompt may wait for
  ever behind another, a worker may be silent, and their properties are safety.

## 5. What is proved

For every number of tasks, every dependency relation, every slot limit, retry
budget and breaker threshold (`Dispatch_proofs`, from `ConstantsAssumption` and
`DepGraphsAssumption`):

* `TypeCorrect`, `SlotsAccounted`, `WakeupsKept`, `DependenciesRespected`: the
  run's invariants;
* `ResultsAreFinal`: the action property;
* `Implements`: `Spec => PoolSpec`, by showing that each step maps to a step of
  `AgentPool` or leaves `Status` unchanged.

The inductive invariant `IInv` has three parts, because most steps disturb one
of them only. `SlotInv`: `SlotAccounting` and `NoLostWakeup` with `QueueSync`
(the queue lists exactly the tasks whose `pc` is `"queued"`, once each); without
it, waking the head of the queue could wake a task that already holds a slot.
`DepInv`: `RunsAfterDeps` with `ResultSync` (who has a result already, by `pc`)
and `WaitTold` (what an `outcome` other than pending says about the results of
the dependencies); `RunsAfterDeps` alone does not say why `DepsHold` may let a
task pass. `CountInv`: the types of the counters, and that a task has used up no
attempt before its slot and is within the budget at the loop head. Finality of
results and the refinement follow from `ResultSync` and `RunsAfterDeps`.

Three more theorems say what holds until somebody ends waits early (`Peace`: no
cancel, no tripped breaker, no expired wait; the user's abort and failing agents
are allowed), and so mark off what `dispatch_slot_deadlock` refutes:

* `NoSlotDeadlockInPeace`: the comment at `subagent-tools.ts:940` is true until
  the first cancel; no task holds a slot while it waits for another;
* `NeverBlocked`: a plan without cycles (`Acyclic`: its dependencies can be
  ranked) never comes to a stand; unless all tasks have returned, the guard of a
  step of some task is true (`CanGoOn`). Without `Peace` TLC finds a state in
  which only the timers of the waits can help;
* `NobodyForgotten`: once `execute()` has left its agents, each has a result.

The second is the part of `EveryAgentReported` that needs no fairness. If nobody
can go on, no task is in a slot or on its way to one; then, as no wake-up is
lost, the queue is empty; and of the tasks that wait, one of least rank waits
for a task that has returned. They rest on `PeaceInv` (in peace waits do not end
with errors, and a task past its first wait has a settled one: `SecondWaitKnows`)
and on `WaitTold`, by which an open wait has a dependency without result.

For every set of calls and agents (`BusEdits_proofs`, from
`BusEditsAssumption`):

* `NoLeak`: however grants end, a held path has an armed grant and nobody
  waits for a free one;
* `Exclusion`: timers alone never leave two armed grants; `Serialization`:
  until a timer or drain breaks the lock one call edits at a time;
* `NoEditLost`: while the lock is unbroken no write removes another call's edit,
  but for file creation.

Their invariant adds `QueueSync` (the queue lists the queued calls, once each),
`OneGrant` (at most one armed grant before a drain) and `Unbroken` (before any
break, the editing call is the armed one and what it read is still the disk).

For every set of tabs, files and dispatches, every limit of remembered closed
tabs and with forced claims (`Coordinator_proofs`, from `CoordinatorAssumption`:
finitely many files and dispatches):

* `ClosedTabsStayEmpty`, `IdleTimersOnlyAtRest`, `GateReleased`, `CountsShown`:
  the run's invariants, however prompts, dispatches, aborts, commands, timers
  and sweeps interleave.

One conjunct is added to make them inductive. `RecountDue`: a tab whose shown
count is out of date has an event waiting that makes the tab bar count again;
`ShownCountCurrent` speaks only of moments with no event left. `GateNeverSticks`
rests on `ClosedTabsHoldNothing`: `agentFinished` ignores closed tabs, so their
count must be zero already.

For any prompts and continuations and any limits of the queue, of stalls and of
retries (`ChatTurn_proofs`, from `CallsAssumption` and `BoundsAssumption`):
`TypeCorrect`, `OneStream`, `QueueHolds`. Two conjuncts make the invariant
inductive. `QueueLists`: the queue lists the queued prompts, each once, so that
taking its head cannot leave a twin behind. `HeldAlone`: while the tab is calm
no call is between the guard and its stream, and only the call whose controller
the tab holds is live; the count of streams alone does not say that the guard
sees the one there is.

For any finite set of prompts of each kind (`Permissions_proofs`, from
`AsksFinite` and `AsksDisjoint`): `OnlyWhatWasAllowed`, `PhoneKeepsNoDecided`,
`DecisionsStand` and `CountsRemotes`, the counter that pauses the stall
watchdog. Added: `Chains` (a prompt waits behind its own mutex, once, undecided)
and `KnownPosted` (what is on the screen or known to the bridge has been
posted), without which entering a mutex could decide a prompt anew.

For any tabs, messages and lengths of queues (`HearthTabs_proofs`):
`WaitsOnlyIdle`, `InOrderAlways`. Added: `QueuesInOrder` (a queue lies between
the last prompt that began and the last one sent).

For any calls, restarts and workers (`WorkerRpc_proofs`, from finitely many
calls): `CountRight`, `AnswersOwn`. Added: `CarriedOwn` (a message keeps its
call's number wherever it is: on its way, held back, handled, answered) and
`NumbersOnce` (numbers are given in order and a call waits under one). From them
follow `SettledOnce` (a settled call keeps its outcome and its answer) and, with
`NoneLeft`, `DisposedForGood` (after the disposal nothing waits and no close
event brings up a worker).

For any tabs, prompts, files and waiting jobs (`Checkpoints_proofs`, from
`CheckpointsAssumption`): `TypeCorrect`, `TagsFollow`, `NeverTwice`,
`UndoneAreGone` and `SnapshotsAreWhole`. What is hard is that an undo or redo
reads, waits for the lock and only then writes what it read. The invariant
therefore follows prompts and tags to wherever they are kept. `Synced`: the
checkpoints of a tab are those of the exchanges it shows. `Told` (`TabTold`,
`JobTold`): no conversation says a prompt twice, nor will it when a job puts back
the messages it has kept; what a job keeps is not among what it stashes; and all
of it was sent, so that the next prompt is new. `TagsExist`: a tag that a
checkpoint, a stack or a job remembers exists in git. `OneAtATime`: only the
first job at the lock has begun, so that none commits while another restores.
`NoneUndone` is the invariant behind `UndoneAreGone`.

Every safety property the passing runs check is thus proved. Where an argument
goes by induction over numbers or over the size of a set, it is a proof by least
counterexample (`HasLeast`).

**Only model-checked**: all liveness (`EveryAgentReported`, `EverythingStops`,
`EveryEditReturns`, `StaleClaimsSwept`, `QueueMoves`, `WorkspaceCloses`), because
the prover has no rules for fairness with `ENABLED`. The violated statements are
counterexamples of TLC and need no proof.

## 6. What is left

1. `Checkpoints`: viewing, sessions and commits by others.
2. The rewriting of plans before a dispatch, as functions checked against
   transitive closure.
3. Callbacks from a worker to the main thread, across a restart.
4. The approvals registry of the daemon, with its own timers.
5. Plan reviews and fallback models in the chat loop.

The hazards without a property carry a note in `PROJECT.json`.

## 7. Running

```
tlc -workers 2 -config dispatch_aborts.cfg MCDispatch
tlc -workers 2 -config bus_edits.cfg MCBusEdits
tlc -workers 2 -config coordinator.cfg MCCoordinator
tlc -workers 2 -config chat_turn.cfg ChatTurn
tlc -workers 2 -config permissions.cfg MCPermissions
tlc -workers 2 -config hearth_tabs.cfg HearthTabs
tlc -workers 2 -config worker_rpc.cfg WorkerRpc
tlc -workers 2 -config checkpoints.cfg MCCheckpoints
for m in *_proofs.tla; do tlapm $m; done
```

The other runs are named in `PROJECT.json` with their modules; the longest takes
about two minutes and a half, the longest proof about a minute and a quarter.
