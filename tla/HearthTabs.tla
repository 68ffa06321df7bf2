----------------------------- MODULE HearthTabs -----------------------------
(***************************************************************************)
(* The tabs the Hearth daemon runs for one chat.  A workspace routes the   *)
(* chat's messages and commands to its tabs; each tab has a prompt queue   *)
(* and one runChat loop, which is given the tab's abort signal once, reads *)
(* prompts, runs one turn for each and saves the session when it leaves.   *)
(* A turn that needs permission asks the chat through its surface and      *)
(* waits, without a timer.  Questions that go through the bridge are not   *)
(* waited for: the daemon binds no tab to it, so askRemote falls back.     *)
(*                                                                         *)
(* hearth/tab-loop.ts, hearth/workspace.ts 66-215, hearth/callbacks.ts,    *)
(* headless/run.ts 732-958, hearth/daemon.ts 272-282, 715-760, 1302-1390,  *)
(* the surfaces' requestApproval (adapters/base.ts, telegram.ts).          *)
(***************************************************************************)
EXTENDS Naturals, Sequences, FiniteSets

CONSTANTS
    Tabs,         \* the tabs that may be opened, one after the other
    NoTab,
    MaxTabs,      \* binding.maxTabs
    MaxQueued,    \* MAX_QUEUED_PROMPTS
    MaxPrompts,   \* bound of this model: messages the chat sends
    MaxAsks       \* bound of this model: permissions the agents ask for

ASSUME NoTabAssumption == NoTab \notin Tabs
ASSUME BoundsAssumption ==
    /\ {MaxTabs, MaxQueued, MaxPrompts, MaxAsks} \subseteq Nat
    /\ MaxQueued > 0

VARIABLES
    run,       \* of each tab: where its runChat is
    queue,     \* of each tab: the prompts that wait, by number
    closed,    \* of each tab: TabLoop.closed
    signal,    \* of each tab: the signal runChat was given is aborted
    stopping,  \* of each tab: the controller of its turn is aborted
    tabs,      \* the workspace's map of tabs
    active,    \* activeTabId
    wsClosed,  \* ChatWorkspace.closed
    wsAwaits,  \* the tab close() awaits
    online,    \* the chat's surface is connected
    sent,      \* messages sent so far
    asked,     \* permissions asked for so far (bound)
    last       \* of each tab: the last prompt that began (history)

loopVars == <<run, queue, closed, signal, stopping>>
wsVars == <<tabs, active, wsClosed, wsAwaits>>
vars == <<loopVars, wsVars, online, sent, asked, last>>

InTurn(t) == run[t] \in {"turn", "parked"}

TypeOK ==
    /\ run \in [Tabs -> {"none", "setup", "ready", "waiting", "turn", "parked",
                         "saving", "exited"}]
    /\ queue \in [Tabs -> Seq(1..MaxPrompts)]
    /\ \A t \in Tabs : Len(queue[t]) =< MaxQueued
    /\ {closed, signal, stopping} \subseteq [Tabs -> BOOLEAN]
    /\ tabs \subseteq {t \in Tabs : run[t] \notin {"none", "exited"}}
    /\ Cardinality(tabs) =< MaxTabs
    /\ active \in tabs \cup {NoTab}
    /\ wsClosed \in BOOLEAN
    /\ wsAwaits \in Tabs \cup {NoTab}
    /\ online \in BOOLEAN
    /\ online \/ \A t \in Tabs : run[t] # "parked"
    /\ sent \in 0..MaxPrompts
    /\ asked \in 0..MaxAsks
    /\ last \in [Tabs -> 0..MaxPrompts]

Init ==
    /\ run = [t \in Tabs |-> "none"]
    /\ queue = [t \in Tabs |-> <<>>]
    /\ closed = [t \in Tabs |-> FALSE]
    /\ signal = [t \in Tabs |-> FALSE]
    /\ stopping = [t \in Tabs |-> FALSE]
    /\ tabs = {} /\ active = NoTab
    /\ wsClosed = FALSE /\ wsAwaits = NoTab
    /\ online = TRUE
    /\ sent = 0 /\ asked = 0
    /\ last = [t \in Tabs |-> 0]

----------------------------------------------------------------------------
(* What several handlers have in common.                                   *)

\* A prompt reaches the loop: a new turn with a controller of its own.
Begin(t, m) ==
    /\ run' = [run EXCEPT ![t] = "turn"]
    /\ stopping' = [stopping EXCEPT ![t] = FALSE]
    /\ last' = [last EXCEPT ![t] = m]

\* The abort of the tab's controller.  Only the first one is the one runChat
\* listens to: it stops the turn and, after it, the loop.  What is cancelled
\* with it are callbacks of the bridge; a permission stays asked for.
Signalled(t) ==
    /\ signal' = [signal EXCEPT ![t] = TRUE]
    /\ stopping' = [stopping EXCEPT ![t] = @ \/ (InTurn(t) /\ ~signal[t])]

\* Mutant of Exit: the tab stays in the workspace.
ExitStays(t) ==
    /\ run' = [run EXCEPT ![t] = "exited"]
    /\ closed' = [closed EXCEPT ![t] = TRUE]
    /\ UNCHANGED <<tabs, active>>

\* onExit takes the tab out of the workspace; its successor is another one.
Exit(t) ==
    /\ run' = [run EXCEPT ![t] = "exited"]
    /\ closed' = [closed EXCEPT ![t] = TRUE]
    /\ tabs' = tabs \ {t}
    /\ \E next \in IF active # t THEN {active}
                   ELSE IF tabs' = {} THEN {NoTab} ELSE tabs' :
         active' = next

----------------------------------------------------------------------------
(* runChat.                                                                *)

\* setupAgent resolves or rejects; a rejection ends the loop at once.
SetupEnds(t) ==
    /\ run[t] = "setup"
    /\ \/ /\ run' = [run EXCEPT ![t] = "ready"]
          /\ UNCHANGED <<closed, tabs, active>>
       \/ Exit(t)
    /\ UNCHANGED <<queue, signal, stopping, wsClosed, wsAwaits, online, sent, asked, last>>

\* The head of the loop asks for the abort, readPrompt for the close.
LeavesLoop(t) == signal[t] \/ closed[t]

\* The head of the loop and readPrompt.
ReadPrompt(t) ==
    /\ run[t] = "ready"
    /\ IF LeavesLoop(t)
       THEN /\ run' = [run EXCEPT ![t] = "saving"]
            /\ UNCHANGED <<queue, stopping, last>>
       ELSE IF queue[t] # <<>>
            THEN /\ Begin(t, Head(queue[t]))
                 /\ queue' = [queue EXCEPT ![t] = Tail(@)]
            ELSE /\ run' = [run EXCEPT ![t] = "waiting"]
                 /\ UNCHANGED <<queue, stopping, last>>
    /\ UNCHANGED <<closed, signal, wsVars, online, sent, asked>>

\* A tool needs permission (web, fetch, destructive, outside the project).
\* Without a connected surface the answer is no, at once.
Ask(t) ==
    /\ run[t] = "turn"
    /\ online
    /\ asked < MaxAsks
    /\ asked' = asked + 1
    /\ run' = [run EXCEPT ![t] = "parked"]
    /\ UNCHANGED <<queue, closed, signal, stopping, wsVars, online, sent, last>>

\* The chat answers, or does not: no timer answers for it.
Answered(t) ==
    /\ run[t] = "parked"
    /\ run' = [run EXCEPT ![t] = "turn"]
    /\ UNCHANGED <<queue, closed, signal, stopping, wsVars, online, sent, asked, last>>

\* streamTurn returns; a turn with an error, an abort among them, ends the loop.
TurnEnds(t) ==
    /\ run[t] = "turn"
    /\ \E failed \in BOOLEAN :
         run' = [run EXCEPT ![t] = IF failed THEN "saving" ELSE "ready"]
    /\ UNCHANGED <<queue, closed, signal, stopping, wsVars, online, sent, asked, last>>

\* The stream may break off at an abort although a tool of its turn waits;
\* nothing makes it.
BreaksOff(t) ==
    /\ run[t] = "parked"
    /\ stopping[t]
    /\ run' = [run EXCEPT ![t] = "saving"]
    /\ UNCHANGED <<queue, closed, signal, stopping, wsVars, online, sent, asked, last>>

\* cleanupAndExit.
SaveEnds(t) ==
    /\ run[t] = "saving"
    /\ Exit(t)
    /\ UNCHANGED <<queue, signal, stopping, wsClosed, wsAwaits, online, sent, asked, last>>

----------------------------------------------------------------------------
(* The chat.                                                               *)

OpenTab(t) ==
    /\ ~wsClosed
    /\ run[t] = "none"
    /\ Cardinality(tabs) < MaxTabs
    /\ run' = [run EXCEPT ![t] = "setup"]
    /\ tabs' = tabs \cup {t}
    /\ active' = IF active = NoTab THEN t ELSE active
    /\ UNCHANGED <<queue, closed, signal, stopping, wsClosed, wsAwaits, online, sent, asked, last>>

SwitchTo(t) ==
    /\ t \in tabs \ {active}
    /\ active' = t
    /\ UNCHANGED <<loopVars, tabs, wsClosed, wsAwaits, online, sent, asked, last>>

\* Mutant of Enqueue: the prompt is queued although the loop waits for one.
EnqueueAlways(t, m) ==
    /\ IF closed[t]
       THEN UNCHANGED queue
       ELSE queue' = [queue EXCEPT ![t] =
                        Append(IF Len(@) >= MaxQueued THEN Tail(@) ELSE @, m)]
    /\ UNCHANGED <<run, stopping, last>>

\* Mutant of Enqueue: the newest prompt goes first.
EnqueueInFront(t, m) ==
    CASE closed[t] ->
           UNCHANGED <<run, queue, stopping, last>>
      [] ~closed[t] /\ run[t] = "waiting" ->
           Begin(t, m) /\ UNCHANGED queue
      [] OTHER ->
           /\ queue' = [queue EXCEPT ![t] = <<m>> \o IF Len(@) >= MaxQueued THEN Tail(@) ELSE @]
           /\ UNCHANGED <<run, stopping, last>>

\* enqueuePrompt: to the waiting loop, else into the queue, whose oldest
\* prompt makes room.
Enqueue(t, m) ==
    CASE closed[t] ->
           UNCHANGED <<run, queue, stopping, last>>
      [] ~closed[t] /\ run[t] = "waiting" ->
           Begin(t, m) /\ UNCHANGED queue
      [] OTHER ->
           /\ queue' = [queue EXCEPT ![t] =
                          Append(IF Len(@) >= MaxQueued THEN Tail(@) ELSE @, m)]
           /\ UNCHANGED <<run, stopping, last>>

\* A message goes to the active tab, a one-shot prompt to the tab it names.
\* The daemon opens a first tab before it passes on the first message.
Send ==
    /\ \E t \in Tabs : run[t] # "none"
    /\ sent < MaxPrompts
    /\ sent' = sent + 1
    /\ \/ /\ tabs = {}
          /\ UNCHANGED <<run, queue, stopping, last>>
       \/ \E t \in tabs : Enqueue(t, sent')
    /\ UNCHANGED <<closed, signal, wsVars, online, asked>>

\* abortTurn, for the active tab.
Stop ==
    /\ active # NoTab
    /\ Signalled(active)
    /\ UNCHANGED <<run, queue, closed, wsVars, online, sent, asked, last>>

\* TabLoop.close: aborts, and answers a waiting loop with null.
Shut(t) ==
    /\ IF closed[t] THEN UNCHANGED <<closed, signal, stopping, run>>
       ELSE /\ closed' = [closed EXCEPT ![t] = TRUE]
            /\ Signalled(t)
            /\ run' = [run EXCEPT ![t] = IF @ = "waiting" THEN "saving" ELSE @]

CloseTab(t) ==
    /\ t \in tabs
    /\ ~closed[t]
    /\ Shut(t)
    /\ UNCHANGED <<queue, wsVars, online, sent, asked, last>>

\* ChatWorkspace.close: one tab after the other, each awaited.
CloseWorkspace ==
    /\ ~wsClosed
    /\ wsClosed' = TRUE
    /\ UNCHANGED <<loopVars, tabs, active, wsAwaits, online, sent, asked, last>>

\* Mutant of CloseNext: the close of the first tab ends the loop over them.
CloseNextOnly(t) ==
    /\ wsClosed
    /\ wsAwaits = NoTab
    /\ t \in tabs
    /\ wsAwaits' = t
    /\ Shut(t)
    /\ UNCHANGED <<queue, tabs, active, wsClosed, online, sent, asked, last>>

CloseNext(t) ==
    /\ wsClosed
    /\ wsAwaits # NoTab => run[wsAwaits] = "exited"
    /\ t \in tabs
    /\ wsAwaits' = t
    /\ Shut(t)
    /\ UNCHANGED <<queue, tabs, active, wsClosed, online, sent, asked, last>>

\* The surface is stopped, because the TUI takes over, the daemon ends or the
\* configuration is loaded again: it answers no to all that was asked.
SurfaceStops ==
    /\ online
    /\ online' = FALSE
    /\ run' = [t \in Tabs |-> IF run[t] = "parked" THEN "turn" ELSE run[t]]
    /\ UNCHANGED <<queue, closed, signal, stopping, wsVars, sent, asked, last>>

----------------------------------------------------------------------------
Next ==
    \/ Send \/ Stop \/ CloseWorkspace \/ SurfaceStops
    \/ \E t \in Tabs :
         \/ OpenTab(t) \/ SwitchTo(t) \/ CloseTab(t) \/ CloseNext(t)
         \/ SetupEnds(t) \/ ReadPrompt(t) \/ Ask(t) \/ Answered(t)
         \/ TurnEnds(t) \/ BreaksOff(t) \/ SaveEnds(t)

\* Set-up, turns that wait for nobody and saving end, and a workspace that is
\* closing goes on.  Nobody need answer.
Fairness ==
    /\ \A t \in Tabs :
         /\ WF_vars(SetupEnds(t)) /\ WF_vars(ReadPrompt(t))
         /\ WF_vars(TurnEnds(t)) /\ WF_vars(SaveEnds(t))
    /\ WF_vars(\E t \in Tabs : CloseNext(t))

Spec == Init /\ [][Next]_vars /\ Fairness

----------------------------------------------------------------------------
(* Properties.                                                             *)

\* A loop that waits for a prompt has none in its queue and has not been
\* closed: neither a prompt nor a close can be missed between the look at
\* the queue and the registration of the waiter (tab-loop.ts 119-133, 171-182).
NoIdleWithWork ==
    \A t \in Tabs : run[t] = "waiting" => queue[t] = <<>> /\ ~closed[t]

\* The prompts of a tab begin in the order they were sent, none of them
\* twice, through switches, overflows and direct deliveries
\* (tab-loop.ts 122-130, workspace.ts 151-158).
PromptsInOrder ==
    \A t \in Tabs :
        /\ \A i \in DOMAIN queue[t] : last[t] < queue[t][i]
        /\ \A i, j \in DOMAIN queue[t] : i < j => queue[t][i] < queue[t][j]

\* A workspace that is closed comes to rest, whatever its tabs were doing:
\* every loop is left.  One thing can keep it open, a tab that waits for a
\* permission for ever on a connected surface; a surface that stops ends this
\* wait too (workspace.ts 205-215, tab-loop.ts 151-161, telegram.ts 213-221).
WorkspaceCloses ==
    wsClosed ~> \/ \A t \in Tabs : run[t] \in {"none", "exited"}
                \/ \E t \in Tabs : [](online /\ run[t] = "parked")

\* An abort is of one turn: after a turn, the loop of a tab that nobody has
\* closed goes on with the next prompt (tab-loop.ts:136-138 "we renew the controller BEFORE
\* forwarding so the next turn's listener is attached to a fresh signal, not
\* the aborted one").
AbortEndsOneTurn ==
    [][\A t \in Tabs :
        last[t] > 0 /\ run[t] = "ready" /\ ~closed[t] => run'[t] # "saving"]_vars

=============================================================================
