---------------------------- MODULE Coordinator ----------------------------
(***************************************************************************)
(* The cross-tab coordinator: WorkspaceCoordinator.ts keeps one advisory   *)
(* claim per file, an idle timer and a count of dispatches per tab.  The   *)
(* environment is its callers: a tab's prompt (TabInstance.tsx and         *)
(* useChat.ts), the dispatch tool, edits, the /claim commands and the tab  *)
(* bar, which re-reads a tab's claim count when events are flushed.        *)
(*                                                                         *)
(* Time is abstract: a claim or a tab's last agentStarted either is recent *)
(* or has passed its limit (five and fifteen minutes).                     *)
(***************************************************************************)
EXTENDS Naturals, FiniteSets, Sequences

CONSTANTS
  Tabs,
  Files,         (* normalized paths                                       *)
  Dispatches,    (* dispatches that may be running at one time             *)
  NoTab,
  ClosedLimit,   (* how many closed tabs are remembered (50)               *)
  ForceClaims    (* may the user give /claim force?                        *)

ASSUME CoordinatorAssumption ==
  /\ NoTab \notin Tabs
  /\ ClosedLimit \in Nat \ {0}
  /\ ForceClaims \in BOOLEAN
  /\ IsFiniteSet(Dispatches)
  /\ IsFiniteSet(Files)

VARIABLES
  claims,      (* claims: the tab that holds each file, or NoTab           *)
  recent,      (* files whose claim was edited in the last five minutes    *)
  idleTimers,  (* tabs with a pending idle timer                           *)
  agents,      (* activeAgents                                             *)
  agedAgents,  (* tabs whose agentStartedAt is fifteen minutes old         *)
  closedTabs,  (* the tabs remembered as closed, oldest first              *)
  events,      (* pendingEvents: <<tab, type>>                             *)
  shown,       (* the claim count the tab bar shows                        *)
  open,        (* tabs that exist                                          *)
  prompting,   (* tabs whose chat is loading                               *)
  unwinding,   (* tabs with an aborted turn that has not ended             *)
  visible,     (* the tab on screen, which is getActiveTaskTab()           *)
  running,     (* running dispatches: the tab that runs it, and the tab it *)
               (* is counted for                                           *)
  counted      (* those of them that have called agentStarted              *)

claimVars == <<claims, recent, events>>
agentVars == <<agents, agedAgents>>
runVars   == <<running, counted>>
envVars   == <<open, prompting, unwinding, visible, running, counted>>
vars == <<claims, recent, idleTimers, agents, agedAgents, closedTabs, events,
          shown, open, prompting, unwinding, visible, running, counted>>

NotRunning == [by |-> NoTab, for |-> NoTab]

Closed == {closedTabs[i] : i \in DOMAIN closedTabs}

ClaimsOf(t) == {f \in Files : claims[f] = t}

Counted(t) == {d \in counted : running[d].for = t}

(* The flush is a microtask: it runs before any timer, key press or effect *)
(* of a render, and only what an await continues can come between.         *)
Flushed == events = {}

TypeOK ==
  /\ claims \in [Files -> Tabs \union {NoTab}]
  /\ recent \subseteq {f \in Files : claims[f] # NoTab}
  /\ idleTimers \subseteq Tabs
  /\ agents \in [Tabs -> Nat]
  /\ agedAgents \subseteq {t \in Tabs : agents[t] > 0}
  /\ closedTabs \in Seq(Tabs) /\ Len(closedTabs) <= ClosedLimit
  /\ events \subseteq Tabs \X {"claim", "conflict", "release"}
  /\ shown \in [Tabs -> Nat]
  /\ open \subseteq Tabs /\ visible \in open
  /\ prompting \subseteq Tabs /\ unwinding \subseteq Tabs
  /\ running \in [Dispatches -> [by : Tabs, for : Tabs] \union {NotRunning}]
  /\ counted \subseteq {d \in Dispatches : running[d] # NotRunning}

Init ==
  /\ claims = [f \in Files |-> NoTab]
  /\ recent = {}
  /\ idleTimers = {}
  /\ agents = [t \in Tabs |-> 0]
  /\ agedAgents = {}
  /\ closedTabs = <<>>
  /\ events = {}
  /\ shown = [t \in Tabs |-> 0]
  /\ open = Tabs
  /\ prompting = {}
  /\ unwinding = {}
  /\ visible \in Tabs
  /\ running = [d \in Dispatches |-> NotRunning]
  /\ counted = {}

-----------------------------------------------------------------------------
(* The coordinator's operations.                                           *)

(* A release event is scheduled for every tab that loses a file.           *)
Release(fs) ==
  /\ claims' = [f \in Files |-> IF f \in fs THEN NoTab ELSE claims[f]]
  /\ recent' = recent \ fs
  /\ events' = events \union {<<claims[f], "release">> : f \in fs}

releaseAll(t) ==
  /\ Release(ClaimsOf(t))
  /\ idleTimers' = idleTimers \ {t}
  /\ agents' = [agents EXCEPT ![t] = 0]
  /\ agedAgents' = agedAgents \ {t}

(* The oldest makes room when too many are remembered.                     *)
closeTab(t) ==
  /\ releaseAll(t)
  /\ closedTabs' = IF t \in Closed THEN closedTabs
                   ELSE IF Len(closedTabs) < ClosedLimit THEN Append(closedTabs, t)
                   ELSE Append(Tail(closedTabs), t)

(* A claimFiles that forgets the closed tabs (sensitivity).                *)
claimFilesOfAnyTab(t, fs) ==
  LET granted == {f \in fs : claims[f] \in {t, NoTab}} IN
  /\ claims' = [f \in Files |-> IF f \in granted THEN t ELSE claims[f]]
  /\ recent' = recent \union granted
  /\ events' = events \union {<<t, "claim">>}
  /\ idleTimers' = idleTimers \ {t}

(* A claimFiles that reports the files but does not schedule the event     *)
(* (sensitivity).                                                          *)
claimFilesQuietly(t, fs) ==
  LET granted == {f \in fs : claims[f] \in {t, NoTab}} IN
  /\ t \notin Closed
  /\ claims' = [f \in Files |-> IF f \in granted THEN t ELSE claims[f]]
  /\ recent' = recent \union granted
  /\ idleTimers' = idleTimers \ {t}
  /\ UNCHANGED events

(* Files of other tabs are contested; everything else is claimed or        *)
(* refreshed.                                                              *)
claimFiles(t, fs) ==
  IF t \in Closed THEN UNCHANGED <<claims, recent, events, idleTimers>>
  ELSE LET granted == {f \in fs : claims[f] \in {t, NoTab}} IN
       /\ claims' = [f \in Files |-> IF f \in granted THEN t ELSE claims[f]]
       /\ recent' = recent \union granted
       /\ events' = events \union {<<t, e>> : e \in
            (IF granted # {} THEN {"claim"} ELSE {})
              \union (IF granted # fs THEN {"conflict"} ELSE {})}
       /\ idleTimers' = idleTimers \ {t}

(* agentStarted that counts a dispatch twice (sensitivity).                *)
agentStartedTwice(t) ==
  /\ agents' = [agents EXCEPT ![t] = @ + 2]
  /\ agedAgents' = agedAgents \ {t}
  /\ idleTimers' = idleTimers \ {t}

agentStarted(t) ==
  IF t \in Closed THEN UNCHANGED <<agents, agedAgents, idleTimers>>
  ELSE /\ agents' = [agents EXCEPT ![t] = @ + 1]
       /\ agedAgents' = agedAgents \ {t}
       /\ idleTimers' = idleTimers \ {t}

(* agentFinished that leaves the start of the last dispatch behind         *)
(* (sensitivity).                                                          *)
agentFinishedKeepsStart(t) ==
  IF t \in Closed \/ agents[t] = 0 THEN UNCHANGED agentVars
  ELSE /\ agents' = [agents EXCEPT ![t] = @ - 1]
       /\ UNCHANGED agedAgents

(* The count may have been cleared meanwhile; no idle timer is started.    *)
agentFinished(t) ==
  IF t \in Closed \/ agents[t] = 0 THEN UNCHANGED agentVars
  ELSE /\ agents' = [agents EXCEPT ![t] = @ - 1]
       /\ agedAgents' = IF agents[t] = 1 THEN agedAgents \ {t} ELSE agedAgents

(* markIdle without the look at the agents (sensitivity).                  *)
markIdleAlways(t) ==
  idleTimers' = IF t \in Closed THEN idleTimers ELSE idleTimers \union {t}

markIdle(t) ==
  idleTimers' = IF t \in Closed \/ agents[t] > 0 THEN idleTimers ELSE idleTimers \union {t}

markActive(t) ==
  idleTimers' = IF t \in Closed THEN idleTimers ELSE idleTimers \ {t}

-----------------------------------------------------------------------------
(* A tab's prompt and what it does.                                        *)

PromptStarts(t) ==
  /\ Flushed
  /\ t \in open \ prompting
  /\ prompting' = prompting \union {t}
  /\ markActive(t)
  /\ UNCHANGED <<claimVars, agentVars, closedTabs, shown, open, unwinding, visible, runVars>>

(* The prompt waits for its tool calls.  A tab that is gone has nobody     *)
(* left to tell the coordinator, which would not listen.                   *)
PromptEnds(t) ==
  /\ Flushed
  /\ t \in prompting
  /\ \A d \in Dispatches : running[d].by # t
  /\ prompting' = prompting \ {t}
  /\ markIdle(t)
  /\ UNCHANGED <<claimVars, agentVars, closedTabs, shown, open, unwinding, visible, runVars>>

(* Ctrl+X: the tab marks itself idle at once; its turn is still unwinding, *)
(* and so may be its dispatches.                                           *)
PromptAborted(t) ==
  /\ Flushed
  /\ t \in prompting
  /\ prompting' = prompting \ {t}
  /\ unwinding' = unwinding \union {t}
  /\ markIdle(t)
  /\ UNCHANGED <<claimVars, agentVars, closedTabs, shown, open, visible, runVars>>

(* useChat's finally after an abort releases everything, also what a new   *)
(* prompt has claimed meanwhile.  The watchdog aborts a stream too, and    *)
(* the chat goes on loading.                                               *)
Unwind(t) ==
  /\ t \in unwinding \union prompting
  /\ unwinding' = unwinding \ {t}
  /\ releaseAll(t)
  /\ UNCHANGED <<closedTabs, shown, open, prompting, visible, runVars>>

(* checkAndClaim after an edit, claimAfterCompoundEdit after a rename or a *)
(* move.                                                                   *)
Edit(t, fs) ==
  /\ \/ t \in prompting \union unwinding
     \/ \E d \in Dispatches : running[d].by = t
  /\ claimFiles(t, fs)
  /\ UNCHANGED <<agentVars, closedTabs, shown, envVars>>

(* dispatch.execute notes the tab on screen and cleans its directory,      *)
DispatchPrepares(t, d) ==
  /\ t \in prompting
  /\ running[d] = NotRunning
  /\ running' = [running EXCEPT ![d] = [by |-> t, for |-> visible]]
  /\ UNCHANGED <<claimVars, agentVars, idleTimers, closedTabs, shown, open, prompting,
                 unwinding, visible, counted>>

(* and then counts itself for the tab it has noted.                        *)
DispatchStarts(d) ==
  /\ running[d] # NotRunning
  /\ d \notin counted
  /\ counted' = counted \union {d}
  /\ agentStarted(running[d].for)
  /\ UNCHANGED <<claimVars, closedTabs, shown, open, prompting, unwinding, visible, running>>

DispatchEnds(d) ==
  /\ d \in counted
  /\ agentFinished(running[d].for)
  /\ running' = [running EXCEPT ![d] = NotRunning]
  /\ counted' = counted \ {d}
  /\ UNCHANGED <<claimVars, idleTimers, closedTabs, shown, open, prompting, unwinding, visible>>

-----------------------------------------------------------------------------
(* The user.                                                               *)

Show(t) ==
  /\ Flushed
  /\ t \in open
  /\ visible' = t
  /\ UNCHANGED <<claimVars, agentVars, idleTimers, closedTabs, shown, open, prompting,
                 unwinding, runVars>>

(* The one on screen stays.                                                *)
CloseTab(t) ==
  /\ Flushed
  /\ t \in open \ {visible}
  /\ open' = open \ {t}
  /\ closeTab(t)
  /\ UNCHANGED <<shown, prompting, unwinding, visible, runVars>>

(* The clean-up of a tab runs as well when the session under it changes,   *)
(* with the turns aborted before: the tab stays, remembered as closed.     *)
ChangeSession(t) ==
  /\ Flushed
  /\ t \in open \ prompting
  /\ closeTab(t)
  /\ UNCHANGED <<shown, envVars>>

(* /unclaim <path> and /unclaim-all act on the tab on screen.              *)
Unclaim(f) ==
  /\ Flushed
  /\ claims[f] = visible
  /\ Release({f})
  /\ UNCHANGED <<agentVars, idleTimers, closedTabs, shown, envVars>>

UnclaimAll ==
  /\ Flushed
  /\ ClaimsOf(visible) # {}
  /\ releaseAll(visible)
  /\ UNCHANGED <<closedTabs, shown, envVars>>

(* A pending idle timer stays pending.                                     *)
forceClaim(f) ==
  /\ Flushed
  /\ ForceClaims
  /\ visible \notin Closed
  /\ claims' = [claims EXCEPT ![f] = visible]
  /\ recent' = recent \union {f}
  /\ events' = events \union {<<visible, "claim">>}
       \union (IF claims[f] \in {NoTab, visible} THEN {} ELSE {<<claims[f], "release">>})
  /\ UNCHANGED <<agentVars, idleTimers, closedTabs, shown, envVars>>

-----------------------------------------------------------------------------
(* Timers and the event flush.                                             *)

IdleFires(t) ==
  /\ Flushed
  /\ t \in idleTimers
  /\ IF agents[t] > 0
       THEN /\ idleTimers' = idleTimers \ {t}
            /\ UNCHANGED <<claimVars, agentVars>>
       ELSE releaseAll(t)
  /\ UNCHANGED <<closedTabs, shown, envVars>>

ClaimAges(f) ==
  /\ f \in recent
  /\ recent' = recent \ {f}
  /\ UNCHANGED <<claims, events, agentVars, idleTimers, closedTabs, shown, envVars>>

AgentsAge(t) ==
  /\ agents[t] > 0
  /\ agedAgents' = agedAgents \union {t}
  /\ UNCHANGED <<agents, claimVars, idleTimers, closedTabs, shown, envVars>>

(* A sweep that keeps the claims of tabs with agents (sensitivity).        *)
SweepIdleTabs ==
  /\ Flushed
  /\ Release({f \in Files : /\ claims[f] # NoTab /\ f \notin recent
                            /\ agents[claims[f]] = 0})
  /\ agents' = [t \in Tabs |-> IF t \in agedAgents THEN 0 ELSE agents[t]]
  /\ agedAgents' = {}
  /\ UNCHANGED <<idleTimers, closedTabs, shown, envVars>>

sweepStale ==
  /\ Flushed
  /\ Release({f \in Files : claims[f] # NoTab /\ f \notin recent})
  /\ agents' = [t \in Tabs |-> IF t \in agedAgents THEN 0 ELSE agents[t]]
  /\ agedAgents' = {}
  /\ UNCHANGED <<idleTimers, closedTabs, shown, envVars>>

(* The tab bar's listener counts again for its own events and any release. *)
flushEvents ==
  /\ events # {}
  /\ shown' = [t \in Tabs |->
       IF \E e \in events : e[1] = t \/ e[2] = "release"
       THEN Cardinality(ClaimsOf(t)) ELSE shown[t]]
  /\ events' = {}
  /\ UNCHANGED <<claims, recent, agentVars, idleTimers, closedTabs, envVars>>

-----------------------------------------------------------------------------
Next ==
  \/ \E t \in Tabs :
       \/ PromptStarts(t) \/ PromptEnds(t) \/ PromptAborted(t) \/ Unwind(t)
       \/ \E fs \in SUBSET Files \ {{}} : Edit(t, fs)
       \/ \E d \in Dispatches : DispatchPrepares(t, d)
       \/ Show(t) \/ CloseTab(t) \/ ChangeSession(t) \/ IdleFires(t) \/ AgentsAge(t)
  \/ \E d \in Dispatches : DispatchStarts(d) \/ DispatchEnds(d)
  \/ \E f \in Files : Unclaim(f) \/ forceClaim(f) \/ ClaimAges(f)
  \/ UnclaimAll \/ sweepStale \/ flushEvents

(* Time passes, the flush is a microtask, and the sweep timer repeats: it  *)
(* runs at the next point where nothing is left to flush.                  *)
Fairness ==
  /\ \A f \in Files : WF_vars(ClaimAges(f))
  /\ SF_vars(sweepStale)
  /\ WF_vars(flushEvents)

Spec == Init /\ [][Next]_vars
FairSpec == Spec /\ Fairness

-----------------------------------------------------------------------------
(* Properties.                                                             *)

(* A tab that is remembered as closed holds no claim, has no timer and     *)
(* does not block anyone's git, although its edits and its dispatch may    *)
(* still be running (closeTab: "releases all claims, clears agents, blocks *)
(* future claims").                                                        *)
ClosedTabsHoldNothing ==
  \A t \in Closed : /\ ClaimsOf(t) = {}
                    /\ t \notin idleTimers
                    /\ agents[t] = 0

(* An idle timer is pending only for a tab that is neither prompting nor   *)
(* counted as having agents: the five-second release cannot hit a tab at   *)
(* work (markIdle, markActive, agentStarted, claimFiles).                  *)
IdleTimerOnlyWhenIdle ==
  \A t \in idleTimers : t \notin prompting /\ agents[t] = 0

(* The count of dispatches that blocks other tabs' git never exceeds the   *)
(* dispatches that are running: git is not blocked by one that has ended,  *)
(* however counts were cleared in between (agentFinished, releaseAll,      *)
(* sweepStale).                                                            *)
GateNeverSticks ==
  \A t \in Tabs : agents[t] <= Cardinality(Counted(t))

(* With no event left to flush the tab bar shows the true number of claims *)
(* of every open tab, whoever released or took them (scheduleEvent).       *)
ShownCountCurrent ==
  events = {} => \A t \in open : shown[t] = Cardinality(ClaimsOf(t))

(* A claim that is not refreshed is given up in the end, whatever happened *)
(* to its tab's timer (sweepStale: "claims released regardless of state"). *)
StaleClaimsSwept ==
  \A f \in Files : ([]<>(f \in recent)) \/ ([]<>(claims[f] = NoTab))

=============================================================================
