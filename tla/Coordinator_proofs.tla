-------------------------- MODULE Coordinator_proofs -------------------------
(***************************************************************************)
(* Proofs about the cross-tab coordinator, for any number of tabs, files   *)
(* and dispatches and any number of remembered closed tabs.                *)
(***************************************************************************)
EXTENDS Coordinator, FiniteSetTheorems, TLAPS

(* A tab whose shown count is out of date has an event waiting that makes  *)
(* the tab bar count again.                                                *)
RecountDue ==
  \A t \in open :
    \/ shown[t] = Cardinality(ClaimsOf(t))
    \/ \E e \in events : e[1] = t \/ e[2] = "release"

IInv ==
  /\ TypeOK
  /\ ClosedTabsHoldNothing
  /\ IdleTimerOnlyWhenIdle
  /\ GateNeverSticks
  /\ RecountDue

-----------------------------------------------------------------------------
(* Facts about the coordinator's state.                                    *)

LEMMA ClaimsFinite ==
  ASSUME NEW t
  PROVE  Cardinality(ClaimsOf(t)) \in Nat
<1>1. IsFiniteSet(ClaimsOf(t))
  BY CoordinatorAssumption, FS_Subset DEF ClaimsOf
<1> QED
  BY <1>1, FS_CardinalityType

LEMMA CountedFinite ==
  ASSUME TypeOK, NEW t
  PROVE  IsFiniteSet(Counted(t)) /\ Cardinality(Counted(t)) \in Nat
<1>1. IsFiniteSet(Counted(t))
  BY CoordinatorAssumption, FS_Subset DEF Counted, TypeOK
<1> QED
  BY <1>1, FS_CardinalityType

(* The list of closed tabs may lose its oldest, and gains only the tab.    *)
LEMMA ClosingATab ==
  ASSUME TypeOK, NEW t \in Tabs, closeTab(t)
  PROVE  /\ closedTabs' \in Seq(Tabs) /\ Len(closedTabs') <= ClosedLimit
         /\ Closed' \subseteq Closed \union {t}
<1>0. /\ closedTabs \in Seq(Tabs) /\ Len(closedTabs) <= ClosedLimit
      /\ ClosedLimit \in Nat \ {0}
  BY CoordinatorAssumption DEF TypeOK
<1>1. CASE t \in Closed
  BY <1>0, <1>1 DEF closeTab, Closed
<1>2. ASSUME NEW s \in Seq(Tabs), closedTabs' = Append(s, t),
             {s[i] : i \in DOMAIN s} \subseteq Closed
      PROVE  closedTabs' \in Seq(Tabs) /\ Closed' \subseteq Closed \union {t}
  <2>1. closedTabs' \in Seq(Tabs)
    BY <1>2
  <2>2. /\ DOMAIN closedTabs' = 1 .. Len(s) + 1
        /\ Len(s) \in Nat /\ DOMAIN s = 1 .. Len(s)
        /\ \A i \in 1 .. Len(s) : closedTabs'[i] = s[i]
        /\ closedTabs'[Len(s) + 1] = t
    BY <1>2
  <2>3. ASSUME NEW i \in DOMAIN closedTabs'
        PROVE  closedTabs'[i] \in Closed \union {t}
    <3>1. CASE i = Len(s) + 1
      BY <2>2, <3>1
    <3>2. CASE i \in DOMAIN s
      BY <1>2, <2>2, <3>2
    <3> QED
      BY <2>2, <2>3, <3>1, <3>2
  <2> QED
    BY <2>1, <2>3 DEF Closed
<1>3. CASE t \notin Closed /\ Len(closedTabs) < ClosedLimit
  <2>1. closedTabs' = Append(closedTabs, t)
    BY <1>3 DEF closeTab
  <2>2. Len(closedTabs') = Len(closedTabs) + 1 /\ Len(closedTabs) \in Nat
    BY <1>0, <2>1
  <2> QED
    BY <1>0, <1>2, <1>3, <2>1, <2>2 DEF Closed
<1>4. CASE t \notin Closed /\ ~(Len(closedTabs) < ClosedLimit)
  <2>1. closedTabs' = Append(Tail(closedTabs), t)
    BY <1>4 DEF closeTab
  <2>2. /\ Len(closedTabs) \in Nat /\ Len(closedTabs) = ClosedLimit
        /\ closedTabs # << >>
    BY <1>0, <1>4
  <2>3. /\ Tail(closedTabs) \in Seq(Tabs)
        /\ Len(Tail(closedTabs)) = Len(closedTabs) - 1
        /\ DOMAIN closedTabs = 1 .. Len(closedTabs)
        /\ DOMAIN Tail(closedTabs) = 1 .. Len(closedTabs) - 1
        /\ \A i \in 1 .. Len(closedTabs) - 1 : Tail(closedTabs)[i] = closedTabs[i + 1]
    BY <1>0, <2>2
  <2>4. {Tail(closedTabs)[i] : i \in DOMAIN Tail(closedTabs)} \subseteq Closed
    BY <2>2, <2>3 DEF Closed
  <2>5. Len(closedTabs') = Len(closedTabs)
    BY <2>1, <2>2, <2>3
  <2> QED
    BY <1>0, <1>2, <2>1, <2>2, <2>3, <2>4, <2>5
<1> QED
  BY <1>1, <1>3, <1>4

-----------------------------------------------------------------------------
LEMMA InitIInv == Init => IInv
<1> SUFFICES ASSUME Init
             PROVE  IInv
  OBVIOUS
<1>1. TypeOK
  BY CoordinatorAssumption DEF Init, TypeOK
<1>2. Closed = {}
  BY DEF Init, Closed
<1>3. ClosedTabsHoldNothing /\ IdleTimerOnlyWhenIdle
  BY <1>2 DEF Init, ClosedTabsHoldNothing, IdleTimerOnlyWhenIdle
<1>4. GateNeverSticks
  BY <1>1, CountedFinite DEF Init, GateNeverSticks
<1>5. RecountDue
  <2>1. \A t \in Tabs : ClaimsOf(t) = {}
    BY CoordinatorAssumption DEF Init, ClaimsOf
  <2> QED
    BY <2>1, FS_EmptySet DEF Init, RecountDue
<1> QED
  BY <1>1, <1>3, <1>4, <1>5 DEF IInv

-----------------------------------------------------------------------------
(* Type correctness.                                                       *)

(* Releasing claimed files keeps claims and events well formed.            *)
LEMMA ReleaseType ==
  ASSUME TypeOK, NEW fs \in SUBSET Files, \A f \in fs : claims[f] # NoTab, Release(fs)
  PROVE  /\ claims' \in [Files -> Tabs \union {NoTab}]
         /\ recent' \subseteq {f \in Files : claims'[f] # NoTab}
         /\ events' \subseteq Tabs \X {"claim", "conflict", "release"}
<1>1. \A f \in fs : claims[f] \in Tabs
  BY DEF TypeOK
<1> QED
  BY <1>1 DEF TypeOK, Release

LEMMA ReleaseAllType ==
  ASSUME TypeOK, NEW t \in Tabs, releaseAll(t)
  PROVE  /\ claims' \in [Files -> Tabs \union {NoTab}]
         /\ recent' \subseteq {f \in Files : claims'[f] # NoTab}
         /\ events' \subseteq Tabs \X {"claim", "conflict", "release"}
         /\ idleTimers' \subseteq Tabs
         /\ agents' \in [Tabs -> Nat]
         /\ agedAgents' \subseteq {u \in Tabs : agents'[u] > 0}
<1>1. /\ ClaimsOf(t) \in SUBSET Files
      /\ \A f \in ClaimsOf(t) : claims[f] # NoTab
  BY CoordinatorAssumption DEF ClaimsOf
<1>2. /\ claims' \in [Files -> Tabs \union {NoTab}]
      /\ recent' \subseteq {f \in Files : claims'[f] # NoTab}
      /\ events' \subseteq Tabs \X {"claim", "conflict", "release"}
  BY <1>1, ReleaseType DEF releaseAll
<1>3. /\ idleTimers' \subseteq Tabs
      /\ agents' \in [Tabs -> Nat]
      /\ agedAgents' \subseteq {u \in Tabs : agents'[u] > 0}
  BY DEF TypeOK, releaseAll
<1> QED
  BY <1>2, <1>3

LEMMA ClaimFilesType ==
  ASSUME TypeOK, NEW t \in Tabs, NEW fs \in SUBSET Files, claimFiles(t, fs)
  PROVE  /\ claims' \in [Files -> Tabs \union {NoTab}]
         /\ recent' \subseteq {f \in Files : claims'[f] # NoTab}
         /\ events' \subseteq Tabs \X {"claim", "conflict", "release"}
         /\ idleTimers' \subseteq Tabs
<1>1. CASE t \in Closed
  BY <1>1 DEF TypeOK, claimFiles
<1>2. CASE t \notin Closed
  <2> DEFINE granted == {f \in fs : claims[f] \in {t, NoTab}}
  <2>1. /\ claims' = [f \in Files |-> IF f \in granted THEN t ELSE claims[f]]
        /\ recent' = recent \union granted
    BY <1>2 DEF claimFiles
  <2>2. claims' \in [Files -> Tabs \union {NoTab}]
    BY <2>1 DEF TypeOK
  <2>3. recent' \subseteq {f \in Files : claims'[f] # NoTab}
    BY <2>1, CoordinatorAssumption DEF TypeOK
  <2>4. events' \subseteq Tabs \X {"claim", "conflict", "release"}
    <3>1. events \subseteq Tabs \X {"claim", "conflict", "release"}
      BY DEF TypeOK
    <3>2. events' \subseteq events \union {<<t, "claim">>, <<t, "conflict">>}
      BY <1>2 DEF claimFiles
    <3> QED
      BY <3>1, <3>2
  <2>5. idleTimers' \subseteq Tabs
    BY <1>2 DEF TypeOK, claimFiles
  <2> QED
    BY <2>2, <2>3, <2>4, <2>5
<1> QED
  BY <1>1, <1>2

LEMMA NextTypeOK == TypeOK /\ [Next]_vars => TypeOK'
<1> SUFFICES ASSUME TypeOK, [Next]_vars
             PROVE  TypeOK'
  OBVIOUS
<1> USE DEF TypeOK
<1>1. ASSUME NEW t \in Tabs, PromptStarts(t)
      PROVE  TypeOK'
  BY <1>1 DEF PromptStarts, markActive, claimVars, agentVars, runVars
<1>2. ASSUME NEW t \in Tabs, PromptEnds(t)
      PROVE  TypeOK'
  BY <1>2 DEF PromptEnds, markIdle, claimVars, agentVars, runVars
<1>3. ASSUME NEW t \in Tabs, PromptAborted(t)
      PROVE  TypeOK'
  BY <1>3 DEF PromptAborted, markIdle, claimVars, agentVars, runVars
<1>18. ASSUME NEW t \in Tabs, Unwind(t)
       PROVE  TypeOK'
  BY <1>18, ReleaseAllType DEF Unwind, runVars
<1>4. ASSUME NEW t \in Tabs, NEW fs \in SUBSET Files, Edit(t, fs)
      PROVE  TypeOK'
  <2>1. /\ claims' \in [Files -> Tabs \union {NoTab}]
        /\ recent' \subseteq {f \in Files : claims'[f] # NoTab}
        /\ events' \subseteq Tabs \X {"claim", "conflict", "release"}
        /\ idleTimers' \subseteq Tabs
    BY <1>4, ClaimFilesType DEF Edit
  <2> QED
    BY <1>4, <2>1 DEF Edit, agentVars, envVars
<1>5. ASSUME NEW t \in Tabs, NEW d \in Dispatches, DispatchPrepares(t, d)
      PROVE  TypeOK'
  <2>1. running' \in [Dispatches -> [by : Tabs, for : Tabs] \union {NotRunning}]
    BY <1>5 DEF DispatchPrepares
  <2>2. \A e \in counted : running'[e] # NotRunning
    BY <1>5 DEF DispatchPrepares
  <2> QED
    BY <1>5, <2>1, <2>2 DEF DispatchPrepares, claimVars, agentVars
<1>19. ASSUME NEW d \in Dispatches, DispatchStarts(d)
       PROVE  TypeOK'
  <2> DEFINE t == running[d].for
  <2>1. t \in Tabs
    BY <1>19 DEF DispatchStarts
  <2>2. agentStarted(t)
    BY <1>19 DEF DispatchStarts
  <2> HIDE DEF t
  <2>3. /\ agents' \in [Tabs -> Nat]
        /\ agedAgents' \subseteq {u \in Tabs : agents'[u] > 0}
        /\ idleTimers' \subseteq Tabs
    <3>1. CASE t \in Closed
      BY <2>2, <3>1 DEF agentStarted
    <3>2. CASE t \notin Closed
      <4>1. /\ agents' = [agents EXCEPT ![t] = @ + 1]
            /\ agedAgents' = agedAgents \ {t}
            /\ idleTimers' = idleTimers \ {t}
        BY <2>2, <3>2 DEF agentStarted
      <4> QED
        BY <2>1, <4>1
    <3> QED
      BY <3>1, <3>2
  <2>4. counted' \subseteq {e \in Dispatches : running'[e] # NotRunning}
    BY <1>19 DEF DispatchStarts
  <2> QED
    BY <1>19, <2>3, <2>4 DEF DispatchStarts, claimVars
<1>6. ASSUME NEW d \in Dispatches, DispatchEnds(d)
      PROVE  TypeOK'
  <2>1. running[d].for \in Tabs
    BY <1>6 DEF DispatchEnds
  <2>2. /\ agents' \in [Tabs -> Nat]
        /\ agedAgents' \subseteq {u \in Tabs : agents'[u] > 0}
    <3> DEFINE t == running[d].for
    <3>1. CASE t \in Closed \/ agents[t] = 0
      BY <1>6, <3>1 DEF DispatchEnds, agentFinished, agentVars
    <3>2. CASE t \notin Closed /\ agents[t] # 0
      <4>1. /\ agents' = [agents EXCEPT ![t] = @ - 1]
            /\ agedAgents' = IF agents[t] = 1 THEN agedAgents \ {t} ELSE agedAgents
        BY <1>6, <3>2 DEF DispatchEnds, agentFinished
      <4>2. t \in Tabs /\ agents[t] \in Nat \ {0}
        BY <2>1, <3>2
      <4> HIDE DEF t
      <4>3. agents' \in [Tabs -> Nat]
        BY <4>1, <4>2
      <4>4. agents[t] # 1 => agents'[t] > 0
        BY <4>1, <4>2
      <4> QED
        BY <4>1, <4>2, <4>3, <4>4
    <3> QED
      BY <3>1, <3>2
  <2>3. counted' \subseteq {e \in Dispatches : running'[e] # NotRunning}
    BY <1>6 DEF DispatchEnds
  <2> QED
    BY <1>6, <2>2, <2>3 DEF DispatchEnds, claimVars
<1>7. ASSUME NEW t \in Tabs, Show(t)
      PROVE  TypeOK'
  BY <1>7 DEF Show, claimVars, agentVars, runVars
<1>8. ASSUME NEW t \in Tabs, CloseTab(t)
      PROVE  TypeOK'
  <2>1. closedTabs' \in Seq(Tabs) /\ Len(closedTabs') <= ClosedLimit
    BY <1>8, ClosingATab DEF CloseTab
  <2>2. releaseAll(t) /\ visible' \in open' /\ open' \subseteq Tabs
    BY <1>8 DEF CloseTab, closeTab
  <2> QED
    BY <1>8, <2>1, <2>2, ReleaseAllType DEF CloseTab, runVars
<1>20. ASSUME NEW t \in Tabs, ChangeSession(t)
       PROVE  TypeOK'
  <2>1. closedTabs' \in Seq(Tabs) /\ Len(closedTabs') <= ClosedLimit
    BY <1>20, ClosingATab DEF ChangeSession
  <2>2. releaseAll(t)
    BY <1>20 DEF ChangeSession, closeTab
  <2> QED
    BY <1>20, <2>1, <2>2, ReleaseAllType DEF ChangeSession, envVars
<1>9. ASSUME NEW f \in Files, Unclaim(f)
      PROVE  TypeOK'
  <2>1. claims[f] # NoTab
    BY <1>9, CoordinatorAssumption DEF Unclaim
  <2>2. /\ claims' \in [Files -> Tabs \union {NoTab}]
        /\ recent' \subseteq {g \in Files : claims'[g] # NoTab}
        /\ events' \subseteq Tabs \X {"claim", "conflict", "release"}
    BY <1>9, <2>1, ReleaseType DEF Unclaim
  <2> QED
    BY <1>9, <2>2 DEF Unclaim, agentVars, envVars
<1>10. ASSUME UnclaimAll
       PROVE  TypeOK'
  BY <1>10, ReleaseAllType DEF UnclaimAll, envVars
<1>11. ASSUME NEW f \in Files, forceClaim(f)
       PROVE  TypeOK'
  <2>1. events' \subseteq Tabs \X {"claim", "conflict", "release"}
    BY <1>11 DEF forceClaim
  <2>2. /\ claims' \in [Files -> Tabs \union {NoTab}]
        /\ recent' \subseteq {g \in Files : claims'[g] # NoTab}
    BY <1>11, CoordinatorAssumption DEF forceClaim
  <2> QED
    BY <1>11, <2>1, <2>2 DEF forceClaim, agentVars, envVars
<1>12. ASSUME NEW t \in Tabs, IdleFires(t)
       PROVE  TypeOK'
  BY <1>12, ReleaseAllType DEF IdleFires, claimVars, agentVars, envVars
<1>13. ASSUME NEW f \in Files, ClaimAges(f)
       PROVE  TypeOK'
  BY <1>13 DEF ClaimAges, agentVars, envVars
<1>14. ASSUME NEW t \in Tabs, AgentsAge(t)
       PROVE  TypeOK'
  BY <1>14 DEF AgentsAge, claimVars, envVars
<1>15. ASSUME sweepStale
       PROVE  TypeOK'
  <2>1. /\ claims' \in [Files -> Tabs \union {NoTab}]
        /\ recent' \subseteq {f \in Files : claims'[f] # NoTab}
        /\ events' \subseteq Tabs \X {"claim", "conflict", "release"}
    BY <1>15, ReleaseType DEF sweepStale
  <2> QED
    BY <1>15, <2>1 DEF sweepStale, envVars
<1>16. ASSUME flushEvents
       PROVE  TypeOK'
  BY <1>16, ClaimsFinite DEF flushEvents, agentVars, envVars
<1>17. ASSUME UNCHANGED vars
       PROVE  TypeOK'
  BY <1>17 DEF vars
<1> QED
  BY <1>1, <1>2, <1>3, <1>4, <1>5, <1>6, <1>7, <1>8, <1>9, <1>10, <1>11, <1>12,
     <1>13, <1>14, <1>15, <1>16, <1>17, <1>18, <1>19, <1>20 DEF Next

-----------------------------------------------------------------------------
(* Closed tabs get nothing back.                                          *)

(* What a tab has: its claims, its timer and its count.                    *)
HoldsNothing(t) == ClaimsOf(t) = {} /\ t \notin idleTimers /\ agents[t] = 0

(* A release takes claims away and gives none.                             *)
LEMMA ReleaseTakes ==
  ASSUME NEW fs, Release(fs), NEW t \in Tabs
  PROVE  ClaimsOf(t)' \subseteq ClaimsOf(t)
BY CoordinatorAssumption DEF Release, ClaimsOf

LEMMA ReleaseAllHoldsNothing ==
  ASSUME TypeOK, NEW t \in Tabs, releaseAll(t), NEW u \in Tabs, u = t \/ HoldsNothing(u)
  PROVE  HoldsNothing(u)'
<1>1. ClaimsOf(u)' \subseteq ClaimsOf(u)
  BY ReleaseTakes DEF releaseAll
<1>2. ClaimsOf(t)' = {}
  BY CoordinatorAssumption DEF releaseAll, Release, ClaimsOf
<1>3. /\ t \notin idleTimers'
      /\ agents'[t] = 0
      /\ idleTimers' \subseteq idleTimers
      /\ u # t => agents'[u] = agents[u]
  BY DEF releaseAll, TypeOK
<1> QED
  BY <1>1, <1>2, <1>3 DEF HoldsNothing

(* No step gives a tab that is remembered as closed anything.              *)
LEMMA ClosedTabGetsNothing ==
  ASSUME TypeOK, [Next]_vars,
         NEW c \in Tabs, c \in Closed, HoldsNothing(c)
  PROVE  HoldsNothing(c)'
<1> USE DEF HoldsNothing
<1>0. visible \in Tabs /\ agents \in [Tabs -> Nat]
  BY DEF TypeOK
<1>1. ASSUME NEW t \in Tabs, PromptStarts(t)
      PROVE  HoldsNothing(c)'
  BY <1>1 DEF PromptStarts, markActive, claimVars, agentVars, ClaimsOf
<1>2. ASSUME NEW t \in Tabs, PromptEnds(t)
      PROVE  HoldsNothing(c)'
  BY <1>2 DEF PromptEnds, markIdle, claimVars, agentVars, ClaimsOf
<1>3. ASSUME NEW t \in Tabs, PromptAborted(t)
      PROVE  HoldsNothing(c)'
  BY <1>3 DEF PromptAborted, markIdle, claimVars, agentVars, ClaimsOf
<1>4. ASSUME NEW t \in Tabs, NEW fs \in SUBSET Files, Edit(t, fs)
      PROVE  HoldsNothing(c)'
  <2>1. CASE t \in Closed
    BY <1>4, <2>1 DEF Edit, claimFiles, agentVars, ClaimsOf
  <2>2. CASE t \notin Closed
    <3>1. \A f \in Files : claims'[f] \in {claims[f], t}
      BY <1>4, <2>2 DEF Edit, claimFiles
    <3>2. idleTimers' \subseteq idleTimers /\ agents' = agents
      BY <1>4, <2>2 DEF Edit, claimFiles, agentVars
    <3> QED
      BY <2>2, <3>1, <3>2 DEF ClaimsOf
  <2> QED
    BY <2>1, <2>2
<1>5. ASSUME NEW d \in Dispatches, DispatchStarts(d)
      PROVE  HoldsNothing(c)'
  <2>1. claims' = claims
    BY <1>5 DEF DispatchStarts, claimVars
  <2>2. idleTimers' \subseteq idleTimers /\ agents'[c] = agents[c]
    BY <1>0, <1>5 DEF DispatchStarts, agentStarted
  <2> QED
    BY <2>1, <2>2 DEF ClaimsOf
<1>6. ASSUME NEW d \in Dispatches, DispatchEnds(d)
      PROVE  HoldsNothing(c)'
  <2>1. claims' = claims /\ idleTimers' = idleTimers
    BY <1>6 DEF DispatchEnds, claimVars
  <2>2. agents'[c] = agents[c]
    BY <1>0, <1>6 DEF DispatchEnds, agentFinished, agentVars
  <2> QED
    BY <2>1, <2>2 DEF ClaimsOf
<1>7. ASSUME NEW t \in Tabs, releaseAll(t)
      PROVE  HoldsNothing(c)'
  BY <1>7, ReleaseAllHoldsNothing
<1>8. ASSUME NEW f \in Files, Unclaim(f)
      PROVE  HoldsNothing(c)'
  <2>1. ClaimsOf(c)' \subseteq ClaimsOf(c)
    BY <1>8, ReleaseTakes DEF Unclaim
  <2> QED
    BY <1>8, <2>1 DEF Unclaim, agentVars
<1>9. ASSUME NEW f \in Files, forceClaim(f)
      PROVE  HoldsNothing(c)'
  <2>1. \A g \in Files : claims'[g] \in {claims[g], visible}
    BY <1>9 DEF forceClaim, TypeOK
  <2>2. visible # c
    BY <1>9 DEF forceClaim
  <2> QED
    BY <1>0, <1>9, <2>1, <2>2 DEF forceClaim, agentVars, ClaimsOf
<1>10. ASSUME NEW t \in Tabs, IdleFires(t)
       PROVE  HoldsNothing(c)'
  <2>1. CASE agents[t] > 0
    BY <1>10, <2>1 DEF IdleFires, claimVars, agentVars, ClaimsOf
  <2>2. CASE ~(agents[t] > 0)
    BY <1>7, <1>10, <2>2 DEF IdleFires
  <2> QED
    BY <2>1, <2>2
<1>11. ASSUME sweepStale
       PROVE  HoldsNothing(c)'
  <2>1. ClaimsOf(c)' \subseteq ClaimsOf(c)
    BY <1>11, ReleaseTakes DEF sweepStale
  <2>2. agents'[c] = 0 /\ idleTimers' = idleTimers
    BY <1>11 DEF sweepStale
  <2> QED
    BY <2>1, <2>2
<1>12. CASE UNCHANGED <<claims, idleTimers, agents>>
  BY <1>12 DEF ClaimsOf
<1>13. \/ UNCHANGED <<claims, idleTimers, agents>>
       \/ \E t \in Tabs :
            \/ PromptStarts(t) \/ PromptEnds(t) \/ PromptAborted(t)
            \/ \E fs \in SUBSET Files : Edit(t, fs)
            \/ releaseAll(t) \/ IdleFires(t)
       \/ \E d \in Dispatches : DispatchStarts(d) \/ DispatchEnds(d)
       \/ \E f \in Files : Unclaim(f) \/ forceClaim(f)
       \/ sweepStale
  BY <1>0 DEF Next, Unwind, DispatchPrepares, Show, CloseTab, ChangeSession, closeTab,
              UnclaimAll, ClaimAges, AgentsAge, flushEvents, claimVars, agentVars,
              envVars, vars
<1> QED
  BY <1>1, <1>2, <1>3, <1>4, <1>5, <1>6, <1>7, <1>8, <1>9, <1>10, <1>11, <1>12, <1>13

LEMMA NextClosedTabsHoldNothing ==
  TypeOK /\ ClosedTabsHoldNothing /\ [Next]_vars => ClosedTabsHoldNothing'
<1> SUFFICES ASSUME TypeOK, ClosedTabsHoldNothing, [Next]_vars,
                    NEW c \in Closed'
             PROVE  HoldsNothing(c)'
  BY DEF ClosedTabsHoldNothing, HoldsNothing
<1>1. Closed \subseteq Tabs /\ \A u \in Closed : HoldsNothing(u)
  BY DEF Closed, ClosedTabsHoldNothing, HoldsNothing, TypeOK
<1>2. CASE UNCHANGED closedTabs
  <2>1. c \in Closed
    BY <1>2 DEF Closed
  <2> QED
    BY <1>1, <2>1, ClosedTabGetsNothing
<1>3. ASSUME NEW t \in Tabs, closeTab(t)
      PROVE  HoldsNothing(c)'
  <2>1. c \in Closed \union {t} /\ releaseAll(t)
    BY <1>3, ClosingATab DEF closeTab
  <2> QED
    BY <1>1, <2>1, ReleaseAllHoldsNothing
<1>4. UNCHANGED closedTabs \/ \E t \in Tabs : closeTab(t)
  BY DEF Next, PromptStarts, PromptEnds, PromptAborted, Unwind, Edit, DispatchPrepares,
         DispatchStarts, DispatchEnds, Show, CloseTab, ChangeSession, Unclaim, UnclaimAll, forceClaim, IdleFires, ClaimAges,
         AgentsAge, sweepStale, flushEvents, vars
<1> QED
  BY <1>2, <1>3, <1>4

-----------------------------------------------------------------------------
(* Idle timers.                                                            *)

(* What the coordinator knows of a tab at rest.                            *)
AtRest(u) == u \notin prompting /\ agents[u] = 0

LEMMA NextIdleTimer ==
  TypeOK /\ ClosedTabsHoldNothing /\ IdleTimerOnlyWhenIdle /\ [Next]_vars => IdleTimerOnlyWhenIdle'
<1> SUFFICES ASSUME TypeOK, ClosedTabsHoldNothing, IdleTimerOnlyWhenIdle, [Next]_vars,
                    NEW u \in idleTimers'
             PROVE  AtRest(u)'
  BY DEF IdleTimerOnlyWhenIdle, AtRest
<1> USE DEF AtRest
<1>0. /\ agents \in [Tabs -> Nat]
      /\ visible \in Tabs
      /\ u \in idleTimers => AtRest(u) /\ u \in Tabs
  BY DEF TypeOK, IdleTimerOnlyWhenIdle
<1>1. ASSUME NEW t \in Tabs, PromptStarts(t)
      PROVE  AtRest(u)'
  <2>1. idleTimers' = idleTimers \ {t} /\ agents' = agents
    BY <1>1 DEF PromptStarts, markActive, agentVars, ClosedTabsHoldNothing
  <2> QED
    BY <1>0, <1>1, <2>1 DEF PromptStarts
<1>2. ASSUME NEW t \in Tabs, PromptEnds(t)
      PROVE  AtRest(u)'
  BY <1>0, <1>2 DEF PromptEnds, markIdle, agentVars
<1>3. ASSUME NEW t \in Tabs, PromptAborted(t)
      PROVE  AtRest(u)'
  BY <1>0, <1>3 DEF PromptAborted, markIdle, agentVars
<1>4. ASSUME NEW t \in Tabs, NEW fs \in SUBSET Files, Edit(t, fs)
      PROVE  AtRest(u)'
  BY <1>0, <1>4 DEF Edit, claimFiles, agentVars, envVars
<1>5. ASSUME NEW d \in Dispatches, DispatchStarts(d)
      PROVE  AtRest(u)'
  <2>1. u \in idleTimers /\ prompting' = prompting
    BY <1>5 DEF DispatchStarts, agentStarted
  <2>2. agents'[u] = agents[u]
    BY <1>0, <1>5, <2>1 DEF DispatchStarts, agentStarted
  <2> QED
    BY <1>0, <2>1, <2>2
<1>6. ASSUME NEW d \in Dispatches, DispatchEnds(d)
      PROVE  AtRest(u)'
  <2>1. u \in idleTimers /\ prompting' = prompting
    BY <1>6 DEF DispatchEnds
  <2>2. agents'[u] = 0
    BY <1>0, <1>6, <2>1 DEF DispatchEnds, agentFinished, agentVars
  <2> QED
    BY <1>0, <2>1, <2>2
<1>7. ASSUME NEW t \in Tabs, releaseAll(t), prompting' = prompting
      PROVE  AtRest(u)'
  BY <1>0, <1>7 DEF releaseAll
<1>8. ASSUME NEW t \in Tabs, IdleFires(t)
      PROVE  AtRest(u)'
  <2>1. CASE agents[t] > 0
    BY <1>0, <1>8, <2>1 DEF IdleFires, agentVars, envVars
  <2>2. CASE ~(agents[t] > 0)
    BY <1>7, <1>8, <2>2 DEF IdleFires, envVars
  <2> QED
    BY <2>1, <2>2
<1>9. ASSUME sweepStale
      PROVE  AtRest(u)'
  BY <1>0, <1>9 DEF sweepStale, envVars
<1>10. CASE UNCHANGED <<idleTimers, prompting, agents>>
  BY <1>0, <1>10
<1>11. \/ UNCHANGED <<idleTimers, prompting, agents>>
       \/ \E t \in Tabs :
            \/ PromptStarts(t) \/ PromptEnds(t) \/ PromptAborted(t)
            \/ \E fs \in SUBSET Files : Edit(t, fs)
            \/ (releaseAll(t) /\ prompting' = prompting)
            \/ IdleFires(t)
       \/ \E d \in Dispatches : DispatchStarts(d) \/ DispatchEnds(d)
       \/ sweepStale
  BY <1>0 DEF Next, Unwind, DispatchPrepares, Show, CloseTab, ChangeSession, closeTab,
              Unclaim, UnclaimAll, forceClaim, ClaimAges, AgentsAge, flushEvents,
              agentVars, envVars, vars
<1> QED
  BY <1>1, <1>2, <1>3, <1>4, <1>5, <1>6, <1>7, <1>8, <1>9, <1>10, <1>11

-----------------------------------------------------------------------------
(* Counts of dispatches.                                                   *)

(* While no dispatch starts or ends, a count is kept or cleared.           *)
LEMMA CountsKeptOrCleared ==
  ASSUME TypeOK, Next
  PROVE  \/ \A t \in Tabs : agents'[t] \in {agents[t], 0}
         \/ \E d \in Dispatches : DispatchStarts(d) \/ DispatchEnds(d)
<1>1. ASSUME NEW t \in Tabs, releaseAll(t)
      PROVE  \A u \in Tabs : agents'[u] \in {agents[u], 0}
  BY <1>1 DEF releaseAll, TypeOK
<1>2. ASSUME sweepStale
      PROVE  \A u \in Tabs : agents'[u] \in {agents[u], 0}
  BY <1>2 DEF sweepStale
<1>3. \/ agents' = agents
      \/ \E t \in Tabs : releaseAll(t)
      \/ sweepStale
      \/ \E d \in Dispatches : DispatchStarts(d) \/ DispatchEnds(d)
  BY DEF Next, PromptStarts, PromptEnds, PromptAborted, Unwind, Edit, DispatchPrepares,
         Show, CloseTab, ChangeSession, closeTab, Unclaim, UnclaimAll, forceClaim,
         IdleFires, ClaimAges, AgentsAge, flushEvents, agentVars, TypeOK
<1> QED
  BY <1>1, <1>2, <1>3

(* Whom the counted dispatches count for changes with them only.           *)
LEMMA CountedKept ==
  ASSUME TypeOK, [Next]_vars, NEW u \in Tabs
  PROVE  \/ Counted(u)' = Counted(u)
         \/ \E d \in Dispatches : DispatchStarts(d) \/ DispatchEnds(d)
<1>1. ASSUME NEW t \in Tabs, NEW d \in Dispatches, DispatchPrepares(t, d)
      PROVE  Counted(u)' = Counted(u)
  <2>1. counted' = counted /\ d \notin counted
    BY <1>1 DEF DispatchPrepares, TypeOK
  <2>2. \A e \in counted : running'[e] = running[e]
    BY <1>1, <2>1 DEF DispatchPrepares, TypeOK
  <2> QED
    BY <2>1, <2>2 DEF Counted
<1>2. CASE UNCHANGED runVars
  BY <1>2 DEF runVars, Counted
<1>3. \/ UNCHANGED runVars
      \/ \E t \in Tabs, d \in Dispatches : DispatchPrepares(t, d)
      \/ \E d \in Dispatches : DispatchStarts(d) \/ DispatchEnds(d)
  BY DEF Next, PromptStarts, PromptEnds, PromptAborted, Unwind, Edit, Show, CloseTab,
         ChangeSession, Unclaim, UnclaimAll, forceClaim, IdleFires, ClaimAges,
         AgentsAge, sweepStale, flushEvents, runVars, envVars, vars
<1> QED
  BY <1>1, <1>2, <1>3

LEMMA NextGate ==
  TypeOK /\ ClosedTabsHoldNothing /\ GateNeverSticks /\ [Next]_vars => GateNeverSticks'
<1> SUFFICES ASSUME TypeOK, ClosedTabsHoldNothing, GateNeverSticks, [Next]_vars, NEW u \in Tabs
             PROVE  agents'[u] <= Cardinality(Counted(u)')
  BY DEF GateNeverSticks
<1>0. /\ agents \in [Tabs -> Nat]
      /\ visible \in Tabs
      /\ agents[u] <= Cardinality(Counted(u))
      /\ IsFiniteSet(Counted(u))
      /\ Cardinality(Counted(u)) \in Nat
      /\ running \in [Dispatches -> [by : Tabs, for : Tabs] \union {NotRunning}]
      /\ NoTab \notin Tabs
  BY CountedFinite, CoordinatorAssumption DEF TypeOK, GateNeverSticks
<1>1. ASSUME NEW d \in Dispatches, DispatchStarts(d)
      PROVE  agents'[u] <= Cardinality(Counted(u)')
  <2>0. d \notin counted /\ counted' = counted \union {d} /\ running' = running
    BY <1>1 DEF DispatchStarts
  <2>1. CASE u = running[d].for
    <3>1. d \notin Counted(u) /\ Counted(u)' = Counted(u) \union {d}
      BY <2>0, <2>1 DEF Counted
    <3>2. Cardinality(Counted(u)') = Cardinality(Counted(u)) + 1
      BY <1>0, <3>1, FS_AddElement
    <3>3. agents'[u] <= agents[u] + 1
      BY <1>0, <1>1, <2>1 DEF DispatchStarts, agentStarted
    <3>4. agents'[u] \in Nat
      BY <1>0, <1>1, <2>1 DEF DispatchStarts, agentStarted
    <3> QED
      BY <1>0, <3>2, <3>3, <3>4
  <2>2. CASE u # running[d].for
    <3>1. Counted(u)' = Counted(u)
      BY <2>0, <2>2 DEF Counted
    <3>2. agents'[u] = agents[u]
      BY <1>0, <1>1, <2>2 DEF DispatchStarts, agentStarted
    <3> QED
      BY <1>0, <3>1, <3>2
  <2> QED
    BY <2>1, <2>2
<1>2. ASSUME NEW d \in Dispatches, DispatchEnds(d)
      PROVE  agents'[u] <= Cardinality(Counted(u)')
  <2>0. /\ d \in counted /\ counted' = counted \ {d}
        /\ \A e \in counted' : running'[e] = running[e]
    BY <1>2 DEF DispatchEnds, TypeOK
  <2>1. CASE u = running[d].for
    <3>1. d \in Counted(u) /\ Counted(u)' = Counted(u) \ {d}
      BY <1>0, <2>0, <2>1 DEF Counted
    <3>2. Cardinality(Counted(u)') = Cardinality(Counted(u)) - 1
      BY <1>0, <3>1, FS_RemoveElement
    <3>3. Cardinality(Counted(u)') \in Nat
      BY <1>0, <3>1, FS_RemoveElement, FS_CardinalityType
    <3>4. CASE u \in Closed \/ agents[u] = 0
      <4>1. agents'[u] = 0
        BY <1>2, <2>1, <3>4 DEF DispatchEnds, agentFinished, agentVars, ClosedTabsHoldNothing
      <4> QED
        BY <3>3, <4>1
    <3>5. CASE u \notin Closed /\ agents[u] # 0
      <4>1. agents'[u] = agents[u] - 1
        BY <1>0, <1>2, <2>1, <3>5 DEF DispatchEnds, agentFinished
      <4> QED
        BY <1>0, <3>2, <4>1
    <3> QED
      BY <3>4, <3>5
  <2>2. CASE u # running[d].for
    <3>1. Counted(u)' = Counted(u)
      BY <1>0, <2>0, <2>2 DEF Counted
    <3>2. agents'[u] = agents[u]
      BY <1>0, <1>2, <2>2 DEF DispatchEnds, agentFinished, agentVars
    <3> QED
      BY <1>0, <3>1, <3>2
  <2> QED
    BY <2>1, <2>2
<1>3. CASE Counted(u)' = Counted(u) /\ agents'[u] \in {agents[u], 0}
  BY <1>0, <1>3
<1>4. CASE UNCHANGED vars
  BY <1>0, <1>4 DEF vars, Counted
<1> QED
  BY <1>1, <1>2, <1>3, <1>4, CountsKeptOrCleared, CountedKept

-----------------------------------------------------------------------------
(* The tab bar.                                                            *)

Due(t) ==
  \/ shown[t] = Cardinality(ClaimsOf(t))
  \/ \E e \in events : e[1] = t \/ e[2] = "release"

LEMMA DueWhenNothingChanges ==
  ASSUME NEW t, Due(t), ClaimsOf(t)' = ClaimsOf(t), shown' = shown, events \subseteq events'
  PROVE  Due(t)'
BY DEF Due

LEMMA DueAfterRelease ==
  ASSUME TypeOK, NEW fs \in SUBSET Files, Release(fs), shown' = shown, NEW t, Due(t)
  PROVE  Due(t)'
<1>1. CASE fs = {}
  <2>1. claims' = claims /\ events' = events
    BY <1>1 DEF Release, TypeOK
  <2> QED
    BY <2>1, DueWhenNothingChanges DEF ClaimsOf
<1>2. CASE fs # {}
  <2>1. PICK f \in fs : TRUE
    BY <1>2
  <2>2. <<claims[f], "release">> \in events'
    BY <2>1 DEF Release
  <2> QED
    BY <2>2 DEF Due
<1> QED
  BY <1>1, <1>2

(* A tab that claims free files, or its own, takes them from nobody.       *)
LEMMA DueAfterClaim ==
  ASSUME TypeOK, NEW t \in Tabs, NEW fs \in SUBSET Files, claimFiles(t, fs), shown' = shown,
         NEW u \in Tabs, Due(u)
  PROVE  Due(u)'
<1> DEFINE granted == {f \in fs : claims[f] \in {t, NoTab}}
<1>1. CASE t \in Closed \/ granted = {}
  <2>1. claims' = claims /\ events \subseteq events'
    BY <1>1 DEF claimFiles, TypeOK
  <2> QED
    BY <2>1, DueWhenNothingChanges DEF ClaimsOf
<1>2. CASE t \notin Closed /\ granted # {}
  <2>1. /\ claims' = [f \in Files |-> IF f \in granted THEN t ELSE claims[f]]
        /\ events \subseteq events' /\ <<t, "claim">> \in events'
    BY <1>2 DEF claimFiles
  <2>2. CASE u = t
    BY <2>1, <2>2 DEF Due
  <2>3. CASE u # t
    <3>1. ClaimsOf(u)' = ClaimsOf(u)
      <4>1. \A f \in granted : claims[f] \in {t, NoTab}
        OBVIOUS
      <4> HIDE DEF granted
      <4> QED
        BY <2>1, <2>3, <4>1, CoordinatorAssumption DEF ClaimsOf
    <3> QED
      BY <2>1, <3>1, DueWhenNothingChanges
  <2> QED
    BY <2>2, <2>3
<1> QED
  BY <1>1, <1>2

LEMMA NextRecountDue ==
  TypeOK /\ RecountDue /\ [Next]_vars => RecountDue'
<1> SUFFICES ASSUME TypeOK, RecountDue, [Next]_vars, NEW u \in open'
             PROVE  Due(u)'
  BY DEF RecountDue, Due
<1>0. Due(u) /\ u \in Tabs
  <2>1. open' \subseteq open
    BY DEF Next, PromptStarts, PromptEnds, PromptAborted, Unwind, Edit, DispatchPrepares,
           DispatchStarts, DispatchEnds, Show, CloseTab, ChangeSession, Unclaim,
           UnclaimAll, forceClaim, IdleFires, ClaimAges, AgentsAge, sweepStale,
           flushEvents, envVars, vars
  <2> QED
    BY <2>1 DEF RecountDue, Due, TypeOK
<1>1. ASSUME NEW fs \in SUBSET Files, Release(fs), shown' = shown
      PROVE  Due(u)'
  BY <1>0, <1>1, DueAfterRelease
<1>2. ASSUME NEW t \in Tabs, NEW fs \in SUBSET Files, claimFiles(t, fs), shown' = shown
      PROVE  Due(u)'
  BY <1>0, <1>2, DueAfterClaim
<1>3. ASSUME NEW f \in Files, forceClaim(f)
      PROVE  Due(u)'
  <2>0. /\ visible \in Tabs
        /\ claims' = [g \in Files |-> IF g \in {f} THEN visible ELSE claims[g]]
        /\ shown' = shown
        /\ events \subseteq events'
        /\ <<visible, "claim">> \in events'
    BY <1>3 DEF forceClaim, TypeOK
  <2>1. CASE claims[f] \notin {NoTab, visible}
    <3>1. <<claims[f], "release">> \in events'
      BY <1>3, <2>1 DEF forceClaim
    <3> QED
      BY <3>1 DEF Due
  <2>2. CASE u = visible
    BY <2>0, <2>2 DEF Due
  <2>3. CASE claims[f] \in {NoTab, visible} /\ u # visible
    <3>1. ClaimsOf(u)' = ClaimsOf(u)
      BY <1>0, <2>0, <2>3, CoordinatorAssumption DEF ClaimsOf
    <3> QED
      BY <1>0, <2>0, <3>1, DueWhenNothingChanges
  <2> QED
    BY <2>1, <2>2, <2>3
<1>4. ASSUME flushEvents
      PROVE  Due(u)'
  <2>1. ClaimsOf(u)' = ClaimsOf(u)
    BY <1>4 DEF flushEvents, ClaimsOf
  <2>2. CASE \E e \in events : e[1] = u \/ e[2] = "release"
    <3>1. shown'[u] = Cardinality(ClaimsOf(u))
      BY <1>0, <1>4, <2>2 DEF flushEvents
    <3> QED
      BY <2>1, <3>1 DEF Due
  <2>3. CASE ~ \E e \in events : e[1] = u \/ e[2] = "release"
    <3>1. shown[u] = Cardinality(ClaimsOf(u))
      BY <1>0, <2>3 DEF Due
    <3>2. shown'[u] = shown[u]
      BY <1>0, <1>4, <2>3 DEF flushEvents
    <3> QED
      BY <2>1, <3>1, <3>2 DEF Due
  <2> QED
    BY <2>2, <2>3
<1>5. CASE UNCHANGED <<claims, events, shown>>
  BY <1>0, <1>5, DueWhenNothingChanges DEF ClaimsOf
<1>6. \A t : ClaimsOf(t) \in SUBSET Files
  BY DEF ClaimsOf
<1>7. \/ UNCHANGED <<claims, events, shown>>
      \/ \E fs \in SUBSET Files : Release(fs) /\ shown' = shown
      \/ \E t \in Tabs, fs \in SUBSET Files : claimFiles(t, fs) /\ shown' = shown
      \/ \E f \in Files : forceClaim(f)
      \/ flushEvents
  BY <1>6 DEF Next, PromptStarts, PromptEnds, PromptAborted, Unwind, Edit,
         DispatchPrepares, DispatchStarts, DispatchEnds, Show, CloseTab, ChangeSession,
         closeTab, Unclaim, UnclaimAll, IdleFires, ClaimAges,
         AgentsAge, sweepStale, releaseAll, claimVars, vars
<1> QED
  BY <1>1, <1>2, <1>3, <1>4, <1>5, <1>7

-----------------------------------------------------------------------------
(* The theorems.                                                           *)

(* The coordinator's inductive invariant.                                  *)
THEOREM Invariance == Spec => []IInv
<1>1. IInv /\ [Next]_vars => IInv'
  BY NextTypeOK, NextClosedTabsHoldNothing, NextIdleTimer, NextGate,
     NextRecountDue DEF IInv
<1> QED
  BY <1>1, InitIInv, PTL DEF Spec

(* The coordinator's maps, timers and counts keep their types: no count of *)
(* dispatches goes below zero, however it was cleared while they ran.      *)
THEOREM TypeCorrect == Spec => []TypeOK
<1>1. IInv => TypeOK
  BY DEF IInv
<1> QED
  BY <1>1, Invariance, PTL

(* A tab remembered as closed holds no claim, timer or count, whatever of  *)
(* it is still running (closeTab, claimFiles, agentStarted, markIdle).     *)
THEOREM ClosedTabsStayEmpty == Spec => []ClosedTabsHoldNothing
<1>1. IInv => ClosedTabsHoldNothing
  BY DEF IInv
<1> QED
  BY <1>1, Invariance, PTL

(* The idle release cannot hit a tab that prompts or is counted as having  *)
(* agents (markIdle, markActive, agentStarted, agentFinished).             *)
THEOREM IdleTimersOnlyAtRest == Spec => []IdleTimerOnlyWhenIdle
<1>1. IInv => IdleTimerOnlyWhenIdle
  BY DEF IInv
<1> QED
  BY <1>1, Invariance, PTL

(* A count never exceeds the running dispatches counted for its tab, for   *)
(* any number of dispatches and any aborts and sweeps (agentFinished,      *)
(* releaseAll, sweepStale).                                                *)
THEOREM GateReleased == Spec => []GateNeverSticks
<1>1. IInv => GateNeverSticks
  BY DEF IInv
<1> QED
  BY <1>1, Invariance, PTL

(* Once events are flushed the tab bar shows the true number of claims     *)
(* (scheduleEvent, flushEvents, and the listener of the tab bar).          *)
THEOREM CountsShown == Spec => []ShownCountCurrent
<1>1. IInv => ShownCountCurrent
  BY DEF IInv, RecountDue, ShownCountCurrent
<1> QED
  BY <1>1, Invariance, PTL
=============================================================================
