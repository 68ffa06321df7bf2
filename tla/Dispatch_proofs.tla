-------------------------- MODULE Dispatch_proofs --------------------------
(***************************************************************************)
(* Safety of the dispatch scheduler for any number of tasks, any           *)
(* dependency relation (cyclic ones included), any pool size and any       *)
(* mixture of provider failures, cancels, aborts and expired waits; and    *)
(* that the scheduler implements AgentPool.                                *)
(***************************************************************************)
EXTENDS Dispatch, FiniteSetTheorems, TLAPS

HolderPCs == {"holding", "ready", "generating", "focusing", "leaving"}

(* The slot queue holds each queued task once.                             *)
QueueSync ==
  /\ \A a \in Agents : pc[a] = "queued" <=> \E i \in 1 .. Len(slotQueue) : slotQueue[i] = a
  /\ \A i, j \in 1 .. Len(slotQueue) : slotQueue[i] = slotQueue[j] => i = j

SlotTypes ==
  /\ pc \in [Agents -> PCs]
  /\ inflight \in Nat
  /\ slotQueue \in Seq(Agents)

(* What the concurrency slots keep by themselves.                          *)
SlotInv == SlotTypes /\ SlotAccounting /\ QueueSync /\ NoLostWakeup

-----------------------------------------------------------------------------
(* Facts about finite sets of tasks and about the queue.                   *)

LEMMA AgentsFinite ==
  ASSUME NEW S \in SUBSET Agents
  PROVE  IsFiniteSet(S) /\ Cardinality(S) \in Nat
<1>1. IsFiniteSet(Agents)
  BY ConstantsAssumption, FS_Interval DEF Agents
<1>2. IsFiniteSet(S)
  BY <1>1, FS_Subset
<1> QED
  BY <1>2, FS_CardinalityType

LEMMA AddOne ==
  ASSUME NEW S \in SUBSET Agents, NEW a \in Agents, a \notin S
  PROVE  Cardinality(S \union {a}) = Cardinality(S) + 1
  BY AgentsFinite, FS_AddElement

LEMMA RemoveOne ==
  ASSUME NEW S \in SUBSET Agents, NEW a \in S
  PROVE  Cardinality(S \ {a}) = Cardinality(S) - 1
  BY AgentsFinite, FS_RemoveElement

LEMMA TailFacts ==
  ASSUME NEW q \in Seq(Agents), q # <<>>
  PROVE  /\ Head(q) \in Agents /\ Head(q) = q[1]
         /\ Len(q) \in Nat /\ Len(q) >= 1
         /\ Tail(q) \in Seq(Agents)
         /\ Len(Tail(q)) = Len(q) - 1
         /\ \A i \in 1 .. Len(q) - 1 : Tail(q)[i] = q[i + 1]
  OBVIOUS

LEMMA AppendFacts ==
  ASSUME NEW q \in Seq(Agents), NEW a \in Agents
  PROVE  /\ Append(q, a) \in Seq(Agents)
         /\ Append(q, a) # <<>>
         /\ Len(q) \in Nat
         /\ Len(Append(q, a)) = Len(q) + 1
         /\ \A i \in 1 .. Len(q) : Append(q, a)[i] = q[i]
         /\ Append(q, a)[Len(q) + 1] = a
  OBVIOUS

-----------------------------------------------------------------------------
(* Steps and the slots.                                                    *)

(* A task that moves on inside its slot changes nothing for the others.    *)
LEMMA MoveInsideSlot ==
  ASSUME SlotInv, NEW a \in Holders, NEW to \in HolderPCs,
         pc' = [pc EXCEPT ![a] = to], UNCHANGED slotVars
  PROVE  SlotInv'
<1>1. a \in Agents /\ pc[a] \in HolderPCs
  BY DEF Holders, HolderPCs
<1>2. Holders' = Holders
  BY <1>1 DEF SlotInv, SlotTypes, Holders, HolderPCs
<1>3. Woken' = Woken
  BY <1>1 DEF SlotInv, SlotTypes, Woken, HolderPCs
<1>4. SlotTypes'
  BY <1>1 DEF SlotInv, SlotTypes, slotVars, PCs, HolderPCs
<1>5. QueueSync'
  BY <1>1 DEF SlotInv, SlotTypes, QueueSync, slotVars, HolderPCs
<1> QED
  BY <1>2, <1>3, <1>4, <1>5 DEF SlotInv, SlotAccounting, NoLostWakeup, slotVars

LEMMA SlotsUntouched ==
  ASSUME SlotInv, pc' = pc, UNCHANGED slotVars
  PROVE  SlotInv'
  BY DEF SlotInv, SlotTypes, SlotAccounting, QueueSync, NoLostWakeup, Holders, Woken, slotVars

(* A task that asks for a slot, newly or again after it was woken.         *)
LEMMA TrySlotKeepsSlots ==
  ASSUME SlotInv, NEW a \in Agents, pc[a] \in {"staggered", "awaiting", "woken"}, TrySlot(a)
  PROVE  SlotInv'
<1>1. CASE inflight < MaxConcurrent /\ EnterRun(a) /\ UNCHANGED slotQueue
  <2> DEFINE to == IF deps[a] = {} THEN "ready" ELSE "holding"
  <2>1. /\ inflight' = inflight + 1 /\ slotQueue' = slotQueue
        /\ pc' = [pc EXCEPT ![a] = to] /\ to \in HolderPCs
    BY <1>1 DEF EnterRun, HolderPCs
  <2>2. SlotTypes'
    BY <2>1 DEF SlotInv, SlotTypes, PCs, HolderPCs
  <2>3. Holders' = Holders \union {a} /\ a \notin Holders
    BY <2>1 DEF SlotInv, SlotTypes, Holders, HolderPCs
  <2>4. SlotAccounting'
    <3>1. Cardinality(Holders') = Cardinality(Holders) + 1
      BY <2>3, AddOne DEF Holders
    <3> QED
      BY <3>1, <2>1, <1>1, ConstantsAssumption DEF SlotInv, SlotTypes, SlotAccounting
  <2>5. QueueSync'
    BY <2>1 DEF SlotInv, SlotTypes, QueueSync, HolderPCs
  <2>6. NoLostWakeup'
    <3>1. CASE pc[a] = "woken"
      <4>1. a \in Woken /\ Woken' = Woken \ {a}
        BY <3>1, <2>1 DEF SlotInv, SlotTypes, Woken, HolderPCs
      <4>2. Cardinality(Woken') = Cardinality(Woken) - 1 /\ Cardinality(Woken) \in Nat
        BY <4>1, RemoveOne, AgentsFinite DEF Woken
      <4> QED
        BY <4>2, <2>1, ConstantsAssumption DEF SlotInv, SlotTypes, NoLostWakeup
    <3>2. CASE pc[a] # "woken"
      <4>1. Woken' = Woken
        BY <3>2, <2>1 DEF SlotInv, SlotTypes, Woken, HolderPCs
      <4>2. Cardinality(Woken) \in Nat
        BY AgentsFinite DEF Woken
      <4> QED
        BY <4>1, <4>2, <2>1, ConstantsAssumption DEF SlotInv, SlotTypes, NoLostWakeup
    <3> QED
      BY <3>1, <3>2
  <2> QED
    BY <2>2, <2>4, <2>5, <2>6 DEF SlotInv
<1>2. CASE /\ inflight >= MaxConcurrent
           /\ slotQueue' = Append(slotQueue, a)
           /\ pc' = [pc EXCEPT ![a] = "queued"]
           /\ inflight' = inflight
  <2>1. /\ slotQueue' \in Seq(Agents) /\ Len(slotQueue) \in Nat
        /\ Len(slotQueue') = Len(slotQueue) + 1 /\ slotQueue'[Len(slotQueue) + 1] = a
        /\ \A i \in 1 .. Len(slotQueue) : slotQueue'[i] = slotQueue[i]
    BY <1>2, AppendFacts DEF SlotInv, SlotTypes
  <2>2. SlotTypes'
    BY <1>2, <2>1 DEF SlotInv, SlotTypes, PCs
  <2>3. Holders' = Holders
    BY <1>2 DEF SlotInv, SlotTypes, Holders
  <2>4. SlotAccounting'
    BY <2>3, <1>2 DEF SlotInv, SlotAccounting
  <2>5. QueueSync'
    <3>1. \A i \in 1 .. Len(slotQueue) : slotQueue[i] # a
      BY DEF SlotInv, QueueSync
    <3>2. ASSUME NEW d \in Agents
          PROVE  pc'[d] = "queued" <=> \E i \in 1 .. Len(slotQueue') : slotQueue'[i] = d
      <4>1. CASE d = a
        BY <4>1, <1>2, <2>1 DEF SlotInv, SlotTypes
      <4>2. CASE d # a
        <5>1. pc'[d] = pc[d]
          BY <4>2, <1>2 DEF SlotInv, SlotTypes
        <5>2. (\E i \in 1 .. Len(slotQueue) : slotQueue[i] = d)
                <=> \E i \in 1 .. Len(slotQueue') : slotQueue'[i] = d
          BY <4>2, <2>1
        <5> QED
          BY <5>1, <5>2 DEF SlotInv, QueueSync
      <4> QED
        BY <4>1, <4>2
    <3>3. \A i, j \in 1 .. Len(slotQueue') : slotQueue'[i] = slotQueue'[j] => i = j
      BY <3>1, <2>1 DEF SlotInv, QueueSync
    <3> QED
      BY <3>2, <3>3 DEF QueueSync
  <2>6. NoLostWakeup'
    <3>1. Cardinality(Woken') \in Nat
      BY AgentsFinite, <2>2 DEF Woken
    <3> QED
      BY <3>1, <1>2, ConstantsAssumption DEF SlotInv, SlotTypes, NoLostWakeup
  <2> QED
    BY <2>2, <2>4, <2>5, <2>6 DEF SlotInv
<1> QED
  BY <1>1, <1>2 DEF TrySlot

(* A task that gives its slot back.                                        *)
LEMMA ReleaseKeepsSlots ==
  ASSUME SlotInv, NEW a \in Holders, NEW to \in {"returned", "threw"}, ReleaseSlot(a, to)
  PROVE  /\ SlotInv'
         /\ \A d \in Agents \ {a} : \/ pc'[d] = pc[d]
                                    \/ pc[d] = "queued" /\ pc'[d] = "woken"
         /\ pc'[a] = to
<1>1. a \in Agents /\ pc[a] \in HolderPCs
  BY DEF Holders, HolderPCs
<1>2. Cardinality(Holders \ {a}) = Cardinality(Holders) - 1 /\ Cardinality(Holders) \in Nat
  BY RemoveOne, AgentsFinite DEF Holders
<1>3. CASE slotQueue = <<>>
  <2>1. /\ inflight' = inflight - 1 /\ pc' = [pc EXCEPT ![a] = to]
        /\ slotQueue' = slotQueue
    BY <1>3 DEF ReleaseSlot
  <2>2. Holders' = Holders \ {a}
    BY <2>1, <1>1 DEF SlotInv, SlotTypes, Holders, HolderPCs
  <2>3. SlotTypes' /\ SlotAccounting'
    <3>1. inflight' = Cardinality(Holders') /\ inflight' \in Nat
      BY <2>1, <2>2, <1>2, AgentsFinite DEF SlotInv, SlotAccounting, Holders
    <3> QED
      BY <3>1, <2>1, <1>1, ConstantsAssumption DEF SlotInv, SlotTypes, SlotAccounting, PCs
  <2>4. QueueSync'
    BY <2>1, <1>1 DEF SlotInv, SlotTypes, QueueSync, HolderPCs
  <2> QED
    BY <1>1, <1>3, <2>1, <2>3, <2>4 DEF SlotInv, SlotTypes, NoLostWakeup
<1>4. CASE slotQueue # <<>>
  <2> DEFINE h == Head(slotQueue)
  <2>1. /\ inflight' = inflight - 1 /\ pc' = [pc EXCEPT ![a] = to, ![h] = "woken"]
        /\ slotQueue' = Tail(slotQueue)
    BY <1>4 DEF ReleaseSlot
  <2>2. /\ h \in Agents /\ h = slotQueue[1] /\ Len(slotQueue) \in Nat /\ Len(slotQueue) >= 1
        /\ slotQueue' \in Seq(Agents) /\ Len(slotQueue') = Len(slotQueue) - 1
        /\ \A i \in 1 .. Len(slotQueue') : slotQueue'[i] = slotQueue[i + 1]
    BY <1>4, <2>1, TailFacts DEF SlotInv, SlotTypes
  <2>3. pc[h] = "queued" /\ h # a
    BY <2>2, <1>1 DEF SlotInv, QueueSync, HolderPCs
  <2>4. pc'[a] = to /\ pc'[h] = "woken" /\ \A d \in Agents \ {a, h} : pc'[d] = pc[d]
    BY <2>1, <2>2, <2>3, <1>1 DEF SlotInv, SlotTypes
  <2>5. Holders' = Holders \ {a}
    BY <2>3, <2>4, <1>1 DEF Holders
  <2>6. SlotTypes' /\ SlotAccounting'
    <3>1. inflight' = Cardinality(Holders') /\ inflight' \in Nat
      BY <2>1, <2>5, <1>2, AgentsFinite DEF SlotInv, SlotAccounting, Holders
    <3> QED
      BY <3>1, <2>1, <2>2, <1>1, ConstantsAssumption DEF SlotInv, SlotTypes, SlotAccounting, PCs
  <2>7. NoLostWakeup'
    <3>1. Woken' = Woken \union {h} /\ h \notin Woken
      BY <2>2, <2>3, <2>4, <1>1 DEF Woken, HolderPCs
    <3>2. Cardinality(Woken') = Cardinality(Woken) + 1 /\ Cardinality(Woken) \in Nat
      BY <3>1, <2>2, AddOne, AgentsFinite DEF Woken
    <3> QED
      BY <3>2, <2>1, <1>4, ConstantsAssumption DEF SlotInv, SlotTypes, NoLostWakeup
  <2>8. QueueSync'
    <3>1. ASSUME NEW d \in Agents
          PROVE  pc'[d] = "queued" <=> \E i \in 1 .. Len(slotQueue') : slotQueue'[i] = d
      <4>1. CASE d = h
        <5>1. \A i \in 1 .. Len(slotQueue') : slotQueue'[i] # h
          BY <2>2 DEF SlotInv, QueueSync
        <5> QED
          BY <4>1, <5>1, <2>4
      <4>2. CASE d # h
        <5>1. pc'[d] = "queued" <=> pc[d] = "queued"
          BY <4>2, <2>4, <1>1 DEF HolderPCs
        <5>2. (\E i \in 1 .. Len(slotQueue) : slotQueue[i] = d)
                <=> \E i \in 1 .. Len(slotQueue') : slotQueue'[i] = d
          <6>1. ASSUME NEW i \in 1 .. Len(slotQueue), slotQueue[i] = d
                PROVE  \E j \in 1 .. Len(slotQueue') : slotQueue'[j] = d
            <7>1. i # 1 /\ i - 1 \in 1 .. Len(slotQueue')
              BY <6>1, <4>2, <2>2
            <7>2. slotQueue'[i - 1] = d
              BY <7>1, <6>1, <2>2
            <7> QED
              BY <7>1, <7>2
          <6>2. ASSUME NEW i \in 1 .. Len(slotQueue'), slotQueue'[i] = d
                PROVE  \E j \in 1 .. Len(slotQueue) : slotQueue[j] = d
            BY <6>2, <2>2
          <6> QED
            BY <6>1, <6>2
        <5> QED
          BY <5>1, <5>2 DEF SlotInv, QueueSync
      <4> QED
        BY <4>1, <4>2
    <3>2. ASSUME NEW i \in 1 .. Len(slotQueue'), NEW j \in 1 .. Len(slotQueue'),
                 slotQueue'[i] = slotQueue'[j]
          PROVE  i = j
      BY <3>2, <2>2 DEF SlotInv, QueueSync
    <3> QED
      BY <3>1, <3>2 DEF QueueSync
  <2> QED
    BY <2>3, <2>4, <2>6, <2>7, <2>8 DEF SlotInv
<1> QED
  BY <1>3, <1>4

-----------------------------------------------------------------------------
(* Dependencies and results.                                               *)

WorkingPCs == {"ready", "generating", "focusing"}

DepTypes ==
  /\ deps \in DepGraphs
  /\ pending \in [Agents -> SUBSET Agents]
  /\ outcome \in [Agents -> {"pending", "ok", "depfail", "error"}]
  /\ result \in [Agents -> Results \union {"none"}]

(* A task has a result exactly when it is done.                            *)
ResultSync ==
  \A a \in Agents : result[a] # "none" <=> pc[a] \in {"leaving", "returned"}

(* What a wait, before or inside the slot, says about the dependencies: it *)
(* is open exactly for some that have no result yet.                       *)
WaitTold ==
  \A a \in Agents :
    /\ \A d \in pending[a] : d \in deps[a] /\ result[d] = "none"
    /\ outcome[a] = "pending" =>
         pending[a] # {} /\ \A d \in deps[a] \ pending[a] : result[d] \in Succeeded
    /\ outcome[a] = "ok" => \A d \in deps[a] : result[d] \in Succeeded
    /\ outcome[a] = "depfail" => \E d \in deps[a] : result[d] \in {"failed", "skipped"}

DepInv == DepTypes /\ ResultSync /\ WaitTold /\ RunsAfterDeps

LEMMA DepsAreAgents ==
  ASSUME DepTypes
  PROVE  deps \in [Agents -> SUBSET Agents]
  BY DepGraphsAssumption DEF DepTypes

(* A step that settles no wait and sets no result.                         *)
Calm(b) ==
  \/ pc'[b] = pc[b]
  \/ pc[b] \in {"leaving", "returned"} /\ pc'[b] \in {"leaving", "returned"}
  \/ pc[b] \notin {"leaving", "returned"} /\ pc'[b] \in {"queued", "woken", "threw"}
  \/ pc'[b] \in WorkingPCs /\ (pc[b] \in WorkingPCs \/ (pc[b] = "holding" /\ outcome[b] = "ok"))

LEMMA CalmKeepsDeps ==
  ASSUME DepInv, UNCHANGED <<deps, pending, outcome, result>>, \A b \in Agents : Calm(b)
  PROVE  DepInv'
<1>1. DepTypes'
  BY DEF DepInv, DepTypes
<1>2. ResultSync'
  BY DEF DepInv, ResultSync, Calm, WorkingPCs
<1>3. WaitTold'
  BY DepsAreAgents DEF DepInv, WaitTold, Calm, WorkingPCs
<1>4. RunsAfterDeps'
  BY DepsAreAgents DEF DepInv, WaitTold, RunsAfterDeps, Calm, WorkingPCs
<1> QED
  BY <1>1, <1>2, <1>3, <1>4 DEF DepInv

LEMMA SettleKeepsDeps ==
  ASSUME DepInv, pc \in [Agents -> PCs], NEW a \in Agents, NEW r \in Results, result[a] = "none",
         SetResult(a, r), pc' = [pc EXCEPT ![a] = "leaving"], deps' = deps
  PROVE  DepInv'
<1>1. /\ result' = [result EXCEPT ![a] = r]
      /\ pending' = [b \in Agents |-> pending[b] \ {a}]
      /\ outcome' = SettledBy(a, r)
  BY DEF SetResult
<1>2. \A d \in Agents : result[d] # "none" => result'[d] = result[d]
  BY <1>1 DEF DepInv, DepTypes
<1>3. result'[a] = r /\ r # "none" /\ (r \in Succeeded \/ r \in {"failed", "skipped"})
  BY <1>1 DEF DepInv, DepTypes, Results, Succeeded
<1>4. DepTypes'
  BY <1>1 DEF DepInv, DepTypes, SettledBy
<1>5. ResultSync'
  BY <1>1, <1>3 DEF DepInv, DepTypes, ResultSync
<1>6. deps \in [Agents -> SUBSET Agents]
  BY DepsAreAgents DEF DepInv
<1>7. WaitTold'
  <2> SUFFICES ASSUME NEW b \in Agents
               PROVE  /\ \A d \in pending'[b] : d \in deps[b] /\ result'[d] = "none"
                      /\ outcome'[b] = "pending" =>
                           /\ pending'[b] # {}
                           /\ \A d \in deps[b] \ pending'[b] : result'[d] \in Succeeded
                      /\ outcome'[b] = "ok" => \A d \in deps[b] : result'[d] \in Succeeded
                      /\ outcome'[b] = "depfail" =>
                           \E d \in deps[b] : result'[d] \in {"failed", "skipped"}
    BY DEF WaitTold
  <2>1. /\ pending'[b] = pending[b] \ {a}
        /\ outcome'[b] = IF outcome[b] # "pending" \/ a \notin pending[b] THEN outcome[b]
                         ELSE IF r \notin Succeeded THEN "depfail"
                         ELSE IF pending[b] = {a} THEN "ok" ELSE "pending"
    BY <1>1 DEF SettledBy
  <2>2. \A d \in deps[b] : result[d] \in Succeeded => result'[d] \in Succeeded
    BY <1>2, <1>6 DEF Succeeded
  <2>3. \A d \in pending[b] : d \in deps[b] /\ result[d] = "none"
    BY DEF DepInv, WaitTold
  <2>4. \A d \in pending'[b] : d \in deps[b] /\ result'[d] = "none"
    BY <2>1, <2>3, <1>1, <1>6 DEF DepInv, DepTypes
  <2>5. ASSUME outcome'[b] = "ok", NEW d \in deps[b]
        PROVE  result'[d] \in Succeeded
    <3>1. CASE outcome[b] = "ok"
      BY <2>2, <2>5, <3>1 DEF DepInv, WaitTold
    <3>2. CASE outcome[b] # "ok"
      <4>1. outcome[b] = "pending" /\ r \in Succeeded /\ pending[b] = {a}
        BY <2>1, <2>5, <3>2
      <4>2. CASE d = a
        BY <4>1, <4>2, <1>3
      <4>3. CASE d # a
        BY <4>1, <4>3, <2>2, <2>5 DEF DepInv, WaitTold
      <4> QED
        BY <4>2, <4>3
    <3> QED
      BY <3>1, <3>2
  <2>6. ASSUME outcome'[b] = "pending", NEW d \in deps[b] \ pending'[b]
        PROVE  result'[d] \in Succeeded
    <3>1. outcome[b] = "pending" /\ (a \in pending[b] => r \in Succeeded)
      BY <2>1, <2>6
    <3>2. CASE d \in pending[b]
      BY <3>1, <3>2, <2>1, <2>6, <1>3
    <3>3. CASE d \notin pending[b]
      BY <3>1, <3>3, <2>2, <2>6 DEF DepInv, WaitTold
    <3> QED
      BY <3>2, <3>3
  <2>7. outcome'[b] = "pending" => pending'[b] # {}
    <3>1. outcome[b] = "pending" => pending[b] # {}
      BY DEF DepInv, WaitTold
    <3> QED
      BY <2>1, <3>1
  <2>8. ASSUME outcome'[b] = "depfail"
        PROVE  \E d \in deps[b] : result'[d] \in {"failed", "skipped"}
    <3>1. CASE outcome[b] = "depfail"
      <4>1. PICK d \in deps[b] : result[d] \in {"failed", "skipped"}
        BY <3>1 DEF DepInv, WaitTold
      <4> QED
        BY <4>1, <1>2, <1>6
    <3>2. CASE outcome[b] # "depfail"
      BY <3>2, <2>1, <2>3, <2>8, <1>3
    <3> QED
      BY <3>1, <3>2
  <2> QED
    BY <2>4, <2>5, <2>6, <2>7, <2>8
<1>8. RunsAfterDeps'
  <2> SUFFICES ASSUME NEW b \in Agents, pc'[b] \in WorkingPCs, NEW d \in deps[b]
               PROVE  result'[d] \in Succeeded
    BY DEF RunsAfterDeps, WorkingPCs
  <2>1. pc[b] \in WorkingPCs
    BY DEF WorkingPCs
  <2>2. result[d] \in Succeeded
    BY <2>1 DEF DepInv, RunsAfterDeps, WorkingPCs
  <2> QED
    BY <2>2, <1>2, <1>6 DEF Succeeded
<1> QED
  BY <1>4, <1>5, <1>7, <1>8 DEF DepInv

(* A drain, with the result of the task whose failure trips the breaker.   *)
LEMMA DrainKeepsDeps ==
  ASSUME DepInv, pc \in [Agents -> PCs], DrainWaits, deps' = deps,
         \/ UNCHANGED <<pc, result>>
         \/ \E a \in Agents, r \in Results : /\ result[a] = "none"
                                             /\ result' = [result EXCEPT ![a] = r]
                                             /\ pc' = [pc EXCEPT ![a] = "leaving"]
  PROVE  DepInv'
<1>1. /\ pending' = [a \in Agents |-> {}]
      /\ outcome' = [a \in Agents |-> IF outcome[a] = "pending" THEN "error" ELSE outcome[a]]
  BY DEF DrainWaits
<1>2. \A d \in Agents : result[d] # "none" => result'[d] = result[d]
  BY DEF DepInv, DepTypes
<1>3. deps \in [Agents -> SUBSET Agents]
  BY DepsAreAgents DEF DepInv
<1>4. DepTypes'
  BY <1>1 DEF DepInv, DepTypes
<1>5. ResultSync'
  BY DEF DepInv, DepTypes, ResultSync, Results
<1>6. \A b \in Agents : pc'[b] = pc[b] \/ pc'[b] = "leaving"
  OBVIOUS
<1>7. WaitTold'
  <2> SUFFICES ASSUME NEW b \in Agents
               PROVE  /\ pending'[b] = {} /\ outcome'[b] # "pending"
                      /\ outcome'[b] = "ok" => \A d \in deps[b] : result'[d] \in Succeeded
                      /\ outcome'[b] = "depfail" =>
                           \E d \in deps[b] : result'[d] \in {"failed", "skipped"}
    BY DEF WaitTold
  <2>1. pending'[b] = {} /\ outcome'[b] # "pending"
        /\ (outcome'[b] \in {"ok", "depfail"} => outcome[b] = outcome'[b])
    BY <1>1
  <2> QED
    BY <2>1, <1>2, <1>3 DEF DepInv, WaitTold, Succeeded
<1>8. RunsAfterDeps'
  BY <1>2, <1>3, <1>6 DEF DepInv, RunsAfterDeps, Succeeded
<1> QED
  BY <1>4, <1>5, <1>7, <1>8 DEF DepInv

(* Entering runAgentTask: the second wait starts from the results as they  *)
(* are.                                                                    *)
LEMMA EnterKeepsDeps ==
  ASSUME DepInv, pc \in [Agents -> PCs], NEW a \in Agents,
         pc[a] \in {"staggered", "awaiting", "woken"}, EnterRun(a), UNCHANGED <<deps, result>>
  PROVE  DepInv'
<1> DEFINE to == IF deps[a] = {} THEN "ready" ELSE "holding"
           now == IF \E d \in deps[a] : result[d] \notin Succeeded \union {"none"} THEN "depfail"
                  ELSE IF \A d \in deps[a] : result[d] # "none" THEN "ok" ELSE "pending"
<1>1. /\ pc' = [pc EXCEPT ![a] = to]
      /\ pending' = [pending EXCEPT ![a] = {d \in deps[a] : result[d] = "none"}]
      /\ outcome' = [outcome EXCEPT ![a] = now]
  BY DEF EnterRun
<1>2. deps \in [Agents -> SUBSET Agents]
  BY DepsAreAgents DEF DepInv
<1>3. DepTypes'
  BY <1>1, <1>2 DEF DepInv, DepTypes
<1>4. ResultSync'
  BY <1>1 DEF DepInv, ResultSync
<1>5. WaitTold'
  <2> SUFFICES ASSUME NEW b \in Agents
               PROVE  /\ \A d \in pending'[b] : d \in deps[b] /\ result[d] = "none"
                      /\ outcome'[b] = "pending" =>
                           /\ pending'[b] # {}
                           /\ \A d \in deps[b] \ pending'[b] : result[d] \in Succeeded
                      /\ outcome'[b] = "ok" => \A d \in deps[b] : result[d] \in Succeeded
                      /\ outcome'[b] = "depfail" =>
                           \E d \in deps[b] : result[d] \in {"failed", "skipped"}
    BY DEF WaitTold
  <2>1. CASE b # a
    <3>1. pc'[b] = pc[b] /\ pending'[b] = pending[b] /\ outcome'[b] = outcome[b]
      BY <2>1, <1>1 DEF DepInv, DepTypes
    <3> QED
      BY <3>1 DEF DepInv, WaitTold
  <2>2. CASE b = a
    <3>1. pending'[b] = {d \in deps[b] : result[d] = "none"} /\ outcome'[b] = now
      BY <2>2, <1>1 DEF DepInv, DepTypes
    <3>2. \A d \in deps[b] : result[d] \in Succeeded \union {"none", "failed", "skipped"}
      BY <1>2 DEF DepInv, DepTypes, Results, Succeeded
    <3> QED
      BY <2>2, <3>1, <3>2
  <2> QED
    BY <2>1, <2>2
<1>6. RunsAfterDeps'
  BY <1>1 DEF DepInv, RunsAfterDeps
<1> QED
  BY <1>3, <1>4, <1>5, <1>6 DEF DepInv

-----------------------------------------------------------------------------
(* The inductive invariant.                                                *)

(* No attempt is counted before the loop, and the loop is not entered      *)
(* again after the last one.                                               *)
CountInv ==
  /\ attempts \in [Agents -> 0 .. MaxRetries + 1]
  /\ failures \in 0 .. BreakerThreshold
  /\ userAborted \in BOOLEAN /\ busAborted \in BOOLEAN /\ gate \in BOOLEAN
  /\ phase \in {"agents", "desloppify", "verify", "ended"}
  /\ \A a \in Agents :
       /\ pc[a] \in {"staggered", "awaiting", "queued", "woken", "holding"} => attempts[a] = 0
       /\ pc[a] = "ready" => attempts[a] <= MaxRetries

IInv == SlotInv /\ DepInv /\ CountInv

LEMMA InitIInv == Init => IInv
<1> SUFFICES ASSUME Init
             PROVE  IInv
  OBVIOUS
<1>1. pc \in [Agents -> {"staggered", "awaiting"}]
  BY DEF Init
<1>2. deps \in [Agents -> SUBSET Agents]
  BY DepGraphsAssumption DEF Init
<1>3. SlotTypes
  BY <1>1 DEF Init, SlotTypes, PCs
<1>4. SlotAccounting
  <2>1. Holders = {}
    BY <1>1 DEF Holders
  <2> QED
    BY <2>1, FS_EmptySet, ConstantsAssumption DEF Init, SlotAccounting
<1>5. QueueSync /\ NoLostWakeup
  BY <1>1 DEF Init, QueueSync, NoLostWakeup
<1>6. DepTypes
  BY <1>2 DEF Init, DepTypes
<1>7. ResultSync /\ WaitTold /\ RunsAfterDeps
  BY <1>1, <1>2 DEF Init, ResultSync, WaitTold, RunsAfterDeps
<1>8. CountInv
  <2>1. 0 \in 0 .. MaxRetries + 1 /\ 0 \in 0 .. BreakerThreshold /\ 0 <= MaxRetries
    BY ConstantsAssumption
  <2>2. attempts = [a \in Agents |-> 0] /\ failures = 0
    BY DEF Init
  <2>3. /\ userAborted \in BOOLEAN /\ busAborted \in BOOLEAN /\ gate \in BOOLEAN
        /\ phase \in {"agents", "desloppify", "verify", "ended"}
    BY DEF Init
  <2> QED
    BY <2>1, <2>2, <2>3 DEF CountInv
<1> QED
  BY <1>3, <1>4, <1>5, <1>6, <1>7, <1>8 DEF IInv, SlotInv, DepInv

LEMMA Typing == IInv => TypeOK
  BY DEF IInv, SlotInv, SlotTypes, DepInv, DepTypes, CountInv, TypeOK

(* Counts of a step that leaves them alone.                                *)
LEMMA SameCounts ==
  ASSUME IInv, UNCHANGED <<attempts, userAborted>>,
         failures' \in 0 .. BreakerThreshold, busAborted' \in BOOLEAN, gate' \in BOOLEAN,
         phase' \in {"agents", "desloppify", "verify", "ended"},
         \A b \in Agents :
           \/ pc'[b] = pc[b]
           \/ pc[b] \in {"staggered", "awaiting", "queued", "woken", "holding"}
           \/ pc'[b] \in {"focusing", "leaving", "returned", "threw"}
           \/ pc'[b] = "ready" /\ attempts[b] <= MaxRetries
  PROVE  CountInv'
  BY ConstantsAssumption DEF IInv, CountInv

LEMMA AskStep ==
  ASSUME IInv, NEW a \in Agents, StaggerEnds(a) \/ WaitEnds(a) \/ Recheck(a)
  PROVE  IInv'
<1>1. pc[a] \in {"staggered", "awaiting", "woken"} /\ TrySlot(a) /\ pc \in [Agents -> PCs]
  BY DEF StaggerEnds, WaitEnds, Recheck, IInv, SlotInv, SlotTypes
<1>2. SlotInv'
  BY <1>1, TrySlotKeepsSlots DEF IInv
<1>3. UNCHANGED <<deps, result, attempts, failures, busAborted, userAborted, phase, gate>>
  BY <1>1 DEF TrySlot, mainVars
<1>4. DepInv'
  <2>1. CASE EnterRun(a)
    BY <1>1, <1>3, <2>1, EnterKeepsDeps DEF IInv
  <2>2. CASE pc' = [pc EXCEPT ![a] = "queued"] /\ UNCHANGED <<pending, outcome>>
    <3>1. \A b \in Agents : Calm(b)
      BY <1>1, <2>2 DEF Calm
    <3> QED
      BY <1>3, <2>2, <3>1, CalmKeepsDeps DEF IInv
  <2> QED
    BY <1>1, <2>1, <2>2 DEF TrySlot
<1>5. CountInv'
  <2>1. \A b \in Agents : pc'[b] = pc[b] \/ pc[b] \in {"staggered", "awaiting", "woken"}
    BY <1>1 DEF TrySlot, EnterRun
  <2> QED
    BY <1>3, <2>1, SameCounts DEF IInv, CountInv
<1> QED
  BY <1>2, <1>4, <1>5 DEF IInv

(* A step inside the slot that settles nothing.                            *)
LEMMA InsideStep ==
  ASSUME IInv, NEW a \in Agents, DepsHold(a) \/ BeginAttempt(a) \/ FocusedRetry(a)
  PROVE  IInv'
<1>1. pc \in [Agents -> PCs] /\ a \in Holders
  BY DEF DepsHold, BeginAttempt, FocusedRetry, Holders, IInv, SlotInv, SlotTypes
<1>2. PICK to \in WorkingPCs : pc' = [pc EXCEPT ![a] = to]
  BY DEF DepsHold, BeginAttempt, FocusedRetry, WorkingPCs
<1>3. UNCHANGED <<busVars, slotVars, mainVars>>
  BY DEF DepsHold, BeginAttempt, FocusedRetry
<1>4. SlotInv'
  BY <1>1, <1>2, <1>3, MoveInsideSlot DEF IInv, WorkingPCs, HolderPCs
<1>5. \A b \in Agents : Calm(b)
  BY <1>1, <1>2 DEF DepsHold, BeginAttempt, FocusedRetry, Calm, WorkingPCs
<1>6. DepInv'
  BY <1>3, <1>5, CalmKeepsDeps DEF IInv, busVars, mainVars
<1>7. CountInv'
  BY <1>1, <1>3, ConstantsAssumption
  DEF IInv, CountInv, DepsHold, BeginAttempt, FocusedRetry, busVars, mainVars
<1> QED
  BY <1>4, <1>6, <1>7 DEF IInv

(* A step with which a task gets its result.                               *)
LEMMA SettleStep ==
  ASSUME IInv, NEW a \in Holders, pc[a] # "leaving", NEW r \in Results, SetResult(a, r),
         pc' = [pc EXCEPT ![a] = "leaving"], failures' \in 0 .. BreakerThreshold,
         UNCHANGED <<attempts, busAborted, slotVars, mainVars>>
  PROVE  IInv'
<1>1. a \in Agents /\ pc[a] \notin {"leaving", "returned"} /\ pc \in [Agents -> PCs]
  BY DEF Holders, IInv, SlotInv, SlotTypes
<1>2. result[a] = "none"
  BY <1>1 DEF IInv, DepInv, ResultSync
<1>3. SlotInv'
  BY MoveInsideSlot DEF IInv, HolderPCs
<1>4. DepInv'
  BY <1>1, <1>2, SettleKeepsDeps DEF IInv, mainVars
<1>5. CountInv'
  BY <1>1, SameCounts DEF mainVars, IInv, CountInv
<1> QED
  BY <1>3, <1>4, <1>5 DEF IInv

LEMMA FinishStep ==
  ASSUME IInv, NEW a \in Agents,
         SkipFailedDep(a) \/ StopAtAbort(a) \/ GenerateSucceeds(a) \/ GenerateFails(a)
  PROVE  IInv'
<1>1. a \in Holders /\ pc[a] # "leaving"
  BY DEF SkipFailedDep, StopAtAbort, GenerateSucceeds, GenerateFails, Holders
<1>2. \E r \in Results : SetResult(a, r)
  BY DEF SkipFailedDep, StopAtAbort, GenerateSucceeds, GenerateFails, Fail, Results
<1>3. /\ pc' = [pc EXCEPT ![a] = "leaving"]
      /\ UNCHANGED <<attempts, failures, busAborted, slotVars, mainVars>>
  BY DEF SkipFailedDep, StopAtAbort, GenerateSucceeds, GenerateFails, Fail
<1> QED
  BY <1>1, <1>2, <1>3, SettleStep DEF IInv, CountInv

LEMMA RetryStep ==
  ASSUME IInv, NEW a \in Agents, ProviderFails(a)
  PROVE  IInv'
<1>1. a \in Holders /\ pc[a] = "generating" /\ pc \in [Agents -> PCs]
  BY DEF ProviderFails, Holders, IInv, SlotInv, SlotTypes
<1>2. failures' \in 0 .. BreakerThreshold
  BY ConstantsAssumption DEF ProviderFails, IInv, CountInv
<1>3. UNCHANGED <<attempts, busAborted, slotVars, mainVars>>
  BY DEF ProviderFails
<1>4. CASE Fail(a)
  <2>1. pc' = [pc EXCEPT ![a] = "leaving"] /\ \E r \in Results : SetResult(a, r)
    BY <1>4 DEF Fail, Results
  <2> QED
    BY <1>1, <1>2, <1>3, <2>1, SettleStep
<1>5. CASE /\ attempts[a] <= MaxRetries /\ pc' = [pc EXCEPT ![a] = "ready"]
           /\ UNCHANGED <<pending, outcome, result>>
  <2>1. SlotInv'
    BY <1>1, <1>3, <1>5, MoveInsideSlot DEF IInv, HolderPCs
  <2>2. \A b \in Agents : Calm(b)
    BY <1>1, <1>5 DEF Calm, WorkingPCs
  <2>3. DepInv'
    BY <1>3, <1>5, <2>2, CalmKeepsDeps DEF IInv, mainVars
  <2>4. CountInv'
    BY <1>1, <1>2, <1>3, <1>5, SameCounts DEF mainVars, IInv, CountInv
  <2> QED
    BY <2>1, <2>3, <2>4 DEF IInv
<1> QED
  BY <1>4, <1>5 DEF ProviderFails

LEMMA ReleaseStep ==
  ASSUME IInv, NEW a \in Agents, Leave(a) \/ Rethrow(a)
  PROVE  IInv'
<1>1. a \in Holders /\ pc \in [Agents -> PCs]
  BY DEF Leave, Rethrow, Holders, IInv, SlotInv, SlotTypes
<1>2. PICK to \in {"returned", "threw"} :
        /\ ReleaseSlot(a, to)
        /\ (to = "returned" /\ pc[a] = "leaving") \/ (to = "threw" /\ pc[a] = "holding")
  BY DEF Leave, Rethrow
<1>3. UNCHANGED <<attempts, busVars, mainVars>>
  BY DEF Leave, Rethrow
<1>4. /\ SlotInv' /\ pc'[a] = to
      /\ \A d \in Agents \ {a} : pc'[d] = pc[d] \/ (pc[d] = "queued" /\ pc'[d] = "woken")
  BY <1>1, <1>2, ReleaseKeepsSlots DEF IInv
<1>5. \A b \in Agents : Calm(b)
  BY <1>2, <1>4 DEF Calm
<1>6. DepInv'
  BY <1>3, <1>5, CalmKeepsDeps DEF IInv, busVars, mainVars
<1>7. CountInv'
  BY <1>2, <1>3, <1>4, SameCounts DEF busVars, mainVars, IInv, CountInv
<1> QED
  BY <1>4, <1>6, <1>7 DEF IInv

(* The steps that drain the waits.                                         *)
LEMMA DrainStep ==
  ASSUME IInv,
         \/ \E a \in Agents : BreakerTrips(a) \/ CancelDispatch(a)
         \/ VerifyEnds \/ PromiseAllRejects
  PROVE  IInv'
<1>1. pc \in [Agents -> PCs]
  BY DEF IInv, SlotInv, SlotTypes
<1>2. ASSUME NEW a \in Agents, BreakerTrips(a)
      PROVE  IInv'
  <2>1. a \in Holders /\ pc[a] = "generating" /\ result[a] = "none"
    BY <1>2 DEF BreakerTrips, Holders, IInv, DepInv, ResultSync
  <2>2. PICK r \in Results : result' = [result EXCEPT ![a] = r]
    BY <1>2 DEF BreakerTrips, Results
  <2>3. /\ pc' = [pc EXCEPT ![a] = "leaving"] /\ DrainWaits
        /\ busAborted' = TRUE /\ failures' = BreakerThreshold
        /\ UNCHANGED <<attempts, slotVars, mainVars>>
    BY <1>2 DEF BreakerTrips
  <2>4. SlotInv'
    BY <2>1, <2>3, MoveInsideSlot DEF IInv, HolderPCs
  <2>5. DepInv'
    BY <1>1, <2>1, <2>2, <2>3, DrainKeepsDeps DEF IInv, mainVars
  <2>6. CountInv'
    BY <1>1, <2>3, SameCounts, ConstantsAssumption DEF mainVars, IInv, CountInv
  <2> QED
    BY <2>4, <2>5, <2>6 DEF IInv
<1>3. ASSUME \/ \E a \in Agents : CancelDispatch(a)
             \/ VerifyEnds \/ PromiseAllRejects
      PROVE  IInv'
  <2>1. /\ DrainWaits /\ UNCHANGED <<deps, pc, result, attempts, failures, userAborted, slotVars>>
        /\ busAborted' \in BOOLEAN /\ gate' \in BOOLEAN
        /\ phase' \in {"agents", "desloppify", "verify", "ended"}
    BY <1>3 DEF CancelDispatch, VerifyEnds, PromiseAllRejects, mainVars, IInv, CountInv
  <2>2. SlotInv'
    BY <2>1, SlotsUntouched DEF IInv
  <2>3. DepInv'
    BY <1>1, <2>1, DrainKeepsDeps DEF IInv
  <2>4. CountInv'
    BY <2>1, SameCounts DEF IInv, CountInv
  <2> QED
    BY <2>2, <2>3, <2>4 DEF IInv
<1> QED
  BY <1>2, <1>3

LEMMA ExpireStep ==
  ASSUME IInv, NEW a \in Agents, WaitExpires(a)
  PROVE  IInv'
<1>1. /\ outcome' = [outcome EXCEPT ![a] = "error"]
      /\ pending' = [pending EXCEPT ![a] = {}]
      /\ UNCHANGED <<pc, result, attempts, failures, busAborted, slotVars, mainVars>>
  BY DEF WaitExpires
<1>2. SlotInv'
  BY <1>1, SlotsUntouched DEF IInv
<1>3. DepTypes' /\ ResultSync' /\ RunsAfterDeps'
  BY <1>1 DEF IInv, DepInv, DepTypes, ResultSync, RunsAfterDeps, mainVars
<1>4. WaitTold'
  BY <1>1 DEF IInv, DepInv, DepTypes, WaitTold, mainVars
<1>5. CountInv'
  BY <1>1 DEF IInv, CountInv, mainVars
<1> QED
  BY <1>2, <1>3, <1>4, <1>5 DEF IInv, DepInv

LEMMA QuietStep ==
  ASSUME IInv, FailureAges \/ UserAborts \/ AllReturned \/ DesloppifyEnds \/ UNCHANGED vars
  PROVE  IInv'
<1>1. UNCHANGED <<deps, pc, pending, outcome, result, attempts, slotVars>>
  BY DEF FailureAges, UserAborts, AllReturned, DesloppifyEnds, vars, mainVars, busVars, slotVars
<1>2. SlotInv'
  BY <1>1, SlotsUntouched DEF IInv
<1>3. \A b \in Agents : Calm(b)
  BY <1>1 DEF Calm
<1>4. DepInv'
  BY <1>1, <1>3, CalmKeepsDeps DEF IInv
<1>5. CountInv'
  <2>1. /\ failures' \in 0 .. BreakerThreshold /\ userAborted' \in BOOLEAN
        /\ busAborted' \in BOOLEAN /\ gate' \in BOOLEAN
        /\ phase' \in {"agents", "desloppify", "verify", "ended"}
    <3>1. CASE FailureAges
      BY <3>1, ConstantsAssumption DEF IInv, CountInv, FailureAges, mainVars
    <3>2. CASE UserAborts
      BY <3>2 DEF IInv, CountInv, UserAborts, busVars
    <3>3. CASE AllReturned
      BY <3>3 DEF IInv, CountInv, AllReturned, busVars
    <3>4. CASE DesloppifyEnds
      BY <3>4 DEF IInv, CountInv, DesloppifyEnds, busVars
    <3>5. CASE UNCHANGED vars
      BY <3>5 DEF IInv, CountInv, vars
    <3> QED
      BY <3>1, <3>2, <3>3, <3>4, <3>5
  <2> QED
    BY <1>1, <2>1 DEF IInv, CountInv
<1> QED
  BY <1>2, <1>4, <1>5 DEF IInv

LEMMA StepIInv == IInv /\ [Next]_vars => IInv'
  BY AskStep, InsideStep, FinishStep, RetryStep, ReleaseStep, DrainStep, ExpireStep, QuietStep
  DEF Next, TaskStep, GenerateStep, MainStep, Finished

-----------------------------------------------------------------------------
(* The invariant holds in every reachable state of the scheduler.          *)
THEOREM Invariance == Spec => []IInv
  BY InitIInv, StepIInv, PTL DEF Spec

(* Type correctness: counts stay within their bounds, among them the       *)
(* attempts of each task (runAgentTask's retry loop).                      *)
THEOREM TypeCorrect == Spec => []TypeOK
  BY Invariance, Typing, PTL

(* inflightCount is exact and within the pool's size, however tasks leave  *)
(* their slots (acquireConcurrencySlot, releaseConcurrencySlot).           *)
THEOREM SlotsAccounted == Spec => []SlotAccounting
<1>1. IInv => SlotAccounting
  BY DEF IInv, SlotInv
<1> QED
  BY <1>1, Invariance, PTL

(* While a task waits for a slot the slots are taken or promised           *)
(* (releaseConcurrencySlot wakes, the woken task looks again).             *)
THEOREM WakeupsKept == Spec => []NoLostWakeup
<1>1. IInv => NoLostWakeup
  BY DEF IInv, SlotInv
<1> QED
  BY <1>1, Invariance, PTL

(* No agent reaches the model before all its dependencies have succeeded,  *)
(* although its first wait may have ended early (runAgentTask).            *)
THEOREM DependenciesRespected == Spec => []RunsAfterDeps
<1>1. IInv => RunsAfterDeps
  BY DEF IInv, DepInv
<1> QED
  BY <1>1, Invariance, PTL

-----------------------------------------------------------------------------
(* The steps, as the abstract pool sees them.                              *)

Failing == {"failed", "skipped"}

(* What a step may do to the results and to who is working.                *)
StepResults(a) ==
  /\ deps' = deps
  /\ result[a] = "none"
  /\ \E r \in Results : result' = [result EXCEPT ![a] = r]
  /\ pc' = [pc EXCEPT ![a] = "leaving"]

StepStarts(a) ==
  /\ deps' = deps /\ result' = result
  /\ pc[a] \notin WorkingPCs /\ pc'[a] \in WorkingPCs
  /\ \A b \in Agents \ {a} : pc'[b] \in WorkingPCs <=> pc[b] \in WorkingPCs

StepUnseen ==
  /\ deps' = deps /\ result' = result
  /\ \A b \in Agents : pc'[b] \in WorkingPCs <=> pc[b] \in WorkingPCs

LEMMA Unseen ==
  ASSUME StepUnseen
  PROVE  UNCHANGED <<deps, Status>>
  BY DEF StepUnseen, Status, WorkingPCs

LEMMA WorkingIsNone ==
  ASSUME IInv, NEW a \in Agents, pc[a] \in WorkingPCs
  PROVE  result[a] = "none" /\ Status[a] = "working"
  BY DEF IInv, DepInv, ResultSync, WorkingPCs, Status

LEMMA StartIsStart ==
  ASSUME IInv, IInv', NEW a \in Agents, StepStarts(a),
         pc[a] = "holding" \/ inflight < MaxConcurrent
  PROVE  Pool!Start(a)
<1>1. result[a] = "none" /\ result'[a] = "none"
  BY WorkingIsNone DEF StepStarts, IInv, DepInv, ResultSync, WorkingPCs
<1>2. Status[a] = "waiting" /\ Status' = [Status EXCEPT ![a] = "working"]
  BY <1>1 DEF StepStarts, Status, WorkingPCs
<1>3. \A d \in deps[a] : Status[d] = "succeeded"
  <2> SUFFICES ASSUME NEW d \in deps[a]
               PROVE  Status[d] = "succeeded"
    OBVIOUS
  <2>1. d \in Agents
    BY DepsAreAgents DEF IInv, DepInv
  <2>2. result[d] \in Succeeded
    BY DEF IInv, DepInv, RunsAfterDeps, StepStarts, WorkingPCs
  <2>3. pc[d] \notin WorkingPCs /\ result[d] # "none"
    BY <2>1, <2>2, WorkingIsNone DEF Succeeded
  <2> QED
    BY <2>1, <2>2, <2>3 DEF Status, WorkingPCs
<1>4. Cardinality(Pool!Working) < MaxConcurrent
  <2>1. Pool!Working = {b \in Agents : pc[b] \in WorkingPCs}
    BY DEF Pool!Working, Status, WorkingPCs
  <2>2. /\ inflight = Cardinality(Holders) /\ inflight <= MaxConcurrent
        /\ Pool!Working \in SUBSET Holders /\ Holders \in SUBSET Agents
    BY <2>1 DEF IInv, SlotInv, SlotAccounting, Holders, WorkingPCs
  <2>3. CASE inflight < MaxConcurrent
    <3>1. Cardinality(Pool!Working) <= Cardinality(Holders) /\ Cardinality(Pool!Working) \in Nat
      BY <2>2, AgentsFinite, FS_Subset
    <3> QED
      BY <3>1, <2>2, <2>3, AgentsFinite, ConstantsAssumption
  <2>4. CASE pc[a] = "holding"
    <3>1. a \in Holders /\ Pool!Working \in SUBSET (Holders \ {a})
      BY <2>1, <2>2, <2>4 DEF Holders, WorkingPCs
    <3>2. Cardinality(Holders \ {a}) = Cardinality(Holders) - 1 /\ IsFiniteSet(Holders \ {a})
      BY <3>1, <2>2, RemoveOne, AgentsFinite
    <3>3. Cardinality(Pool!Working) <= Cardinality(Holders \ {a}) /\ Cardinality(Pool!Working) \in Nat
      BY <3>1, <3>2, <2>1, FS_Subset, AgentsFinite
    <3> QED
      BY <3>2, <3>3, <2>2, AgentsFinite, ConstantsAssumption
  <2> QED
    BY <2>3, <2>4
<1>5. Status[a] = "waiting" /\ Status' = [Status EXCEPT ![a] = "working"] /\ deps' = deps
  BY <1>2 DEF StepStarts
<1>6. Status[a] = "waiting" /\ \A d \in deps[a] : Status[d] = "succeeded"
  BY <1>3, <1>5
<1>7. Status' = [Status EXCEPT ![a] = "working"] /\ UNCHANGED deps
  BY <1>5
<1> QED
  BY <1>4, <1>6, <1>7 DEF Pool!Start, Pool!Cardinality, Cardinality

LEMMA ResultIsFinish ==
  ASSUME IInv, NEW a \in Agents, pc[a] \in WorkingPCs, StepResults(a)
  PROVE  Pool!Finish(a)
<1>1. Status[a] = "working"
  BY WorkingIsNone
<1>2. PICK r \in Results : result' = [result EXCEPT ![a] = r]
  BY DEF StepResults
<1>3. /\ result \in [Agents -> Results \union {"none"}] /\ pc \in [Agents -> PCs]
  BY DEF IInv, SlotInv, SlotTypes, DepInv, DepTypes
<1>4. Status' = [Status EXCEPT ![a] = IF r \in Succeeded THEN "succeeded" ELSE "failed"]
  BY <1>2, <1>3 DEF StepResults, Status, Results
<1> QED
  BY <1>1, <1>4 DEF Pool!Finish, StepResults

LEMMA SkipIsSkip ==
  ASSUME IInv, NEW a \in Agents, SkipFailedDep(a)
  PROVE  Pool!Skip(a)
<1>1. /\ result \in [Agents -> Results \union {"none"}] /\ pc \in [Agents -> PCs]
      /\ result[a] = "none" /\ pc[a] = "holding"
  BY DEF SkipFailedDep, IInv, SlotInv, SlotTypes, DepInv, DepTypes, ResultSync
<1>2. PICK d \in deps[a] : result[d] \in Failing
  BY DEF SkipFailedDep, IInv, DepInv, WaitTold, Failing
<1>3. d \in Agents /\ pc[d] \notin WorkingPCs
  BY <1>2, DepsAreAgents, WorkingIsNone DEF IInv, DepInv, Failing
<1>4. Status[d] = "failed"
  BY <1>2, <1>3 DEF Status, Failing, Succeeded, WorkingPCs
<1>5. Status[a] = "waiting"
  BY <1>1 DEF Status
<1>6. deps' = deps /\ Status' = [Status EXCEPT ![a] = "failed"]
  BY <1>1 DEF SkipFailedDep, SetResult, mainVars, Status, Succeeded
<1> QED
  BY <1>2, <1>4, <1>5, <1>6 DEF Pool!Skip

LEMMA StepImplements == IInv /\ IInv' /\ [Next]_vars => [Pool!Next]_(Pool!vars)
<1> SUFFICES ASSUME IInv, IInv', [Next]_vars
             PROVE  Pool!Next \/ UNCHANGED <<deps, Status>>
  BY DEF Pool!vars
<1>1. pc \in [Agents -> PCs]
  BY DEF IInv, SlotInv, SlotTypes
<1>2. ASSUME NEW a \in Agents, StaggerEnds(a) \/ WaitEnds(a) \/ Recheck(a)
      PROVE  Pool!Start(a) \/ UNCHANGED <<deps, Status>>
  <2>1. /\ pc[a] \in {"staggered", "awaiting", "woken"} /\ TrySlot(a)
        /\ deps' = deps /\ result' = result
    BY <1>2 DEF StaggerEnds, WaitEnds, Recheck, TrySlot, mainVars
  <2>2. CASE inflight < MaxConcurrent /\ pc' = [pc EXCEPT ![a] = "ready"]
    BY <1>1, <2>1, <2>2, StartIsStart DEF StepStarts, WorkingPCs
  <2>3. CASE pc' = [pc EXCEPT ![a] = "holding"] \/ pc' = [pc EXCEPT ![a] = "queued"]
    BY <1>1, <2>1, <2>3, Unseen DEF StepUnseen, WorkingPCs
  <2>4. CASE inflight < MaxConcurrent /\ EnterRun(a)
    BY <2>2, <2>3, <2>4 DEF EnterRun
  <2> QED
    BY <2>1, <2>3, <2>4 DEF TrySlot
<1>3. ASSUME NEW a \in Agents, DepsHold(a)
      PROVE  Pool!Start(a)
  BY <1>1, <1>3, StartIsStart DEF DepsHold, StepStarts, WorkingPCs, busVars, mainVars
<1>4. ASSUME NEW a \in Agents, BeginAttempt(a) \/ FocusedRetry(a)
      PROVE  UNCHANGED <<deps, Status>>
  BY <1>1, <1>4, Unseen DEF BeginAttempt, FocusedRetry, StepUnseen, WorkingPCs, busVars, mainVars
<1>5. ASSUME NEW a \in Agents, Leave(a) \/ Rethrow(a)
      PROVE  UNCHANGED <<deps, Status>>
  <2>1. PICK to \in {"returned", "threw"} : ReleaseSlot(a, to)
    BY <1>5 DEF Leave, Rethrow
  <2>2. /\ a \in Holders /\ pc[a] \notin WorkingPCs /\ deps' = deps /\ result' = result
    BY <1>5 DEF Leave, Rethrow, Holders, WorkingPCs, busVars, mainVars
  <2>3. /\ pc'[a] = to
        /\ \A d \in Agents \ {a} : pc'[d] = pc[d] \/ (pc[d] = "queued" /\ pc'[d] = "woken")
    BY <2>1, <2>2, ReleaseKeepsSlots DEF IInv
  <2> QED
    BY <2>2, <2>3, Unseen DEF StepUnseen, WorkingPCs
<1>6. ASSUME NEW a \in Agents, StopAtAbort(a) \/ GenerateSucceeds(a) \/ GenerateFails(a)
      PROVE  Pool!Finish(a)
  <2>1. pc[a] \in WorkingPCs /\ result[a] = "none"
    BY <1>6, WorkingIsNone DEF StopAtAbort, GenerateSucceeds, GenerateFails, WorkingPCs
  <2>2. StepResults(a)
    BY <1>6, <2>1
    DEF StopAtAbort, GenerateSucceeds, GenerateFails, Fail, SetResult, StepResults, Results, mainVars
  <2> QED
    BY <2>1, <2>2, ResultIsFinish
<1>7. ASSUME NEW a \in Agents, ProviderFails(a)
      PROVE  Pool!Finish(a) \/ UNCHANGED <<deps, Status>>
  <2>1. pc[a] = "generating" /\ result[a] = "none"
    BY <1>7, WorkingIsNone DEF ProviderFails, WorkingPCs
  <2>2. CASE Fail(a)
    <3>1. StepResults(a)
      BY <1>7, <2>1, <2>2 DEF ProviderFails, Fail, SetResult, StepResults, Results, mainVars
    <3> QED
      BY <2>1, <3>1, ResultIsFinish DEF WorkingPCs
  <2>3. CASE pc' = [pc EXCEPT ![a] = "ready"] /\ result' = result
    BY <1>1, <1>7, <2>1, <2>3, Unseen DEF ProviderFails, StepUnseen, WorkingPCs, mainVars
  <2> QED
    BY <1>7, <2>2, <2>3 DEF ProviderFails
<1>8. ASSUME NEW a \in Agents, BreakerTrips(a)
      PROVE  Pool!Finish(a)
  <2>1. pc[a] \in WorkingPCs /\ result[a] = "none"
    BY <1>8, WorkingIsNone DEF BreakerTrips, WorkingPCs
  <2>2. StepResults(a)
    BY <1>8, <2>1 DEF BreakerTrips, StepResults, Results, mainVars
  <2> QED
    BY <2>1, <2>2, ResultIsFinish
<1>9. ASSUME \/ \E a \in Agents : CancelDispatch(a) \/ WaitExpires(a)
             \/ FailureAges \/ UserAborts \/ MainStep \/ UNCHANGED vars
      PROVE  UNCHANGED <<deps, Status>>
  <2>1. deps' = deps /\ result' = result /\ pc' = pc
    BY <1>9 DEF CancelDispatch, WaitExpires, FailureAges, UserAborts, MainStep, AllReturned,
                DesloppifyEnds, VerifyEnds, PromiseAllRejects, vars, mainVars, busVars
  <2> QED
    BY <2>1, Unseen DEF StepUnseen
<1> QED
  BY <1>2, <1>3, <1>4, <1>5, <1>6, <1>7, <1>8, <1>9, SkipIsSkip
  DEF Next, TaskStep, GenerateStep, Finished, Pool!Next

LEMMA InitImplements == Init => Pool!Init
<1> SUFFICES ASSUME Init
             PROVE  Pool!Init
  OBVIOUS
<1>1. deps \in [Agents -> SUBSET Agents]
  BY DepGraphsAssumption DEF Init
<1>2. Status = [a \in Agents |-> "waiting"]
  BY DEF Init, Status
<1> QED
  BY <1>1, <1>2 DEF Pool!Init

(* The scheduler implements the promise: agents start after their          *)
(* dependencies have succeeded and within the pool, are skipped only when  *)
(* one has failed, and keep their outcome (subagent-tools.ts, runAgentTask *)
(* and agent-bus.ts together).                                             *)
THEOREM Implements == Spec => PoolSpec
<1>1. Spec => Pool!Init /\ [][Pool!Next]_(Pool!vars)
  BY InitImplements, StepImplements, Invariance, PTL DEF Spec
<1> QED
  BY <1>1 DEF PoolSpec, Pool!Spec

(* Results are never replaced, and nobody starts an attempt once aborted   *)
(* (bus.setResult; the head of the retry loop).                            *)
THEOREM ResultsAreFinal == Spec => ResultsFinal
<1>1. ASSUME IInv, [Next]_vars
      PROVE  \A a \in Agents : /\ result[a] # "none" => result'[a] = result[a]
                               /\ Aborted => attempts'[a] = attempts[a]
  <2> USE <1>1
  <2>1. /\ result \in [Agents -> Results \union {"none"}]
        /\ \A a \in Agents : pc[a] \in WorkingPCs \union {"holding"} => result[a] = "none"
    BY DEF IInv, DepInv, DepTypes, ResultSync, WorkingPCs
  <2> DEFINE Sets(a) == /\ pc[a] \in WorkingPCs \union {"holding"}
                        /\ \E r \in Results : result' = [result EXCEPT ![a] = r]
  <2>2. result' = result \/ \E a \in Agents : Sets(a)
    <3>1. ASSUME NEW a \in Agents,
                 \/ SkipFailedDep(a) \/ StopAtAbort(a) \/ GenerateSucceeds(a)
                 \/ GenerateFails(a) \/ ProviderFails(a) \/ BreakerTrips(a)
          PROVE  result' = result \/ Sets(a)
      BY <3>1 DEF SkipFailedDep, StopAtAbort, GenerateSucceeds, GenerateFails, ProviderFails,
                  BreakerTrips, Fail, SetResult, WorkingPCs, Results
    <3>2. ASSUME NEW a \in Agents,
                 \/ StaggerEnds(a) \/ WaitEnds(a) \/ Recheck(a) \/ DepsHold(a)
                 \/ Rethrow(a) \/ BeginAttempt(a) \/ Leave(a) \/ FocusedRetry(a)
                 \/ CancelDispatch(a) \/ WaitExpires(a)
          PROVE  result' = result
      BY <3>2 DEF StaggerEnds, WaitEnds, Recheck, TrySlot, DepsHold, Rethrow, BeginAttempt,
                  Leave, FocusedRetry, CancelDispatch, WaitExpires, busVars
    <3>3. ASSUME FailureAges \/ UserAborts \/ MainStep \/ UNCHANGED vars
          PROVE  result' = result
      BY <3>3 DEF FailureAges, UserAborts, MainStep, AllReturned, DesloppifyEnds, VerifyEnds,
                  PromiseAllRejects, vars, busVars
    <3> QED
      BY <3>1, <3>2, <3>3 DEF Next, TaskStep, GenerateStep, Finished
  <2>3. attempts' = attempts \/ ~Aborted
    <3>1. ASSUME NEW a \in Agents, TaskStep(a), ~BeginAttempt(a)
          PROVE  attempts' = attempts
      BY <3>1 DEF TaskStep, StaggerEnds, WaitEnds, Recheck, TrySlot, DepsHold, SkipFailedDep,
                  Rethrow, StopAtAbort, Leave
    <3>2. ASSUME NEW a \in Agents, GenerateStep(a) \/ CancelDispatch(a) \/ WaitExpires(a)
          PROVE  attempts' = attempts
      BY <3>2 DEF GenerateStep, GenerateSucceeds, FocusedRetry, GenerateFails, ProviderFails,
                  BreakerTrips, CancelDispatch, WaitExpires
    <3>3. ASSUME FailureAges \/ UserAborts \/ MainStep \/ UNCHANGED vars
          PROVE  attempts' = attempts
      BY <3>3 DEF FailureAges, UserAborts, MainStep, AllReturned, DesloppifyEnds, VerifyEnds,
                  PromiseAllRejects, vars
    <3> QED
      BY <3>1, <3>2, <3>3 DEF Next, Finished, BeginAttempt
  <2> QED
    BY <2>1, <2>2, <2>3
<1> QED
  BY <1>1, Invariance, PTL DEF Spec, ResultsFinal
-----------------------------------------------------------------------------
(* As long as nobody aborts: no cancel, no tripped breaker, no expired     *)
(* wait.  The user's own abort and agents that fail are included.          *)

Peace == ~WaitsExpire /\ ~busAborted

BeforeLoopPCs == {"staggered", "awaiting", "queued", "woken", "holding"}

(* Then a wait ends only by results, and so the second one, inside the     *)
(* slot, finds what the first one found.                                   *)
PeaceInv ==
  Peace =>
    /\ \A a \in Agents :
         /\ pc[a] # "threw"
         /\ pc[a] \in BeforeLoopPCs => outcome[a] # "error"
         /\ pc[a] \in BeforeLoopPCs \ {"awaiting"} => outcome[a] # "pending"
    /\ phase # "agents" => \A a \in Agents : pc[a] = "returned"

LEMMA InitPeace == Init => PeaceInv
  BY DEF Init, PeaceInv, BeforeLoopPCs

(* What the first wait found is still so when the second one begins.       *)
LEMMA SecondWaitKnows ==
  ASSUME DepInv, NEW a \in Agents, outcome[a] \in {"ok", "depfail"}, EnterRun(a)
  PROVE  outcome'[a] \in {"ok", "depfail"}
<1>1. outcome'[a] = IF \E d \in deps[a] : result[d] \notin Succeeded \union {"none"} THEN "depfail"
                    ELSE IF \A d \in deps[a] : result[d] # "none" THEN "ok" ELSE "pending"
  BY DEF EnterRun, DepInv, DepTypes
<1>2. CASE outcome[a] = "ok"
  BY <1>1, <1>2 DEF DepInv, WaitTold, Succeeded
<1>3. CASE outcome[a] = "depfail"
  <2>1. PICK d \in deps[a] : result[d] \in {"failed", "skipped"}
    BY <1>3 DEF DepInv, WaitTold
  <2> QED
    BY <1>1, <2>1 DEF Succeeded
<1> QED
  BY <1>2, <1>3

LEMMA AskPeace ==
  ASSUME IInv, PeaceInv, NEW a \in Agents, StaggerEnds(a) \/ WaitEnds(a) \/ Recheck(a)
  PROVE  PeaceInv'
<1> SUFFICES ASSUME Peace'
             PROVE  /\ \A b \in Agents :
                         /\ pc'[b] # "threw"
                         /\ pc'[b] \in BeforeLoopPCs => outcome'[b] # "error"
                         /\ pc'[b] \in BeforeLoopPCs \ {"awaiting"} => outcome'[b] # "pending"
                    /\ phase' # "agents" => \A b \in Agents : pc'[b] = "returned"
  BY DEF PeaceInv
<1>1. /\ pc[a] \in {"staggered", "awaiting", "woken"} /\ TrySlot(a)
      /\ pc[a] = "awaiting" => outcome[a] # "pending"
  BY DEF StaggerEnds, WaitEnds, Recheck
<1>2. Peace /\ phase' = phase
  BY <1>1 DEF Peace, TrySlot, mainVars
<1>3. outcome[a] \in {"ok", "depfail"} /\ phase = "agents"
  BY <1>1, <1>2 DEF PeaceInv, BeforeLoopPCs, IInv, DepInv, DepTypes
<1>4. /\ pc'[a] \in {"ready", "holding", "queued"} /\ outcome'[a] \in {"ok", "depfail"}
      /\ \A b \in Agents \ {a} : pc'[b] = pc[b] /\ outcome'[b] = outcome[b]
  <2>1. pc \in [Agents -> PCs] /\ outcome \in [Agents -> {"pending", "ok", "depfail", "error"}]
    BY DEF IInv, SlotInv, SlotTypes, DepInv, DepTypes
  <2>2. CASE EnterRun(a)
    <3>1. outcome'[a] \in {"ok", "depfail"}
      BY <1>3, <2>2, SecondWaitKnows DEF IInv
    <3> QED
      BY <2>1, <2>2, <3>1 DEF EnterRun
  <2>3. CASE pc' = [pc EXCEPT ![a] = "queued"] /\ UNCHANGED outcome
    BY <1>3, <2>1, <2>3
  <2> QED
    BY <1>1, <2>2, <2>3 DEF TrySlot
<1> QED
  BY <1>2, <1>3, <1>4 DEF PeaceInv, BeforeLoopPCs

(* Steps that leave the waits alone and move nobody to where it waits.     *)
LEMMA MovePeace ==
  ASSUME PeaceInv, Peace => UNCHANGED <<outcome, phase>>, Peace' => Peace,
         \A b \in Agents : \/ pc'[b] = pc[b]
                           \/ pc[b] = "queued" /\ pc'[b] = "woken"
                           \/ /\ pc'[b] \notin BeforeLoopPCs /\ pc[b] # "returned"
                              /\ Peace => pc'[b] # "threw"
  PROVE  PeaceInv'
<1> SUFFICES ASSUME Peace'
             PROVE  /\ \A b \in Agents :
                         /\ pc'[b] # "threw"
                         /\ pc'[b] \in BeforeLoopPCs => outcome'[b] # "error"
                         /\ pc'[b] \in BeforeLoopPCs \ {"awaiting"} => outcome'[b] # "pending"
                    /\ phase' # "agents" => \A b \in Agents : pc'[b] = "returned"
  BY DEF PeaceInv
<1>1. /\ Peace /\ outcome' = outcome /\ phase' = phase
      /\ \A b \in Agents : /\ pc[b] # "threw"
                           /\ pc[b] \in BeforeLoopPCs => outcome[b] # "error"
                           /\ pc[b] \in BeforeLoopPCs \ {"awaiting"} => outcome[b] # "pending"
      /\ phase # "agents" => \A b \in Agents : pc[b] = "returned"
  BY DEF PeaceInv
<1>2. ASSUME NEW b \in Agents
      PROVE  /\ pc'[b] # "threw"
             /\ pc'[b] \in BeforeLoopPCs => outcome'[b] # "error"
             /\ pc'[b] \in BeforeLoopPCs \ {"awaiting"} => outcome'[b] # "pending"
  BY <1>1 DEF BeforeLoopPCs
<1>3. ASSUME phase' # "agents", NEW b \in Agents
      PROVE  pc'[b] = "returned"
  BY <1>1, <1>3
<1> QED
  BY <1>2, <1>3

LEMMA InsidePeace ==
  ASSUME IInv, PeaceInv, NEW a \in Agents,
         DepsHold(a) \/ BeginAttempt(a) \/ FocusedRetry(a) \/ Leave(a) \/ Rethrow(a)
  PROVE  PeaceInv'
<1>1. UNCHANGED <<outcome, phase, busAborted>>
  BY DEF DepsHold, BeginAttempt, FocusedRetry, Leave, Rethrow, busVars, mainVars
<1>2. CASE DepsHold(a) \/ BeginAttempt(a) \/ FocusedRetry(a)
  <2>1. \A b \in Agents : pc'[b] = pc[b] \/ (pc'[b] \in WorkingPCs /\ pc[b] # "returned")
    BY <1>2 DEF DepsHold, BeginAttempt, FocusedRetry, WorkingPCs, IInv, SlotInv, SlotTypes
  <2> QED
    BY <1>1, <2>1, MovePeace DEF Peace, WorkingPCs, BeforeLoopPCs
<1>3. CASE Leave(a)
  <2>1. a \in Holders /\ ReleaseSlot(a, "returned") /\ pc[a] # "returned"
    BY <1>3 DEF Leave, Holders
  <2>2. /\ pc'[a] = "returned"
        /\ \A b \in Agents \ {a} : pc'[b] = pc[b] \/ (pc[b] = "queued" /\ pc'[b] = "woken")
    BY <2>1, ReleaseKeepsSlots DEF IInv
  <2> QED
    BY <1>1, <2>1, <2>2, MovePeace DEF Peace, BeforeLoopPCs
<1>4. CASE Rethrow(a)
  <2>1. ~Peace
    BY <1>4 DEF Rethrow, PeaceInv, BeforeLoopPCs
  <2> QED
    BY <1>1, <2>1 DEF PeaceInv, Peace
<1> QED
  BY <1>2, <1>3, <1>4

(* A result can settle waits, but never with an error, and one that was    *)
(* settled stays so.                                                       *)
LEMMA SettlePeace ==
  ASSUME IInv, PeaceInv, NEW a \in Agents, pc[a] # "returned", NEW r \in Results, SetResult(a, r),
         pc' = [pc EXCEPT ![a] = "leaving"], UNCHANGED <<phase, busAborted>>
  PROVE  PeaceInv'
<1> SUFFICES ASSUME Peace'
             PROVE  /\ \A b \in Agents :
                         /\ pc'[b] # "threw"
                         /\ pc'[b] \in BeforeLoopPCs => outcome'[b] # "error"
                         /\ pc'[b] \in BeforeLoopPCs \ {"awaiting"} => outcome'[b] # "pending"
                    /\ phase' # "agents" => \A b \in Agents : pc'[b] = "returned"
  BY DEF PeaceInv
<1>1. Peace /\ pc \in [Agents -> PCs]
  BY DEF Peace, IInv, SlotInv, SlotTypes
<1>2. phase' = "agents"
  BY <1>1 DEF PeaceInv
<1>3. ASSUME NEW b \in Agents
      PROVE  /\ outcome[b] # "error" => outcome'[b] # "error"
             /\ outcome[b] # "pending" => outcome'[b] # "pending"
  BY DEF SetResult, SettledBy
<1>4. \A b \in Agents : pc'[b] = pc[b] \/ pc'[b] = "leaving"
  BY <1>1
<1> QED
  BY <1>1, <1>2, <1>3, <1>4 DEF PeaceInv, BeforeLoopPCs

LEMMA FinishPeace ==
  ASSUME IInv, PeaceInv, NEW a \in Agents,
         \/ SkipFailedDep(a) \/ StopAtAbort(a) \/ GenerateSucceeds(a)
         \/ GenerateFails(a) \/ ProviderFails(a)
  PROVE  PeaceInv'
<1>1. pc[a] # "returned" /\ UNCHANGED <<phase, busAborted>>
  BY DEF SkipFailedDep, StopAtAbort, GenerateSucceeds, GenerateFails, ProviderFails, mainVars
<1>2. CASE pc' = [pc EXCEPT ![a] = "leaving"] /\ \E r \in Results : SetResult(a, r)
  BY <1>1, <1>2, SettlePeace
<1>3. CASE pc' = [pc EXCEPT ![a] = "ready"] /\ UNCHANGED outcome
  <2>1. \A b \in Agents : pc'[b] = pc[b] \/ (pc'[b] = "ready" /\ pc[b] # "returned")
    BY <1>1, <1>3 DEF IInv, SlotInv, SlotTypes
  <2> QED
    BY <1>1, <1>3, <2>1, MovePeace DEF Peace, BeforeLoopPCs
<1> QED
  BY <1>2, <1>3
  DEF SkipFailedDep, StopAtAbort, GenerateSucceeds, GenerateFails, ProviderFails, Fail, Results

(* The end of execute(): its drain finds nobody waiting.                   *)
LEMMA EndPeace ==
  ASSUME IInv, PeaceInv, MainStep
  PROVE  PeaceInv'
<1>1. pc' = pc /\ busAborted' = busAborted
  BY DEF MainStep, AllReturned, DesloppifyEnds, VerifyEnds, PromiseAllRejects, busVars
<1>2. CASE AllReturned \/ DesloppifyEnds \/ VerifyEnds
  <2>1. Peace => \A a \in Agents : pc[a] = "returned"
    BY <1>2 DEF AllReturned, DesloppifyEnds, VerifyEnds, PeaceInv
  <2> QED
    BY <1>1, <2>1 DEF PeaceInv, Peace, BeforeLoopPCs
<1>3. CASE PromiseAllRejects
  <2>1. ~Peace
    BY <1>3 DEF PromiseAllRejects, PeaceInv
  <2> QED
    BY <1>1, <2>1 DEF PeaceInv, Peace
<1> QED
  BY <1>2, <1>3 DEF MainStep

LEMMA StepPeace == IInv /\ PeaceInv /\ [Next]_vars => PeaceInv'
<1> SUFFICES ASSUME IInv, PeaceInv, [Next]_vars
             PROVE  PeaceInv'
  OBVIOUS
<1>1. ASSUME NEW a \in Agents, BreakerTrips(a) \/ CancelDispatch(a) \/ WaitExpires(a)
      PROVE  PeaceInv'
  <2>1. ~Peace'
    BY <1>1 DEF BreakerTrips, CancelDispatch, WaitExpires, Peace
  <2> QED
    BY <2>1 DEF PeaceInv
<1>2. ASSUME FailureAges \/ UNCHANGED vars
      PROVE  PeaceInv'
  BY <1>2 DEF FailureAges, vars, mainVars, PeaceInv, Peace
<1>3. ASSUME UserAborts
      PROVE  PeaceInv'
  BY <1>3 DEF UserAborts, busVars, PeaceInv, Peace
<1> QED
  BY <1>1, <1>2, <1>3, AskPeace, InsidePeace, FinishPeace, EndPeace
  DEF Next, TaskStep, GenerateStep, Finished

LEMMA PeaceInvariance == Spec => [](IInv /\ PeaceInv)
<1>1. Init => IInv /\ PeaceInv
  BY InitIInv, InitPeace
<1>2. (IInv /\ PeaceInv) /\ [Next]_vars => (IInv /\ PeaceInv)'
  BY StepIInv, StepPeace
<1> QED
  BY <1>1, <1>2, PTL DEF Spec

(* What the comment at subagent-tools.ts:940 says, and the check finds     *)
(* violated after a cancel, is true until then: whatever the plan, no task *)
(* holds a slot while it waits for another, so the slots are never taken   *)
(* by tasks that wait for tasks queued behind them.                        *)
THEOREM NoSlotDeadlockInPeace ==
  Spec => [](Peace => /\ \A a \in Agents : pc[a] = "holding" => outcome[a] # "pending"
                      /\ NoSlotDeadlock)
<1>1. ASSUME IInv, PeaceInv, Peace
      PROVE  /\ \A a \in Agents : pc[a] = "holding" => outcome[a] # "pending"
             /\ NoSlotDeadlock
  <2>1. \A a \in Agents : pc[a] = "holding" => outcome[a] # "pending"
    BY <1>1 DEF PeaceInv, BeforeLoopPCs
  <2>2. ASSUME inflight = MaxConcurrent
        PROVE  \E a \in Holders : ~(pc[a] = "holding" /\ outcome[a] = "pending")
    <3>1. Cardinality(Holders) # 0
      BY <1>1, <2>2, ConstantsAssumption DEF IInv, SlotInv, SlotAccounting
    <3>2. PICK a \in Holders : TRUE
      BY <3>1, FS_EmptySet
    <3> QED
      BY <2>1, <3>2 DEF Holders
  <2> QED
    BY <2>1, <2>2 DEF NoSlotDeadlock
<1> QED
  BY <1>1, PeaceInvariance, PTL

(* Once execute() has left its agents, in peace every one of them has a    *)
(* result (the part of EveryAgentReported that is about safety: no task    *)
(* is forgotten by Promise.all).                                           *)
THEOREM NobodyForgotten ==
  Spec => [](Peace /\ phase # "agents" => \A a \in Agents : result[a] # "none")
<1>1. ASSUME IInv, PeaceInv, Peace, phase # "agents"
      PROVE  \A a \in Agents : result[a] # "none"
  BY <1>1 DEF PeaceInv, IInv, DepInv, ResultSync
<1> QED
  BY <1>1, PeaceInvariance, PTL

-----------------------------------------------------------------------------
(* Nobody waits for ever on anybody else.                                  *)

(* The dependencies can be ranked, which is to say that no task depends on *)
(* itself through others.                                                  *)
Acyclic ==
  \E rank \in [Agents -> Nat] : \A a \in Agents : \A d \in deps[a] : rank[d] < rank[a]

(* The guards of a task's steps: the event loop, its start timer or the    *)
(* provider takes it on, and nothing it needs has to come from another.    *)
CanGoOn(a) ==
  \/ pc[a] \in {"woken", "ready", "leaving"}
  \/ pc[a] \in {"awaiting", "holding"} /\ outcome[a] # "pending"
  \/ Idle /\ pc[a] \in {"generating", "focusing"}
  \/ (Idle \/ Aborted) /\ pc[a] = "staggered" /\ \A b \in 1 .. a - 1 : pc[b] # "staggered"

LEMMA HasLeast ==
  ASSUME NEW T \in SUBSET Nat, T # {}
  PROVE  \E n \in T : \A m \in T : n <= m
<1> DEFINE below == OpToRel(<, Nat)
<1>1. IsWellFoundedOn(below, Nat)
  BY NatLessThanWellFounded, Zenon
<1>2. \E n \in T : \A m \in T : <<m, n>> \notin below
  <2> HIDE DEF below
  <2> QED
    BY <1>1, WFMin, Zenon
<1>3. PICK n \in T : \A m \in T : <<m, n>> \notin below
  BY <1>2, Zenon
<1>4. \A m \in T : ~(m < n)
  BY <1>3 DEF OpToRel
<1> QED
  BY <1>4

(* A task of least rank in a set depends on none in it.                    *)
LEMMA LowestTask ==
  ASSUME Acyclic, NEW S \in SUBSET Agents, S # {}
  PROVE  \E a \in S : deps[a] \cap S = {}
<1>1. PICK rank \in [Agents -> Nat] : \A a \in Agents : \A d \in deps[a] : rank[d] < rank[a]
  BY DEF Acyclic
<1> DEFINE T == {rank[a] : a \in S}
<1>2. T \in SUBSET Nat /\ T # {}
  OBVIOUS
<1>3. PICK n \in T : \A m \in T : n <= m
  BY <1>2, HasLeast
<1>4. PICK a \in S : n = rank[a]
  BY <1>3
<1>5. ASSUME NEW d \in deps[a] \cap S
      PROVE  FALSE
  <2>1. rank[d] < rank[a] /\ rank[a] <= rank[d] /\ rank[a] \in Nat /\ rank[d] \in Nat
    BY <1>1, <1>3, <1>4, <1>5
  <2> QED
    BY <2>1
<1> QED
  BY <1>5

(* Timers and the provider are heard once no continuation is left, and the *)
(* first of the staggered tasks starts first.                              *)
LEMMA OnlyWaiting ==
  ASSUME IInv, PeaceInv, Peace, \A a \in Agents : ~CanGoOn(a), \E a \in Agents : pc[a] # "returned"
  PROVE  \A a \in Agents : /\ pc[a] \in {"awaiting", "queued", "returned"}
                           /\ pc[a] = "awaiting" => outcome[a] = "pending"
<1>1. pc \in [Agents -> PCs]
  BY DEF IInv, SlotInv, SlotTypes
<1>2. \A a \in Agents : /\ pc[a] \notin {"woken", "ready", "leaving", "holding", "threw"}
                        /\ pc[a] = "awaiting" => outcome[a] = "pending"
  BY DEF CanGoOn, PeaceInv, BeforeLoopPCs
<1>3. ASSUME Idle \/ Aborted
      PROVE  \A a \in Agents : pc[a] # "staggered"
  <2> DEFINE T == {a \in Agents : pc[a] = "staggered"}
  <2>1. ASSUME T # {}
        PROVE  FALSE
    <3>1. T \in SUBSET Nat
      BY DEF Agents
    <3>2. PICK a \in T : \A b \in T : a <= b
      BY <2>1, <3>1, HasLeast
    <3>3. \A b \in 1 .. a - 1 : b \in Agents /\ ~(a <= b)
      BY <3>1, ConstantsAssumption DEF Agents
    <3> QED
      BY <1>3, <3>2, <3>3 DEF CanGoOn
  <2> QED
    BY <2>1
<1>4. Idle
  BY <1>2, <1>3 DEF Idle
<1>5. \A a \in Agents : pc[a] \notin {"generating", "focusing"}
  BY <1>4 DEF CanGoOn
<1> QED
  BY <1>1, <1>2, <1>3, <1>4, <1>5 DEF PCs

(* If nobody can go on, nobody is in a slot or on the way to one, so the   *)
(* queue is empty (no wake-up is lost); the rest wait for one another, and *)
(* one of least rank waits for a task that has its result.                 *)
LEMMA SomeoneGoesOn ==
  ASSUME IInv, PeaceInv, Peace, Acyclic, \A a \in Agents : ~CanGoOn(a)
  PROVE  \A a \in Agents : pc[a] = "returned"
<1> SUFFICES ASSUME \E a \in Agents : pc[a] # "returned"
             PROVE  FALSE
  OBVIOUS
<1>1. \A a \in Agents : /\ pc[a] \in {"awaiting", "queued", "returned"}
                        /\ pc[a] = "awaiting" => outcome[a] = "pending"
  BY OnlyWaiting
<1>2. slotQueue = <<>>
  <2>1. Holders = {} /\ Woken = {}
    BY <1>1 DEF Holders, Woken
  <2>2. inflight = 0 /\ Cardinality(Woken) = 0
    BY <2>1, FS_EmptySet DEF IInv, SlotInv, SlotAccounting
  <2> QED
    BY <2>2, ConstantsAssumption DEF IInv, SlotInv, NoLostWakeup
<1>3. \A a \in Agents : pc[a] # "queued"
  BY <1>2 DEF IInv, SlotInv, QueueSync
<1> DEFINE S == {a \in Agents : pc[a] = "awaiting"}
<1>4. S # {}
  BY <1>1, <1>3
<1>5. PICK a \in S : deps[a] \cap S = {}
  BY <1>4, LowestTask
<1>6. PICK d \in deps[a] : result[d] = "none"
  BY <1>1, <1>5 DEF IInv, DepInv, WaitTold
<1>7. d \in Agents /\ d \notin S
  BY <1>5, <1>6, DepsAreAgents DEF IInv, DepInv
<1>8. pc[d] = "returned"
  BY <1>1, <1>3, <1>7
<1> QED
  BY <1>6, <1>7, <1>8 DEF IInv, DepInv, ResultSync

(* In peace a plan without cycles never blocks, for every number of tasks, *)
(* slots and retries: unless all have returned, there is a task that can   *)
(* go on by itself.  (The waits before and inside the slot, the queue for  *)
(* slots and the wake-ups of releaseConcurrencySlot together.)             *)
THEOREM NeverBlocked ==
  Spec => [](Peace /\ Acyclic => \/ \A a \in Agents : pc[a] = "returned"
                                 \/ \E a \in Agents : CanGoOn(a))
<1>1. ASSUME IInv, PeaceInv, Peace, Acyclic
      PROVE  (\A a \in Agents : pc[a] = "returned") \/ \E a \in Agents : CanGoOn(a)
  BY <1>1, SomeoneGoesOn
<1> QED
  BY <1>1, PeaceInvariance, PTL
=============================================================================
