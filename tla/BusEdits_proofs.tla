-------------------------- MODULE BusEdits_proofs --------------------------
(***************************************************************************)
(* Safety of the edit lock and of the edits under it, for any number of    *)
(* calls and agents, whether or not timers and aborts break the lock.      *)
(***************************************************************************)
EXTENDS BusEdits, FiniteSetTheorems, TLAPS

AtMostOne(S) == \A x, y \in S : x = y

(* The queue holds each waiting call once.                                 *)
QueueSync ==
  /\ \A c \in Calls : pc[c] = "queued" <=> \E i \in 1 .. Len(queue) : queue[i] = c
  /\ \A i, j \in 1 .. Len(queue) : queue[i] = queue[j] => i = j

(* Until a drain the lock is held exactly while a grant is armed, and only *)
(* one is.                                                                 *)
OneGrant ==
  "drain" \notin breaks => /\ AtMostOne(armed)
                           /\ held <=> armed # {}

(* Until anything breaks the lock, a call that edits has its grant, and a  *)
(* file that has been matched has not changed since.                       *)
Unbroken ==
  breaks = {} => /\ Editing \subseteq armed
                 /\ \A c \in Calls : pc[c] \in {"matched", "checked"} => base[c] = disk

IInv == TypeOK /\ LockNeverLeaks /\ QueueSync /\ OneGrant /\ Unbroken

LEMMA AtMostOneCardinality ==
  ASSUME NEW S, AtMostOne(S)
  PROVE  Cardinality(S) <= 1
<1>1. CASE S = {}
  BY <1>1, FS_EmptySet
<1>2. CASE S # {}
  <2>1. PICK x \in S : TRUE
    BY <1>2
  <2>2. S = {x}
    BY <2>1 DEF AtMostOne
  <2>3. Cardinality({x}) = 1
    BY FS_Singleton
  <2> QED
    BY <2>2, <2>3
<1> QED
  BY <1>1, <1>2

(* What the shortened queue holds after its head was granted.              *)
LEMMA TailFacts ==
  ASSUME NEW q \in Seq(Calls), q # <<>>
  PROVE  /\ Head(q) \in Calls /\ Head(q) = q[1]
         /\ Len(q) \in Nat /\ Len(q) >= 1
         /\ Tail(q) \in Seq(Calls)
         /\ Len(Tail(q)) = Len(q) - 1
         /\ \A i \in 1 .. Len(q) - 1 : Tail(q)[i] = q[i + 1]
  OBVIOUS

LEMMA AppendFacts ==
  ASSUME NEW q \in Seq(Calls), NEW c \in Calls
  PROVE  /\ Append(q, c) \in Seq(Calls)
         /\ Append(q, c) # <<>>
         /\ Len(q) \in Nat
         /\ Len(Append(q, c)) = Len(q) + 1
         /\ \A i \in 1 .. Len(q) : Append(q, c)[i] = q[i]
         /\ Append(q, c)[Len(q) + 1] = c
  OBVIOUS

LEMMA InitIInv == Init => IInv
<1> SUFFICES ASSUME Init
             PROVE  IInv
  OBVIOUS
<1>1. TypeOK
  <2>1. pc \in [Calls -> PCs] /\ base \in [Calls -> SUBSET Calls]
        /\ fresh \in [Calls -> SUBSET SUBSET Calls] /\ cache \in SUBSET SUBSET Calls
    BY DEF Init, PCs
  <2>2. queue \in Seq(Calls)
    BY DEF Init
  <2> QED
    BY <2>1, <2>2 DEF Init, TypeOK
<1>2. LockNeverLeaks
  BY DEF Init, LockNeverLeaks
<1>3. QueueSync
  BY DEF Init, QueueSync
<1>4. OneGrant
  BY DEF Init, OneGrant, AtMostOne
<1>5. Unbroken
  BY DEF Init, Unbroken, Editing
<1> QED
  BY <1>1, <1>2, <1>3, <1>4, <1>5 DEF IInv

(* Releasing a grant keeps the lock's part of the invariant, whatever the  *)
(* call that gives it up goes on to do.                                    *)
LEMMA ReleaseKeepsLock ==
  ASSUME IInv, NEW c \in armed, NEW to \in PCs \ {"queued", "idle"},
         ReleaseEditLock(c), pc' = Resumed(c, to), to \in {"succeeded", "rejected"} \/ to = pc[c]
  PROVE  /\ LockNeverLeaks' /\ QueueSync'
         /\ pc' \in [Calls -> PCs] /\ held' \in BOOLEAN /\ queue' \in Seq(Calls)
         /\ armed' \subseteq Editing'
         /\ "drain" \notin breaks => AtMostOne(armed') /\ (held' <=> armed' # {})
         /\ \A d \in Calls : pc'[d] \in {"matched", "checked"} => pc[d] = pc'[d]
<1>1. c \in Calls /\ pc[c] \notin {"queued", "idle"}
  BY DEF IInv, TypeOK, Editing
<1>2. CASE queue = <<>>
  <2>1. held' = FALSE /\ armed' = armed \ {c} /\ queue' = queue /\ pc' = [pc EXCEPT ![c] = to]
    BY <1>2 DEF ReleaseEditLock, Resumed
  <2>2. /\ pc' \in [Calls -> PCs] /\ armed' \subseteq Editing'
        /\ \A d \in Calls : pc'[d] \in {"matched", "checked"} => pc[d] = pc'[d]
    BY <1>1, <2>1 DEF IInv, TypeOK, Editing
  <2>3. QueueSync'
    BY <1>1, <2>1 DEF IInv, TypeOK, QueueSync
  <2>4. "drain" \notin breaks => AtMostOne(armed') /\ armed' = {}
    BY <2>1 DEF IInv, OneGrant, AtMostOne
  <2> QED
    BY <1>2, <2>1, <2>2, <2>3, <2>4 DEF LockNeverLeaks, IInv, TypeOK
<1>3. CASE queue # <<>>
  <2> DEFINE h == Head(queue)
  <2>1. /\ h \in Calls /\ h = queue[1] /\ Len(queue) \in Nat /\ Len(queue) >= 1
        /\ queue' = Tail(queue) /\ queue' \in Seq(Calls) /\ Len(queue') = Len(queue) - 1
        /\ \A i \in 1 .. Len(queue') : queue'[i] = queue[i + 1]
    BY <1>3, TailFacts DEF IInv, TypeOK, ReleaseEditLock
  <2>2. pc[h] = "queued" /\ h # c
    BY <2>1, <1>1 DEF IInv, QueueSync
  <2>3. /\ pc' = [pc EXCEPT ![c] = to, ![h] = "locked"]
        /\ held' = TRUE /\ armed' = (armed \ {c}) \union {h}
    BY <1>3 DEF Resumed, ReleaseEditLock
  <2>4. /\ pc' \in [Calls -> PCs] /\ armed' \subseteq Editing'
        /\ \A d \in Calls : pc'[d] \in {"matched", "checked"} => pc[d] = pc'[d]
    BY <2>1, <2>2, <2>3, <1>1 DEF IInv, TypeOK, Editing, PCs
  <2>5. QueueSync'
    <3>1. ASSUME NEW d \in Calls
          PROVE  pc'[d] = "queued" <=> \E i \in 1 .. Len(queue') : queue'[i] = d
      <4>1. CASE d = h
        <5>1. pc'[d] = "locked"
          BY <4>1, <2>1, <2>3 DEF IInv, TypeOK
        <5>2. \A i \in 1 .. Len(queue') : queue'[i] # h
          BY <2>1 DEF IInv, QueueSync
        <5> QED
          BY <4>1, <5>1, <5>2
      <4>2. CASE d # h
        <5>1. pc'[d] = "queued" <=> pc[d] = "queued"
          BY <4>2, <2>3, <1>1 DEF IInv, TypeOK
        <5>2. (\E i \in 1 .. Len(queue) : queue[i] = d)
                <=> \E i \in 1 .. Len(queue') : queue'[i] = d
          <6>1. ASSUME NEW i \in 1 .. Len(queue), queue[i] = d
                PROVE  \E j \in 1 .. Len(queue') : queue'[j] = d
            <7>1. i # 1 /\ i - 1 \in 1 .. Len(queue')
              BY <6>1, <4>2, <2>1
            <7>2. queue'[i - 1] = d
              BY <7>1, <6>1, <2>1
            <7> QED
              BY <7>1, <7>2
          <6>2. ASSUME NEW i \in 1 .. Len(queue'), queue'[i] = d
                PROVE  \E j \in 1 .. Len(queue) : queue[j] = d
            BY <6>2, <2>1
          <6> QED
            BY <6>1, <6>2
        <5> QED
          BY <5>1, <5>2 DEF IInv, QueueSync
      <4> QED
        BY <4>1, <4>2
    <3>2. ASSUME NEW i \in 1 .. Len(queue'), NEW j \in 1 .. Len(queue'), queue'[i] = queue'[j]
          PROVE  i = j
      BY <3>2, <2>1 DEF IInv, QueueSync
    <3> QED
      BY <3>1, <3>2 DEF QueueSync
  <2>6. "drain" \notin breaks => AtMostOne(armed')
    BY <2>3 DEF IInv, OneGrant, AtMostOne
  <2> QED
    BY <2>1, <2>3, <2>4, <2>5, <2>6 DEF LockNeverLeaks
<1> QED
  BY <1>2, <1>3

(* The step of a call that neither touches the lock nor enters or leaves   *)
(* the calls that edit.                                                    *)
LEMMA ToolStepKeepsLock ==
  ASSUME IInv, NEW c \in Editing, NEW to \in {"matched", "checked", "written", "failed"},
         pc' = [pc EXCEPT ![c] = to], UNCHANGED lockVars
  PROVE  /\ LockNeverLeaks' /\ QueueSync' /\ OneGrant'
         /\ pc' \in [Calls -> PCs] /\ Editing' = Editing
<1>1. c \in Calls /\ pc[c] # "queued"
  BY DEF Editing
<1>2. pc' \in [Calls -> PCs] /\ Editing' = Editing
  BY <1>1 DEF IInv, TypeOK, PCs, Editing
<1>3. QueueSync'
  BY <1>1 DEF IInv, TypeOK, QueueSync, lockVars
<1> QED
  BY <1>2, <1>3 DEF IInv, LockNeverLeaks, OneGrant, AtMostOne, lockVars

LEMMA StepIInv == IInv /\ [Next]_vars => IInv'
<1> SUFFICES ASSUME IInv, [Next]_vars
             PROVE  IInv'
  OBVIOUS
<1> USE BusEditsAssumption
<1>1. ASSUME NEW c \in Calls, AcquireEditLock(c)
      PROVE  IInv'
  <2>1. CASE ~held
    <3>1. /\ pc[c] = "idle" /\ pc' = [pc EXCEPT ![c] = "locked"]
          /\ held' = TRUE /\ armed' = armed \union {c} /\ queue' = queue
          /\ owner' = IF owner = NoAgent THEN AgentOf[c] ELSE owner
          /\ UNCHANGED <<breaks, fileVars, cacheVars, editors>>
      BY <1>1, <2>1 DEF AcquireEditLock
    <3>2. TypeOK'
      BY <3>1 DEF IInv, TypeOK, PCs, Editing, fileVars, cacheVars
    <3>3. QueueSync'
      BY <3>1 DEF IInv, TypeOK, QueueSync
    <3>4. OneGrant'
      BY <2>1, <3>1 DEF IInv, OneGrant, AtMostOne
    <3>5. Unbroken'
      BY <3>1 DEF IInv, TypeOK, Unbroken, Editing, fileVars
    <3>6. LockNeverLeaks'
      BY <2>1, <3>1 DEF IInv, LockNeverLeaks
    <3> QED
      BY <3>2, <3>3, <3>4, <3>5, <3>6 DEF IInv
  <2>2. CASE held
    <3>1. /\ pc[c] = "idle" /\ pc' = [pc EXCEPT ![c] = "queued"]
          /\ queue' = Append(queue, c)
          /\ UNCHANGED <<held, armed, owner, breaks, fileVars, cacheVars, editors>>
      BY <1>1, <2>2 DEF AcquireEditLock
    <3>2. /\ queue' \in Seq(Calls) /\ Len(queue) \in Nat
          /\ Len(queue') = Len(queue) + 1 /\ queue'[Len(queue) + 1] = c
          /\ \A i \in 1 .. Len(queue) : queue'[i] = queue[i]
      BY <3>1, AppendFacts DEF IInv, TypeOK
    <3>3. TypeOK'
      BY <3>1, <3>2 DEF IInv, TypeOK, PCs, Editing, fileVars, cacheVars
    <3>4. QueueSync'
      <4>1. \A i \in 1 .. Len(queue) : queue[i] # c
        BY <3>1 DEF IInv, QueueSync
      <4>2. ASSUME NEW d \in Calls
            PROVE  pc'[d] = "queued" <=> \E i \in 1 .. Len(queue') : queue'[i] = d
        <5>1. CASE d = c
          BY <5>1, <3>1, <3>2 DEF IInv, TypeOK
        <5>2. CASE d # c
          <6>1. pc'[d] = pc[d]
            BY <5>2, <3>1 DEF IInv, TypeOK
          <6>2. (\E i \in 1 .. Len(queue) : queue[i] = d)
                  <=> \E i \in 1 .. Len(queue') : queue'[i] = d
            BY <5>2, <3>2
          <6> QED
            BY <6>1, <6>2 DEF IInv, QueueSync
        <5> QED
          BY <5>1, <5>2
      <4>3. \A i, j \in 1 .. Len(queue') : queue'[i] = queue'[j] => i = j
        BY <4>1, <3>2 DEF IInv, QueueSync
      <4> QED
        BY <4>2, <4>3 DEF QueueSync
    <3>5. LockNeverLeaks' /\ OneGrant'
      BY <2>2, <3>1 DEF IInv, LockNeverLeaks, OneGrant, AtMostOne
    <3>6. Unbroken'
      BY <3>1 DEF IInv, TypeOK, Unbroken, Editing, fileVars
    <3> QED
      BY <3>3, <3>4, <3>5, <3>6 DEF IInv
  <2> QED
    BY <2>1, <2>2
<1>2. ASSUME NEW c \in Calls, LockTimesOut(c)
      PROVE  IInv'
  <2>1. /\ c \in armed /\ ReleaseEditLock(c) /\ pc' = Resumed(c, pc[c])
        /\ breaks' = breaks \union {"timer"}
        /\ UNCHANGED <<owner, fileVars, cacheVars, editors>>
    BY <1>2 DEF LockTimesOut
  <2>2. pc[c] \in PCs \ {"queued", "idle"}
    BY <2>1 DEF IInv, TypeOK, Editing, PCs
  <2>3. /\ LockNeverLeaks' /\ QueueSync'
        /\ pc' \in [Calls -> PCs] /\ held' \in BOOLEAN /\ queue' \in Seq(Calls)
        /\ armed' \subseteq Editing'
        /\ "drain" \notin breaks => AtMostOne(armed') /\ (held' <=> armed' # {})
    BY <2>1, <2>2, ReleaseKeepsLock
  <2>4. TypeOK'
    BY <2>1, <2>3 DEF IInv, TypeOK, fileVars, cacheVars
  <2>5. OneGrant' /\ Unbroken'
    BY <2>1, <2>3 DEF OneGrant, Unbroken
  <2> QED
    BY <2>3, <2>4, <2>5 DEF IInv
<1>3. ASSUME DrainAllWaiters
      PROVE  IInv'
  <2> DEFINE waiting == {queue[i] : i \in DOMAIN queue}
  <2>1. /\ held' = TRUE /\ queue' = <<>> /\ queue # <<>>
        /\ armed' = armed \union waiting
        /\ pc' = [c \in Calls |-> IF c \in waiting THEN "locked" ELSE pc[c]]
        /\ breaks' = breaks \union {"drain"}
        /\ UNCHANGED <<owner, fileVars, cacheVars, editors>>
    BY <1>3 DEF DrainAllWaiters
  <2>2. DOMAIN queue = 1 .. Len(queue) /\ waiting \subseteq Calls
    BY DEF IInv, TypeOK
  <2>3. \A c \in Calls : pc'[c] # "queued"
    <3>1. ASSUME NEW c \in Calls, pc[c] = "queued"
          PROVE  c \in waiting
      BY <3>1, <2>2 DEF IInv, QueueSync
    <3> QED
      BY <3>1, <2>1
  <2>4. QueueSync'
    BY <2>1, <2>3 DEF QueueSync
  <2>5. pc' \in [Calls -> PCs] /\ armed' \subseteq Editing'
    BY <2>1, <2>2 DEF IInv, TypeOK, PCs, Editing
  <2>6. TypeOK'
    BY <2>1, <2>5 DEF IInv, TypeOK, fileVars, cacheVars
  <2>7. LockNeverLeaks'
    BY <2>1 DEF IInv, LockNeverLeaks
  <2>8. OneGrant' /\ Unbroken'
    BY <2>1 DEF OneGrant, Unbroken
  <2> QED
    BY <2>4, <2>6, <2>7, <2>8 DEF IInv
<1>4. ASSUME NEW c \in Calls, MatchOldString(c)
      PROVE  IInv'
  <2> DEFINE to == IF c \in Hashed THEN "checked" ELSE "matched"
  <2>1. c \in Editing /\ UNCHANGED <<disk, lockVars, cacheVars, editors>>
    BY <1>4 DEF MatchOldString, Editing
  <2>2. CASE base' = [base EXCEPT ![c] = disk] /\ pc' = [pc EXCEPT ![c] = to]
    <3>1. LockNeverLeaks' /\ QueueSync' /\ OneGrant' /\ pc' \in [Calls -> PCs] /\ Editing' = Editing
      BY <2>1, <2>2, ToolStepKeepsLock
    <3>2. TypeOK'
      BY <2>1, <2>2, <3>1 DEF IInv, TypeOK, lockVars, cacheVars
    <3>3. Unbroken'
      BY <2>1, <2>2, <3>1 DEF IInv, TypeOK, Unbroken, lockVars
    <3> QED
      BY <3>1, <3>2, <3>3 DEF IInv
  <2>3. CASE pc' = [pc EXCEPT ![c] = "failed"] /\ UNCHANGED base
    <3>1. LockNeverLeaks' /\ QueueSync' /\ OneGrant' /\ pc' \in [Calls -> PCs] /\ Editing' = Editing
      BY <2>1, <2>3, ToolStepKeepsLock
    <3>2. TypeOK'
      BY <2>1, <2>3, <3>1 DEF IInv, TypeOK, lockVars, cacheVars
    <3>3. Unbroken'
      BY <2>1, <2>3, <3>1 DEF IInv, TypeOK, Unbroken, lockVars
    <3> QED
      BY <3>1, <3>2, <3>3 DEF IInv
  <2> QED
    BY <1>4, <2>2, <2>3 DEF MatchOldString
<1>5. ASSUME NEW c \in Calls, CompareOnDisk(c)
      PROVE  IInv'
  <2> DEFINE to == IF disk = base[c] THEN "checked" ELSE "failed"
  <2>1. /\ c \in Editing /\ pc' = [pc EXCEPT ![c] = to]
        /\ UNCHANGED <<lockVars, fileVars, cacheVars, editors>>
    BY <1>5 DEF CompareOnDisk, Editing
  <2>2. LockNeverLeaks' /\ QueueSync' /\ OneGrant' /\ pc' \in [Calls -> PCs] /\ Editing' = Editing
    BY <2>1, ToolStepKeepsLock DEF lockVars
  <2>3. TypeOK'
    BY <2>1, <2>2 DEF IInv, TypeOK, lockVars, fileVars, cacheVars
  <2>4. Unbroken'
    BY <2>1, <2>2 DEF IInv, TypeOK, Unbroken, lockVars, fileVars
  <2> QED
    BY <2>2, <2>3, <2>4 DEF IInv
<1>6. ASSUME NEW c \in Calls, WriteFile(c) \/ CreateFile(c)
      PROVE  IInv'
  <2>1. PICK to \in {"written", "failed"} : pc' = [pc EXCEPT ![c] = to]
    BY <1>6 DEF WriteFile, CreateFile
  <2>2. /\ c \in Editing
        /\ disk' \subseteq Calls
        /\ UNCHANGED <<base, lockVars, cacheVars, editors>>
    BY <1>6 DEF WriteFile, CreateFile, Editing, IInv, TypeOK
  <2>3. LockNeverLeaks' /\ QueueSync' /\ OneGrant' /\ pc' \in [Calls -> PCs] /\ Editing' = Editing
    BY <2>1, <2>2, ToolStepKeepsLock DEF lockVars
  <2>4. TypeOK'
    BY <2>1, <2>2, <2>3 DEF IInv, TypeOK, lockVars, cacheVars
  <2>5. ASSUME breaks = {}, NEW d \in Calls, pc'[d] \in {"matched", "checked"}
        PROVE  FALSE
    <3>1. d # c /\ pc'[d] = pc[d]
      BY <2>1, <2>2, <2>5 DEF IInv, TypeOK, Editing
    <3>2. d \in Editing
      BY <2>5, <3>1 DEF Editing
    <3> QED
      BY <2>2, <2>5, <3>1, <3>2 DEF IInv, Unbroken, OneGrant, AtMostOne
  <2>6. Unbroken'
    BY <2>1, <2>2, <2>3, <2>5 DEF IInv, Unbroken, lockVars
  <2> QED
    BY <2>3, <2>4, <2>6 DEF IInv
<1>7. ASSUME NEW c \in Calls, Return(c)
      PROVE  IInv'
  <2> DEFINE to == IF pc[c] = "written" THEN "succeeded" ELSE "rejected"
  <2>1. /\ c \in Editing
        /\ UNCHANGED <<owner, breaks, fileVars, fresh>>
        /\ rereads' \subseteq Calls /\ cache' \in SUBSET SUBSET Calls
        /\ editors' \subseteq Agents
    BY <1>7 DEF Return, Editing, IInv, TypeOK
  <2>2. CASE c \in armed
    <3>1. ReleaseEditLock(c) /\ pc' = Resumed(c, to)
      BY <1>7, <2>2 DEF Return
    <3>2. /\ LockNeverLeaks' /\ QueueSync'
          /\ pc' \in [Calls -> PCs] /\ held' \in BOOLEAN /\ queue' \in Seq(Calls)
          /\ armed' \subseteq Editing'
          /\ "drain" \notin breaks => AtMostOne(armed') /\ (held' <=> armed' # {})
          /\ \A d \in Calls : pc'[d] \in {"matched", "checked"} => pc[d] = pc'[d]
      BY <2>2, <3>1, ReleaseKeepsLock DEF PCs
    <3>3. TypeOK'
      BY <2>1, <3>2 DEF IInv, TypeOK, fileVars
    <3>4. OneGrant'
      BY <2>1, <3>2 DEF OneGrant
    <3>5. ASSUME breaks = {}
          PROVE  Editing' \subseteq armed'
      <4>1. Editing \subseteq {c}
        BY <3>5, <2>1, <2>2 DEF IInv, Unbroken, OneGrant, AtMostOne
      <4>2. CASE queue = <<>>
        BY <4>1, <4>2, <3>1 DEF Resumed, Editing, IInv, TypeOK
      <4>3. CASE queue # <<>>
        <5>1. Head(queue) \in armed' /\ pc' = [pc EXCEPT ![c] = to, ![Head(queue)] = "locked"]
          BY <4>3, <3>1 DEF Resumed, ReleaseEditLock
        <5> QED
          BY <4>1, <5>1 DEF Editing, IInv, TypeOK
      <4> QED
        BY <4>2, <4>3
    <3>6. Unbroken'
      BY <2>1, <3>2, <3>5 DEF IInv, Unbroken, fileVars
    <3> QED
      BY <3>2, <3>3, <3>4, <3>6 DEF IInv
  <2>3. CASE c \notin armed
    <3>1. pc' = [pc EXCEPT ![c] = to] /\ UNCHANGED <<held, queue, armed>>
      BY <1>7, <2>3 DEF Return
    <3>2. c \in Calls /\ pc[c] # "queued" /\ to \notin {"queued", "matched", "checked"}
      BY <2>1 DEF Editing
    <3>3. QueueSync'
      BY <3>1, <3>2 DEF IInv, TypeOK, QueueSync
    <3>4. pc' \in [Calls -> PCs] /\ armed' \subseteq Editing'
      BY <2>3, <3>1, <3>2 DEF IInv, TypeOK, PCs, Editing
    <3>5. TypeOK'
      BY <2>1, <3>1, <3>4 DEF IInv, TypeOK, fileVars
    <3>6. LockNeverLeaks' /\ OneGrant'
      BY <2>1, <3>1 DEF IInv, LockNeverLeaks, OneGrant, AtMostOne
    <3>7. breaks # {}
      BY <2>1, <2>3 DEF IInv, Unbroken
    <3>8. Unbroken'
      BY <2>1, <3>7 DEF Unbroken
    <3> QED
      BY <3>3, <3>5, <3>6, <3>8 DEF IInv
  <2> QED
    BY <2>2, <2>3
<1>8. ASSUME NEW c \in Calls, RereadStep(c)
      PROVE  IInv'
  <2>1. /\ UNCHANGED <<pc, lockVars, fileVars, editors>>
        /\ cache' \in SUBSET SUBSET Calls /\ rereads' \subseteq Calls
        /\ fresh' \in [Calls -> SUBSET SUBSET Calls]
    BY <1>8 DEF RereadStep, Reread, UpdateFile, InvalidateFile, IInv, TypeOK
  <2> QED
    BY <2>1 DEF IInv, TypeOK, LockNeverLeaks, QueueSync, OneGrant, AtMostOne, Unbroken,
                Editing, lockVars, fileVars
<1>9. ASSUME UNCHANGED vars
      PROVE  IInv'
  BY <1>9 DEF vars, IInv, TypeOK, LockNeverLeaks, QueueSync, OneGrant, AtMostOne, Unbroken, Editing
<1> QED
  BY <1>1, <1>2, <1>3, <1>4, <1>5, <1>6, <1>7, <1>8, <1>9 DEF Next, EditStep, Finished

-----------------------------------------------------------------------------
(* The invariant holds in every reachable state.                           *)
THEOREM Invariance == Spec => []IInv
<1>1. Init => IInv
  BY InitIInv
<1>2. IInv /\ [Next]_vars => IInv'
  BY StepIInv
<1> QED
  BY <1>1, <1>2, PTL DEF Spec

(* Type correctness, among it that only a call that edits has a grant to   *)
(* release (acquireEditLock's timer and release function).                 *)
THEOREM TypeCorrect == Spec => []TypeOK
<1>1. IInv => TypeOK
  BY DEF IInv
<1> QED
  BY <1>1, Invariance, PTL

(* The lock never leaks, however grants end: a locked path has a grant     *)
(* that will be released, and nobody waits for a free path                 *)
(* (releaseEditLock, drainAllWaiters).                                     *)
THEOREM NoLeak == Spec => []LockNeverLeaks
<1>1. IInv => LockNeverLeaks
  BY DEF IInv
<1> QED
  BY <1>1, Invariance, PTL

(* Edits of one file are serialized until the lock is broken               *)
(* (bus-cache.ts, edit_file and multi_edit).                               *)
THEOREM Serialization == Spec => []EditsSerialized
<1>1. IInv => EditsSerialized
  <2> SUFFICES ASSUME IInv, breaks = {}
               PROVE  Cardinality(Editing) <= 1
    BY DEF EditsSerialized
  <2>1. AtMostOne(Editing)
    BY DEF IInv, Unbroken, OneGrant, AtMostOne
  <2> QED
    BY <2>1, AtMostOneCardinality
<1> QED
  BY <1>1, Invariance, PTL

(* After timeouts, but before any drain, at most one grant is armed: a     *)
(* late release frees nobody else's lock (acquireEditLock's "released").   *)
THEOREM Exclusion == Spec => []GrantsExclusive
<1>1. IInv => GrantsExclusive
  BY AtMostOneCardinality DEF IInv, OneGrant, GrantsExclusive
<1> QED
  BY <1>1, Invariance, PTL

(* While the lock is unbroken no write removes a peer's edit, creation of  *)
(* the file excepted (edit-file.ts, applyEdit and execute).                *)
THEOREM NoEditLost == Spec => EditsKept
<1>1. ASSUME IInv, [Next]_vars
      PROVE  breaks # {} \/ disk \subseteq disk' \/ \E c \in Creators : disk' = {c}
  <2> USE <1>1
  <2>1. ASSUME NEW c \in Calls, WriteFile(c), breaks = {}
        PROVE  disk \subseteq disk'
    BY <2>1 DEF WriteFile, IInv, Unbroken
  <2>2. ASSUME NEW c \in Calls, CreateFile(c)
        PROVE  disk' = disk \/ \E d \in Creators : disk' = {d}
    BY <2>2 DEF CreateFile
  <2>3. ASSUME NEW c \in Calls,
               \/ AcquireEditLock(c) \/ MatchOldString(c) \/ CompareOnDisk(c) \/ Return(c)
               \/ RereadStep(c) \/ LockTimesOut(c)
        PROVE  disk' = disk
    BY <2>3 DEF AcquireEditLock, MatchOldString, CompareOnDisk, Return, RereadStep, Reread,
                UpdateFile, InvalidateFile, LockTimesOut, fileVars
  <2>4. DrainAllWaiters \/ UNCHANGED vars => disk' = disk
    BY DEF DrainAllWaiters, fileVars, vars
  <2> QED
    BY <2>1, <2>2, <2>3, <2>4 DEF Next, EditStep, Finished
<1> QED
  BY <1>1, Invariance, PTL DEF Spec, EditsKept
=============================================================================
