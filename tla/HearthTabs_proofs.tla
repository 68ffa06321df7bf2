-------------------------- MODULE HearthTabs_proofs --------------------------
(***************************************************************************)
(* Proofs about the tabs of a chat, for any number of tabs, messages and   *)
(* permissions and any length of the queues.                               *)
(***************************************************************************)
EXTENDS HearthTabs, FiniteSetTheorems, SequenceTheorems, TLAPS

(* A queue in the order of sending, all of it after lo and up to hi.       *)
InOrder(q, lo, hi) ==
    /\ \A i \in 1..Len(q) : lo < q[i] /\ q[i] =< hi
    /\ \A i, j \in 1..Len(q) : i < j => q[i] < q[j]

QueuesInOrder ==
    \A t \in Tabs : last[t] =< sent /\ InOrder(queue[t], last[t], sent)

IInv ==
    /\ TypeOK
    /\ IsFiniteSet(tabs)
    /\ NoIdleWithWork
    /\ QueuesInOrder

Prompts == 1..MaxPrompts
Places == {"none", "setup", "ready", "waiting", "turn", "parked", "saving", "exited"}

-----------------------------------------------------------------------------
(* Queues.                                                                 *)

LEMMA OrderTail ==
  ASSUME NEW q \in Seq(Nat), q # <<>>, NEW lo \in Nat, NEW hi \in Nat, InOrder(q, lo, hi)
  PROVE  /\ InOrder(Tail(q), lo, hi)
         /\ InOrder(Tail(q), Head(q), hi)
         /\ Head(q) =< hi /\ Head(q) \in Nat
<1>1. /\ Len(q) \in Nat \ {0} /\ Len(Tail(q)) = Len(q) - 1
      /\ \A i \in 1..Len(q) - 1 : Tail(q)[i] = q[i + 1]
      /\ Head(q) = q[1] /\ q[1] \in Nat
  OBVIOUS
<1> QED
  BY <1>1 DEF InOrder

LEMMA OrderAppend ==
  ASSUME NEW q \in Seq(Nat), NEW lo \in Nat, NEW hi \in Nat, InOrder(q, lo, hi), lo =< hi
  PROVE  InOrder(Append(q, hi + 1), lo, hi + 1)
<1>1. /\ Len(q) \in Nat /\ Len(Append(q, hi + 1)) = Len(q) + 1
      /\ \A i \in 1..Len(q) : Append(q, hi + 1)[i] = q[i] /\ q[i] \in Nat
      /\ Append(q, hi + 1)[Len(q) + 1] = hi + 1
  OBVIOUS
<1>2. \A i \in 1..Len(q) + 1 : i \in 1..Len(q) \/ i = Len(q) + 1
  BY <1>1
<1> QED
  BY <1>1, <1>2 DEF InOrder

LEMMA OrderLater ==
  ASSUME NEW q \in Seq(Nat), NEW lo \in Nat, NEW hi \in Nat, InOrder(q, lo, hi)
  PROVE  InOrder(q, lo, hi + 1)
<1>1. Len(q) \in Nat /\ \A i \in 1..Len(q) : q[i] \in Nat
  OBVIOUS
<1> QED
  BY <1>1 DEF InOrder

-----------------------------------------------------------------------------
(* What the handlers share.                                                *)

LEMMA Typed ==
  ASSUME TypeOK, NEW t \in Tabs
  PROVE  /\ run[t] \in Places
         /\ queue[t] \in Seq(Prompts) /\ queue[t] \in Seq(Nat)
         /\ closed[t] \in BOOLEAN /\ signal[t] \in BOOLEAN /\ stopping[t] \in BOOLEAN
         /\ last[t] \in Nat /\ sent \in Nat
<1>1. Prompts \subseteq Nat
  BY BoundsAssumption DEF Prompts
<1>2. queue[t] \in Seq(Prompts)
  BY DEF TypeOK, Prompts
<1>3. queue[t] \in Seq(Nat)
  BY <1>1, <1>2, SeqMonotonic
<1> QED
  BY <1>2, <1>3, BoundsAssumption DEF TypeOK, Places

(* A loop that has ended is not among the tabs of the workspace.           *)
LEMMA ExitTypes ==
  ASSUME IInv, NEW t \in Tabs, Exit(t)
  PROVE  /\ run' \in [Tabs -> Places] /\ closed' \in [Tabs -> BOOLEAN]
         /\ tabs' \subseteq {u \in Tabs : run'[u] \notin {"none", "exited"}}
         /\ IsFiniteSet(tabs') /\ Cardinality(tabs') =< MaxTabs
         /\ active' \in tabs' \cup {NoTab}
         /\ \A u \in Tabs : run'[u] = IF u = t THEN "exited" ELSE run[u]
         /\ \A u \in Tabs : u # t => closed'[u] = closed[u]
<1>1. /\ run' = [run EXCEPT ![t] = "exited"]
      /\ closed' = [closed EXCEPT ![t] = TRUE]
      /\ tabs' = tabs \ {t}
  BY DEF Exit
<1>2. /\ run \in [Tabs -> Places] /\ closed \in [Tabs -> BOOLEAN]
      /\ tabs \subseteq {u \in Tabs : run[u] \notin {"none", "exited"}}
      /\ IsFiniteSet(tabs) /\ Cardinality(tabs) =< MaxTabs
      /\ active \in tabs \cup {NoTab}
  BY DEF IInv, TypeOK, Places
<1>3. IsFiniteSet(tabs') /\ Cardinality(tabs') =< MaxTabs
  <2>1. IsFiniteSet(tabs') /\ Cardinality(tabs') =< Cardinality(tabs)
    BY <1>1, <1>2, FS_Subset
  <2> QED
    BY <1>2, <2>1, FS_CardinalityType, BoundsAssumption
<1>4. active' \in tabs' \cup {NoTab}
  BY <1>1, <1>2 DEF Exit
<1> QED
  BY <1>1, <1>2, <1>3, <1>4 DEF Places

LEMMA ExitKeeps ==
  ASSUME IInv, NEW t \in Tabs, Exit(t),
         UNCHANGED <<queue, signal, stopping, wsClosed, wsAwaits, online, sent, asked, last>>
  PROVE  IInv'
<1>1. /\ run' \in [Tabs -> Places] /\ closed' \in [Tabs -> BOOLEAN]
      /\ tabs' \subseteq {u \in Tabs : run'[u] \notin {"none", "exited"}}
      /\ IsFiniteSet(tabs') /\ Cardinality(tabs') =< MaxTabs
      /\ active' \in tabs' \cup {NoTab}
      /\ \A u \in Tabs : run'[u] = IF u = t THEN "exited" ELSE run[u]
      /\ \A u \in Tabs : u # t => closed'[u] = closed[u]
  BY ExitTypes
<1>2. TypeOK'
  BY <1>1 DEF IInv, TypeOK, Places
<1>3. NoIdleWithWork' /\ QueuesInOrder'
  BY <1>1 DEF IInv, NoIdleWithWork, QueuesInOrder, InOrder
<1> QED
  BY <1>1, <1>2, <1>3 DEF IInv

(* A loop goes on from one place to another.                               *)
LEMMA MoveKeeps ==
  ASSUME IInv, NEW t \in Tabs, NEW x \in {"ready", "turn", "parked", "saving"},
         run[t] \notin {"none", "exited"}, online \/ x # "parked",
         run' = [run EXCEPT ![t] = x], asked' \in 0..MaxAsks,
         UNCHANGED <<queue, closed, signal, stopping, wsVars, online, sent, last>>
  PROVE  IInv'
<1>1. /\ run' \in [Tabs -> Places]
      /\ \A u \in Tabs : run'[u] = IF u = t THEN x ELSE run[u]
  BY DEF IInv, TypeOK, Places
<1>2. TypeOK' /\ IsFiniteSet(tabs')
  BY <1>1 DEF IInv, TypeOK, Places, wsVars
<1>3. NoIdleWithWork' /\ QueuesInOrder'
  BY <1>1 DEF IInv, NoIdleWithWork, QueuesInOrder, InOrder
<1> QED
  BY <1>2, <1>3 DEF IInv

(* An abort, and the loop a close frees from its wait.                     *)
LEMMA SignalKeeps ==
  ASSUME IInv, NEW t \in Tabs, Signalled(t),
         closed' \in [Tabs -> BOOLEAN], NEW x \in Places,
         run' = [run EXCEPT ![t] = x],
         \/ x = run[t] /\ (closed'[t] = closed[t] \/ x # "waiting")
         \/ x = "saving" /\ run[t] = "waiting",
         \A u \in Tabs : u # t => closed'[u] = closed[u],
         UNCHANGED <<queue, tabs, active, wsClosed, online, sent, asked, last>>,
         wsAwaits' \in Tabs \cup {NoTab}
  PROVE  IInv'
<1>1. /\ run' \in [Tabs -> Places]
      /\ \A u \in Tabs : run'[u] = IF u = t THEN x ELSE run[u]
  BY DEF IInv, TypeOK, Places
<1>2. /\ signal' \in [Tabs -> BOOLEAN] /\ stopping' \in [Tabs -> BOOLEAN]
      /\ \A u \in Tabs : signal[u] => signal'[u]
  BY DEF IInv, TypeOK, Signalled, InTurn
<1>3. TypeOK' /\ IsFiniteSet(tabs')
  <2>1. tabs \subseteq {u \in Tabs : run'[u] \notin {"none", "exited"}}
    BY <1>1 DEF IInv, TypeOK
  <2> QED
    BY <1>1, <1>2, <2>1 DEF IInv, TypeOK, Places
<1>4. NoIdleWithWork'
  BY <1>1 DEF IInv, NoIdleWithWork
<1>5. QueuesInOrder'
  BY <1>1, <1>2 DEF IInv, QueuesInOrder, InOrder
<1> QED
  BY <1>3, <1>4, <1>5 DEF IInv

LEMMA ShutKeeps ==
  ASSUME IInv, NEW t \in Tabs, Shut(t),
         UNCHANGED <<queue, tabs, active, wsClosed, online, sent, asked, last>>,
         wsAwaits' \in Tabs \cup {NoTab}
  PROVE  IInv'
<1>1. CASE UNCHANGED <<closed, signal, stopping, run>>
  <2>1. TypeOK'
    BY <1>1 DEF IInv, TypeOK
  <2>2. NoIdleWithWork' /\ QueuesInOrder'
    BY <1>1 DEF IInv, NoIdleWithWork, QueuesInOrder, InOrder
  <2> QED
    BY <2>1, <2>2 DEF IInv
<1>2. CASE /\ closed' = [closed EXCEPT ![t] = TRUE]
           /\ Signalled(t)
           /\ run' = [run EXCEPT ![t] = IF @ = "waiting" THEN "saving" ELSE @]
  <2>1. PICK x \in Places :
          /\ run' = [run EXCEPT ![t] = x]
          /\ \/ x = run[t] /\ x # "waiting"
             \/ x = "saving" /\ run[t] = "waiting"
    <3> DEFINE y == IF run[t] = "waiting" THEN "saving" ELSE run[t]
    <3>1. y \in Places
      BY Typed DEF IInv, Places
    <3>2. run' = [run EXCEPT ![t] = y]
      BY <1>2
    <3> QED
      BY <3>1, <3>2
  <2>2. closed' \in [Tabs -> BOOLEAN] /\ \A u \in Tabs : u # t => closed'[u] = closed[u]
    BY <1>2 DEF IInv, TypeOK
  <2> QED
    BY <1>2, <2>1, <2>2, SignalKeeps
<1> QED
  BY <1>1, <1>2 DEF Shut

(* A prompt begins: in a loop that waited, or at the head of a loop that   *)
(* has not been told to stop.                                              *)
LEMMA BeginKeeps ==
  ASSUME IInv, NEW t \in Tabs, NEW m \in Prompts, Begin(t, m),
         run[t] = "waiting" \/ (run[t] = "ready" /\ ~signal[t]),
         sent' \in Nat, sent =< sent', sent' =< MaxPrompts, m =< sent',
         queue'[t] \in Seq(Prompts), Len(queue'[t]) =< MaxQueued,
         InOrder(queue'[t], m, sent'),
         queue' = [queue EXCEPT ![t] = queue'[t]],
         \A u \in Tabs : u # t => InOrder(queue[u], last[u], sent'),
         UNCHANGED <<closed, signal, wsVars, online, asked>>
  PROVE  IInv'
<1>1. /\ run' \in [Tabs -> Places]
      /\ \A u \in Tabs : run'[u] = IF u = t THEN "turn" ELSE run[u]
  BY DEF IInv, TypeOK, Places, Begin
<1>2. /\ last' \in [Tabs -> 0..MaxPrompts]
      /\ \A u \in Tabs : last'[u] = IF u = t THEN m ELSE last[u]
  BY DEF IInv, TypeOK, Begin, Prompts
<1>6. /\ queue' \in [Tabs -> Seq(Prompts)]
      /\ \A u \in Tabs : u # t => queue'[u] = queue[u]
  BY DEF IInv, TypeOK, Prompts
<1>7. TypeOK'
  <2>2. stopping' \in [Tabs -> BOOLEAN]
    BY DEF IInv, TypeOK, Begin
  <2>3. sent' \in 0..MaxPrompts
    BY BoundsAssumption
  <2>4. tabs \subseteq {u \in Tabs : run'[u] \notin {"none", "exited"}}
    BY <1>1 DEF IInv, TypeOK
  <2>5. \A u \in Tabs : Len(queue'[u]) =< MaxQueued
    BY <1>6 DEF IInv, TypeOK
  <2> QED
    BY <1>1, <1>2, <1>6, <2>2, <2>3, <2>4, <2>5 DEF IInv, TypeOK, Places, Prompts, wsVars
<1>8. NoIdleWithWork'
  BY <1>1, <1>6 DEF IInv, NoIdleWithWork
<1>9. QueuesInOrder'
  <2>1. \A u \in Tabs : u # t => last[u] =< sent'
    BY Typed DEF IInv, QueuesInOrder
  <2> QED
    BY <1>2, <1>6, <2>1 DEF QueuesInOrder
<1> QED
  BY <1>7, <1>8, <1>9 DEF IInv, wsVars

(* enqueuePrompt, with the number of a new message.                        *)
LEMMA EnqueueKeeps ==
  ASSUME IInv, NEW t \in tabs, sent < MaxPrompts, sent' = sent + 1, Enqueue(t, sent'),
         UNCHANGED <<closed, signal, wsVars, online, asked>>
  PROVE  IInv'
<1>1. t \in Tabs /\ tabs \subseteq Tabs
  BY DEF IInv, TypeOK
<1>2. /\ sent \in Nat /\ sent' \in Prompts /\ sent' \in 0..MaxPrompts /\ sent' \in Nat
      /\ sent =< sent' /\ sent' =< MaxPrompts
  BY <1>1, Typed, BoundsAssumption DEF IInv, Prompts
<1>3. \A u \in Tabs : /\ queue[u] \in Seq(Nat) /\ last[u] \in Nat
                      /\ last[u] =< sent /\ InOrder(queue[u], last[u], sent)
  BY Typed DEF IInv, QueuesInOrder
<1>4. \A u \in Tabs : InOrder(queue[u], last[u], sent')
  BY <1>2, <1>3, OrderLater
<1>5. CASE closed[t]
  <2>1. UNCHANGED <<run, queue, stopping, last>>
    BY <1>5 DEF Enqueue
  <2>2. TypeOK'
    BY <1>2, <2>1 DEF IInv, TypeOK, wsVars
  <2>3. NoIdleWithWork'
    BY <2>1 DEF IInv, NoIdleWithWork
  <2>4. QueuesInOrder'
    BY <1>2, <1>3, <1>4, <2>1 DEF QueuesInOrder
  <2> QED
    BY <2>2, <2>3, <2>4 DEF IInv, wsVars
<1>6. CASE ~closed[t] /\ run[t] = "waiting"
  <2>1. Begin(t, sent') /\ queue' = queue
    BY <1>6 DEF Enqueue
  <2>2. queue[t] = <<>>
    BY <1>1, <1>6 DEF IInv, NoIdleWithWork
  <2>3. /\ queue'[t] \in Seq(Prompts) /\ Len(queue'[t]) =< MaxQueued
        /\ queue' = [queue EXCEPT ![t] = queue'[t]]
    BY <1>1, <2>1, Typed DEF IInv, TypeOK
  <2>4. InOrder(queue'[t], sent', sent')
    BY <2>1, <2>2, EmptySeq DEF InOrder
  <2> QED
    BY <1>1, <1>2, <1>4, <1>6, <2>1, <2>3, <2>4, BeginKeeps
<1>7. CASE ~closed[t] /\ run[t] # "waiting"
  <2> DEFINE q == IF Len(queue[t]) >= MaxQueued THEN Tail(queue[t]) ELSE queue[t]
             r == Append(q, sent')
  <2>1. queue' = [queue EXCEPT ![t] = r] /\ UNCHANGED <<run, stopping, last>>
    BY <1>7 DEF Enqueue
  <2>2. q \in Seq(Prompts) /\ q \in Seq(Nat) /\ Len(q) < MaxQueued
    <3>1. queue[t] \in Seq(Prompts) /\ queue[t] \in Seq(Nat) /\ Len(queue[t]) =< MaxQueued
      BY <1>1, Typed DEF IInv, TypeOK
    <3> QED
      BY <3>1, BoundsAssumption
  <2>3. InOrder(q, last[t], sent)
    <3>1. queue[t] # <<>> => InOrder(Tail(queue[t]), last[t], sent)
      BY <1>1, <1>2, <1>3, OrderTail
    <3>2. Len(queue[t]) >= MaxQueued => queue[t] # <<>>
      BY BoundsAssumption, <1>1, <1>3, EmptySeq
    <3> QED
      BY <1>1, <1>3, <3>1, <3>2
  <2>4. r \in Seq(Prompts) /\ Len(r) =< MaxQueued
    BY <1>2, <2>2, BoundsAssumption
  <2>5. InOrder(r, last[t], sent')
    BY <1>1, <1>2, <1>3, <2>2, <2>3, OrderAppend
  <2> HIDE DEF q, r
  <2>6. \A u \in Tabs : queue'[u] = IF u = t THEN r ELSE queue[u]
    BY <1>1, <2>1 DEF IInv, TypeOK
  <2>7. TypeOK'
    <3>1. queue' \in [Tabs -> Seq(Prompts)]
      BY <1>1, <2>1, <2>4 DEF IInv, TypeOK, Prompts
    <3>2. \A u \in Tabs : Len(queue'[u]) =< MaxQueued
      BY <2>4, <2>6 DEF IInv, TypeOK
    <3> QED
      BY <1>2, <2>1, <3>1, <3>2 DEF IInv, TypeOK, Prompts, wsVars
  <2>8. NoIdleWithWork'
    BY <1>7, <2>1, <2>6 DEF IInv, NoIdleWithWork
  <2>9. QueuesInOrder'
    BY <1>2, <1>3, <1>4, <2>1, <2>5, <2>6 DEF QueuesInOrder
  <2> QED
    BY <2>7, <2>8, <2>9 DEF IInv, wsVars
<1> QED
  BY <1>5, <1>6, <1>7, Typed, <1>1 DEF IInv

LEMMA ReadKeeps ==
  ASSUME IInv, NEW t \in Tabs, ReadPrompt(t)
  PROVE  IInv'
<1>0. asked \in 0..MaxAsks
  BY DEF IInv, TypeOK
<1>1. CASE LeavesLoop(t)
  <2>1. run' = [run EXCEPT ![t] = "saving"] /\ UNCHANGED <<queue, stopping, last>>
    BY <1>1 DEF ReadPrompt
  <2> QED
    BY <1>0, <2>1, MoveKeeps DEF ReadPrompt
<1>2. CASE ~LeavesLoop(t) /\ queue[t] # <<>>
  <2> DEFINE m == Head(queue[t])
  <2>1. Begin(t, m) /\ queue' = [queue EXCEPT ![t] = Tail(queue[t])] /\ ~signal[t] /\ run[t] = "ready"
    BY <1>2 DEF ReadPrompt, LeavesLoop
  <2>2. /\ m \in Prompts /\ Tail(queue[t]) \in Seq(Prompts)
        /\ Len(Tail(queue[t])) =< MaxQueued
    <3>1. queue[t] \in Seq(Prompts) /\ Len(queue[t]) =< MaxQueued
      BY Typed DEF IInv, TypeOK
    <3> QED
      BY <1>2, <3>1, BoundsAssumption
  <2>3. /\ InOrder(Tail(queue[t]), m, sent)
        /\ m =< sent
    BY <1>2, Typed, OrderTail DEF IInv, QueuesInOrder
  <2>4. queue'[t] = Tail(queue[t])
    BY <2>1 DEF IInv, TypeOK
  <2>5. sent' = sent /\ sent \in Nat /\ sent =< MaxPrompts
    BY Typed, BoundsAssumption DEF ReadPrompt, IInv, TypeOK
  <2>6. \A u \in Tabs : InOrder(queue[u], last[u], sent')
    BY <2>5 DEF IInv, QueuesInOrder
  <2>7. UNCHANGED <<closed, signal, wsVars, online, asked>>
    BY <1>0 DEF ReadPrompt
  <2>8. queue' = [queue EXCEPT ![t] = queue'[t]]
    BY <2>1, <2>4
  <2>9. /\ queue'[t] \in Seq(Prompts) /\ Len(queue'[t]) =< MaxQueued
        /\ InOrder(queue'[t], m, sent')
    BY <2>2, <2>3, <2>4, <2>5
  <2>10. sent' \in Nat /\ sent =< sent' /\ sent' =< MaxPrompts /\ m =< sent'
    BY <2>3, <2>5
  <2>11. /\ Begin(t, m) /\ m \in Prompts
         /\ run[t] = "waiting" \/ (run[t] = "ready" /\ ~signal[t])
    BY <2>1, <2>2
  <2> HIDE DEF m
  <2> QED
    BY <2>6, <2>7, <2>8, <2>9, <2>10, <2>11, BeginKeeps
<1>3. CASE ~LeavesLoop(t) /\ queue[t] = <<>>
  <2>1. run' = [run EXCEPT ![t] = "waiting"] /\ UNCHANGED <<queue, stopping, last>> /\ run[t] = "ready"
    BY <1>3 DEF ReadPrompt
  <2>2. /\ run' \in [Tabs -> Places]
        /\ \A u \in Tabs : run'[u] = IF u = t THEN "waiting" ELSE run[u]
    BY <2>1 DEF IInv, TypeOK, Places
  <2>3. UNCHANGED <<closed, signal, wsVars, online, sent, asked>>
    BY DEF ReadPrompt
  <2>4. TypeOK' /\ IsFiniteSet(tabs')
    BY <2>1, <2>2, <2>3 DEF IInv, TypeOK, Places, wsVars
  <2>5. NoIdleWithWork'
    BY <1>3, <2>1, <2>2, <2>3 DEF IInv, NoIdleWithWork, LeavesLoop
  <2>6. QueuesInOrder'
    BY <2>1, <2>3 DEF IInv, QueuesInOrder, InOrder
  <2> QED
    BY <2>4, <2>5, <2>6 DEF IInv
<1> QED
  BY <1>1, <1>2, <1>3

-----------------------------------------------------------------------------
(* Every step keeps the invariant.                                         *)

LEMMA IInvInit == Init => IInv
<1> SUFFICES ASSUME Init PROVE IInv
  OBVIOUS
<1>1. IsFiniteSet(tabs) /\ Cardinality(tabs) = 0
  BY FS_EmptySet DEF Init
<1>2. queue \in [Tabs -> Seq(1..MaxPrompts)] /\ \A t \in Tabs : Len(queue[t]) = 0
  BY EmptySeq DEF Init
<1>3. TypeOK
  <2>1. MaxTabs \in Nat /\ MaxQueued \in Nat /\ MaxPrompts \in Nat /\ MaxAsks \in Nat
    BY BoundsAssumption
  <2>2. run \in [Tabs -> Places] /\ {closed, signal, stopping} \subseteq [Tabs -> BOOLEAN]
    BY DEF Init, Places
  <2>3. \A t \in Tabs : Len(queue[t]) =< MaxQueued
    BY <1>2, <2>1
  <2>4. /\ tabs \subseteq {t \in Tabs : run[t] \notin {"none", "exited"}}
        /\ Cardinality(tabs) =< MaxTabs /\ active \in tabs \cup {NoTab}
    BY <1>1, <2>1 DEF Init
  <2>5. /\ wsClosed \in BOOLEAN /\ wsAwaits \in Tabs \cup {NoTab}
        /\ sent \in 0..MaxPrompts /\ asked \in 0..MaxAsks
    <3>1. wsClosed = FALSE /\ wsAwaits = NoTab /\ sent = 0 /\ asked = 0
      BY DEF Init
    <3>2. 0 \in 0..MaxPrompts /\ 0 \in 0..MaxAsks
      BY <2>1
    <3> QED
      BY <3>1, <3>2
  <2>6. last \in [Tabs -> 0..MaxPrompts]
    <3>1. 0 \in 0..MaxPrompts
      BY <2>1
    <3> QED
      BY <3>1 DEF Init
  <2>7. online \in BOOLEAN /\ \A t \in Tabs : run[t] # "parked"
    BY DEF Init
  <2> QED
    BY <1>2, <2>2, <2>3, <2>4, <2>5, <2>6, <2>7 DEF TypeOK, Places
<1>4. NoIdleWithWork
  BY DEF Init, NoIdleWithWork
<1>5. QueuesInOrder
  BY <1>2 DEF Init, QueuesInOrder, InOrder
<1> QED
  BY <1>1, <1>3, <1>4, <1>5 DEF IInv

LEMMA IInvNext == IInv /\ [Next]_vars => IInv'
<1> SUFFICES ASSUME IInv, [Next]_vars PROVE IInv'
  OBVIOUS
<1>0. asked \in 0..MaxAsks /\ wsAwaits \in Tabs \cup {NoTab}
  BY DEF IInv, TypeOK
<1>1. CASE Send
  <2>1. ASSUME tabs = {}, UNCHANGED <<run, queue, stopping, last>>,
               sent < MaxPrompts, sent' = sent + 1,
               UNCHANGED <<closed, signal, wsVars, online, asked>>
        PROVE  IInv'
    <3>1. sent \in Nat /\ sent' \in 0..MaxPrompts
      BY <2>1, BoundsAssumption DEF IInv, TypeOK
    <3>3. TypeOK'
      BY <2>1, <3>1 DEF IInv, TypeOK, wsVars
    <3>4. NoIdleWithWork'
      BY <2>1 DEF IInv, NoIdleWithWork
    <3>5. QueuesInOrder'
      <4>1. \A t \in Tabs : InOrder(queue[t], last[t], sent + 1)
        BY <3>1, Typed, OrderLater DEF IInv, QueuesInOrder
      <4>2. \A t \in Tabs : last[t] =< sent + 1
        BY <3>1, Typed DEF IInv, QueuesInOrder
      <4> QED
        BY <2>1, <4>1, <4>2 DEF QueuesInOrder
    <3> QED
      BY <2>1, <3>3, <3>4, <3>5 DEF IInv, wsVars
  <2>2. ASSUME NEW t \in tabs, Enqueue(t, sent'), sent < MaxPrompts, sent' = sent + 1,
               UNCHANGED <<closed, signal, wsVars, online, asked>>
        PROVE  IInv'
    BY <2>2, EnqueueKeeps
  <2> QED
    BY <1>1, <2>1, <2>2 DEF Send
<1>2. CASE Stop
  <2>1. active \in Tabs /\ Signalled(active)
    BY <1>2 DEF Stop, IInv, TypeOK
  <2>2. run[active] \in Places /\ run' = [run EXCEPT ![active] = run[active]]
    BY <1>2, <2>1, Typed DEF Stop, IInv, TypeOK
  <2>4. closed' = closed /\ closed' \in [Tabs -> BOOLEAN] /\ wsAwaits' = wsAwaits
    BY <1>2 DEF Stop, IInv, TypeOK, wsVars
  <2>5. UNCHANGED <<queue, tabs, active, wsClosed, online, sent, asked, last>>
    BY <1>2 DEF Stop, wsVars
  <2> QED
    BY <1>0, <2>1, <2>2, <2>4, <2>5, SignalKeeps
<1>3. CASE CloseWorkspace
  <2>1. TypeOK' /\ NoIdleWithWork' /\ QueuesInOrder'
    BY <1>3 DEF CloseWorkspace, IInv, TypeOK, loopVars, NoIdleWithWork, QueuesInOrder, InOrder
  <2> QED
    BY <1>3, <2>1 DEF CloseWorkspace, IInv
<1>4. ASSUME NEW t \in Tabs, OpenTab(t) PROVE IInv'
  <2>1. /\ run' = [run EXCEPT ![t] = "setup"] /\ run[t] = "none"
        /\ tabs' = tabs \cup {t} /\ Cardinality(tabs) < MaxTabs
        /\ active' = IF active = NoTab THEN t ELSE active
        /\ UNCHANGED <<queue, closed, signal, stopping, wsClosed, wsAwaits, online, sent, asked, last>>
    BY <1>4 DEF OpenTab
  <2>2. IsFiniteSet(tabs') /\ Cardinality(tabs') =< MaxTabs
    <3>0. IsFiniteSet(tabs) /\ Cardinality(tabs) \in Nat
      BY FS_CardinalityType DEF IInv
    <3> HIDE DEF IInv
    <3>1. IsFiniteSet(tabs') /\ Cardinality(tabs') =< Cardinality(tabs) + 1
      <4>1. /\ IsFiniteSet(tabs \cup {t})
            /\ Cardinality(tabs \cup {t}) = IF t \in tabs THEN Cardinality(tabs) ELSE Cardinality(tabs) + 1
        BY <3>0, FS_AddElement
      <4>2. tabs' = tabs \cup {t}
        BY <2>1
      <4> QED
        BY <3>0, <4>1, <4>2
    <3> QED
      <4>1. Cardinality(tabs') \in Nat /\ MaxTabs \in Nat
        BY <3>1, FS_CardinalityType, BoundsAssumption
      <4> QED
        BY <2>1, <3>0, <3>1, <4>1
  <2>3. /\ run' \in [Tabs -> Places]
        /\ \A u \in Tabs : run'[u] = IF u = t THEN "setup" ELSE run[u]
    BY <2>1 DEF IInv, TypeOK, Places
  <2>4. /\ tabs' \subseteq {u \in Tabs : run'[u] \notin {"none", "exited"}}
        /\ active' \in tabs' \cup {NoTab}
    BY <2>1, <2>3 DEF IInv, TypeOK
  <2>5. TypeOK'
    BY <2>1, <2>2, <2>3, <2>4 DEF IInv, TypeOK, Places
  <2>6. NoIdleWithWork' /\ QueuesInOrder'
    BY <2>1, <2>3 DEF IInv, NoIdleWithWork, QueuesInOrder, InOrder
  <2> QED
    BY <2>2, <2>5, <2>6 DEF IInv
<1>5. ASSUME NEW t \in Tabs, SwitchTo(t) PROVE IInv'
  <2>1. TypeOK' /\ NoIdleWithWork' /\ QueuesInOrder'
    BY <1>5 DEF SwitchTo, IInv, TypeOK, loopVars, NoIdleWithWork, QueuesInOrder, InOrder
  <2> QED
    BY <1>5, <2>1 DEF SwitchTo, IInv
<1>6. ASSUME NEW t \in Tabs, CloseTab(t) PROVE IInv'
  BY <1>0, <1>6, ShutKeeps DEF CloseTab, wsVars
<1>7. ASSUME NEW t \in Tabs, CloseNext(t) PROVE IInv'
  BY <1>7, ShutKeeps DEF CloseNext
<1>8. ASSUME NEW t \in Tabs, SetupEnds(t) PROVE IInv'
  <2>1. CASE run' = [run EXCEPT ![t] = "ready"] /\ UNCHANGED <<closed, tabs, active>>
    BY <1>0, <1>8, <2>1, MoveKeeps DEF SetupEnds, wsVars
  <2>2. CASE Exit(t)
    BY <1>8, <2>2, ExitKeeps DEF SetupEnds
  <2> QED
    BY <1>8, <2>1, <2>2 DEF SetupEnds
<1>9. ASSUME NEW t \in Tabs, ReadPrompt(t) PROVE IInv'
  BY <1>9, ReadKeeps
<1>10. ASSUME NEW t \in Tabs, Ask(t) PROVE IInv'
  <2>1. asked' \in 0..MaxAsks
    BY <1>0, <1>10, BoundsAssumption DEF Ask
  <2> QED
    BY <1>10, <2>1, MoveKeeps DEF Ask
<1>11. ASSUME NEW t \in Tabs, Answered(t) PROVE IInv'
  BY <1>0, <1>11, MoveKeeps DEF Answered
<1>12. ASSUME NEW t \in Tabs, TurnEnds(t) PROVE IInv'
  <2>1. PICK x \in {"ready", "saving"} : run' = [run EXCEPT ![t] = x]
    BY <1>12 DEF TurnEnds
  <2> QED
    BY <1>0, <1>12, <2>1, MoveKeeps DEF TurnEnds
<1>13. ASSUME NEW t \in Tabs, SaveEnds(t) PROVE IInv'
  BY <1>13, ExitKeeps DEF SaveEnds
<1>14. ASSUME NEW t \in Tabs, BreaksOff(t) PROVE IInv'
  BY <1>0, <1>14, MoveKeeps DEF BreaksOff
<1>15. CASE SurfaceStops
  <2>1. /\ run' = [t \in Tabs |-> IF run[t] = "parked" THEN "turn" ELSE run[t]]
        /\ online' = FALSE
        /\ UNCHANGED <<queue, closed, signal, stopping, wsVars, sent, asked, last>>
    BY <1>15 DEF SurfaceStops
  <2>2. /\ run' \in [Tabs -> Places]
        /\ \A t \in Tabs : /\ run'[t] # "parked"
                           /\ run'[t] = run[t] \/ (run'[t] = "turn" /\ run[t] = "parked")
    BY <2>1 DEF IInv, TypeOK, Places
  <2>3. tabs \subseteq {t \in Tabs : run'[t] \notin {"none", "exited"}}
    BY <2>2 DEF IInv, TypeOK
  <2>4. TypeOK'
    BY <2>1, <2>2, <2>3 DEF IInv, TypeOK, Places, wsVars
  <2>5. NoIdleWithWork' /\ QueuesInOrder'
    BY <2>1, <2>2 DEF IInv, NoIdleWithWork, QueuesInOrder, InOrder
  <2> QED
    BY <2>1, <2>4, <2>5 DEF IInv, wsVars
<1>16. CASE UNCHANGED vars
  <2>1. TypeOK' /\ NoIdleWithWork' /\ QueuesInOrder'
    BY <1>16 DEF vars, loopVars, wsVars, IInv, TypeOK, NoIdleWithWork, QueuesInOrder, InOrder
  <2> QED
    BY <1>16, <2>1 DEF vars, wsVars, IInv
<1> QED
  BY <1>1, <1>2, <1>3, <1>4, <1>5, <1>6, <1>7, <1>8, <1>9, <1>10, <1>11, <1>12, <1>13, <1>14, <1>15, <1>16 DEF Next

-----------------------------------------------------------------------------
(* The theorems.                                                           *)

(* The inductive invariant: queues in order, a waiting loop without work.  *)
THEOREM Invariance == Spec => []IInv
BY IInvInit, IInvNext, PTL DEF Spec

(* Every variable keeps its type; the tabs of the workspace are loops that *)
(* run, no more than the limit (openTab, onExit).                          *)
THEOREM TypeCorrect == Spec => []TypeOK
<1>1. IInv => TypeOK
  BY DEF IInv
<1> QED
  BY <1>1, Invariance, PTL

(* A loop never waits with a prompt in its queue or after its close        *)
(* (enqueuePrompt, readPrompt).                                            *)
THEOREM WaitsOnlyIdle == Spec => []NoIdleWithWork
<1>1. IInv => NoIdleWithWork
  BY DEF IInv
<1> QED
  BY <1>1, Invariance, PTL

(* Prompts begin in the order of sending, none twice, for any length of    *)
(* the queue (enqueuePrompt, readPrompt).                                  *)
THEOREM InOrderAlways == Spec => []PromptsInOrder
<1>1. IInv => PromptsInOrder
  <2> SUFFICES ASSUME IInv, NEW t \in Tabs
               PROVE  /\ \A i \in DOMAIN queue[t] : last[t] < queue[t][i]
                      /\ \A i, j \in DOMAIN queue[t] : i < j => queue[t][i] < queue[t][j]
    BY DEF PromptsInOrder
  <2>1. DOMAIN queue[t] = 1..Len(queue[t])
    BY Typed DEF IInv
  <2> QED
    BY <2>1 DEF IInv, QueuesInOrder, InOrder
<1> QED
  BY <1>1, Invariance, PTL
=============================================================================
