-------------------------- MODULE WorkerRpc_proofs --------------------------
(***************************************************************************)
(* Proofs about the calls between the main thread and a worker, for any    *)
(* calls, any limit of restarts and any number of workers.                 *)
(***************************************************************************)
EXTENDS WorkerRpc, FiniteSetTheorems, SequenceTheorems, TLAPS

(* Messages whose number is the call's own: it was given to this call and, *)
(* if it still waits, waits for this call.                                 *)
Owned == {m \in Messages : m.id < nextId /\ pending[m.id] \in {m.call, NoCall}}

(* Wherever a message is, it has kept its number.                          *)
CarriedOwn ==
    /\ inbox \in [Workers -> Seq(Owned \cup {InitMessage, DisposeMessage})]
    /\ outbox \in [Workers -> Seq(Owned)]
    /\ initQueue \in [Workers -> Seq(Owned)]
    /\ handling \in [Workers -> SUBSET Owned]

Used == {c \in Calls : outcome[c] # "unsent"}

(* Numbers are given in order, at most one for each call, and a call waits *)
(* under one number.                                                       *)
NumbersOnce ==
    /\ nextId =< Cardinality(Used)
    /\ \A i \in Waiting : i < nextId
    /\ \A i, j \in Waiting : pending[i] = pending[j] => i = j

IInv ==
    /\ TypeOK
    /\ NumbersOnce
    /\ CarriedOwn
    /\ InFlightIsPending
    /\ AnswersAreOwn

-----------------------------------------------------------------------------
(* The constants and the counts.                                           *)

LEMMA SizeOfIds ==
    /\ Cardinality(Calls) \in Nat
    /\ IsFiniteSet(Ids)
    /\ Ids \subseteq Nat
    /\ \A n \in Nat : n < Cardinality(Calls) <=> n \in Ids
<1>1. Cardinality(Calls) \in Nat
  BY CallsAssumption, FS_CardinalityType
<1>2. IsFiniteSet(0..Cardinality(Calls) - 1)
  BY <1>1, FS_Interval
<1> QED
  BY <1>1, <1>2 DEF Ids

LEMMA WaitingFinite ==
    IsFiniteSet(Waiting) /\ Cardinality(Waiting) \in Nat
<1>1. Waiting \in SUBSET Ids
  BY DEF Waiting
<1>2. IsFiniteSet(Waiting)
  BY <1>1, SizeOfIds, FS_Subset
<1> QED
  BY <1>2, FS_CardinalityType

(* A call that was not made leaves a number to give.                       *)
LEMMA NumberLeft ==
  ASSUME TypeOK, nextId =< Cardinality(Used),
         NEW c \in Calls, outcome[c] = "unsent"
  PROVE  nextId \in Ids
<1>1. IsFiniteSet(Used) /\ Cardinality(Used) =< Cardinality(Calls)
  BY CallsAssumption, FS_Subset DEF Used
<1>2. Cardinality(Used) \in Nat
  BY <1>1, FS_CardinalityType
<1>3. Used # Calls
  BY DEF Used
<1>4. Cardinality(Used) # Cardinality(Calls)
  BY <1>3, CallsAssumption, FS_Subset DEF Used
<1>5. Cardinality(Used) < Cardinality(Calls)
  BY <1>1, <1>2, <1>4, SizeOfIds
<1> QED
  BY <1>2, <1>5, SizeOfIds DEF TypeOK

LEMMA NamesApart ==
    /\ NoCall \notin Calls
    /\ InitMessage \notin Messages /\ DisposeMessage \notin Messages
    /\ InitMessage # DisposeMessage
    /\ Awaited \cup Fires = Calls
BY CallsAssumption DEF InitMessage, DisposeMessage, Messages, Calls

-----------------------------------------------------------------------------
(* Types.                                                                  *)

LEMMA OneMessage ==
  ASSUME NEW S, NEW x \in S
  PROVE  <<x>> \in Seq(S) /\ <<>> \in Seq(S)
OBVIOUS

LEMMA TypeInit == Init => TypeOK
<1> SUFFICES ASSUME Init PROVE TypeOK
  OBVIOUS
<1>1. inbox \in [Workers -> Seq(Messages \cup {InitMessage, DisposeMessage})]
  <2>1. <<InitMessage>> \in Seq(Messages \cup {InitMessage, DisposeMessage})
        /\ <<>> \in Seq(Messages \cup {InitMessage, DisposeMessage})
    BY OneMessage
  <2>2. Greeting(1) \in Seq(Messages \cup {InitMessage, DisposeMessage})
    BY <2>1 DEF Greeting
  <2> QED
    BY <2>1, <2>2 DEF Init
<1>2. outbox \in [Workers -> Seq(Messages)] /\ initQueue \in [Workers -> Seq(Messages)]
  BY EmptySeq DEF Init
<1>3. /\ outcome \in [Calls -> {"unsent", "waiting", "answered", "checked", "failed", "fired"}]
      /\ answer \in [Calls -> Calls \cup {NoCall}]
      /\ pending \in [Ids -> Calls \cup {NoCall}]
      /\ disposed \in BOOLEAN
  BY DEF Init
<1>6. nextId \in 0..Cardinality(Calls) /\ inFlight \in Nat
  BY SizeOfIds DEF Init
<1>7. cur \in Workers /\ restarts \in 0..MaxRestarts
  BY BoundsAssumption DEF Init, Workers
<1>4. /\ life \in [Workers -> {"unborn", "up", "terminated", "gone"}]
      /\ \A w \in Workers : w =< cur <=> life[w] # "unborn"
  BY BoundsAssumption DEF Init, Workers
<1>5. /\ init \in [Workers -> {"none", "running", "done"}]
      /\ flushing \in [Workers -> Messages \cup {NoMessage}]
      /\ handling \in [Workers -> SUBSET Messages]
  BY DEF Init
<1> QED
  BY <1>1, <1>2, <1>3, <1>4, <1>5, <1>6, <1>7 DEF TypeOK

LEMMA TypePost ==
  ASSUME TypeOK, NEW m \in Messages \cup {DisposeMessage}, Post(m)
  PROVE  inbox' \in [Workers -> Seq(Messages \cup {InitMessage, DisposeMessage})]
BY DEF TypeOK, Post

LEMMA TypeRestart ==
  ASSUME TypeOK, NEW n \in 0..MaxRestarts, NEW lives \in [Workers -> {"unborn", "up", "terminated", "gone"}],
         \A w \in Workers : w =< cur <=> lives[w] # "unborn",
         TryRestart(n, lives)
  PROVE  /\ restarts' \in 0..MaxRestarts
         /\ cur' \in Workers
         /\ life' \in [Workers -> {"unborn", "up", "terminated", "gone"}]
         /\ \A w \in Workers : w =< cur' <=> life'[w] # "unborn"
         /\ inbox' \in [Workers -> Seq(Messages \cup {InitMessage, DisposeMessage})]
         /\ nextId' = nextId
         /\ init' \in [Workers -> {"none", "running", "done"}]
         /\ initQueue' \in [Workers -> Seq(Messages)]
         /\ flushing' \in [Workers -> Messages \cup {NoMessage}]
         /\ handling' \in [Workers -> SUBSET Messages]
<1> DEFINE S == Seq(Messages \cup {InitMessage, DisposeMessage})
           stopped == [lives EXCEPT ![cur] = IF @ = "up" THEN "terminated" ELSE @]
<1>1. CASE StaysDown(n, lives) /\ nextId' = nextId
  BY <1>1 DEF StaysDown, TypeOK, localVars
<1>2. CASE /\ ~(disposed \/ n >= MaxRestarts \/ cur = MaxWorkers)
           /\ Respawn(n, lives) /\ nextId' = nextId
  <2>1. /\ restarts' = n + 1 /\ n + 1 \in 0..MaxRestarts
        /\ cur \in Nat /\ cur \in Workers /\ cur + 1 \in Workers
        /\ nextId' = nextId
        /\ StopWorker(cur)
    BY <1>2, BoundsAssumption DEF Respawn, TypeOK, Workers
  <2>2. /\ stopped \in [Workers -> {"unborn", "up", "terminated", "gone"}]
        /\ \A w \in Workers : w =< cur <=> stopped[w] # "unborn"
    <3>1. \A w \in Workers : stopped[w] = IF w = cur THEN IF lives[cur] = "up" THEN "terminated" ELSE lives[cur]
                                            ELSE lives[w]
      BY <2>1
    <3>2. lives[cur] # "unborn"
      BY <2>1
    <3> QED
      BY <2>1, <3>1, <3>2
  <2>3. /\ <<>> \in S /\ <<InitMessage>> \in S /\ Greeting(cur + 1) \in S
    BY OneMessage DEF Greeting
  <2>4. \/ /\ cur' = cur + 1
           /\ life' = [stopped EXCEPT ![cur + 1] = "up"]
           /\ inbox' = [inbox EXCEPT ![cur] = <<>>, ![cur + 1] = Greeting(cur + 1)]
        \/ /\ life' = stopped /\ inbox' = [inbox EXCEPT ![cur] = <<>>] /\ cur' = cur
    BY <1>2 DEF Respawn
  <2> HIDE DEF stopped, S
  <2>5. inbox \in [Workers -> S]
    BY DEF TypeOK, S
  <2>6. /\ cur' \in Workers
        /\ life' \in [Workers -> {"unborn", "up", "terminated", "gone"}]
        /\ inbox' \in [Workers -> S]
    BY <2>1, <2>2, <2>3, <2>4, <2>5
  <2>7. \A w \in Workers : w =< cur' <=> life'[w] # "unborn"
    <3> SUFFICES ASSUME NEW w \in Workers
                 PROVE  w =< cur' <=> life'[w] # "unborn"
      OBVIOUS
    <3>1. w \in Nat
      BY BoundsAssumption DEF Workers
    <3>2. CASE life' = stopped /\ cur' = cur
      BY <2>2, <3>2
    <3>3. CASE cur' = cur + 1 /\ life' = [stopped EXCEPT ![cur + 1] = "up"]
      <4>1. life'[w] = IF w = cur + 1 THEN "up" ELSE stopped[w]
        BY <2>1, <2>2, <3>3
      <4>2. w =< cur <=> stopped[w] # "unborn"
        BY <2>2
      <4> QED
        BY <2>1, <3>1, <3>3, <4>1, <4>2
    <3> QED
      BY <2>4, <3>2, <3>3
  <2>8. /\ init' \in [Workers -> {"none", "running", "done"}]
        /\ flushing' \in [Workers -> Messages \cup {NoMessage}]
        /\ handling' \in [Workers -> SUBSET Messages]
    BY <2>1 DEF TypeOK, StopWorker
  <2>9. initQueue' \in [Workers -> Seq(Messages)]
    BY <2>1, EmptySeq DEF TypeOK, StopWorker
  <2> QED
    BY <2>1, <2>6, <2>7, <2>8, <2>9 DEF S
<1> QED
  BY <1>1, <1>2 DEF TryRestart

(* The calls that are rejected together.                                   *)
LEMMA TypeReject ==
  ASSUME TypeOK, InFlightIsPending, RejectAll
  PROVE  /\ outcome' \in [Calls -> {"unsent", "waiting", "answered", "checked", "failed", "fired"}]
         /\ pending' \in [Ids -> Calls \cup {NoCall}]
         /\ inFlight' \in Nat
BY WaitingFinite DEF TypeOK, InFlightIsPending, RejectAll

LEMMA TypeNext ==
  ASSUME TypeOK, NumbersOnce, InFlightIsPending, [Next]_vars
  PROVE  TypeOK'
<1> USE DEF vars, clientVars, restartVars, workerVars, localVars
<1>1. CASE Dispose
  <2>1. inbox' \in [Workers -> Seq(Messages \cup {InitMessage, DisposeMessage})]
    BY <1>1, TypePost DEF Dispose
  <2> QED
    BY <1>1, <2>1, TypeReject DEF Dispose, TypeOK
<1>2. ASSUME NEW c \in Calls, Send(c) PROVE TypeOK'
  <2>1. CASE disposed
    BY <1>2, <2>1 DEF Send, TypeOK
  <2>2. CASE ~disposed
    <3>1. nextId \in Ids /\ nextId + 1 \in 0..Cardinality(Calls)
      BY <1>2, NumberLeft, SizeOfIds DEF Send, NumbersOnce, TypeOK, Ids
    <3>2. [id |-> nextId, call |-> c] \in Messages
      BY <3>1 DEF Messages
    <3>3. inbox' \in [Workers -> Seq(Messages \cup {InitMessage, DisposeMessage})]
      BY <1>2, <2>2, <3>2, TypePost DEF Send
    <3>4. outcome' \in [Calls -> {"unsent", "waiting", "answered", "checked", "failed", "fired"}]
      BY <1>2, <2>2 DEF Send, TypeOK
    <3>5. pending' \in [Ids -> Calls \cup {NoCall}] /\ inFlight' \in Nat
      BY <1>2, <2>2, <3>1 DEF Send, TypeOK
    <3> QED
      BY <1>2, <2>2, <3>1, <3>3, <3>4, <3>5 DEF Send, TypeOK
  <2> QED
    BY <2>1, <2>2
<1>3. ASSUME NEW c \in Calls, CheckHeap(c) PROVE TypeOK'
  <2>1. CASE UNCHANGED <<restarts, life, cur, inbox, nextId, localVars>>
    BY <1>3, <2>1 DEF CheckHeap, TypeOK
  <2>2. CASE TryRestart(0, life)
    <3>1. 0 \in 0..MaxRestarts
      BY BoundsAssumption
    <3> HIDE DEF vars, clientVars, restartVars, workerVars, localVars
    <3>2. /\ restarts' \in 0..MaxRestarts
          /\ cur' \in Workers
          /\ life' \in [Workers -> {"unborn", "up", "terminated", "gone"}]
          /\ \A w \in Workers : w =< cur' <=> life'[w] # "unborn"
          /\ inbox' \in [Workers -> Seq(Messages \cup {InitMessage, DisposeMessage})]
          /\ nextId' = nextId
          /\ init' \in [Workers -> {"none", "running", "done"}]
          /\ initQueue' \in [Workers -> Seq(Messages)]
          /\ flushing' \in [Workers -> Messages \cup {NoMessage}]
          /\ handling' \in [Workers -> SUBSET Messages]
      BY <2>2, <3>1, TypeRestart DEF TypeOK
    <3> QED
      BY <1>3, <3>2 DEF CheckHeap, TypeOK
  <2> QED
    BY <1>3, <2>1, <2>2 DEF CheckHeap
<1>4. ASSUME NEW i \in Ids, TimesOut(i) PROVE TypeOK'
  <2>1. pending[i] \in Calls
    BY <1>4 DEF TimesOut, Waiting, TypeOK
  <2>2. inFlight - 1 \in Nat
    <3>1. Waiting # {} /\ Cardinality(Waiting) # 0
      BY <1>4, SizeOfIds, FS_Subset, FS_EmptySet DEF TimesOut, Waiting
    <3> QED
      BY <3>1, WaitingFinite DEF InFlightIsPending
  <2> QED
    BY <1>4, <2>1, <2>2 DEF TimesOut, TypeOK
<1>5. ASSUME NEW w \in Workers, ReceiveResult(w) PROVE TypeOK'
  <2> DEFINE m == Head(outbox[w])
             c == pending[m.id]
  <2>1. m \in Messages /\ Tail(outbox[w]) \in Seq(Messages)
    BY <1>5 DEF ReceiveResult, TypeOK
  <2>2. m.id \in Ids /\ m.call \in Calls
    BY <2>1 DEF Messages
  <2>3. CASE c = NoCall
    BY <1>5, <2>1, <2>3 DEF ReceiveResult, TypeOK
  <2>4. CASE c # NoCall
    <3>1. c \in Calls
      BY <2>2, <2>4 DEF TypeOK
    <3>2. inFlight - 1 \in Nat
      <4>1. m.id \in Waiting
        BY <2>2, <2>4 DEF Waiting
      <4>2. Cardinality(Waiting) # 0
        BY <4>1, WaitingFinite, FS_EmptySet
      <4> QED
        BY <4>2, WaitingFinite DEF InFlightIsPending
    <3>3. /\ \E kind \in {"answered", "failed"} : outcome' = [outcome EXCEPT ![c] = kind]
          /\ answer' = [answer EXCEPT ![c] = m.call]
          /\ pending' = [pending EXCEPT ![m.id] = NoCall]
          /\ inFlight' = inFlight - 1
          /\ outbox' = [outbox EXCEPT ![w] = Tail(@)]
      BY <1>5, <2>4 DEF ReceiveResult
    <3> HIDE DEF m, c
    <3> QED
      BY <1>5, <2>1, <2>2, <3>1, <3>2, <3>3 DEF ReceiveResult, TypeOK, m
  <2> QED
    BY <2>3, <2>4
<1>6. ASSUME NEW w \in Workers, Close(w) PROVE TypeOK'
  <2> DEFINE lives == [life EXCEPT ![w] = "gone"]
  <2>1. /\ lives \in [Workers -> {"unborn", "up", "terminated", "gone"}]
        /\ \A u \in Workers : u =< cur <=> lives[u] # "unborn"
    BY <1>6 DEF Close, TypeOK
  <2>2. TryRestart(restarts, lives) /\ restarts \in 0..MaxRestarts
    BY <1>6 DEF Close, TypeOK
  <2>3. outbox' \in [Workers -> Seq(Messages)]
    BY <1>6, EmptySeq DEF Close, TypeOK
  <2> HIDE DEF lives, vars, clientVars, restartVars, workerVars, localVars
  <2>4. /\ restarts' \in 0..MaxRestarts
        /\ cur' \in Workers
        /\ life' \in [Workers -> {"unborn", "up", "terminated", "gone"}]
        /\ \A u \in Workers : u =< cur' <=> life'[u] # "unborn"
        /\ inbox' \in [Workers -> Seq(Messages \cup {InitMessage, DisposeMessage})]
        /\ nextId' = nextId
        /\ init' \in [Workers -> {"none", "running", "done"}]
        /\ initQueue' \in [Workers -> Seq(Messages)]
        /\ flushing' \in [Workers -> Messages \cup {NoMessage}]
        /\ handling' \in [Workers -> SUBSET Messages]
    BY <2>1, <2>2, TypeRestart
  <2> QED
    BY <1>6, <2>3, <2>4, TypeReject DEF Close, TypeOK
<1>7. ASSUME NEW w \in Workers, Crash(w) PROVE TypeOK'
  <2>1. /\ outcome' \in [Calls -> {"unsent", "waiting", "answered", "checked", "failed", "fired"}]
        /\ pending' \in [Ids -> Calls \cup {NoCall}]
        /\ inFlight' \in Nat
    BY <1>7, TypeReject DEF Crash, TypeOK
  <2>2. <<>> \in Seq(Messages) /\ <<>> \in Seq(Messages \cup {InitMessage, DisposeMessage})
    BY EmptySeq
  <2>3. /\ init' \in [Workers -> {"none", "running", "done"}]
        /\ flushing' \in [Workers -> Messages \cup {NoMessage}]
        /\ handling' \in [Workers -> SUBSET Messages]
        /\ initQueue' \in [Workers -> Seq(Messages)]
    BY <1>7, <2>2 DEF Crash, TypeOK, StopWorker
  <2>4. inbox' \in [Workers -> Seq(Messages \cup {InitMessage, DisposeMessage})]
    BY <1>7, <2>2 DEF Crash, TypeOK
  <2> QED
    BY <1>7, <2>1, <2>3, <2>4 DEF Crash, TypeOK
<1>8. ASSUME NEW w \in Workers, ReceiveMessage(w) PROVE TypeOK'
  <2> DEFINE m == Head(inbox[w])
  <2>0. /\ m \in Messages \cup {InitMessage, DisposeMessage}
        /\ Tail(inbox[w]) \in Seq(Messages \cup {InitMessage, DisposeMessage})
    BY <1>8 DEF ReceiveMessage, TypeOK
  <2>00. <<>> \in Seq(Messages) /\ <<>> \in Seq(Messages \cup {InitMessage, DisposeMessage})
    BY EmptySeq
  <2>1. CASE m = DisposeMessage
    <3>1. /\ life' = [life EXCEPT ![w] = "terminated"]
          /\ inbox' = [inbox EXCEPT ![w] = <<>>]
          /\ StopWorker(w)
          /\ life[w] = "up"
      BY <1>8, <2>1 DEF ReceiveMessage
    <3>2. /\ init' \in [Workers -> {"none", "running", "done"}]
          /\ flushing' \in [Workers -> Messages \cup {NoMessage}]
          /\ handling' \in [Workers -> SUBSET Messages]
          /\ initQueue' \in [Workers -> Seq(Messages)]
      BY <3>1, <2>00 DEF TypeOK, StopWorker
    <3> HIDE DEF m
    <3> QED
      BY <1>8, <2>00, <3>1, <3>2 DEF ReceiveMessage, TypeOK
  <2>2. CASE m # DisposeMessage
    <3>1. /\ inbox' = [inbox EXCEPT ![w] = Tail(@)]
          /\ \/ m = InitMessage /\ init' = [init EXCEPT ![w] = "running"] /\ UNCHANGED <<initQueue, handling>>
             \/ m # InitMessage /\ initQueue' = [initQueue EXCEPT ![w] = Append(@, m)] /\ UNCHANGED <<init, handling>>
             \/ m # InitMessage /\ handling' = [handling EXCEPT ![w] = @ \cup {m}] /\ UNCHANGED <<init, initQueue>>
          /\ UNCHANGED <<life, flushing>>
      BY <1>8, <2>2 DEF ReceiveMessage
    <3>2. m # InitMessage => m \in Messages
      BY <2>0, <2>2
    <3> HIDE DEF m
    <3>3. init' \in [Workers -> {"none", "running", "done"}]
      BY <3>1 DEF TypeOK
    <3>4. initQueue' \in [Workers -> Seq(Messages)]
      <4>1. m # InitMessage => Append(initQueue[w], m) \in Seq(Messages)
        BY <3>2 DEF TypeOK
      <4>2. CASE initQueue' = [initQueue EXCEPT ![w] = Append(initQueue[w], m)] /\ m # InitMessage
        BY <4>1, <4>2 DEF TypeOK
      <4>3. CASE UNCHANGED initQueue
        BY <4>3 DEF TypeOK
      <4> QED
        BY <3>1, <4>2, <4>3
    <3>5. handling' \in [Workers -> SUBSET Messages]
      <4>1. CASE handling' = [handling EXCEPT ![w] = handling[w] \cup {m}] /\ m # InitMessage
        BY <3>2, <4>1 DEF TypeOK
      <4>2. CASE UNCHANGED handling
        BY <4>2 DEF TypeOK
      <4> QED
        BY <3>1, <4>1, <4>2
    <3>6. inbox' \in [Workers -> Seq(Messages \cup {InitMessage, DisposeMessage})]
      BY <3>1, <2>0 DEF TypeOK
    <3> QED
      BY <1>8, <3>1, <3>3, <3>4, <3>5, <3>6 DEF ReceiveMessage, TypeOK
  <2> QED
    BY <2>1, <2>2
<1>9. ASSUME NEW w \in Workers, InitEnds(w) PROVE TypeOK'
  BY <1>9 DEF InitEnds, TypeOK
<1>10. ASSUME NEW w \in Workers, FlushNext(w) PROVE TypeOK'
  <2>1. Head(initQueue[w]) \in Messages /\ Tail(initQueue[w]) \in Seq(Messages)
    BY <1>10 DEF FlushNext, TypeOK
  <2> QED
    BY <1>10, <2>1 DEF FlushNext, TypeOK
<1>11. ASSUME NEW w \in Workers, NEW m \in handling[w], HandlerEnds(w, m) PROVE TypeOK'
  <2>1. m \in Messages
    BY DEF TypeOK
  <2>2. Append(outbox[w], m) \in Seq(Messages)
    BY <2>1 DEF TypeOK
  <2>3. flushing' \in [Workers -> Messages \cup {NoMessage}]
    BY <1>11 DEF HandlerEnds, TypeOK
  <2>4. handling' \in [Workers -> SUBSET Messages] /\ outbox' \in [Workers -> Seq(Messages)]
    BY <1>11, <2>2 DEF HandlerEnds, TypeOK
  <2> QED
    BY <1>11, <2>3, <2>4 DEF HandlerEnds, TypeOK
<1>12. CASE UNCHANGED vars
  BY <1>12 DEF TypeOK
<1> HIDE DEF vars, clientVars, restartVars, workerVars, localVars
<1> QED
  BY <1>1, <1>2, <1>3, <1>4, <1>5, <1>6, <1>7, <1>8, <1>9, <1>10, <1>11, <1>12 DEF Next, Request, Probe

-----------------------------------------------------------------------------
(* Numbers and their count.                                                *)

LEMMA NumbersKept ==
  ASSUME TypeOK, NumbersOnce, InFlightIsPending,
         UNCHANGED <<pending, nextId, inFlight>>,
         \A c \in Calls : /\ outcome'[c] = "waiting" <=> outcome[c] = "waiting"
                          /\ outcome'[c] = "unsent" <=> outcome[c] = "unsent"
  PROVE  NumbersOnce' /\ InFlightIsPending'
<1>1. Used' = Used /\ Waiting' = Waiting
  BY DEF Used, Waiting
<1> QED
  BY <1>1 DEF NumbersOnce, InFlightIsPending

(* A call that is answered or whose time is over.                          *)
LEMMA NumberFreed ==
  ASSUME TypeOK, NumbersOnce, InFlightIsPending,
         NEW i \in Waiting, NEW x \in {"answered", "failed"},
         pending' = [pending EXCEPT ![i] = NoCall],
         outcome' = [outcome EXCEPT ![pending[i]] = x],
         inFlight' = inFlight - 1, nextId' = nextId
  PROVE  NumbersOnce' /\ InFlightIsPending'
<1>1. i \in Ids /\ pending[i] \in Calls /\ outcome[pending[i]] = "waiting"
  BY DEF Waiting, TypeOK, InFlightIsPending
<1>2. Used' = Used
  BY <1>1 DEF Used, TypeOK
<1>3. Waiting' = Waiting \ {i}
  BY <1>1 DEF Waiting, TypeOK
<1>4. Cardinality(Waiting') = Cardinality(Waiting) - 1
  BY <1>3, WaitingFinite, FS_RemoveElement
<1>5. \A c \in Calls : outcome'[c] = "waiting" <=> c # pending[i] /\ outcome[c] = "waiting"
  BY <1>1 DEF TypeOK
<1>6. \A j \in Ids : pending'[j] = IF j = i THEN NoCall ELSE pending[j]
  BY <1>1 DEF TypeOK
<1>7. \A j \in Ids : j # i => pending[j] # pending[i]
  BY <1>1, NamesApart DEF NumbersOnce, Waiting
<1>8. \A c \in Calls : outcome'[c] = "waiting" <=> \E j \in Ids : pending'[j] = c
  BY <1>5, <1>6, <1>7, NamesApart DEF InFlightIsPending
<1>9. NumbersOnce'
  BY <1>2, <1>3, <1>6 DEF NumbersOnce, Waiting
<1> QED
  BY <1>4, <1>8, <1>9 DEF InFlightIsPending

LEMMA NumbersRejected ==
  ASSUME TypeOK, NumbersOnce, InFlightIsPending, RejectAll, nextId' = nextId
  PROVE  NumbersOnce' /\ InFlightIsPending'
<1>1. Waiting' = {}
  BY DEF RejectAll, Waiting
<1>2. Cardinality(Waiting') = 0
  BY <1>1, FS_EmptySet
<1>3. inFlight' = 0
  BY WaitingFinite DEF RejectAll, InFlightIsPending
<1>4. Used' = Used
  BY DEF Used, RejectAll
<1>5. \A c \in Calls : outcome'[c] # "waiting"
  BY DEF RejectAll
<1>6. \A c \in Calls : ~ \E j \in Ids : pending'[j] = c
  BY NamesApart DEF RejectAll
<1> QED
  BY <1>1, <1>2, <1>3, <1>4, <1>5, <1>6 DEF NumbersOnce, InFlightIsPending

LEMMA NumberGiven ==
  ASSUME TypeOK, NumbersOnce, InFlightIsPending, NEW c \in Calls, Send(c)
  PROVE  NumbersOnce' /\ InFlightIsPending'
<1>1. outcome[c] = "unsent" /\ c \notin Used /\ c # NoCall
  BY NamesApart DEF Send, Used
<1>2. IsFiniteSet(Used) /\ Cardinality(Used) \in Nat /\ nextId \in Nat
  BY CallsAssumption, FS_Subset, FS_CardinalityType DEF Used, TypeOK
<1>3. Used' = Used \cup {c}
  BY <1>1 DEF Send, Used, TypeOK
<1>4. Cardinality(Used') = Cardinality(Used) + 1
  BY <1>1, <1>2, <1>3, FS_AddElement
<1>5. \A j \in Ids : pending[j] # c
  BY <1>1 DEF InFlightIsPending
<1>6. CASE disposed \/ c \in Fires
  <2>1. pending' = pending /\ inFlight' = inFlight /\ nextId' \in {nextId, nextId + 1}
    BY <1>6 DEF Send
  <2>2. \A d \in Calls : outcome'[d] = "waiting" <=> outcome[d] = "waiting"
    BY <1>1, <1>6 DEF Send, TypeOK
  <2>3. Waiting' = Waiting
    BY <2>1 DEF Waiting
  <2>4. NumbersOnce'
    BY <1>2, <1>4, <2>1, <2>3, SizeOfIds DEF NumbersOnce, Waiting
  <2> QED
    BY <2>1, <2>2, <2>3, <2>4 DEF InFlightIsPending
<1>7. CASE ~disposed /\ c \notin Fires
  <2>1. /\ pending' = [pending EXCEPT ![nextId] = c]
        /\ inFlight' = inFlight + 1 /\ nextId' = nextId + 1
        /\ outcome' = [outcome EXCEPT ![c] = "waiting"]
    BY <1>7 DEF Send
  <2>2. nextId \in Ids /\ nextId \notin Waiting
    BY <1>1, <1>2, NumberLeft DEF NumbersOnce
  <2>3. \A j \in Ids : pending'[j] = IF j = nextId THEN c ELSE pending[j]
    BY <2>1, <2>2 DEF TypeOK
  <2>4. Waiting' = Waiting \cup {nextId}
    BY <1>1, <2>2, <2>3 DEF Waiting
  <2>5. Cardinality(Waiting') = Cardinality(Waiting) + 1
    BY <2>2, <2>4, WaitingFinite, FS_AddElement
  <2>6. pending[nextId] = NoCall
    BY <2>2 DEF Waiting
  <2>7. \A d \in Calls : outcome'[d] = "waiting" <=> d = c \/ outcome[d] = "waiting"
    BY <2>1 DEF TypeOK
  <2>8. \A d \in Calls : outcome'[d] = "waiting" <=> \E j \in Ids : pending'[j] = d
    BY <2>2, <2>3, <2>6, <2>7, NamesApart DEF InFlightIsPending
  <2>9. NumbersOnce'
    <3>1. nextId' =< Cardinality(Used')
      BY <1>2, <1>4, <2>1 DEF NumbersOnce
    <3>2. \A i \in Waiting' : i < nextId'
      BY <1>2, <2>1, <2>4, SizeOfIds DEF NumbersOnce, Waiting
    <3>3. \A i, j \in Waiting' : pending'[i] = pending'[j] => i = j
      BY <1>5, <2>2, <2>3, <2>4 DEF NumbersOnce, Waiting
    <3> QED
      BY <3>1, <3>2, <3>3 DEF NumbersOnce
  <2> QED
    BY <2>1, <2>5, <2>8, <2>9 DEF InFlightIsPending
<1> QED
  BY <1>6, <1>7

LEMMA NumbersNext ==
  ASSUME TypeOK, NumbersOnce, InFlightIsPending, [Next]_vars
  PROVE  NumbersOnce' /\ InFlightIsPending'
<1>1. CASE Dispose
  BY <1>1, NumbersRejected DEF Dispose
<1>2. ASSUME NEW c \in Calls, Send(c) PROVE NumbersOnce' /\ InFlightIsPending'
  BY <1>2, NumberGiven
<1>3. ASSUME NEW c \in Calls, CheckHeap(c) PROVE NumbersOnce' /\ InFlightIsPending'
  <2>1. nextId' = nextId
    BY <1>3 DEF CheckHeap, TryRestart
  <2> QED
    BY <1>3, <2>1, NumbersKept DEF CheckHeap, TypeOK
<1>4. ASSUME NEW i \in Ids, TimesOut(i) PROVE NumbersOnce' /\ InFlightIsPending'
  BY <1>4, NumberFreed DEF TimesOut
<1>5. ASSUME NEW w \in Workers, ReceiveResult(w) PROVE NumbersOnce' /\ InFlightIsPending'
  <2> DEFINE m == Head(outbox[w])
  <2>0. m \in Messages
    BY <1>5 DEF ReceiveResult, TypeOK
  <2>1. m.id \in Ids
    BY <2>0 DEF Messages
  <2>2. CASE pending[m.id] = NoCall
    BY <1>5, <2>2, NumbersKept DEF ReceiveResult
  <2>3. CASE pending[m.id] # NoCall
    <3>1. m.id \in Waiting
      BY <2>1, <2>3 DEF Waiting
    <3>2. /\ pending' = [pending EXCEPT ![m.id] = NoCall]
          /\ \E kind \in {"answered", "failed"} : outcome' = [outcome EXCEPT ![pending[m.id]] = kind]
          /\ inFlight' = inFlight - 1 /\ nextId' = nextId
      BY <1>5, <2>3 DEF ReceiveResult
    <3> HIDE DEF m
    <3> QED
      BY <3>1, <3>2, NumberFreed
  <2> QED
    BY <2>2, <2>3
<1>6. ASSUME NEW w \in Workers, Close(w) PROVE NumbersOnce' /\ InFlightIsPending'
  BY <1>6, NumbersRejected DEF Close, TryRestart
<1>7. ASSUME NEW w \in Workers, Crash(w) PROVE NumbersOnce' /\ InFlightIsPending'
  BY <1>7, NumbersRejected, NumbersKept DEF Crash
<1>8. ASSUME UNCHANGED clientVars PROVE NumbersOnce' /\ InFlightIsPending'
  BY <1>8, NumbersKept DEF clientVars
<1> QED
  BY <1>1, <1>2, <1>3, <1>4, <1>5, <1>6, <1>7, <1>8
  DEF Next, Request, Probe, vars, ReceiveMessage, InitEnds, FlushNext, HandlerEnds

-----------------------------------------------------------------------------
(* Messages and their numbers.                                             *)

(* Numbers are not given back, and no number changes its call.             *)
NumbersStay ==
    /\ nextId' >= nextId
    /\ \A i \in Ids : i < nextId => pending'[i] \in {pending[i], NoCall}

LEMMA NumbersStayNext ==
  ASSUME TypeOK, [Next]_vars
  PROVE  nextId' \in Int /\ NumbersStay
<1>0. nextId \in Nat
  BY SizeOfIds DEF TypeOK
<1>1. CASE Dispose
  BY <1>0, <1>1 DEF Dispose, RejectAll, NumbersStay
<1>2. ASSUME NEW c \in Calls, Send(c) PROVE nextId' \in Int /\ NumbersStay
  BY <1>0, <1>2 DEF Send, NumbersStay, TypeOK
<1>3. ASSUME NEW c \in Calls, CheckHeap(c) PROVE nextId' \in Int /\ NumbersStay
  BY <1>0, <1>3 DEF CheckHeap, TryRestart, NumbersStay
<1>4. ASSUME NEW i \in Ids, TimesOut(i) PROVE nextId' \in Int /\ NumbersStay
  BY <1>0, <1>4 DEF TimesOut, NumbersStay, TypeOK
<1>5. ASSUME NEW w \in Workers, ReceiveResult(w) PROVE nextId' \in Int /\ NumbersStay
  <2>1. pending' = pending \/ pending' = [pending EXCEPT ![Head(outbox[w]).id] = NoCall]
    BY <1>5 DEF ReceiveResult
  <2>2. nextId' = nextId
    BY <1>5 DEF ReceiveResult
  <2> QED
    BY <1>0, <2>1, <2>2 DEF NumbersStay, TypeOK
<1>6. ASSUME NEW w \in Workers, Close(w) PROVE nextId' \in Int /\ NumbersStay
  BY <1>0, <1>6 DEF Close, TryRestart, RejectAll, NumbersStay
<1>7. ASSUME NEW w \in Workers, Crash(w) PROVE nextId' \in Int /\ NumbersStay
  BY <1>0, <1>7 DEF Crash, RejectAll, NumbersStay
<1>8. ASSUME UNCHANGED clientVars PROVE nextId' \in Int /\ NumbersStay
  BY <1>0, <1>8 DEF clientVars, NumbersStay
<1> QED
  BY <1>1, <1>2, <1>3, <1>4, <1>5, <1>6, <1>7, <1>8
  DEF Next, Request, Probe, vars, ReceiveMessage, InitEnds, FlushNext, HandlerEnds

LEMMA OwnedGrows ==
  ASSUME TypeOK, [Next]_vars
  PROVE  Owned \subseteq Owned'
<1>1. \A m \in Messages : m.id \in Ids
  BY DEF Messages
<1>2. nextId \in Nat /\ nextId' \in Int /\ NumbersStay
  BY SizeOfIds, NumbersStayNext DEF TypeOK
<1>3. \A i \in Ids : i < nextId => i < nextId'
  BY <1>2, SizeOfIds DEF NumbersStay
<1> QED
  BY <1>1, <1>2, <1>3 DEF Owned, NumbersStay

(* Sequences of messages stay what they are while numbers are given.       *)
LEMMA CarriedWider ==
  ASSUME Owned \subseteq Owned', CarriedOwn
  PROVE  /\ inbox \in [Workers -> Seq(Owned' \cup {InitMessage, DisposeMessage})]
         /\ outbox \in [Workers -> Seq(Owned')]
         /\ initQueue \in [Workers -> Seq(Owned')]
         /\ handling \in [Workers -> SUBSET Owned']
<1>1. \A s \in Seq(Owned) : s \in Seq(Owned')
  BY SeqMonotonic
<1>2. \A s \in Seq(Owned \cup {InitMessage, DisposeMessage}) : s \in Seq(Owned' \cup {InitMessage, DisposeMessage})
  <2>1. Owned \cup {InitMessage, DisposeMessage} \subseteq Owned' \cup {InitMessage, DisposeMessage}
    OBVIOUS
  <2> QED
    BY <2>1, SeqMonotonic
<1> QED
  BY <1>1, <1>2 DEF CarriedOwn

LEMMA CarriedStopped ==
  ASSUME Owned \subseteq Owned', CarriedOwn, NEW w \in Workers, StopWorker(w)
  PROVE  /\ initQueue' \in [Workers -> Seq(Owned')]
         /\ handling' \in [Workers -> SUBSET Owned']
<1>1. <<>> \in Seq(Owned')
  BY EmptySeq
<1> QED
  BY <1>1, CarriedWider DEF StopWorker

LEMMA CarriedRestart ==
  ASSUME Owned \subseteq Owned', CarriedOwn, TypeOK,
         NEW n, NEW lives, TryRestart(n, lives)
  PROVE  /\ inbox' \in [Workers -> Seq(Owned' \cup {InitMessage, DisposeMessage})]
         /\ initQueue' \in [Workers -> Seq(Owned')]
         /\ handling' \in [Workers -> SUBSET Owned']
<1>1. CASE StaysDown(n, lives)
  BY <1>1, CarriedWider DEF StaysDown, localVars
<1>2. CASE Respawn(n, lives)
  <2>1. /\ <<>> \in Seq(Owned' \cup {InitMessage, DisposeMessage})
        /\ <<InitMessage>> \in Seq(Owned' \cup {InitMessage, DisposeMessage})
    BY OneMessage
  <2>2. cur \in Workers /\ StopWorker(cur)
    BY <1>2 DEF TypeOK, Respawn
  <2>3. Greeting(cur + 1) \in Seq(Owned' \cup {InitMessage, DisposeMessage})
    BY <2>1 DEF Greeting
  <2>4. \/ inbox' = [inbox EXCEPT ![cur] = <<>>, ![cur + 1] = Greeting(cur + 1)]
        \/ inbox' = [inbox EXCEPT ![cur] = <<>>]
    BY <1>2 DEF Respawn
  <2> QED
    BY <2>1, <2>2, <2>3, <2>4, CarriedWider, CarriedStopped
<1> QED
  BY <1>1, <1>2 DEF TryRestart

LEMMA CarriedPost ==
  ASSUME TypeOK, Owned \subseteq Owned', CarriedOwn, NEW m \in Owned' \cup {DisposeMessage}, Post(m)
  PROVE  inbox' \in [Workers -> Seq(Owned' \cup {InitMessage, DisposeMessage})]
<1> DEFINE S == Owned' \cup {InitMessage, DisposeMessage}
<1>1. m \in S
  OBVIOUS
<1> HIDE DEF S
<1>2. inbox \in [Workers -> Seq(S)]
  BY CarriedWider DEF S
<1>3. cur \in Workers
  BY DEF TypeOK
<1>4. Append(inbox[cur], m) \in Seq(S)
  BY <1>1, <1>2, <1>3
<1>5. inbox' \in [Workers -> Seq(S)]
  BY <1>2, <1>3, <1>4 DEF Post
<1> QED
  BY <1>5 DEF S

LEMMA CarriedNext ==
  ASSUME TypeOK, NumbersOnce, CarriedOwn, [Next]_vars
  PROVE  CarriedOwn'
<1> DEFINE S == Owned' \cup {InitMessage, DisposeMessage}
<1>0. /\ Owned \subseteq Owned'
      /\ inbox \in [Workers -> Seq(S)]
      /\ outbox \in [Workers -> Seq(Owned')]
      /\ initQueue \in [Workers -> Seq(Owned')]
      /\ handling \in [Workers -> SUBSET Owned']
  BY OwnedGrows, CarriedWider
<1>e. <<>> \in Seq(Owned') /\ <<>> \in Seq(S)
  BY EmptySeq
<1> SUFFICES /\ inbox' \in [Workers -> Seq(S)]
             /\ outbox' \in [Workers -> Seq(Owned')]
             /\ initQueue' \in [Workers -> Seq(Owned')]
             /\ handling' \in [Workers -> SUBSET Owned']
  BY DEF CarriedOwn
<1> DEFINE Carried == /\ inbox' \in [Workers -> Seq(S)]
                      /\ outbox' \in [Workers -> Seq(Owned')]
                      /\ initQueue' \in [Workers -> Seq(Owned')]
                      /\ handling' \in [Workers -> SUBSET Owned']
<1>1. CASE Dispose
  <2>1. inbox' \in [Workers -> Seq(S)]
    BY <1>0, <1>1, CarriedPost DEF Dispose
  <2> QED
    BY <1>0, <1>1, <2>1 DEF Dispose, localVars
<1>2. ASSUME NEW c \in Calls, Send(c) PROVE Carried
  <2>1. CASE disposed
    BY <1>0, <1>2, <2>1 DEF Send, localVars
  <2>2. CASE ~disposed
    <3> DEFINE m == [id |-> nextId, call |-> c]
    <3>1. nextId \in Ids /\ nextId \in Nat
      BY <1>2, NumberLeft, SizeOfIds DEF Send, NumbersOnce
    <3>2. m \in Messages
      BY <3>1 DEF Messages
    <3>3. m.id < nextId' /\ pending'[m.id] \in {c, NoCall}
      <4>1. nextId' = nextId + 1
        BY <1>2, <2>2 DEF Send
      <4>2. pending' = pending \/ pending' = [pending EXCEPT ![nextId] = c]
        BY <1>2, <2>2 DEF Send
      <4>3. pending[nextId] = NoCall
        BY <3>1 DEF NumbersOnce, Waiting
      <4> QED
        BY <3>1, <4>1, <4>2, <4>3 DEF TypeOK
    <3>4. m \in Owned'
      BY <3>2, <3>3 DEF Owned, Messages
    <3>5. Post(m)
      BY <1>2, <2>2 DEF Send
    <3>6. inbox' \in [Workers -> Seq(S)]
      BY <1>0, <3>4, <3>5, CarriedPost
    <3> QED
      BY <1>0, <1>2, <2>2, <3>6 DEF Send, localVars
  <2> QED
    BY <2>1, <2>2
<1>3. ASSUME NEW c \in Calls, CheckHeap(c) PROVE Carried
  <2>1. outbox' = outbox
    BY <1>3 DEF CheckHeap
  <2>2. CASE UNCHANGED <<restarts, life, cur, inbox, nextId, localVars>>
    BY <1>0, <2>1, <2>2 DEF localVars
  <2>3. CASE TryRestart(0, life)
    BY <1>0, <2>1, <2>3, CarriedRestart
  <2> QED
    BY <1>3, <2>2, <2>3 DEF CheckHeap
<1>4. ASSUME NEW i \in Ids, TimesOut(i) PROVE Carried
  BY <1>0, <1>4 DEF TimesOut, workerVars, localVars
<1>5. ASSUME NEW w \in Workers, ReceiveResult(w) PROVE Carried
  <2>1. Tail(outbox[w]) \in Seq(Owned')
    BY <1>0, <1>5 DEF ReceiveResult
  <2> QED
    BY <1>0, <1>5, <2>1 DEF ReceiveResult, localVars
<1>6. ASSUME NEW w \in Workers, Close(w) PROVE Carried
  <2>1. TryRestart(restarts, [life EXCEPT ![w] = "gone"])
    BY <1>6 DEF Close
  <2>2. outbox' \in [Workers -> Seq(Owned')]
    BY <1>0, <1>6, <1>e DEF Close
  <2> QED
    BY <1>0, <2>1, <2>2, CarriedRestart
<1>7. ASSUME NEW w \in Workers, Crash(w) PROVE Carried
  BY <1>0, <1>7, <1>e, CarriedStopped DEF Crash
<1>8. ASSUME NEW w \in Workers, ReceiveMessage(w) PROVE Carried
  <2> DEFINE m == Head(inbox[w])
  <2>1. m \in S /\ Tail(inbox[w]) \in Seq(S)
    BY <1>0, <1>8 DEF ReceiveMessage
  <2>2. outbox' = outbox
    BY <1>8 DEF ReceiveMessage
  <2>3. CASE StopWorker(w) /\ inbox' = [inbox EXCEPT ![w] = <<>>]
    BY <1>0, <1>e, <2>2, <2>3, CarriedStopped
  <2>4. CASE /\ m # DisposeMessage
             /\ inbox' = [inbox EXCEPT ![w] = Tail(@)]
             /\ \/ UNCHANGED <<initQueue, handling>>
                \/ m # InitMessage /\ initQueue' = [initQueue EXCEPT ![w] = Append(@, m)] /\ UNCHANGED handling
                \/ m # InitMessage /\ handling' = [handling EXCEPT ![w] = @ \cup {m}] /\ UNCHANGED initQueue
    <3>1. inbox' \in [Workers -> Seq(S)]
      BY <1>0, <2>1, <2>4
    <3>2. m # InitMessage => m \in Owned'
      BY <2>1, <2>4
    <3> HIDE DEF m, S
    <3>3. initQueue' \in [Workers -> Seq(Owned')]
      <4>1. m # InitMessage => Append(initQueue[w], m) \in Seq(Owned')
        BY <1>0, <3>2
      <4> QED
        BY <1>0, <2>4, <4>1
    <3>4. handling' \in [Workers -> SUBSET Owned']
      BY <1>0, <2>4, <3>2
    <3> QED
      BY <1>0, <2>2, <3>1, <3>3, <3>4
  <2> QED
    BY <1>8, <2>3, <2>4 DEF ReceiveMessage
<1>9. ASSUME NEW w \in Workers, InitEnds(w) PROVE Carried
  BY <1>0, <1>9 DEF InitEnds
<1>10. ASSUME NEW w \in Workers, FlushNext(w) PROVE Carried
  <2>1. Head(initQueue[w]) \in Owned' /\ Tail(initQueue[w]) \in Seq(Owned')
    BY <1>0, <1>10 DEF FlushNext
  <2> QED
    BY <1>0, <1>10, <2>1 DEF FlushNext
<1>11. ASSUME NEW w \in Workers, NEW m \in handling[w], HandlerEnds(w, m) PROVE Carried
  <2>1. m \in Owned'
    BY <1>0
  <2>2. Append(outbox[w], m) \in Seq(Owned')
    BY <1>0, <2>1
  <2> QED
    BY <1>0, <1>11, <2>2 DEF HandlerEnds
<1>12. CASE UNCHANGED vars
  BY <1>0, <1>12 DEF vars, workerVars, localVars
<1> QED
  BY <1>1, <1>2, <1>3, <1>4, <1>5, <1>6, <1>7, <1>8, <1>9, <1>10, <1>11, <1>12 DEF Next, Request, Probe

(* A result that is taken is the result of the call that waits.            *)
LEMMA AnswersNext ==
  ASSUME TypeOK, CarriedOwn, AnswersAreOwn, [Next]_vars
  PROVE  AnswersAreOwn'
<1>1. ASSUME NEW w \in Workers, ReceiveResult(w) PROVE AnswersAreOwn'
  <2> DEFINE m == Head(outbox[w])
  <2>1. m \in Owned
    BY <1>1 DEF ReceiveResult, CarriedOwn
  <2>2. CASE pending[m.id] = NoCall
    BY <1>1, <2>2 DEF ReceiveResult, AnswersAreOwn
  <2>3. CASE pending[m.id] # NoCall
    <3>1. answer' = [answer EXCEPT ![pending[m.id]] = m.call]
      BY <1>1, <2>3 DEF ReceiveResult
    <3>2. pending[m.id] = m.call
      BY <2>1, <2>3 DEF Owned
    <3> HIDE DEF m
    <3> QED
      BY <3>1, <3>2 DEF AnswersAreOwn, TypeOK
  <2> QED
    BY <2>2, <2>3
<1>2. ASSUME answer' = answer PROVE AnswersAreOwn'
  BY <1>2 DEF AnswersAreOwn
<1> QED
  BY <1>1, <1>2 DEF Next, Request, Probe, Send, Dispose, CheckHeap, TimesOut, Close, Crash,
     ReceiveMessage, InitEnds, FlushNext, HandlerEnds, vars, clientVars

-----------------------------------------------------------------------------
(* The theorems.                                                           *)

LEMMA IInvInit == Init => IInv
<1> SUFFICES ASSUME Init PROVE IInv
  OBVIOUS
<1>1. TypeOK
  BY TypeInit
<1>2. Used = {} /\ Waiting = {}
  BY DEF Init, Used, Waiting
<1>3. Cardinality(Used) = 0 /\ Cardinality(Waiting) = 0
  BY <1>2, FS_EmptySet
<1>4. NumbersOnce /\ InFlightIsPending
  BY <1>2, <1>3, NamesApart DEF Init, NumbersOnce, InFlightIsPending
<1>5. AnswersAreOwn
  BY DEF Init, AnswersAreOwn
<1>6. CarriedOwn
  <2>1. /\ <<InitMessage>> \in Seq(Owned \cup {InitMessage, DisposeMessage})
        /\ <<>> \in Seq(Owned \cup {InitMessage, DisposeMessage})
        /\ <<>> \in Seq(Owned)
    BY OneMessage, EmptySeq
  <2>2. Greeting(1) \in Seq(Owned \cup {InitMessage, DisposeMessage})
    BY <2>1 DEF Greeting
  <2> QED
    BY <2>1, <2>2 DEF Init, CarriedOwn
<1> QED
  BY <1>1, <1>4, <1>5, <1>6 DEF IInv

LEMMA IInvNext == IInv /\ [Next]_vars => IInv'
BY TypeNext, NumbersNext, CarriedNext, AnswersNext DEF IInv

(* The inductive invariant: numbers are given once, and every message      *)
(* carries the number of its own call.                                     *)
THEOREM Invariance == Spec => []IInv
BY IInvInit, IInvNext, PTL DEF Spec

(* Every variable of client and workers keeps its type; restarts stay      *)
(* within the limit (tryRestart).                                          *)
THEOREM TypeCorrect == Spec => []TypeOK
<1>1. IInv => TypeOK
  BY DEF IInv
<1> QED
  BY <1>1, Invariance, PTL

(* The count the watchdog reads is the number of waiting calls, for any    *)
(* crashes, restarts, time-outs and late answers (rpc.ts 274-299, 401-430).*)
THEOREM CountRight == Spec => []InFlightIsPending
<1>1. IInv => InFlightIsPending
  BY DEF IInv
<1> QED
  BY <1>1, Invariance, PTL

(* No call is given the answer of another one, of a former worker or not   *)
(* (rpc.ts 276, 330-348).                                                  *)
THEOREM AnswersOwn == Spec => []AnswersAreOwn
<1>1. IInv => AnswersAreOwn
  BY DEF IInv
<1> QED
  BY <1>1, Invariance, PTL
-----------------------------------------------------------------------------
(* Settlement.                                                             *)

Settled == {"answered", "checked", "failed", "fired"}

(* A call whose promise is settled keeps its outcome and its answer; only  *)
(* the watchdog's look at the result of its probe is marked.               *)
KeepsSettled(c) ==
    outcome[c] \in Settled =>
        /\ answer'[c] = answer[c]
        /\ outcome'[c] = outcome[c] \/ (outcome[c] = "answered" /\ outcome'[c] = "checked")

LEMMA WaitingIsUnsettled ==
  ASSUME TypeOK, InFlightIsPending, NEW i \in Waiting
  PROVE  pending[i] \in Calls /\ outcome[pending[i]] = "waiting"
<1>1. i \in Ids /\ pending[i] \in Calls
  BY DEF Waiting, TypeOK
<1> QED
  BY <1>1 DEF InFlightIsPending

LEMMA RejectSettles ==
  ASSUME TypeOK, RejectAll, answer' = answer
  PROVE  \A c \in Calls : KeepsSettled(c)
BY DEF RejectAll, KeepsSettled, Settled

LEMMA SettledNext ==
  ASSUME TypeOK, InFlightIsPending, CarriedOwn, [Next]_vars
  PROVE  \A c \in Calls : KeepsSettled(c)
<1>1. ASSUME NEW d \in Calls, Request(d) \/ Probe(d) PROVE \A c \in Calls : KeepsSettled(c)
  BY <1>1 DEF Request, Probe, Send, KeepsSettled, Settled, TypeOK
<1>2. ASSUME NEW i \in Ids, TimesOut(i) PROVE \A c \in Calls : KeepsSettled(c)
  <2>1. i \in Waiting /\ answer' = answer /\ outcome' = [outcome EXCEPT ![pending[i]] = "failed"]
    BY <1>2 DEF TimesOut
  <2>2. outcome[pending[i]] = "waiting"
    BY <2>1, WaitingIsUnsettled
  <2>3. \A c \in Calls : c # pending[i] => outcome'[c] = outcome[c]
    BY <2>1 DEF TypeOK
  <2>4. \A c \in Calls : outcome[c] # "waiting" => outcome'[c] = outcome[c]
    BY <2>2, <2>3
  <2>5. answer' = answer
    BY <2>1
  <2> QED
    BY <2>4, <2>5 DEF KeepsSettled, Settled
<1>3. ASSUME NEW w \in Workers, ReceiveResult(w) PROVE \A c \in Calls : KeepsSettled(c)
  <2> DEFINE m == Head(outbox[w])
  <2>1. m.id \in Ids
    <3>1. m \in Owned
      BY <1>3 DEF ReceiveResult, CarriedOwn
    <3> HIDE DEF m
    <3> QED
      BY <3>1 DEF Owned, Messages
  <2>2. CASE pending[m.id] = NoCall
    BY <1>3, <2>2 DEF ReceiveResult, KeepsSettled
  <2>3. CASE pending[m.id] # NoCall
    <3>1. outcome[pending[m.id]] = "waiting"
      BY <2>1, <2>3, WaitingIsUnsettled DEF Waiting
    <3>2. /\ \E kind \in {"answered", "failed"} : outcome' = [outcome EXCEPT ![pending[m.id]] = kind]
          /\ answer' = [answer EXCEPT ![pending[m.id]] = m.call]
      BY <1>3, <2>3 DEF ReceiveResult
    <3> HIDE DEF m
    <3> QED
      BY <3>1, <3>2 DEF KeepsSettled, Settled, TypeOK
  <2> QED
    BY <2>2, <2>3
<1>4. ASSUME NEW d \in Calls, CheckHeap(d) PROVE \A c \in Calls : KeepsSettled(c)
  BY <1>4 DEF CheckHeap, KeepsSettled, Settled, TypeOK
<1>5. ASSUME Dispose \/ \E w \in Workers : Close(w) PROVE \A c \in Calls : KeepsSettled(c)
  BY <1>5, RejectSettles DEF Dispose, Close
<1>6. ASSUME NEW w \in Workers, Crash(w) PROVE \A c \in Calls : KeepsSettled(c)
  <2>1. CASE RejectAll
    BY <1>6, <2>1, RejectSettles DEF Crash
  <2>2. CASE UNCHANGED <<outcome, answer>>
    BY <2>2 DEF KeepsSettled
  <2> QED
    BY <1>6, <2>1, <2>2 DEF Crash
<1>7. ASSUME UNCHANGED <<outcome, answer>> PROVE \A c \in Calls : KeepsSettled(c)
  BY <1>7 DEF KeepsSettled
<1> QED
  BY <1>1, <1>2, <1>3, <1>4, <1>5, <1>6, <1>7
  DEF Next, ReceiveMessage, InitEnds, FlushNext, HandlerEnds, vars, clientVars

(* The promise of a call is settled once: neither a late answer, a timer,  *)
(* a crash, a close event nor the disposal reaches a call that has its     *)
(* outcome (rpc.ts 274-299, 330-348, 401-430: whoever settles deletes the  *)
(* entry in the same turn).                                                *)
THEOREM SettledOnce == Spec => [][\A c \in Calls : KeepsSettled(c)]_vars
<1>1. IInv /\ [Next]_vars => \A c \in Calls : KeepsSettled(c)
  BY SettledNext DEF IInv
<1> QED
  BY <1>1, Invariance, PTL DEF Spec

(* A disposed client has no calls.                                         *)
NoneLeft == disposed => Waiting = {}

LEMMA NoneLeftNext ==
  ASSUME TypeOK, InFlightIsPending, NoneLeft, [Next]_vars
  PROVE  NoneLeft' /\ (disposed => disposed' /\ cur' = cur)
<1>1. CASE Dispose
  BY <1>1 DEF Dispose, RejectAll, NoneLeft, Waiting
<1>2. ASSUME NEW c \in Calls, Request(c) \/ Probe(c) PROVE NoneLeft' /\ (disposed => disposed' /\ cur' = cur)
  BY <1>2 DEF Request, Probe, Send, restartVars, NoneLeft, Waiting
<1>3. ASSUME NEW c \in Calls, CheckHeap(c) PROVE NoneLeft' /\ (disposed => disposed' /\ cur' = cur)
  BY <1>3 DEF CheckHeap, TryRestart, StaysDown, NoneLeft, Waiting
<1>4. ASSUME NEW i \in Ids, TimesOut(i) PROVE NoneLeft' /\ (disposed => disposed' /\ cur' = cur)
  BY <1>4 DEF TimesOut, restartVars, NoneLeft, Waiting, TypeOK
<1>5. ASSUME NEW w \in Workers, ReceiveResult(w) PROVE NoneLeft' /\ (disposed => disposed' /\ cur' = cur)
  BY <1>5 DEF ReceiveResult, restartVars, NoneLeft, Waiting, TypeOK
<1>6. ASSUME NEW w \in Workers, Close(w) PROVE NoneLeft' /\ (disposed => disposed' /\ cur' = cur)
  BY <1>6 DEF Close, RejectAll, TryRestart, StaysDown, NoneLeft, Waiting
<1>7. ASSUME NEW w \in Workers, Crash(w) PROVE NoneLeft' /\ (disposed => disposed' /\ cur' = cur)
  BY <1>7 DEF Crash, RejectAll, restartVars, NoneLeft, Waiting
<1>8. ASSUME UNCHANGED <<pending, disposed, cur>> PROVE NoneLeft' /\ (disposed => disposed' /\ cur' = cur)
  BY <1>8 DEF NoneLeft, Waiting
<1> QED
  BY <1>1, <1>2, <1>3, <1>4, <1>5, <1>6, <1>7, <1>8
  DEF Next, ReceiveMessage, InitEnds, FlushNext, HandlerEnds, vars, clientVars, restartVars

LEMMA NoneLeftInvariance == Spec => [](IInv /\ NoneLeft)
<1>1. Init => IInv /\ NoneLeft
  BY IInvInit DEF Init, NoneLeft
<1>2. (IInv /\ NoneLeft) /\ [Next]_vars => (IInv /\ NoneLeft)'
  BY IInvNext, NoneLeftNext DEF IInv
<1> QED
  BY <1>1, <1>2, PTL DEF Spec

(* After dispose() nothing waits and nothing is counted, and whatever      *)
(* close events are still to come, no worker is spawned and the client     *)
(* does not come back (rpc.ts 249, 275, 414-430).                          *)
THEOREM DisposedForGood ==
    Spec => /\ [](disposed => inFlight = 0 /\ \A c \in Calls : outcome[c] # "waiting")
            /\ [][disposed => disposed' /\ cur' = cur]_vars
<1>1. IInv /\ NoneLeft => (disposed => inFlight = 0 /\ \A c \in Calls : outcome[c] # "waiting")
  <2> SUFFICES ASSUME IInv, NoneLeft, disposed
               PROVE  inFlight = 0 /\ \A c \in Calls : outcome[c] # "waiting"
    OBVIOUS
  <2>1. Waiting = {} /\ NoCall \notin Calls
    BY NamesApart DEF NoneLeft
  <2>2. inFlight = 0
    BY <2>1, FS_EmptySet DEF IInv, InFlightIsPending
  <2>3. \A i \in Ids : pending[i] = NoCall
    BY <2>1 DEF Waiting
  <2> QED
    BY <2>1, <2>2, <2>3 DEF IInv, InFlightIsPending
<1>2. IInv /\ NoneLeft /\ [Next]_vars => (disposed => disposed' /\ cur' = cur)
  BY NoneLeftNext DEF IInv
<1> QED
  BY <1>1, <1>2, NoneLeftInvariance, PTL DEF Spec
=============================================================================
