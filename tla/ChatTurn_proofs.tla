-------------------------- MODULE ChatTurn_proofs --------------------------
(***************************************************************************)
(* Proofs about the turns of a tab, for any number of prompts and any      *)
(* limits of the queue and of retries.                                     *)
(***************************************************************************)
EXTENDS ChatTurn, FiniteSetTheorems, SequenceTheorems, TLAPS

Places == {"unsent", "queued", "scheduled", "preparing", "streaming", "backoff", "gone", "lost"}

(* The queue lists the queued prompts, each once.                          *)
Listed(q, w) ==
    /\ \A i \in 1..Len(q) : q[i] \in Prompts /\ w[q[i]] = "queued"
    /\ \A i, j \in 1..Len(q) : i # j => q[i] # q[j]
    /\ \A m \in Calls : w[m] = "queued" => \E i \in 1..Len(q) : q[i] = m

QueueLists == Listed(queue, where)

(* As long as the tab is calm, only the call whose controller the tab      *)
(* holds is live.                                                          *)
HeldAlone ==
    calm => \A c \in Calls : /\ where[c] # "preparing"
                             /\ where[c] \in {"streaming", "backoff"} => c = abortRef

IInv == TypeOK /\ QueueLists /\ HeldAlone

-----------------------------------------------------------------------------
(* What the handlers share.                                                *)

LEMMA Typed ==
  ASSUME TypeOK
  PROVE  /\ where \in [Calls -> Places] /\ queue \in Seq(Prompts) /\ queueRef \in Seq(Prompts)
         /\ Len(queue) \in Nat /\ Len(queue) =< MaxQueue
         /\ MaxQueue \in Nat /\ MaxStalls \in Nat /\ MaxRetries \in Nat /\ StallCap \in Nat
         /\ MaxCompacts \in Nat
         /\ NoCall \notin Calls /\ Prompts \subseteq Calls /\ Continues \subseteq Calls
         /\ Prompts \cap Continues = {}
BY CallsAssumption, BoundsAssumption DEF TypeOK, Places, Calls

(* A queue whose prompts keep their places, while others are not queued.   *)
LEMMA ListedKeeps ==
  ASSUME NEW q \in Seq(Prompts), NEW w \in [Calls -> Places], Listed(q, w),
         NEW v \in [Calls -> Places],
         \A c \in Calls : w[c] = "queued" <=> v[c] = "queued"
  PROVE  Listed(q, v)
BY DEF Listed, Calls

(* The head of the queue is sent.                                          *)
LEMMA ListedTail ==
  ASSUME NEW q \in Seq(Prompts), q # <<>>, NEW w \in [Calls -> Places], Listed(q, w),
         NEW v \in [Calls -> Places],
         v[Head(q)] # "queued",
         \A c \in Calls : c # Head(q) => (w[c] = "queued" <=> v[c] = "queued")
  PROVE  Listed(Tail(q), v) /\ Tail(q) \in Seq(Prompts) /\ Len(Tail(q)) =< Len(q)
<1> DEFINE r == Tail(q)
<1>1. /\ Len(q) \in Nat \ {0} /\ Len(r) = Len(q) - 1 /\ r \in Seq(Prompts)
      /\ \A i \in 1..Len(r) : r[i] = q[i + 1] /\ i + 1 \in 1..Len(q) /\ i + 1 # 1
      /\ Head(q) = q[1] /\ 1 \in 1..Len(q)
  OBVIOUS
<1>2. \A i \in 1..Len(q) : i # 1 => i - 1 \in 1..Len(r) /\ r[i - 1] = q[i]
  BY <1>1
<1> HIDE DEF r
<1>3. \A i \in 1..Len(r) : r[i] \in Prompts /\ r[i] # Head(q) /\ v[r[i]] = "queued"
  <2>1. /\ \A i \in 1..Len(q) : q[i] \in Prompts /\ q[i] \in Calls /\ w[q[i]] = "queued"
        /\ \A i \in 1..Len(q) : i # 1 => q[i] # q[1]
    BY <1>1 DEF Listed, Calls
  <2>2. \A i \in 1..Len(q) : i # 1 => q[i] # Head(q) /\ v[q[i]] = "queued"
    BY <1>1, <2>1
  <2> QED
    BY <1>1, <2>1, <2>2
<1>4. \A i, j \in 1..Len(r) : i # j => r[i] # r[j]
  BY <1>1 DEF Listed
<1>5. \A m \in Calls : v[m] = "queued" => \E i \in 1..Len(r) : r[i] = m
  <2> SUFFICES ASSUME NEW m \in Calls, v[m] = "queued" PROVE \E i \in 1..Len(r) : r[i] = m
    OBVIOUS
  <2>1. m # Head(q) /\ w[m] = "queued"
    OBVIOUS
  <2>2. PICK i \in 1..Len(q) : q[i] = m
    BY <2>1 DEF Listed
  <2> QED
    BY <1>1, <1>2, <2>1, <2>2
<1>6. Len(r) =< Len(q)
  BY <1>1
<1> QED
  BY <1>1, <1>3, <1>4, <1>5, <1>6 DEF Listed, r

LEMMA ListedAppend ==
  ASSUME NEW q \in Seq(Prompts), NEW m \in Prompts, NEW w \in [Calls -> Places], Listed(q, w),
         w[m] # "queued",
         NEW v \in [Calls -> Places],
         v = [w EXCEPT ![m] = "queued"]
  PROVE  Listed(Append(q, m), v) /\ Append(q, m) \in Seq(Prompts) /\ Len(Append(q, m)) = Len(q) + 1
<1> DEFINE r == Append(q, m)
<1>1. /\ Len(q) \in Nat /\ Len(r) = Len(q) + 1 /\ r \in Seq(Prompts)
      /\ \A i \in 1..Len(q) : r[i] = q[i] /\ i \in 1..Len(r)
      /\ r[Len(q) + 1] = m /\ Len(q) + 1 \in 1..Len(r)
  OBVIOUS
<1>2. \A i \in 1..Len(r) : i \in 1..Len(q) \/ i = Len(q) + 1
  BY <1>1
<1>3. m \in Calls /\ v[m] = "queued" /\ \A c \in Calls : c # m => v[c] = w[c]
  BY DEF Calls
<1> HIDE DEF r
<1>4. \A i \in 1..Len(q) : q[i] \in Prompts /\ q[i] \in Calls /\ q[i] # m /\ v[q[i]] = "queued"
  BY <1>3 DEF Listed, Calls
<1>5. \A i \in 1..Len(r) : r[i] \in Prompts /\ v[r[i]] = "queued"
  BY <1>1, <1>2, <1>3, <1>4
<1>6. \A i, j \in 1..Len(r) : i # j => r[i] # r[j]
  BY <1>1, <1>2, <1>4 DEF Listed
<1>7. \A c \in Calls : v[c] = "queued" => \E i \in 1..Len(r) : r[i] = c
  <2> SUFFICES ASSUME NEW c \in Calls, v[c] = "queued" PROVE \E i \in 1..Len(r) : r[i] = c
    OBVIOUS
  <2>1. CASE c = m
    BY <1>1, <2>1
  <2>2. CASE c # m
    <3>1. PICK i \in 1..Len(q) : q[i] = c
      BY <1>3, <2>2 DEF Listed
    <3> QED
      BY <1>1, <3>1
  <2> QED
    BY <2>1, <2>2
<1> QED
  BY <1>1, <1>5, <1>6, <1>7 DEF Listed, r

LEMMA ListedEmpty ==
  ASSUME NEW v \in [Calls -> Places], \A c \in Calls : v[c] # "queued"
  PROVE  Listed(<<>>, v) /\ <<>> \in Seq(Prompts) /\ Len(<<>>) = 0
BY EmptySeq DEF Listed

LEMMA ScheduleMoves ==
  ASSUME NEW S \in [Calls -> Places]
  PROVE  /\ Schedule(S) \in [Calls -> Places]
         /\ \A c \in Calls : \/ Schedule(S)[c] = S[c]
                             \/ S[c] = "unsent" /\ Schedule(S)[c] = "scheduled"
<1> DEFINE free == {k \in Continues : S[k] = "unsent"}
           k == CHOOSE x \in free : TRUE
<1>1. CASE free = {}
  BY <1>1 DEF Schedule
<1>2. CASE free # {}
  <2>1. k \in free
    BY <1>2
  <2>2. k \in Calls /\ S[k] = "unsent"
    BY <2>1 DEF Calls
  <2>3. Schedule(S) = [S EXCEPT ![k] = "scheduled"]
    BY <1>2 DEF Schedule
  <2> HIDE DEF k
  <2> QED
    BY <2>2, <2>3 DEF Places
<1> QED
  BY <1>1, <1>2

(* The finally block takes at most the head out of the queue; nothing      *)
(* starts to stream, prepare or queue but its own call.                    *)
LEMMA FinallyFacts ==
  ASSUME IInv, NEW c \in Calls, where[c] \in {"streaming", "backoff"},
         NEW end \in {"streaming", "unsent", "gone"}, FinallyQueue(c, end)
  PROVE  /\ where' \in [Calls -> Places]
         /\ where'[c] = end \/ (end = "unsent" /\ where'[c] = "scheduled")
         /\ \A d \in Calls : d # c => where'[d] = where[d] \/ where'[d] = "scheduled"
         /\ queue' \in Seq(Prompts) /\ Len(queue') =< MaxQueue
         /\ Listed(queue', where')
         /\ {compacting', pendingCompact'} \subseteq BOOLEAN
         /\ compacts' \in 0..MaxCompacts /\ summary' \in [Summaries -> BOOLEAN]
<1> DEFINE w == [where EXCEPT ![c] = end]
<1>1. /\ w \in [Calls -> Places]
      /\ \A d \in Calls : w[d] = IF d = c THEN end ELSE where[d]
      /\ \A d \in Calls : where[d] = "queued" <=> w[d] = "queued"
  BY Typed DEF IInv, Places
<1>2. /\ compacts \in 0..MaxCompacts /\ summary \in [Summaries -> BOOLEAN]
      /\ {compacting, pendingCompact} \subseteq BOOLEAN
  BY DEF IInv, TypeOK
<1>3. CASE pendingCompact
  <2>1. /\ pendingCompact' = compacting /\ UNCHANGED <<queue, compacts>>
        /\ \/ /\ compacting' = TRUE /\ where' = w
              /\ summary' = [summary EXCEPT !["deferred"] = TRUE]
           \/ where' = Schedule(w) /\ UNCHANGED <<compacting, summary>>
    BY <1>3 DEF FinallyQueue
  <2>2. /\ {compacting', pendingCompact'} \subseteq BOOLEAN
        /\ compacts' \in 0..MaxCompacts /\ summary' \in [Summaries -> BOOLEAN]
    BY <1>2, <2>1
  <2>3. /\ where' \in [Calls -> Places]
        /\ \A d \in Calls : where'[d] = w[d] \/ (w[d] = "unsent" /\ where'[d] = "scheduled")
    <3> HIDE DEF w
    <3>1. /\ Schedule(w) \in [Calls -> Places]
          /\ \A d \in Calls : Schedule(w)[d] = w[d] \/ (w[d] = "unsent" /\ Schedule(w)[d] = "scheduled")
      BY <1>1, ScheduleMoves
    <3> QED
      BY <1>1, <2>1, <3>1
  <2> HIDE DEF w
  <2>4. \A d \in Calls : where[d] = "queued" <=> where'[d] = "queued"
    BY <1>1, <2>3
  <2>5. Listed(queue', where')
    BY <2>1, <2>3, <2>4, Typed, ListedKeeps DEF IInv, QueueLists
  <2> QED
    BY <1>1, <2>1, <2>2, <2>3, <2>5, Typed DEF IInv
<1>4. CASE ~pendingCompact /\ (retryPending \/ queue = <<>>)
  <2>1. where' = w /\ UNCHANGED <<queue, compactVars>>
    BY <1>4 DEF FinallyQueue
  <2> HIDE DEF w
  <2>2. Listed(queue', where')
    BY <1>1, <2>1, Typed, ListedKeeps DEF IInv, QueueLists
  <2> QED
    BY <1>1, <1>2, <2>1, <2>2, Typed DEF IInv, compactVars
<1>5. CASE ~pendingCompact /\ ~(retryPending \/ queue = <<>>)
  <2> DEFINE h == Head(queue)
  <2>1. /\ where' = [where EXCEPT ![c] = end, ![h] = "scheduled"]
        /\ queue' = Tail(queue) /\ UNCHANGED compactVars
    BY <1>5 DEF FinallyQueue
  <2>2. h = queue[1] /\ 1 \in 1..Len(queue)
    BY <1>5, Typed DEF IInv
  <2>3. h \in Calls /\ where[h] = "queued" /\ h # c
    BY <2>2, Typed DEF IInv, QueueLists, Listed
  <2> HIDE DEF h
  <2>4. /\ where' \in [Calls -> Places]
        /\ \A d \in Calls : where'[d] = IF d = h THEN "scheduled" ELSE IF d = c THEN end ELSE where[d]
    BY <2>1, <2>3, Typed DEF IInv, Places
  <2>5. /\ where'[h] # "queued"
        /\ \A d \in Calls : d # h => (where[d] = "queued" <=> where'[d] = "queued")
    BY <2>3, <2>4
  <2>6. Listed(queue', where') /\ queue' \in Seq(Prompts) /\ Len(queue') =< Len(queue)
    BY <1>5, <2>1, <2>4, <2>5, Typed, ListedTail DEF IInv, QueueLists, h
  <2>7. Len(queue') =< MaxQueue
    BY <2>6, Typed DEF IInv
  <2> QED
    BY <1>2, <2>1, <2>3, <2>4, <2>6, <2>7 DEF compactVars
<1> QED
  BY <1>3, <1>4, <1>5

LEMMA LoopTopTypes ==
  ASSUME TypeOK, NEW c \in Calls, LoopTop(c)
  PROVE  /\ abortRef' = c /\ abortRef' \in Calls \cup {NoCall}
         /\ signal' \in [Calls -> BOOLEAN] /\ stalled' \in [Calls -> BOOLEAN]
         /\ {userAborted', retryPending', loading', steerOff'} \subseteq BOOLEAN
         /\ opening' \subseteq Calls
BY DEF TypeOK, LoopTop

LEMMA BeginFacts ==
  ASSUME TypeOK, NEW c \in Calls, Begin(c, where)
  PROVE  /\ where' \in [Calls -> Places]
         /\ \A d \in Calls : where'[d] = IF d = c THEN "streaming" ELSE where[d]
         /\ abortRef' = c /\ abortRef' \in Calls \cup {NoCall}
         /\ signal' \in [Calls -> BOOLEAN] /\ stalled' \in [Calls -> BOOLEAN]
         /\ {userAborted', retryPending', loading', steerOff'} \subseteq BOOLEAN
         /\ opening' \subseteq Calls
         /\ tries' \in [Calls -> 0..MaxRetries] /\ stallCount' \in 0..StallCap
<1>1. LoopTop(c) /\ where' = [where EXCEPT ![c] = "streaming"]
  BY DEF Begin
<1>2. /\ where' \in [Calls -> Places]
      /\ \A d \in Calls : where'[d] = IF d = c THEN "streaming" ELSE where[d]
  BY <1>1, Typed DEF Places
<1>3. tries' \in [Calls -> 0..MaxRetries]
  <2>1. 0 \in 0..MaxRetries /\ tries \in [Calls -> 0..MaxRetries] /\ tries' = [tries EXCEPT ![c] = 0]
    BY Typed DEF TypeOK, Begin
  <2> QED
    BY <2>1
<1>4. stallCount' \in 0..StallCap
  BY Typed DEF TypeOK, Begin
<1> QED
  BY <1>1, <1>2, <1>3, <1>4, LoopTopTypes

(* A call of handleSubmit, from the input box, a timer or a surface.       *)
LEMMA SubmitKeeps ==
  ASSUME IInv, NEW c \in Calls, where[c] \in {"unsent", "scheduled"}, HandleSubmit(c),
         UNCHANGED <<queues, compactVars, stopped>>
  PROVE  IInv'
<1>0. /\ Over(c) \in {"unsent", "gone"}
      /\ where \in [Calls -> Places] /\ queue \in Seq(Prompts) /\ Listed(queue, where)
      /\ calm \in BOOLEAN /\ refused \in BOOLEAN
  BY Typed DEF Over, IInv, QueueLists, TypeOK
<1>1. CASE /\ where' = [where EXCEPT ![c] = Over(c)] /\ refused' \in {refused, TRUE}
           /\ UNCHANGED <<abortRef, loopVars, loading, steerOff, calm>>
  <2>1. /\ where' = [where EXCEPT ![c] = Over(c)] /\ refused' \in BOOLEAN
        /\ UNCHANGED <<abortRef, loopVars, loading, steerOff, calm>>
    BY <1>0, <1>1
  <2>2. /\ where' \in [Calls -> Places]
        /\ \A d \in Calls : where'[d] = IF d = c THEN Over(c) ELSE where[d]
    BY <1>0, <2>1 DEF Places
  <2>3. TypeOK'
    BY <2>1, <2>2 DEF IInv, TypeOK, Places, loopVars, queues, compactVars
  <2>4. QueueLists'
    <3>1. \A d \in Calls : where[d] = "queued" <=> where'[d] = "queued"
      BY <1>0, <2>2
    <3>2. Listed(queue, where')
      BY <1>0, <2>2, <3>1, ListedKeeps
    <3> QED
      BY <3>2 DEF QueueLists, queues
  <2>5. HeldAlone'
    BY <1>0, <2>1, <2>2 DEF IInv, HeldAlone
  <2> QED
    BY <2>3, <2>4, <2>5 DEF IInv
<1>2. CASE abortRef = NoCall /\ Begin(c, where) /\ UNCHANGED <<calm, refused>>
  <2>1. /\ where' \in [Calls -> Places]
        /\ \A d \in Calls : where'[d] = IF d = c THEN "streaming" ELSE where[d]
        /\ abortRef' = c /\ abortRef' \in Calls \cup {NoCall}
        /\ signal' \in [Calls -> BOOLEAN] /\ stalled' \in [Calls -> BOOLEAN]
        /\ {userAborted', retryPending', loading', steerOff'} \subseteq BOOLEAN
        /\ opening' \subseteq Calls
        /\ tries' \in [Calls -> 0..MaxRetries] /\ stallCount' \in 0..StallCap
    BY <1>2, BeginFacts DEF IInv
  <2>2. TypeOK'
    BY <1>2, <2>1 DEF IInv, TypeOK, Places, queues, compactVars
  <2>3. QueueLists'
    <3>1. \A d \in Calls : where[d] = "queued" <=> where'[d] = "queued"
      BY <1>0, <2>1
    <3>2. Listed(queue, where')
      BY <1>0, <2>1, <3>1, ListedKeeps
    <3> QED
      BY <3>2 DEF QueueLists, queues
  <2>4. HeldAlone'
    BY <1>0, <1>2, <2>1, Typed DEF IInv, HeldAlone
  <2> QED
    BY <2>2, <2>3, <2>4 DEF IInv
<1>3. CASE /\ where' = [where EXCEPT ![c] = "preparing"] /\ calm' = FALSE
           /\ UNCHANGED <<abortRef, loopVars, loading, steerOff, refused>>
  <2>1. /\ where' = [where EXCEPT ![c] = "preparing"] /\ calm' = FALSE
        /\ UNCHANGED <<abortRef, loopVars, loading, steerOff, refused>>
    BY <1>3
  <2>2. /\ where' \in [Calls -> Places]
        /\ \A d \in Calls : where'[d] = IF d = c THEN "preparing" ELSE where[d]
    BY <1>0, <2>1 DEF Places
  <2>3. TypeOK'
    BY <2>1, <2>2 DEF IInv, TypeOK, Places, loopVars, queues, compactVars
  <2>4. QueueLists'
    <3>1. \A d \in Calls : where[d] = "queued" <=> where'[d] = "queued"
      BY <1>0, <2>2
    <3>2. Listed(queue, where')
      BY <1>0, <2>2, <3>1, ListedKeeps
    <3> QED
      BY <3>2 DEF QueueLists, queues
  <2>5. HeldAlone'
    BY <2>1 DEF HeldAlone
  <2> QED
    BY <2>3, <2>4, <2>5 DEF IInv
<1> QED
  BY <1>1, <1>2, <1>3 DEF HandleSubmit

LEMMA PreparedKeeps ==
  ASSUME IInv, NEW c \in Calls, Prepared(c)
  PROVE  IInv'
<1>0. /\ where[c] = "preparing" /\ Over(c) \in {"unsent", "gone"}
      /\ where \in [Calls -> Places] /\ queue \in Seq(Prompts) /\ Listed(queue, where)
      /\ UNCHANGED <<queues, compactVars, stopped, calm>>
  BY Typed DEF Prepared, Over, IInv, QueueLists
<1>1. calm' = FALSE
  BY <1>0 DEF IInv, HeldAlone, TypeOK
<1>2. ASSUME where' \in [Calls -> Places],
             NEW x \in {"streaming", "unsent", "gone"},
             \A d \in Calls : where'[d] = IF d = c THEN x ELSE where[d]
      PROVE  QueueLists'
  <2>1. \A d \in Calls : where[d] = "queued" <=> where'[d] = "queued"
    BY <1>0, <1>2
  <2>2. Listed(queue, where')
    BY <1>0, <1>2, <2>1, ListedKeeps
  <2> QED
    BY <1>0, <2>2 DEF QueueLists, queues
<1>3. CASE Begin(c, where) /\ UNCHANGED refused
  <2>1. /\ where' \in [Calls -> Places]
        /\ \A d \in Calls : where'[d] = IF d = c THEN "streaming" ELSE where[d]
        /\ abortRef' = c /\ abortRef' \in Calls \cup {NoCall}
        /\ signal' \in [Calls -> BOOLEAN] /\ stalled' \in [Calls -> BOOLEAN]
        /\ {userAborted', retryPending', loading', steerOff'} \subseteq BOOLEAN
        /\ opening' \subseteq Calls
        /\ tries' \in [Calls -> 0..MaxRetries] /\ stallCount' \in 0..StallCap
    BY <1>3, BeginFacts DEF IInv
  <2>2. TypeOK'
    BY <1>0, <1>3, <2>1 DEF IInv, TypeOK, Places, queues, compactVars
  <2> QED
    BY <1>1, <1>2, <2>1, <2>2 DEF IInv, HeldAlone
<1>4. CASE /\ where' = [where EXCEPT ![c] = Over(c)] /\ refused' = TRUE
           /\ UNCHANGED <<abortRef, loopVars, loading, steerOff>>
  <2>1. /\ where' \in [Calls -> Places]
        /\ \A d \in Calls : where'[d] = IF d = c THEN Over(c) ELSE where[d]
    BY <1>0, <1>4 DEF Places
  <2>2. TypeOK'
    BY <1>0, <1>4, <2>1 DEF IInv, TypeOK, Places, queues, compactVars, loopVars
  <2> QED
    BY <1>0, <1>1, <1>2, <2>1, <2>2 DEF IInv, HeldAlone
<1> QED
  BY <1>3, <1>4 DEF Prepared

(* The loop is left: the controller is let go.                             *)
LEMMA StreamEndsKeeps ==
  ASSUME IInv, NEW c \in Calls, StreamEnds(c)
  PROVE  IInv'
<1>1. /\ where[c] = "streaming" /\ FinallyQueue(c, Over(c)) /\ Over(c) \in {"unsent", "gone"}
      /\ UNCHANGED <<opening, userAborted, stallCount, retryPending, queueRef, steerOff, calm, refused>>
  BY DEF StreamEnds, Over
<1>2. /\ abortRef' = NoCall /\ loading' \in BOOLEAN
      /\ signal' \in [Calls -> BOOLEAN] /\ stalled' \in [Calls -> BOOLEAN]
      /\ stopped' \subseteq Calls
  BY DEF StreamEnds, Leave, IInv, TypeOK
<1>3. tries' \in [Calls -> 0..MaxRetries]
  <2>1. 0 \in 0..MaxRetries /\ tries \in [Calls -> 0..MaxRetries] /\ tries' = [tries EXCEPT ![c] = 0]
    BY Typed DEF IInv, TypeOK, StreamEnds, Leave
  <2> QED
    BY <2>1
<1>4. /\ where' \in [Calls -> Places]
      /\ where'[c] \in {"unsent", "gone", "scheduled"}
      /\ \A d \in Calls : d # c => where'[d] = where[d] \/ where'[d] = "scheduled"
      /\ queue' \in Seq(Prompts) /\ Len(queue') =< MaxQueue
      /\ Listed(queue', where')
      /\ {compacting', pendingCompact'} \subseteq BOOLEAN
      /\ compacts' \in 0..MaxCompacts /\ summary' \in [Summaries -> BOOLEAN]
  BY <1>1, FinallyFacts
<1>5. TypeOK'
  BY <1>1, <1>2, <1>3, <1>4 DEF IInv, TypeOK, Places
<1>6. HeldAlone'
  BY <1>1, <1>4 DEF IInv, HeldAlone
<1> QED
  BY <1>4, <1>5, <1>6 DEF IInv, QueueLists

(* Another round of the loop: after a backoff, or after an error that      *)
(* nothing leaves the loop for.                                            *)
LEMMA RoundKeeps ==
  ASSUME IInv, NEW c \in Calls, where[c] \in {"streaming", "backoff"},
         FinallyQueue(c, "streaming"), LoopTop(c),
         tries' \in [Calls -> 0..MaxRetries],
         UNCHANGED <<stallCount, queueRef, history>>
  PROVE  IInv'
<1>1. /\ where' \in [Calls -> Places]
      /\ where'[c] = "streaming"
      /\ \A d \in Calls : d # c => where'[d] = where[d] \/ where'[d] = "scheduled"
      /\ queue' \in Seq(Prompts) /\ Len(queue') =< MaxQueue
      /\ Listed(queue', where')
      /\ {compacting', pendingCompact'} \subseteq BOOLEAN
      /\ compacts' \in 0..MaxCompacts /\ summary' \in [Summaries -> BOOLEAN]
  BY FinallyFacts
<1>2. /\ abortRef' = c /\ abortRef' \in Calls \cup {NoCall}
      /\ signal' \in [Calls -> BOOLEAN] /\ stalled' \in [Calls -> BOOLEAN]
      /\ {userAborted', retryPending', loading', steerOff'} \subseteq BOOLEAN
      /\ opening' \subseteq Calls
  BY LoopTopTypes DEF IInv
<1>3. TypeOK'
  BY <1>1, <1>2 DEF IInv, TypeOK, Places, history
<1>4. HeldAlone'
  <2>1. calm => abortRef = c
    BY DEF IInv, HeldAlone
  <2> QED
    BY <1>1, <1>2, <2>1 DEF IInv, HeldAlone, history
<1> QED
  BY <1>1, <1>3, <1>4 DEF IInv, QueueLists

(* A step that moves at most one live call to its backoff, or nobody.      *)
LEMMA StillKeeps ==
  ASSUME IInv, TypeOK', UNCHANGED <<abortRef, queue, calm>>,
         \/ where' = where
         \/ \E c \in Calls : where[c] = "streaming" /\ where' = [where EXCEPT ![c] = "backoff"]
  PROVE  IInv'
<1>0. where \in [Calls -> Places] /\ where' \in [Calls -> Places] /\ queue \in Seq(Prompts)
  BY Typed DEF IInv, TypeOK, Places
<1>1. \A d \in Calls : \/ where'[d] = where[d]
                       \/ where[d] = "streaming" /\ where'[d] = "backoff"
  BY <1>0
<1>2. QueueLists'
  <2>1. \A d \in Calls : where[d] = "queued" <=> where'[d] = "queued"
    BY <1>1
  <2>2. Listed(queue, where')
    BY <1>0, <2>1, ListedKeeps DEF IInv, QueueLists
  <2> QED
    BY <2>2 DEF QueueLists
<1>3. HeldAlone'
  BY <1>1 DEF IInv, HeldAlone
<1> QED
  BY <1>2, <1>3 DEF IInv

LEMMA StreamRetriesKeeps ==
  ASSUME IInv, NEW c \in Calls, StreamRetries(c)
  PROVE  IInv'
<1>1. /\ where[c] = "streaming" /\ retryPending' = TRUE
      /\ where' = [where EXCEPT ![c] = "backoff"]
      /\ UNCHANGED <<abortRef, signal, stalled, userAborted, stallCount, loading, queues,
                     steerOff, compactVars, history>>
      /\ opening' = opening \ {c}
      /\ tries' = tries \/ (tries[c] < MaxRetries /\ tries' = [tries EXCEPT ![c] = @ + 1])
  BY DEF StreamRetries
<1>2. tries' \in [Calls -> 0..MaxRetries]
  <2>1. tries \in [Calls -> 0..MaxRetries] /\ tries[c] \in 0..MaxRetries
    BY DEF IInv, TypeOK
  <2>2. tries[c] < MaxRetries => tries[c] + 1 \in 0..MaxRetries
    BY <2>1, Typed DEF IInv
  <2> QED
    BY <1>1, <2>1, <2>2
<1>3. where' \in [Calls -> Places]
  BY <1>1, Typed DEF IInv, Places
<1>4. TypeOK'
  BY <1>1, <1>2, <1>3 DEF IInv, TypeOK, Places, queues, compactVars, history
<1> QED
  BY <1>1, <1>4, StillKeeps DEF queues, history

LEMMA StallKeeps ==
  ASSUME IInv, NEW c \in Calls, Stall(c)
  PROVE  IInv'
<1>1. /\ stalled' = [stalled EXCEPT ![c] = TRUE] /\ signal' = [signal EXCEPT ![c] = TRUE]
      /\ stallCount' = IF stallCount < StallCap THEN stallCount + 1 ELSE stallCount
      /\ UNCHANGED <<where, abortRef, tries, opening, userAborted, retryPending, loading, queues,
                     steerOff, compactVars, history>>
  BY DEF Stall
<1>2. stallCount' \in 0..StallCap
  BY <1>1, Typed DEF IInv, TypeOK
<1>3. TypeOK'
  BY <1>1, <1>2 DEF IInv, TypeOK, queues, compactVars, history
<1> QED
  BY <1>1, <1>3, StillKeeps DEF queues, history

(* The queue is emptied: by steering into the running stream, by an abort. *)
LEMMA EmptiedKeeps ==
  ASSUME IInv, queue' = <<>>, queueRef' = <<>>,
         where' \in [Calls -> Places],
         \A d \in Calls : IF where[d] = "queued" THEN where'[d] \in {"gone", "lost"}
                                                 ELSE where'[d] = where[d]
  PROVE  /\ QueueLists'
         /\ queue' \in Seq(Prompts) /\ queueRef' \in Seq(Prompts) /\ Len(queue') =< MaxQueue
         /\ (calm' => calm) /\ abortRef' = abortRef => HeldAlone'
<1>1. \A d \in Calls : where'[d] # "queued"
  OBVIOUS
<1>2. Listed(<<>>, where') /\ <<>> \in Seq(Prompts) /\ Len(<<>>) = 0
  BY <1>1, ListedEmpty
<1>3. 0 =< MaxQueue
  BY Typed DEF IInv
<1>4. (calm' => calm) /\ abortRef' = abortRef => HeldAlone'
  BY DEF IInv, HeldAlone
<1> QED
  BY <1>2, <1>3, <1>4 DEF QueueLists

LEMMA SteerKeeps ==
  ASSUME IInv, NEW c \in Calls, Steer(c)
  PROVE  IInv'
<1>1. /\ queue' = <<>> /\ queueRef' = <<>>
      /\ UNCHANGED <<abortRef, loopVars, loading, steerOff, compactVars, history>>
  BY DEF Steer
<1>2. /\ where' \in [Calls -> Places]
      /\ \A d \in Calls : IF where[d] = "queued" THEN where'[d] \in {"gone", "lost"}
                                                 ELSE where'[d] = where[d]
  BY Typed DEF Steer, IInv, Places
<1>3. /\ QueueLists' /\ HeldAlone'
      /\ queue' \in Seq(Prompts) /\ queueRef' \in Seq(Prompts) /\ Len(queue') =< MaxQueue
  BY <1>1, <1>2, EmptiedKeeps DEF history
<1>4. TypeOK'
  BY <1>1, <1>2, <1>3 DEF IInv, TypeOK, Places, loopVars, compactVars, history
<1> QED
  BY <1>3, <1>4 DEF IInv

LEMMA AbortKeeps ==
  ASSUME IInv, Abort
  PROVE  IInv'
<1>1. /\ userAborted' = TRUE /\ compacting' = FALSE
      /\ UNCHANGED <<stalled, tries, opening, stallCount, retryPending, pendingCompact, compacts, summary, refused>>
  BY DEF Abort
<1>2. CASE abortRef = NoCall
  <2>1. UNCHANGED <<where, abortRef, signal, loading, queues, steerOff, stopped, calm>>
    BY <1>2 DEF Abort
  <2>2. TypeOK'
    BY <1>1, <2>1 DEF IInv, TypeOK, queues
  <2> QED
    BY <2>1, <2>2, StillKeeps DEF queues
<1>3. CASE abortRef # NoCall
  <2>1. /\ signal' = [signal EXCEPT ![abortRef] = TRUE]
        /\ stopped' = stopped \cup {abortRef} /\ calm' = FALSE /\ abortRef' = NoCall
        /\ loading' = FALSE /\ steerOff' = TRUE /\ queue' = <<>> /\ queueRef' = <<>>
        /\ where' = [m \in Calls |-> IF where[m] = "queued" THEN "gone" ELSE where[m]]
    BY <1>3 DEF Abort
  <2>2. /\ where' \in [Calls -> Places]
        /\ \A d \in Calls : IF where[d] = "queued" THEN where'[d] \in {"gone", "lost"}
                                                   ELSE where'[d] = where[d]
    BY <2>1, Typed DEF IInv, Places
  <2>3. /\ QueueLists'
        /\ queue' \in Seq(Prompts) /\ queueRef' \in Seq(Prompts) /\ Len(queue') =< MaxQueue
    BY <2>1, <2>2, EmptiedKeeps
  <2>4. /\ signal' \in [Calls -> BOOLEAN] /\ stopped' \subseteq Calls
    BY <1>3, <2>1 DEF IInv, TypeOK
  <2>5. TypeOK'
    BY <1>1, <2>1, <2>2, <2>3, <2>4 DEF IInv, TypeOK, Places
  <2> QED
    BY <2>1, <2>3, <2>5 DEF IInv, HeldAlone
<1> QED
  BY <1>2, <1>3

LEMMA TypeKeeps ==
  ASSUME IInv, NEW m \in Prompts, Type(m)
  PROVE  IInv'
<1>0. m \in Calls /\ where[m] = "unsent" /\ UNCHANGED <<queueRef, compactVars, stopped>>
  BY Typed DEF Type, IInv
<1>1. CASE ~(loading \/ compacting)
  <2>1. HandleSubmit(m) /\ UNCHANGED queue
    BY <1>1 DEF Type
  <2> QED
    BY <1>0, <2>1, SubmitKeeps DEF queues
<1>2. CASE loading \/ compacting
  <2>1. UNCHANGED <<abortRef, loopVars, loading, steerOff, calm, refused>>
    BY <1>2 DEF Type
  <2>2. /\ where \in [Calls -> Places] /\ queue \in Seq(Prompts) /\ Listed(queue, where)
        /\ Len(queue) \in Nat /\ MaxQueue \in Nat
    BY Typed DEF IInv, QueueLists
  <2>3. CASE Len(queue) < MaxQueue
    <3>1. queue' = Append(queue, m) /\ where' = [where EXCEPT ![m] = "queued"]
      BY <1>2, <2>3 DEF Type
    <3>2. /\ where' \in [Calls -> Places]
          /\ \A d \in Calls : where'[d] = IF d = m THEN "queued" ELSE where[d]
      BY <1>0, <2>2, <3>1 DEF Places
    <3>3. Listed(queue', where') /\ queue' \in Seq(Prompts) /\ Len(queue') = Len(queue) + 1
      BY <1>0, <2>2, <3>1, <3>2, ListedAppend
    <3>4. Len(queue') =< MaxQueue
      BY <2>2, <2>3, <3>3
    <3>5. TypeOK'
      BY <1>0, <2>1, <3>2, <3>3, <3>4 DEF IInv, TypeOK, Places, loopVars, compactVars
    <3>6. HeldAlone'
      BY <2>1, <3>2 DEF IInv, HeldAlone
    <3> QED
      BY <3>3, <3>5, <3>6 DEF IInv, QueueLists
  <2>4. CASE ~(Len(queue) < MaxQueue)
    <3>1. queue' = queue /\ where' = [where EXCEPT ![m] = "gone"]
      BY <1>2, <2>4 DEF Type
    <3>2. /\ where' \in [Calls -> Places]
          /\ \A d \in Calls : where'[d] = IF d = m THEN "gone" ELSE where[d]
      BY <1>0, <2>2, <3>1 DEF Places
    <3>3. \A d \in Calls : where[d] = "queued" <=> where'[d] = "queued"
      BY <1>0, <3>2
    <3>4. Listed(queue', where')
      BY <2>2, <3>1, <3>2, <3>3, ListedKeeps
    <3>5. TypeOK'
      BY <1>0, <2>1, <3>1, <3>2 DEF IInv, TypeOK, Places, loopVars, compactVars
    <3>6. HeldAlone'
      BY <2>1, <3>2 DEF IInv, HeldAlone
    <3> QED
      BY <3>4, <3>5, <3>6 DEF IInv, QueueLists
  <2> QED
    BY <2>3, <2>4
<1> QED
  BY <1>1, <1>2

LEMMA CompactEndsKeeps ==
  ASSUME IInv, NEW k \in Summaries, CompactEnds(k)
  PROVE  IInv'
<1>1. /\ summary' = [summary EXCEPT ![k] = FALSE] /\ compacting' = FALSE
      /\ UNCHANGED <<queueRef, abortRef, loopVars, loading, steerOff, pendingCompact, compacts, history>>
  BY DEF CompactEnds
<1>2. where \in [Calls -> Places] /\ queue \in Seq(Prompts) /\ Listed(queue, where) /\ Len(queue) =< MaxQueue
  BY Typed DEF IInv, QueueLists
<1>3. ASSUME where' \in [Calls -> Places],
             \A d \in Calls : where'[d] = where[d] \/ where'[d] = "scheduled",
             queue' \in Seq(Prompts), Len(queue') =< MaxQueue, Listed(queue', where')
      PROVE  IInv'
  <2>1. TypeOK'
    BY <1>1, <1>3 DEF IInv, TypeOK, Places, loopVars, history
  <2>2. HeldAlone'
    BY <1>1, <1>3 DEF IInv, HeldAlone, history
  <2> QED
    BY <1>3, <2>1, <2>2 DEF IInv, QueueLists
<1>4. CASE k = "deferred"
  <2>1. where' = Schedule(where) /\ queue' = queue
    BY <1>4 DEF CompactEnds
  <2>2. /\ where' \in [Calls -> Places]
        /\ \A d \in Calls : where'[d] = where[d] \/ (where[d] = "unsent" /\ where'[d] = "scheduled")
    BY <1>2, <2>1, ScheduleMoves
  <2>3. \A d \in Calls : where[d] = "queued" <=> where'[d] = "queued"
    BY <2>2
  <2>4. Listed(queue', where')
    BY <1>2, <2>1, <2>2, <2>3, ListedKeeps
  <2> QED
    BY <1>2, <1>3, <2>1, <2>2, <2>4
<1>5. CASE k # "deferred" /\ queue = <<>>
  BY <1>2, <1>3, <1>5 DEF CompactEnds
<1>6. CASE k # "deferred" /\ queue # <<>>
  <2> DEFINE h == Head(queue)
  <2>1. where' = [where EXCEPT ![h] = "scheduled"] /\ queue' = Tail(queue)
    BY <1>6 DEF CompactEnds
  <2>2. h = queue[1] /\ 1 \in 1..Len(queue)
    BY <1>2, <1>6
  <2>3. h \in Calls
    BY <1>2, <2>2, Typed DEF IInv, Listed
  <2> HIDE DEF h
  <2>4. /\ where' \in [Calls -> Places]
        /\ \A d \in Calls : where'[d] = IF d = h THEN "scheduled" ELSE where[d]
    BY <1>2, <2>1, <2>3 DEF Places
  <2>5. /\ where'[h] # "queued"
        /\ \A d \in Calls : d # h => (where[d] = "queued" <=> where'[d] = "queued")
    BY <2>3, <2>4
  <2>6. Listed(queue', where') /\ queue' \in Seq(Prompts) /\ Len(queue') =< Len(queue)
    BY <1>2, <1>6, <2>1, <2>4, <2>5, ListedTail DEF h
  <2>7. Len(queue') =< MaxQueue
    <3>1. Len(queue) \in Nat /\ Len(queue') \in Nat /\ MaxQueue \in Nat
      BY <1>2, <2>6, Typed DEF IInv
    <3> QED
      BY <1>2, <2>6, <3>1
  <2> QED
    BY <1>3, <2>4, <2>6, <2>7
<1> QED
  BY <1>4, <1>5, <1>6

LEMMA RenderKeeps ==
  ASSUME IInv, Render
  PROVE  IInv'
<1>1. /\ queueRef' = queue
      /\ UNCHANGED <<where, abortRef, loopVars, loading, queue, steerOff, compactVars, history>>
  BY DEF Render
<1>2. TypeOK'
  BY <1>1 DEF IInv, TypeOK, loopVars, compactVars, history
<1> QED
  BY <1>1, <1>2, StillKeeps DEF history

LEMMA CompactKeeps ==
  ASSUME IInv, Compact
  PROVE  IInv'
<1>1. /\ compacts < MaxCompacts /\ compacts' = compacts + 1
      /\ UNCHANGED <<where, abortRef, loopVars, loading, queues, steerOff, history>>
      /\ \/ pendingCompact' = TRUE /\ UNCHANGED <<compacting, summary>>
         \/ /\ compacting' = TRUE /\ summary' = [summary EXCEPT !["asked"] = TRUE]
            /\ UNCHANGED pendingCompact
  BY DEF Compact
<1>2. compacts' \in 0..MaxCompacts
  BY <1>1, Typed DEF IInv, TypeOK
<1>3. summary' \in [Summaries -> BOOLEAN] /\ {compacting', pendingCompact'} \subseteq BOOLEAN
  BY <1>1 DEF IInv, TypeOK
<1>4. TypeOK'
  BY <1>1, <1>2, <1>3 DEF IInv, TypeOK, loopVars, queues, history
<1> QED
  BY <1>1, <1>4, StillKeeps DEF queues, history

LEMMA IInvInit ==
  ASSUME Init
  PROVE  IInv
<1>1. TypeOK
  <2>1. 0 \in 0..MaxRetries /\ 0 \in 0..StallCap /\ 0 \in 0..MaxCompacts /\ 0 =< MaxQueue
    BY BoundsAssumption
  <2>2. <<>> \in Seq(Prompts) /\ Len(<<>>) = 0
    BY EmptySeq
  <2>3. /\ queue \in Seq(Prompts) /\ queueRef \in Seq(Prompts) /\ Len(queue) =< MaxQueue
    BY <2>1, <2>2 DEF Init
  <2> QED
    BY <2>1, <2>3 DEF Init, TypeOK
<1>2. /\ where \in [Calls -> Places] /\ queue = <<>>
      /\ \A c \in Calls : where[c] = "unsent"
  BY DEF Init, Places
<1>3. QueueLists
  BY <1>2, ListedEmpty DEF QueueLists
<1>4. HeldAlone
  BY <1>2 DEF HeldAlone
<1> QED
  BY <1>1, <1>3, <1>4 DEF IInv

LEMMA IInvNext ==
  ASSUME IInv, [Next]_vars
  PROVE  IInv'
<1>1. CASE Abort
  BY <1>1, AbortKeeps
<1>2. CASE Compact
  BY <1>2, CompactKeeps
<1>3. CASE Render
  BY <1>3, RenderKeeps
<1>4. ASSUME NEW k \in Summaries, CompactEnds(k) PROVE IInv'
  BY <1>4, CompactEndsKeeps
<1>5. ASSUME NEW m \in Prompts, Type(m) PROVE IInv'
  BY <1>5, TypeKeeps
<1>6. ASSUME NEW m \in Prompts, SendRemotely(m) PROVE IInv'
  <2>1. /\ m \in Calls /\ where[m] = "unsent" /\ HandleSubmit(m)
        /\ UNCHANGED <<queues, compactVars, stopped>>
    BY <1>6 DEF SendRemotely, Calls
  <2> QED
    BY <2>1, SubmitKeeps
<1>7. ASSUME NEW c \in Calls, Scheduled(c) PROVE IInv'
  <2>1. /\ where[c] = "scheduled" /\ HandleSubmit(c)
        /\ UNCHANGED <<queues, compactVars, stopped>>
    BY <1>7 DEF Scheduled
  <2> QED
    BY <2>1, SubmitKeeps
<1>8. ASSUME NEW c \in Calls, Prepared(c) PROVE IInv'
  BY <1>8, PreparedKeeps
<1>9. ASSUME NEW c \in Calls, Steer(c) PROVE IInv'
  BY <1>9, SteerKeeps
<1>10. ASSUME NEW c \in Calls, Stall(c) PROVE IInv'
  BY <1>10, StallKeeps
<1>11. ASSUME NEW c \in Calls, StreamEnds(c) PROVE IInv'
  BY <1>11, StreamEndsKeeps
<1>12. ASSUME NEW c \in Calls, StreamRetries(c) PROVE IInv'
  BY <1>12, StreamRetriesKeeps
<1>13. ASSUME NEW c \in Calls, StreamFails(c) PROVE IInv'
  <2>1. /\ where[c] \in {"streaming", "backoff"} /\ FinallyQueue(c, "streaming") /\ LoopTop(c)
        /\ tries' = [tries EXCEPT ![c] = IF @ < MaxRetries THEN @ + 1 ELSE @]
        /\ UNCHANGED <<stallCount, queueRef, history>>
    BY <1>13 DEF StreamFails
  <2>2. tries \in [Calls -> 0..MaxRetries] /\ tries[c] \in 0..MaxRetries
    BY DEF IInv, TypeOK
  <2>3. (IF tries[c] < MaxRetries THEN tries[c] + 1 ELSE tries[c]) \in 0..MaxRetries
    BY <2>2, Typed DEF IInv
  <2>4. tries' \in [Calls -> 0..MaxRetries]
    BY <2>1, <2>2, <2>3
  <2> QED
    BY <2>1, <2>4, RoundKeeps
<1>14. ASSUME NEW c \in Calls, Retry(c) PROVE IInv'
  <2>1. /\ where[c] \in {"streaming", "backoff"} /\ FinallyQueue(c, "streaming") /\ LoopTop(c)
        /\ UNCHANGED <<tries, stallCount, queueRef, history>>
    BY <1>14 DEF Retry
  <2>2. tries' \in [Calls -> 0..MaxRetries]
    BY <2>1 DEF IInv, TypeOK
  <2> QED
    BY <2>1, <2>2, RoundKeeps
<1>16. ASSUME NEW c \in Calls, Opens(c) PROVE IInv'
  <2>1. /\ opening' = opening \ {c} /\ steerOff' = FALSE
        /\ UNCHANGED <<where, abortRef, signal, stalled, tries, userAborted, stallCount, retryPending,
                       loading, queues, compactVars, history>>
    BY <1>16 DEF Opens
  <2>2. TypeOK'
    BY <2>1 DEF IInv, TypeOK, queues, compactVars, history
  <2> QED
    BY <2>1, <2>2, StillKeeps DEF queues, history
<1>15. CASE UNCHANGED vars
  <2>1. TypeOK'
    BY <1>15 DEF vars, IInv, TypeOK, loopVars, queues, compactVars, history
  <2> QED
    BY <1>15, <2>1, StillKeeps DEF vars, queues, history
<1> QED
  BY <1>1, <1>2, <1>3, <1>4, <1>5, <1>6, <1>7, <1>8, <1>9, <1>10, <1>11, <1>12, <1>13,
     <1>14, <1>15, <1>16 DEF Next

(* The queue lists the queued prompts once each, and while the tab is calm *)
(* only the call that holds the controller is live (useChat.ts 1703-1704,  *)
(* 3594-3618, 4117-4131).                                                  *)
THEOREM Invariance == Spec => []IInv
<1>1. Init => IInv
  BY IInvInit
<1>2. IInv /\ [Next]_vars => IInv'
  BY IInvNext
<1> QED
  BY <1>1, <1>2, PTL DEF Spec

(* Every variable keeps its type; the queue keeps to its limit, whichever  *)
(* of the input box, the drain and the steering touches it.                *)
THEOREM TypeCorrect == Spec => []TypeOK
<1>1. IInv => TypeOK
  BY DEF IInv
<1> QED
  BY <1>1, Invariance, PTL

-----------------------------------------------------------------------------
(* What the invariant is for.                                              *)

(* A tab has one stream at most while nothing was aborted and no call has  *)
(* awaited a hook, with any number of prompts (useChat.ts 1703-1704).      *)
THEOREM OneStream == Spec => []OneStreamWhileCalm
<1>1. IInv => OneStreamWhileCalm
  <2> SUFFICES ASSUME IInv, calm PROVE Cardinality(Live) =< 1
    BY DEF OneStreamWhileCalm
  <2>1. \A c \in Live : c = abortRef
    BY DEF IInv, HeldAlone, Live
  <2>2. Live = {} \/ Live = {abortRef}
    BY <2>1
  <2>3. Cardinality({}) = 0 /\ Cardinality({abortRef}) = 1
    BY FS_EmptySet, FS_Singleton, Zenon
  <2> QED
    BY <2>2, <2>3
<1> QED
  BY <1>1, Invariance, PTL

(* The queue and the prompts marked as queued are the same, of the same    *)
(* number: none is lost between the two (useChat.ts 2296, 4121).           *)
THEOREM QueueHolds == Spec => []QueueHoldsQueued
<1>1. IInv => QueueHoldsQueued
  <2> SUFFICES ASSUME IInv PROVE QueueHoldsQueued
    OBVIOUS
  <2> DEFINE n == Len(queue)
             Q == {m \in Calls : where[m] = "queued"}
             f == [i \in 1..n |-> queue[i]]
  <2>1. n \in Nat /\ DOMAIN queue = 1..n /\ Listed(queue, where)
    BY Typed DEF IInv, QueueLists
  <2>2. \A i \in 1..n : queue[i] \in Q
    BY <2>1 DEF Listed, Calls
  <2>3. {queue[i] : i \in DOMAIN queue} = Q
    BY <2>1, <2>2 DEF Listed
  <2>4. f \in Bijection(1..n, Q)
    <3>1. f \in [1..n -> Q]
      BY <2>2
    <3>2. \A i, j \in 1..n : f[i] = f[j] => i = j
      BY <2>1 DEF Listed
    <3>3. \A m \in Q : \E i \in 1..n : f[i] = m
      BY <2>1 DEF Listed
    <3> HIDE DEF f, Q
    <3> QED
      BY <3>1, <3>2, <3>3 DEF Bijection, Injection, Surjection, IsInjective
  <2> HIDE DEF f, Q
  <2>5. IsFiniteSet(1..n) /\ Cardinality(1..n) = n
    <3>1. 1 \in Int /\ n \in Int /\ (IF 1 > n THEN 0 ELSE n - 1 + 1) = n
      BY <2>1
    <3> HIDE DEF n
    <3> QED
      BY <3>1, FS_Interval
  <2>6. Cardinality(Q) = n
    <3>1. ExistsBijection(1..n, Q)
      BY <2>4, Zenon DEF ExistsBijection
    <3> HIDE DEF n
    <3> QED
      BY <3>1, <2>5, FS_Bijection, Zenon
  <2> QED
    BY <2>3, <2>6 DEF QueueHoldsQueued, Q
<1> QED
  BY <1>1, Invariance, PTL
=============================================================================
