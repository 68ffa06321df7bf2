------------------------- MODULE Permissions_proofs -------------------------
(***************************************************************************)
(* Proofs about the prompts of a tab, for any finite set of prompts of each *)
(* kind and any interleaving of their two halves.                          *)
(***************************************************************************)
EXTENDS Permissions, FiniteSetTheorems, SequenceTheorems, TLAPS

(* A prompt waits behind its own mutex, once, and has not been posted.     *)
Chains ==
    \A m \in Gates :
        /\ \A i \in 1..Len(line[m]) :
             /\ line[m][i] \in Gated
             /\ Gate(line[m][i]) = m
             /\ status[line[m][i]] = "chained"
        /\ \A i, j \in 1..Len(line[m]) : i # j => line[m][i] # line[m][j]

(* What is on the screen or known to the bridge has been posted.           *)
KnownPosted ==
    \A a \in Asks : a = slot \/ a = shown \/ remote[a] # "none"
                      => status[a] \notin {"idle", "chained"}

IInv ==
    /\ TypeOK
    /\ Chains
    /\ KnownPosted
    /\ NoSilentAllow
    /\ WatchdogCountsRemotes
    /\ DecidedPromptsLeavePhone

Status == {"idle", "chained", "posted", "allowed", "denied"}
Remote == {"none", "importing", "pending", "closed"}

-----------------------------------------------------------------------------
(* Sets of callbacks.                                                      *)

LEMMA WebFinite ==
  ASSUME NEW r
  PROVE  IsFiniteSet(Pending(r, WebAsks)) /\ Cardinality(Pending(r, WebAsks)) \in Nat
<1>1. Pending(r, WebAsks) \subseteq Asks
  BY DEF Pending, Asks
<1>2. IsFiniteSet(Pending(r, WebAsks))
  BY <1>1, AsksFinite, FS_Subset
<1> QED
  BY <1>2, FS_CardinalityType

LEMMA WebAdd ==
  ASSUME NEW r \in [Asks -> Remote], NEW a \in Asks, r[a] # "pending",
         NEW s, s = [r EXCEPT ![a] = "pending"]
  PROVE  Cardinality(Pending(s, WebAsks)) =
           IF a \in WebAsks THEN Cardinality(Pending(r, WebAsks)) + 1
                            ELSE Cardinality(Pending(r, WebAsks))
<1>1. WebAsks \subseteq Asks
  BY DEF Asks
<1>2. CASE a \in WebAsks
  <2>1. Pending(s, WebAsks) = Pending(r, WebAsks) \cup {a} /\ a \notin Pending(r, WebAsks)
    BY <1>1, <1>2 DEF Pending
  <2> QED
    BY <1>2, <2>1, WebFinite, FS_AddElement
<1>3. CASE a \notin WebAsks
  <2>1. Pending(s, WebAsks) = Pending(r, WebAsks)
    BY <1>1, <1>3 DEF Pending
  <2> QED
    BY <1>3, <2>1
<1> QED
  BY <1>2, <1>3

LEMMA WebRemove ==
  ASSUME NEW r \in [Asks -> Remote], NEW a \in Asks, r[a] = "pending",
         NEW s, s = [r EXCEPT ![a] = "closed"]
  PROVE  /\ Cardinality(Pending(s, WebAsks)) =
              IF a \in WebAsks THEN Cardinality(Pending(r, WebAsks)) - 1
                               ELSE Cardinality(Pending(r, WebAsks))
         /\ Cardinality(Pending(s, WebAsks)) \in Nat
<1>1. WebAsks \subseteq Asks
  BY DEF Asks
<1>2. CASE a \in WebAsks
  <2>1. Pending(s, WebAsks) = Pending(r, WebAsks) \ {a} /\ a \in Pending(r, WebAsks)
    BY <1>1, <1>2 DEF Pending
  <2> QED
    BY <1>2, <2>1, WebFinite, FS_RemoveElement
<1>3. CASE a \notin WebAsks
  <2>1. Pending(s, WebAsks) = Pending(r, WebAsks)
    BY <1>1, <1>3 DEF Pending
  <2> QED
    BY <1>3, <2>1, WebFinite
<1> QED
  BY <1>2, <1>3

(* A change that neither adds nor removes a callback keeps the count.      *)
LEMMA WebSame ==
  ASSUME NEW r \in [Asks -> Remote], NEW a \in Asks, r[a] # "pending",
         NEW x \in Remote \ {"pending"}, NEW s, s = [r EXCEPT ![a] = x]
  PROVE  Pending(s, WebAsks) = Pending(r, WebAsks)
BY DEF Pending, Asks

(* A cancel leaves no callback of the tab.                                 *)
LEMMA WebNone ==
  ASSUME remote \in [Asks -> Remote], CancelRemotes, WatchdogCountsRemotes
  PROVE  /\ remote' \in [Asks -> Remote]
         /\ \A a \in Asks : remote'[a] = IF remote[a] = "pending" THEN "closed" ELSE remote[a]
         /\ active' = 0
         /\ WatchdogCountsRemotes'
<1>1. /\ remote' = [a \in Asks |-> IF remote[a] = "pending" THEN "closed" ELSE remote[a]]
      /\ active' = active - Cardinality(Pending(remote, WebAsks))
  BY DEF CancelRemotes
<1>2. Pending(remote', WebAsks) = {}
  BY <1>1 DEF Pending, Asks
<1>3. active' = 0
  BY <1>1, WebFinite DEF WatchdogCountsRemotes
<1>4. WatchdogCountsRemotes'
  BY <1>2, <1>3, FS_EmptySet DEF WatchdogCountsRemotes
<1> QED
  BY <1>1, <1>3, <1>4 DEF Remote

-----------------------------------------------------------------------------
(* The handlers.                                                           *)

LEMMA Typed ==
  ASSUME TypeOK
  PROVE  /\ status \in [Asks -> Status] /\ remote \in [Asks -> Remote]
         /\ \A m \in Gates : line[m] \in Seq(Gated)
         /\ Gated \subseteq Asks /\ NoAsk \notin Asks
BY AsksDisjoint DEF TypeOK, Status, Remote, Gated, Asks

(* Only what is posted, or was, is decided by an answer or a skip.         *)
LEMMA DecideTypes ==
  ASSUME TypeOK, NEW a \in Asks, NEW x \in {"allowed", "denied"}, Decide(a, x)
  PROVE  /\ status' \in [Asks -> Status]
         /\ \A b \in Asks : status'[b] = IF b = a THEN x ELSE status[b]
         /\ holder' \in [Gates -> Gated \cup {NoAsk}]
BY DEF TypeOK, Decide, Status

(* A step that decides a posted prompt or none, and leaves the chains, the *)
(* permissions and at most fewer callbacks.                                *)
LEMMA SettleKeeps ==
  ASSUME IInv, NEW a \in Asks, NEW x \in {"allowed", "denied"},
         \/ Decide(a, x) /\ status[a] = "posted" /\ (a \in WebAsks => remote'[a] # "pending")
         \/ UNCHANGED <<status, holder>>,
         x = "allowed" => a \in heard',
         phase' \in {"idle", "running", "aborted"}, line' = line,
         slot' \in {slot, NoAsk}, shown' = shown,
         \/ auto' = auto
         \/ a \in Gated /\ a \in heard' /\ auto' = [auto EXCEPT ![Gate(a)] = TRUE],
         heard' \in SUBSET Asks, heard \subseteq heard', cancelling' \in BOOLEAN,
         remote' \in [Asks -> Remote], active' \in Nat,
         \A b \in Asks : remote'[b] = remote[b] \/ (remote[b] # "none" /\ remote'[b] = "closed"),
         WatchdogCountsRemotes'
  PROVE  IInv'
<1>1. /\ status' \in [Asks -> Status]
      /\ holder' \in [Gates -> Gated \cup {NoAsk}]
      /\ \A b \in Asks : \/ status'[b] = status[b]
                         \/ b = a /\ status[b] = "posted" /\ status'[b] = x
                            /\ (a \in WebAsks => remote'[b] # "pending")
  BY DecideTypes, Typed DEF IInv, TypeOK
<1>2. TypeOK'
  <2>1. auto' \in [Gates -> BOOLEAN]
    BY DEF IInv, TypeOK, Gates, Gate
  <2> QED
    BY <1>1, <2>1 DEF IInv, TypeOK, Status, Remote
<1>3. Chains'
  <2> SUFFICES ASSUME NEW m \in Gates
               PROVE  /\ \A i \in 1..Len(line[m]) :
                           /\ line[m][i] \in Gated /\ Gate(line[m][i]) = m
                           /\ status'[line[m][i]] = "chained"
                      /\ \A i, j \in 1..Len(line[m]) : i # j => line[m][i] # line[m][j]
    BY DEF Chains
  <2>1. \A i \in 1..Len(line[m]) : /\ line[m][i] \in Gated /\ Gate(line[m][i]) = m
                                   /\ status[line[m][i]] = "chained"
    BY DEF IInv, Chains
  <2>2. \A i, j \in 1..Len(line[m]) : i # j => line[m][i] # line[m][j]
    BY DEF IInv, Chains
  <2>3. \A b \in Gated : status[b] = "chained" => status'[b] = "chained"
    BY <1>1, Typed DEF IInv
  <2> QED
    BY <2>1, <2>2, <2>3
<1>4. KnownPosted'
  <2> SUFFICES ASSUME NEW b \in Asks, b = slot' \/ b = shown' \/ remote'[b] # "none"
               PROVE  status'[b] \notin {"idle", "chained"}
    BY DEF KnownPosted
  <2>1. b = slot \/ b = shown \/ remote[b] # "none"
    BY Typed DEF IInv
  <2> QED
    BY <1>1, <2>1 DEF IInv, KnownPosted
<1>5. NoSilentAllow'
  <2>1. \A b \in Asks : status'[b] = "allowed" => b \in heard' \/ (b \in Gated /\ auto'[Gate(b)])
    <3> SUFFICES ASSUME NEW b \in Asks, status'[b] = "allowed"
                 PROVE  b \in heard' \/ (b \in Gated /\ auto'[Gate(b)])
      OBVIOUS
    <3>1. CASE status[b] = "allowed"
      <4>1. b \in heard \/ (b \in Gated /\ auto[Gate(b)])
        BY <3>1 DEF IInv, NoSilentAllow
      <4>2. \A m \in Gates : auto[m] => auto'[m]
        BY DEF IInv, TypeOK
      <4>3. Gate(b) \in Gates
        BY DEF Gate, Gates
      <4> QED
        BY <4>1, <4>2, <4>3
    <3>2. CASE status[b] # "allowed"
      BY <1>1, <3>2
    <3> QED
      BY <3>1, <3>2
  <2>2. \A m \in Gates : auto'[m] => \E b \in heard' \cap Gated : Gate(b) = m
    <3> SUFFICES ASSUME NEW m \in Gates, auto'[m]
                 PROVE  \E b \in heard' \cap Gated : Gate(b) = m
      OBVIOUS
    <3>1. CASE auto[m]
      BY <3>1 DEF IInv, NoSilentAllow
    <3>2. CASE ~auto[m]
      <4>1. a \in Gated /\ a \in heard' /\ Gate(a) = m
        BY <3>2 DEF IInv, TypeOK
      <4> QED
        BY <4>1
    <3> QED
      BY <3>1, <3>2
  <2> QED
    BY <2>1, <2>2 DEF NoSilentAllow
<1>6. DecidedPromptsLeavePhone'
  <2> SUFFICES ASSUME NEW b \in WebAsks, remote'[b] = "pending" PROVE status'[b] = "posted"
    BY DEF DecidedPromptsLeavePhone
  <2>1. b \in Asks /\ remote[b] = "pending"
    BY DEF Asks
  <2>2. status[b] = "posted"
    BY <2>1 DEF IInv, DecidedPromptsLeavePhone
  <2> QED
    BY <1>1, <2>1, <2>2
<1> QED
  BY <1>2, <1>3, <1>4, <1>5, <1>6 DEF IInv

(* A prompt that has not been posted is posted; who stood in a chain has   *)
(* left it.                                                                *)
LEMMA PostKeeps ==
  ASSUME IInv, NEW a \in Asks, Post(a), status[a] \in {"idle", "chained"},
         holder' \in [Gates -> Gated \cup {NoAsk}], line' \in [Gates -> Seq(Gated)],
         \A m \in Gates : /\ \A i \in 1..Len(line'[m]) :
                               /\ line'[m][i] \in Gated /\ line'[m][i] # a
                               /\ Gate(line'[m][i]) = m /\ status[line'[m][i]] = "chained"
                          /\ \A i, j \in 1..Len(line'[m]) : i # j => line'[m][i] # line'[m][j],
         UNCHANGED <<phase, auto, shown, active, cancelling, heard>>
  PROVE  IInv'
<1>1. /\ status' = [status EXCEPT ![a] = "posted"]
      /\ slot' = a
      /\ remote' = [remote EXCEPT ![a] = IF HasRemote(a) THEN "importing" ELSE @]
  BY DEF Post
<1>2. remote[a] = "none" /\ a # shown /\ a # slot
  BY Typed DEF IInv, KnownPosted, Remote
<1>3. /\ status' \in [Asks -> Status] /\ remote' \in [Asks -> Remote]
      /\ \A b \in Asks : status'[b] = IF b = a THEN "posted" ELSE status[b]
      /\ \A b \in Asks : b # a => remote'[b] = remote[b]
      /\ remote'[a] \in {"none", "importing"}
  BY <1>1, <1>2, Typed DEF IInv, Status, Remote
<1>4. TypeOK'
  BY <1>1, <1>3 DEF IInv, TypeOK, Status, Remote
<1>5. Chains'
  <2>1. \A b \in Gated : b # a => status'[b] = status[b]
    BY <1>3, Typed DEF IInv
  <2> QED
    BY <2>1 DEF Chains
<1>6. KnownPosted'
  BY <1>1, <1>3 DEF IInv, KnownPosted
<1>7. NoSilentAllow'
  BY <1>3 DEF IInv, NoSilentAllow
<1>8. WatchdogCountsRemotes'
  <2>1. Pending(remote', WebAsks) = Pending(remote, WebAsks)
    BY <1>2, <1>3 DEF Pending, Asks
  <2> QED
    BY <2>1 DEF IInv, WatchdogCountsRemotes
<1>9. DecidedPromptsLeavePhone'
  BY <1>3 DEF IInv, DecidedPromptsLeavePhone, Asks
<1> QED
  BY <1>4, <1>5, <1>6, <1>7, <1>8, <1>9 DEF IInv

(* A gated prompt is called.                                               *)
LEMMA CallGatedKeeps ==
  ASSUME IInv, NEW a \in Gated, CallGated(a)
  PROVE  IInv'
<1>1. a \in Asks /\ status[a] = "idle" /\ Gate(a) \in Gates
      /\ UNCHANGED <<phase, holder, auto, slot, shown, remote, active, cancelling, heard>>
  BY DEF CallGated, Gated, Asks, Gate, Gates
<1>2. remote[a] = "none" /\ a # shown /\ a # slot
  BY <1>1, Typed DEF IInv, KnownPosted, Remote
<1>3. CASE auto[Gate(a)]
  <2>1. status' = [status EXCEPT ![a] = "allowed"] /\ line' = line
    BY <1>3 DEF CallGated
  <2>2. /\ status' \in [Asks -> Status]
        /\ \A b \in Asks : status'[b] = IF b = a THEN "allowed" ELSE status[b]
    BY <2>1, Typed DEF IInv, Status
  <2>3. TypeOK'
    BY <1>1, <2>1, <2>2 DEF IInv, TypeOK, Status
  <2>4. Chains'
    <3>1. \A b \in Gated : status[b] = "chained" => status'[b] = "chained"
      BY <1>1, <2>2, Typed DEF IInv
    <3> QED
      BY <2>1, <3>1 DEF IInv, Chains
  <2>5. KnownPosted' /\ DecidedPromptsLeavePhone'
    BY <1>1, <1>2, <2>2 DEF IInv, KnownPosted, DecidedPromptsLeavePhone, Asks
  <2>6. NoSilentAllow'
    BY <1>1, <1>3, <2>2 DEF IInv, NoSilentAllow
  <2>7. WatchdogCountsRemotes'
    BY <1>1 DEF IInv, WatchdogCountsRemotes
  <2> QED
    BY <2>3, <2>4, <2>5, <2>6, <2>7 DEF IInv
<1>4. CASE ~auto[Gate(a)]
  <2> DEFINE g == Gate(a)
             q == Append(line[g], a)
  <2>1. status' = [status EXCEPT ![a] = "chained"] /\ line' = [line EXCEPT ![g] = q]
    BY <1>4 DEF CallGated
  <2>2. /\ status' \in [Asks -> Status]
        /\ \A b \in Asks : status'[b] = IF b = a THEN "chained" ELSE status[b]
    BY <1>1, <2>1, Typed DEF IInv, Status
  <2>3. /\ Len(line[g]) \in Nat /\ Len(q) = Len(line[g]) + 1 /\ q \in Seq(Gated)
        /\ \A i \in 1..Len(line[g]) : q[i] = line[g][i]
        /\ q[Len(line[g]) + 1] = a
    BY <1>1, Typed DEF IInv
  <2>4. \A i \in 1..Len(q) : i \in 1..Len(line[g]) \/ i = Len(line[g]) + 1
    BY <2>3
  <2>5. \A m \in Gates : line'[m] = IF m = g THEN q ELSE line[m]
    BY <2>1 DEF IInv, TypeOK
  <2>6. \A m \in Gates : \A i \in 1..Len(line[m]) :
           /\ line[m][i] \in Gated /\ Gate(line[m][i]) = m
           /\ status[line[m][i]] = "chained" /\ line[m][i] # a
           /\ status'[line[m][i]] = "chained"
    BY <1>1, <2>2, Typed DEF IInv, Chains
  <2>7. TypeOK'
    <3>1. line' \in [Gates -> Seq(Gated)]
      BY <2>1, <2>3 DEF IInv, TypeOK
    <3> HIDE DEF q
    <3> QED
      BY <1>1, <2>2, <3>1 DEF IInv, TypeOK, Status
  <2>8. Chains'
    <3> HIDE DEF q
    <3> SUFFICES ASSUME NEW m \in Gates
                 PROVE  /\ \A i \in 1..Len(line'[m]) :
                             /\ line'[m][i] \in Gated /\ Gate(line'[m][i]) = m
                             /\ status'[line'[m][i]] = "chained"
                        /\ \A i, j \in 1..Len(line'[m]) : i # j => line'[m][i] # line'[m][j]
      BY DEF Chains
    <3>0. \A i, j \in 1..Len(line[m]) : i # j => line[m][i] # line[m][j]
      BY DEF IInv, Chains
    <3>1. CASE m # g
      BY <2>5, <2>6, <3>0, <3>1
    <3>2. CASE m = g
      <4>1. line'[m] = q
        BY <2>5, <3>2
      <4>2. \A i \in 1..Len(q) : q[i] \in Gated /\ Gate(q[i]) = m /\ status'[q[i]] = "chained"
        BY <1>1, <2>2, <2>3, <2>4, <2>6, <3>2
      <4>3. \A i, j \in 1..Len(q) : i # j => q[i] # q[j]
        BY <2>3, <2>4, <2>6, <3>0, <3>2
      <4> QED
        BY <4>1, <4>2, <4>3
    <3> QED
      BY <3>1, <3>2
  <2>9. KnownPosted' /\ DecidedPromptsLeavePhone'
    BY <1>1, <1>2, <2>2 DEF IInv, KnownPosted, DecidedPromptsLeavePhone, Asks
  <2>10. NoSilentAllow'
    BY <1>1, <2>2 DEF IInv, NoSilentAllow
  <2>11. WatchdogCountsRemotes'
    BY <1>1 DEF IInv, WatchdogCountsRemotes
  <2> QED
    BY <2>7, <2>8, <2>9, <2>10, <2>11 DEF IInv
<1> QED
  BY <1>3, <1>4

(* The head of a chain has its turn.                                       *)
LEMMA EnterKeeps ==
  ASSUME IInv, NEW m \in Gates, Enter(m)
  PROVE  IInv'
<1> DEFINE a == Head(line[m])
           r == Tail(line[m])
<1>1. /\ Len(line[m]) \in Nat \ {0} /\ Len(r) = Len(line[m]) - 1 /\ r \in Seq(Gated)
      /\ \A i \in 1..Len(r) : r[i] = line[m][i + 1] /\ i + 1 \in 1..Len(line[m]) /\ i + 1 # 1
      /\ a = line[m][1] /\ 1 \in 1..Len(line[m])
  BY Typed DEF Enter, IInv
<1>2. a \in Gated /\ a \in Asks /\ Gate(a) = m /\ status[a] = "chained"
  BY <1>1, Typed DEF IInv, Chains
<1>3. line' = [line EXCEPT ![m] = r] /\ line' \in [Gates -> Seq(Gated)]
  BY <1>1 DEF Enter, IInv, TypeOK
<1>4. \A n \in Gates : line'[n] = IF n = m THEN r ELSE line[n]
  BY <1>3 DEF IInv, TypeOK
<1>5. \A n \in Gates : /\ \A i \in 1..Len(line'[n]) :
                             /\ line'[n][i] \in Gated /\ line'[n][i] # a
                             /\ Gate(line'[n][i]) = n /\ status[line'[n][i]] = "chained"
                       /\ \A i, j \in 1..Len(line'[n]) : i # j => line'[n][i] # line'[n][j]
  <2> SUFFICES ASSUME NEW n \in Gates
               PROVE  /\ \A i \in 1..Len(line'[n]) :
                             /\ line'[n][i] \in Gated /\ line'[n][i] # a
                             /\ Gate(line'[n][i]) = n /\ status[line'[n][i]] = "chained"
                      /\ \A i, j \in 1..Len(line'[n]) : i # j => line'[n][i] # line'[n][j]
    OBVIOUS
  <2>1. /\ \A i \in 1..Len(line[n]) : /\ line[n][i] \in Gated /\ Gate(line[n][i]) = n
                                      /\ status[line[n][i]] = "chained"
        /\ \A i, j \in 1..Len(line[n]) : i # j => line[n][i] # line[n][j]
    BY DEF IInv, Chains
  <2> HIDE DEF a, r
  <2>2. CASE n # m
    BY <1>2, <1>4, <2>1, <2>2
  <2>3. CASE n = m
    <3>1. line'[n] = r
      BY <1>4, <2>3
    <3>2. \A i \in 1..Len(r) : /\ r[i] \in Gated /\ r[i] # a
                               /\ Gate(r[i]) = n /\ status[r[i]] = "chained"
      BY <1>1, <2>1, <2>3
    <3>3. \A i, j \in 1..Len(r) : i # j => r[i] # r[j]
      BY <1>1, <2>1, <2>3
    <3> QED
      BY <3>1, <3>2, <3>3
  <2> QED
    BY <2>2, <2>3
<1>6. CASE auto[m]
  <2>1. status' = [status EXCEPT ![a] = "allowed"]
        /\ UNCHANGED <<phase, holder, auto, slot, shown, remote, active, cancelling, heard>>
    BY <1>6 DEF Enter
  <2>2. remote[a] = "none" /\ a # shown /\ a # slot
    BY <1>2, Typed DEF IInv, KnownPosted, Remote
  <2> HIDE DEF a, r
  <2>3. /\ status' \in [Asks -> Status]
        /\ \A b \in Asks : status'[b] = IF b = a THEN "allowed" ELSE status[b]
    BY <1>2, <2>1, Typed DEF IInv, Status
  <2>4. TypeOK'
    BY <1>3, <2>1, <2>3 DEF IInv, TypeOK, Status
  <2>5. Chains'
    <3>1. \A b \in Gated : b # a => status'[b] = status[b]
      BY <2>3, Typed DEF IInv
    <3> QED
      BY <1>5, <3>1 DEF Chains
  <2>6. KnownPosted' /\ DecidedPromptsLeavePhone'
    BY <2>1, <2>2, <2>3 DEF IInv, KnownPosted, DecidedPromptsLeavePhone, Asks
  <2>7. NoSilentAllow'
    BY <1>2, <1>6, <2>1, <2>3 DEF IInv, NoSilentAllow
  <2>8. WatchdogCountsRemotes'
    BY <2>1 DEF IInv, WatchdogCountsRemotes
  <2> QED
    BY <2>4, <2>5, <2>6, <2>7, <2>8 DEF IInv
<1>7. CASE ~auto[m]
  <2>1. holder' = [holder EXCEPT ![m] = a] /\ Post(a) /\ UNCHANGED <<phase, auto, shown, active, cancelling, heard>>
    BY <1>7 DEF Enter
  <2>2. holder' \in [Gates -> Gated \cup {NoAsk}]
    BY <1>2, <2>1 DEF IInv, TypeOK
  <2> HIDE DEF a, r
  <2> QED
    BY <1>2, <1>3, <1>5, <2>1, <2>2, PostKeeps
<1> QED
  BY <1>6, <1>7

LEMMA UngatedKeeps ==
  ASSUME IInv, NEW a \in DestructiveAsks \cup Questions, CallUngated(a)
  PROVE  IInv'
<1>1. a \in Asks /\ status[a] = "idle" /\ Post(a)
      /\ UNCHANGED <<phase, line, holder, auto, shown, active, cancelling, heard>>
  BY DEF CallUngated, Asks
<1>2. holder' \in [Gates -> Gated \cup {NoAsk}] /\ line' \in [Gates -> Seq(Gated)]
  BY <1>1 DEF IInv, TypeOK
<1>3. \A m \in Gates : /\ \A i \in 1..Len(line'[m]) :
                             /\ line'[m][i] \in Gated /\ line'[m][i] # a
                             /\ Gate(line'[m][i]) = m /\ status[line'[m][i]] = "chained"
                       /\ \A i, j \in 1..Len(line'[m]) : i # j => line'[m][i] # line'[m][j]
  BY <1>1 DEF IInv, Chains
<1> QED
  BY <1>1, <1>2, <1>3, PostKeeps

LEMMA ImportedKeeps ==
  ASSUME IInv, NEW a \in Asks, Imported(a)
  PROVE  IInv'
<1>1. remote[a] = "importing" /\ UNCHANGED <<phase, status, line, holder, auto, slot, shown, cancelling, heard>>
  BY DEF Imported
<1>2. PICK x \in {"pending", "closed"} :
        /\ remote' = [remote EXCEPT ![a] = x]
        /\ x = "pending" => Undecided(a)
        /\ active' = IF x = "pending" /\ a \in WebAsks THEN active + 1 ELSE active
  BY DEF Imported
<1>3. /\ remote' \in [Asks -> Remote]
      /\ \A b \in Asks : remote'[b] = IF b = a THEN x ELSE remote[b]
  BY <1>2, Typed DEF IInv, Remote
<1>4. status[a] = "posted" \/ x = "closed"
  BY <1>1, <1>2 DEF IInv, KnownPosted, Undecided
<1>5. WatchdogCountsRemotes'
  <2>1. CASE x = "pending"
    BY <1>1, <1>2, <2>1, Typed, WebAdd DEF IInv, WatchdogCountsRemotes
  <2>2. CASE x = "closed"
    <3>1. Pending(remote', WebAsks) = Pending(remote, WebAsks)
      BY <1>1, <1>3, <2>2 DEF Pending, Asks
    <3> QED
      BY <1>2, <2>2, <3>1 DEF IInv, WatchdogCountsRemotes
  <2> QED
    BY <2>1, <2>2
<1>6. TypeOK'
  <2>1. active' \in Nat
    BY <1>2 DEF IInv, TypeOK
  <2> QED
    BY <1>1, <1>3, <2>1 DEF IInv, TypeOK, Remote
<1>7. Chains' /\ NoSilentAllow'
  BY <1>1 DEF IInv, Chains, NoSilentAllow
<1>8. KnownPosted'
  BY <1>1, <1>3 DEF IInv, KnownPosted
<1>9. DecidedPromptsLeavePhone'
  BY <1>1, <1>3, <1>4 DEF IInv, DecidedPromptsLeavePhone, Asks
<1> QED
  BY <1>5, <1>6, <1>7, <1>8, <1>9 DEF IInv

(* A callback leaves the bridge.                                           *)
LEMMA CloseFacts ==
  ASSUME IInv, NEW a \in Asks, Close(a)
  PROVE  /\ remote' \in [Asks -> Remote] /\ active' \in Nat
         /\ remote'[a] = "closed"
         /\ \A b \in Asks : remote'[b] = remote[b] \/ (remote[b] # "none" /\ remote'[b] = "closed")
         /\ WatchdogCountsRemotes'
         /\ status[a] \notin {"idle", "chained"}
<1>1. remote[a] = "pending" /\ remote' = [remote EXCEPT ![a] = "closed"]
      /\ active' = IF a \in WebAsks THEN active - 1 ELSE active
  BY DEF Close
<1>2. active' = Cardinality(Pending(remote', WebAsks)) /\ Cardinality(Pending(remote', WebAsks)) \in Nat
  BY <1>1, Typed, WebRemove DEF IInv, WatchdogCountsRemotes
<1>3. remote' \in [Asks -> Remote] /\ \A b \in Asks : remote'[b] = IF b = a THEN "closed" ELSE remote[b]
  BY <1>1, Typed DEF IInv, Remote
<1> QED
  BY <1>1, <1>2, <1>3 DEF IInv, KnownPosted, WatchdogCountsRemotes

LEMMA RemoteAnswerKeeps ==
  ASSUME IInv, NEW a \in Asks, NEW yes \in BOOLEAN, RemoteAnswer(a, yes)
  PROVE  IInv'
<1> DEFINE x == IF yes THEN "allowed" ELSE "denied"
<1>1. /\ Close(a) /\ UNCHANGED <<phase, line, auto, shown, cancelling>>
      /\ heard' = IF yes THEN heard \cup {a} ELSE heard
  BY DEF RemoteAnswer
<1>2. x \in {"allowed", "denied"} /\ (x = "allowed" => a \in heard')
  BY <1>1
<1>3. \/ Decide(a, x) /\ status[a] = "posted" /\ slot' = NoAsk
      \/ UNCHANGED <<status, holder, slot>>
  BY <1>1, CloseFacts DEF RemoteAnswer, Undecided
<1>4. /\ heard' \in SUBSET Asks /\ heard \subseteq heard' /\ cancelling' \in BOOLEAN
      /\ phase' \in {"idle", "running", "aborted"} /\ slot' \in {slot, NoAsk}
  BY <1>1, <1>3 DEF IInv, TypeOK
<1>5. remote'[a] # "pending"
  BY <1>1, CloseFacts
<1> HIDE DEF x
<1> QED
  BY <1>1, <1>2, <1>3, <1>4, <1>5, CloseFacts, SettleKeeps

LEMMA RemoteExpiresKeeps ==
  ASSUME IInv, NEW a \in Asks, RemoteExpires(a)
  PROVE  IInv'
<1>1. Close(a) /\ UNCHANGED <<phase, status, line, holder, auto, slot, shown, cancelling, heard>>
  BY DEF RemoteExpires
<1>2. phase' \in {"idle", "running", "aborted"} /\ heard' \in SUBSET Asks /\ cancelling' \in BOOLEAN
  BY <1>1 DEF IInv, TypeOK
<1> QED
  BY <1>1, <1>2, CloseFacts, SettleKeeps

(* A gated prompt that is withdrawn takes the callbacks of its tab with it. *)
LEMMA WithdrawFacts ==
  ASSUME IInv, NEW a \in Asks, Withdraw(a)
  PROVE  /\ remote' \in [Asks -> Remote] /\ active' \in Nat
         /\ \A b \in Asks : remote'[b] = remote[b] \/ (remote[b] # "none" /\ remote'[b] = "closed")
         /\ WatchdogCountsRemotes'
         /\ status[a] = "posted" => remote'[a] # "pending" \/ a \notin WebAsks
<1>1. CASE CancelRemotes
  <2>1. remote \in [Asks -> Remote] /\ WatchdogCountsRemotes
    BY Typed DEF IInv
  <2> QED
    BY <1>1, <2>1, WebNone
<1>2. CASE UNCHANGED <<remote, active>>
  <2>1. status[a] = "posted" /\ remote[a] = "pending" /\ a \in WebAsks => CancelRemotes
    BY DEF Withdraw, Undecided
  <2>2. CASE status[a] = "posted" /\ remote[a] = "pending" /\ a \in WebAsks
    BY <1>1, <2>1, <2>2
  <2>3. CASE ~(status[a] = "posted" /\ remote[a] = "pending" /\ a \in WebAsks)
    BY <1>2, <2>3, Typed DEF IInv, TypeOK, WatchdogCountsRemotes
  <2> QED
    BY <2>2, <2>3
<1> QED
  BY <1>1, <1>2 DEF Withdraw

(* The prompt on the screen has been posted.                               *)
LEMMA LocalAnswerKeeps ==
  ASSUME IInv, NEW a \in Asks, NEW yes \in BOOLEAN, NEW always \in BOOLEAN,
         LocalAnswer(a, yes, always)
  PROVE  IInv'
<1> DEFINE x == IF yes THEN "allowed" ELSE "denied"
<1>1. /\ shown = a /\ (always => yes /\ a \in Gated)
      /\ ResolveLocal(a, x) /\ Withdraw(a)
      /\ heard' = IF yes THEN heard \cup {a} ELSE heard
      /\ UNCHANGED <<phase, line, shown, cancelling>>
  BY DEF LocalAnswer
<1>2. status[a] \notin {"idle", "chained"}
  BY <1>1 DEF IInv, KnownPosted
<1>3. x \in {"allowed", "denied"} /\ (x = "allowed" => a \in heard')
  BY <1>1
<1>4. \/ auto' = auto
      \/ a \in Gated /\ a \in heard' /\ auto' = [auto EXCEPT ![Gate(a)] = TRUE]
  BY <1>1 DEF LocalAnswer
<1>5. /\ remote' \in [Asks -> Remote] /\ active' \in Nat
      /\ \A b \in Asks : remote'[b] = remote[b] \/ (remote[b] # "none" /\ remote'[b] = "closed")
      /\ WatchdogCountsRemotes'
      /\ status[a] = "posted" => remote'[a] # "pending" \/ a \notin WebAsks
  BY <1>1, WithdrawFacts
<1>6. \/ Decide(a, x) /\ status[a] = "posted"
      \/ UNCHANGED <<status, holder>>
  BY <1>1, <1>2 DEF ResolveLocal, Undecided
<1>7. /\ heard' \in SUBSET Asks /\ heard \subseteq heard' /\ slot' \in {slot, NoAsk}
      /\ phase' \in {"idle", "running", "aborted"} /\ cancelling' \in BOOLEAN
  BY <1>1 DEF IInv, TypeOK, ResolveLocal
<1> HIDE DEF x
<1> QED
  BY <1>1, <1>3, <1>4, <1>5, <1>6, <1>7, SettleKeeps

(* A step that decides nothing and at most takes callbacks away.            *)
LEMMA NothingDecided ==
  ASSUME IInv, UNCHANGED <<status, line, holder, auto, slot, shown, heard>>,
         phase' \in {"idle", "running", "aborted"}, cancelling' \in BOOLEAN,
         remote' \in [Asks -> Remote], active' \in Nat,
         \A b \in Asks : remote'[b] = remote[b] \/ (remote[b] # "none" /\ remote'[b] = "closed"),
         WatchdogCountsRemotes'
  PROVE  IInv'
<1>1. TypeOK' /\ Chains'
  BY DEF IInv, TypeOK, Remote, Chains
<1>2. KnownPosted' /\ NoSilentAllow'
  BY DEF IInv, KnownPosted, NoSilentAllow
<1>3. DecidedPromptsLeavePhone'
  BY DEF IInv, DecidedPromptsLeavePhone, Asks
<1> QED
  BY <1>1, <1>2, <1>3 DEF IInv

LEMMA AbortKeeps ==
  ASSUME IInv, Abort
  PROVE  IInv'
<1>1. /\ phase' = "aborted" /\ cancelling' = TRUE
      /\ UNCHANGED <<line, auto, shown, heard>>
  BY DEF Abort
<1>2. CASE shown = NoAsk
  <2>1. UNCHANGED <<status, holder, slot, remote, active>>
    BY <1>2 DEF Abort
  <2>2. /\ remote' \in [Asks -> Remote] /\ active' \in Nat
        /\ WatchdogCountsRemotes'
    BY <2>1, Typed DEF IInv, TypeOK, WatchdogCountsRemotes
  <2> QED
    BY <1>1, <2>1, <2>2, NothingDecided
<1>3. CASE shown # NoAsk
  <2>1. shown \in Asks /\ status[shown] \notin {"idle", "chained"}
    BY <1>3 DEF IInv, TypeOK, KnownPosted
  <2>2. /\ slot' = NoAsk /\ Withdraw(shown)
        /\ (Decide(shown, "denied") /\ status[shown] = "posted") \/ UNCHANGED <<status, holder>>
    BY <1>3, <2>1 DEF Abort, Undecided
  <2>3. heard' \in SUBSET Asks
    BY <1>1 DEF IInv, TypeOK
  <2> QED
    BY <1>1, <2>1, <2>2, <2>3, WithdrawFacts, SettleKeeps
<1> QED
  BY <1>2, <1>3

LEMMA AbortImportedKeeps ==
  ASSUME IInv, AbortImported
  PROVE  IInv'
<1>1. /\ CancelRemotes /\ cancelling' = FALSE
      /\ UNCHANGED <<phase, status, line, holder, auto, slot, shown, heard>>
  BY DEF AbortImported
<1>2. remote \in [Asks -> Remote] /\ WatchdogCountsRemotes /\ phase \in {"idle", "running", "aborted"}
  BY Typed DEF IInv, TypeOK
<1>3. /\ remote' \in [Asks -> Remote] /\ active' = 0 /\ WatchdogCountsRemotes'
      /\ \A a \in Asks : remote'[a] = IF remote[a] = "pending" THEN "closed" ELSE remote[a]
  BY <1>1, <1>2, WebNone
<1>4. \A b \in Asks : remote'[b] = remote[b] \/ (remote[b] # "none" /\ remote'[b] = "closed")
  BY <1>3
<1>5. active' \in Nat /\ cancelling' \in BOOLEAN /\ phase' \in {"idle", "running", "aborted"}
  BY <1>1, <1>2, <1>3
<1> QED
  BY <1>1, <1>3, <1>4, <1>5, NothingDecided

-----------------------------------------------------------------------------
(* Every step keeps the invariant.                                         *)

LEMMA IInvInit == Init => IInv
<1> SUFFICES ASSUME Init PROVE IInv
  OBVIOUS
<1>1. /\ phase = "idle" /\ slot = NoAsk /\ shown = NoAsk /\ active = 0 /\ heard = {}
      /\ \A a \in Asks : status[a] = "idle" /\ remote[a] = "none"
      /\ \A m \in Gates : line[m] = <<>> /\ ~auto[m]
  BY DEF Init
<1>2. TypeOK
  <2>1. /\ status \in [Asks -> {"idle", "chained", "posted", "allowed", "denied"}]
        /\ remote \in [Asks -> {"none", "importing", "pending", "closed"}]
    BY DEF Init
  <2>2. line \in [Gates -> Seq(Gated)] /\ holder \in [Gates -> Gated \cup {NoAsk}]
    BY DEF Init
  <2>3. auto \in [Gates -> BOOLEAN] /\ cancelling \in BOOLEAN
    BY DEF Init
  <2> QED
    BY <1>1, <2>1, <2>2, <2>3 DEF TypeOK
<1>3. Chains /\ KnownPosted
  BY <1>1, AsksDisjoint DEF Chains, KnownPosted
<1>4. NoSilentAllow /\ DecidedPromptsLeavePhone
  BY <1>1 DEF NoSilentAllow, DecidedPromptsLeavePhone, Asks
<1>5. WatchdogCountsRemotes
  <2>1. Pending(remote, WebAsks) = {}
    BY <1>1 DEF Pending, Asks
  <2> QED
    BY <1>1, <2>1, FS_EmptySet DEF WatchdogCountsRemotes
<1> QED
  BY <1>2, <1>3, <1>4, <1>5 DEF IInv

LEMMA IInvNext == IInv /\ [Next]_vars => IInv'
<1> SUFFICES ASSUME IInv, [Next]_vars PROVE IInv'
  OBVIOUS
<1>1. CASE \/ StartTurn \/ TurnEnds
  <2>1. /\ slot' = NoAsk /\ phase' \in {"idle", "running"}
        /\ UNCHANGED <<status, line, holder, auto, shown, remote, active, cancelling, heard>>
    BY <1>1 DEF StartTurn, TurnEnds
  <2>2. TypeOK' /\ Chains'
    BY <2>1 DEF IInv, TypeOK, Chains
  <2>3. KnownPosted'
    BY <2>1, AsksDisjoint DEF IInv, KnownPosted
  <2>4. NoSilentAllow' /\ DecidedPromptsLeavePhone' /\ WatchdogCountsRemotes'
    BY <2>1 DEF IInv, NoSilentAllow, DecidedPromptsLeavePhone, WatchdogCountsRemotes
  <2> QED
    BY <2>2, <2>3, <2>4 DEF IInv
<1>2. CASE Abort \/ AbortImported
  BY <1>2, AbortKeeps, AbortImportedKeeps
<1>3. CASE Render
  <2>1. shown' = slot /\ UNCHANGED <<phase, status, line, holder, auto, slot, remote, active, cancelling, heard>>
    BY <1>3 DEF Render
  <2>2. TypeOK' /\ Chains' /\ KnownPosted'
    BY <2>1 DEF IInv, TypeOK, Chains, KnownPosted
  <2>3. NoSilentAllow' /\ DecidedPromptsLeavePhone' /\ WatchdogCountsRemotes'
    BY <2>1 DEF IInv, NoSilentAllow, DecidedPromptsLeavePhone, WatchdogCountsRemotes
  <2> QED
    BY <2>2, <2>3 DEF IInv
<1>4. ASSUME NEW m \in Gates, Enter(m) PROVE IInv'
  BY <1>4, EnterKeeps
<1>5. ASSUME NEW a \in Gated, CallGated(a) PROVE IInv'
  BY <1>5, CallGatedKeeps
<1>6. ASSUME NEW a \in DestructiveAsks \cup Questions, CallUngated(a) PROVE IInv'
  BY <1>6, UngatedKeeps
<1>7. ASSUME NEW a \in Asks, Imported(a) PROVE IInv'
  BY <1>7, ImportedKeeps
<1>8. ASSUME NEW a \in Asks, RemoteExpires(a) PROVE IInv'
  BY <1>8, RemoteExpiresKeeps
<1>9. ASSUME NEW a \in Asks, NEW yes \in BOOLEAN, RemoteAnswer(a, yes) PROVE IInv'
  BY <1>9, RemoteAnswerKeeps
<1>10. ASSUME NEW a \in Asks, NEW yes \in BOOLEAN, NEW always \in BOOLEAN,
              LocalAnswer(a, yes, always)
       PROVE  IInv'
  BY <1>10, LocalAnswerKeeps
<1>11. CASE UNCHANGED vars
  <2>1. TypeOK' /\ Chains' /\ KnownPosted'
    BY <1>11 DEF vars, IInv, TypeOK, Chains, KnownPosted
  <2>2. NoSilentAllow' /\ DecidedPromptsLeavePhone' /\ WatchdogCountsRemotes'
    BY <1>11 DEF vars, IInv, NoSilentAllow, DecidedPromptsLeavePhone, WatchdogCountsRemotes
  <2> QED
    BY <2>1, <2>2 DEF IInv
<1> QED
  BY <1>1, <1>2, <1>3, <1>4, <1>5, <1>6, <1>7, <1>8, <1>9, <1>10, <1>11 DEF Next

-----------------------------------------------------------------------------
(* Theorems.                                                               *)

(* The invariant holds in every state.                                     *)
THEOREM Invariance == Spec => []IInv
BY IInvInit, IInvNext, PTL DEF Spec

(* Every variable keeps its type, the count of prompts on the phone        *)
(* included: it never goes below zero.                                     *)
THEOREM TypeCorrect == Spec => []TypeOK
<1>1. IInv => TypeOK
  BY DEF IInv
<1> QED
  BY <1>1, Invariance, PTL

(* Nothing is permitted that the user has not permitted, whatever aborts,  *)
(* time-outs and second answers do (promptGated, promptDestructive).       *)
THEOREM OnlyWhatWasAllowed == Spec => []NoSilentAllow
<1>1. IInv => NoSilentAllow
  BY DEF IInv
<1> QED
  BY <1>1, Invariance, PTL

(* The watchdog's counter is the number of permission prompts that wait on *)
(* the phone (remoteApprovalActiveRef).                                    *)
THEOREM CountsRemotes == Spec => []WatchdogCountsRemotes
<1>1. IInv => WatchdogCountsRemotes
  BY DEF IInv
<1> QED
  BY <1>1, Invariance, PTL

(* No button of a decided permission prompt is left on the phone.          *)
THEOREM PhoneKeepsNoDecided == Spec => []DecidedPromptsLeavePhone
<1>1. IInv => DecidedPromptsLeavePhone
  BY DEF IInv
<1> QED
  BY <1>1, Invariance, PTL

Decided == {"allowed", "denied"}

(* What is decided was neither in a chain nor undecided on the phone.      *)
LEMMA FinalNext ==
  ASSUME IInv, [Next]_vars, NEW a \in Asks, status[a] \in Decided
  PROVE  status'[a] = status[a]
<1>0. status \in [Asks -> Status]
  BY Typed DEF IInv
<1>1. ASSUME NEW b \in Asks, NEW x, Decide(b, x), status[b] \notin Decided
      PROVE  status'[a] = status[a]
  BY <1>0, <1>1 DEF Decide
<1>2. ASSUME NEW b \in Asks, NEW x, status' = [status EXCEPT ![b] = x], status[b] \notin Decided
      PROVE  status'[a] = status[a]
  BY <1>0, <1>2
<1>3. \A b \in Asks : Undecided(b) => status[b] \notin Decided
  BY DEF Undecided, Decided
<1>4. CASE \/ StartTurn \/ AbortImported \/ TurnEnds \/ Render \/ UNCHANGED vars
           \/ \E b \in Asks : Imported(b) \/ RemoteExpires(b)
  BY <1>4 DEF StartTurn, AbortImported, TurnEnds, Render, vars, Imported, RemoteExpires
<1>5. CASE Abort
  <2>1. shown # NoAsk => shown \in Asks
    BY DEF IInv, TypeOK
  <2>2. CASE UNCHANGED status
    BY <2>2
  <2>3. CASE shown # NoAsk /\ Undecided(shown) /\ Decide(shown, "denied")
    BY <1>1, <1>3, <2>1, <2>3
  <2> QED
    BY <1>5, <2>2, <2>3 DEF Abort
<1>6. ASSUME NEW m \in Gates, Enter(m) PROVE status'[a] = status[a]
  <2>1. Len(line[m]) \in Nat \ {0} /\ Head(line[m]) = line[m][1] /\ 1 \in 1..Len(line[m])
    BY <1>6, Typed DEF Enter, IInv
  <2>2. Head(line[m]) \in Asks /\ status[Head(line[m])] \notin Decided
    BY <2>1, Typed DEF IInv, Chains, Decided
  <2>3. status' = [status EXCEPT ![Head(line[m])] = "allowed"]
        \/ status' = [status EXCEPT ![Head(line[m])] = "posted"]
    BY <1>6 DEF Enter, Post
  <2> QED
    BY <1>2, <2>2, <2>3
<1>7. ASSUME NEW b \in Gated, CallGated(b) PROVE status'[a] = status[a]
  <2>1. b \in Asks /\ status[b] \notin Decided
    BY <1>7, Typed DEF IInv, CallGated, Decided
  <2>2. status' = [status EXCEPT ![b] = "allowed"] \/ status' = [status EXCEPT ![b] = "chained"]
    BY <1>7 DEF CallGated
  <2> QED
    BY <1>2, <2>1, <2>2
<1>8. ASSUME NEW b \in DestructiveAsks \cup Questions, CallUngated(b) PROVE status'[a] = status[a]
  <2>1. b \in Asks /\ status[b] \notin Decided /\ status' = [status EXCEPT ![b] = "posted"]
    BY <1>8 DEF CallUngated, Post, Asks, Decided
  <2> QED
    BY <1>2, <2>1
<1>9. ASSUME NEW b \in Asks, NEW yes \in BOOLEAN, RemoteAnswer(b, yes) PROVE status'[a] = status[a]
  <2>1. UNCHANGED status \/ (Undecided(b) /\ Decide(b, IF yes THEN "allowed" ELSE "denied"))
    BY <1>9 DEF RemoteAnswer
  <2> QED
    BY <1>1, <1>3, <2>1
<1>10. ASSUME NEW b \in Asks, NEW yes \in BOOLEAN, NEW always \in BOOLEAN,
              LocalAnswer(b, yes, always)
       PROVE  status'[a] = status[a]
  <2>1. UNCHANGED status \/ (Undecided(b) /\ Decide(b, IF yes THEN "allowed" ELSE "denied"))
    BY <1>10 DEF LocalAnswer, ResolveLocal
  <2> QED
    BY <1>1, <1>3, <2>1
<1> QED
  BY <1>4, <1>5, <1>6, <1>7, <1>8, <1>9, <1>10 DEF Next

(* A decision is never changed: the done flags of promptGated and          *)
(* onAskUser, and the one entry of a prompt in its chain.                  *)
THEOREM DecisionsStand == Spec => DecisionsFinal
<1>1. IInv /\ [Next]_vars =>
        [\A a \in Asks : status[a] \in {"allowed", "denied"} => status'[a] = status[a]]_vars
  BY FinalNext DEF Decided
<1> QED
  BY <1>1, Invariance, PTL DEF Spec, DecisionsFinal
=============================================================================
