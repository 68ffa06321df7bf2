------------------------ MODULE Checkpoints_proofs ------------------------
(***************************************************************************)
(* Theorems about Checkpoints: the types, that a checkpoint carries no tag *)
(* but its own, that what can be redone is not in the conversation, and    *)
(* that no tree is tagged while another is being restored.                 *)
(***************************************************************************)
EXTENDS Checkpoints, FiniteSetTheorems, SequenceTheorems, TLAPS

----------------------------------------------------------------------------
(* Sequences and numbers.                                                  *)

LEMMA HasLeast ==
  ASSUME NEW T \in SUBSET Nat, T # {}
  PROVE  \E n \in T : \A m \in T : n =< m
<1> DEFINE below == OpToRel(<, Nat)
<1>1. IsWellFoundedOn(below, Nat)
  BY NatLessThanWellFounded, Zenon
<1>2. \E n \in T : \A m \in T : <<m, n>> \notin below
  <2> HIDE DEF below
  <2> QED
    BY <1>1, WFMin, Zenon
<1>3. PICK n \in T : \A m \in T : <<m, n>> \notin below
  BY <1>2, Zenon
<1>4. \A m \in T : ~(m < n)
  BY <1>3 DEF OpToRel
<1> QED
  BY <1>4

\* A set of positions has a last one.
LEMMA HasNearest ==
  ASSUME NEW n \in Nat, NEW S \in SUBSET (1..n), S # {}
  PROVE  Nearest(S) \in S
<1> DEFINE T == {n - i : i \in S}
<1>1. \A i \in S : i \in 1..n /\ n - i \in Nat
  OBVIOUS
<1>0. T \in SUBSET Nat /\ T # {}
  BY <1>1
<1>2. PICK m \in T : \A k \in T : m =< k
  BY <1>0, HasLeast
<1>3. PICK i \in S : m = n - i
  BY <1>2
<1>4. \A k \in S : n - i =< n - k
  BY <1>2, <1>3
<1>5. \A k \in S : k =< i
  BY <1>1, <1>4
<1> QED
  BY <1>5 DEF Nearest

----------------------------------------------------------------------------
(* Every set of positions can be put in order, so that InOrder blocks no   *)
(* step and the theorems lose no behaviour; and every place of a sorted    *)
(* list is taken by an entry of the list.                                  *)

\* Sequences of S in which each element stands in R to all that follow.
Listings(S, R) ==
    {f \in [1..Cardinality(S) -> S] : \A i, j \in 1..Cardinality(S) : i < j => <<f[i], f[j]>> \in R}

\* The least element in front of a listing of the others.
LEMMA ListingGrows ==
  ASSUME NEW S, IsFiniteSet(S), NEW R, NEW x \in S, \A y \in S \ {x} : <<x, y>> \in R,
         Listings(S \ {x}, R) # {}
  PROVE  Listings(S, R) # {}
<1> DEFINE k == Cardinality(S)
<1>1. k \in Nat \ {0} /\ Cardinality(S \ {x}) = k - 1
  <2>1. Cardinality(S \ {x}) = Cardinality(S) - 1 /\ Cardinality(S) \in Nat
    BY FS_RemoveElement, FS_CardinalityType
  <2>2. Cardinality(S \ {x}) \in Nat
    BY FS_RemoveElement, FS_CardinalityType
  <2> QED
    BY <2>1, <2>2
<1> HIDE DEF k
<1>2. PICK f \in [1..k - 1 -> S \ {x}] : \A i, j \in 1..k - 1 : i < j => <<f[i], f[j]>> \in R
  BY <1>1 DEF Listings
<1> DEFINE g == [i \in 1..k |-> IF i = 1 THEN x ELSE f[i - 1]]
<1>3. g \in [1..k -> S]
  BY <1>1, <1>2
<1>4. ASSUME NEW i \in 1..k, NEW j \in 1..k, i < j
      PROVE  <<g[i], g[j]>> \in R
  <2>1. j - 1 \in 1..k - 1 /\ g[j] = f[j - 1] /\ f[j - 1] \in S \ {x}
    BY <1>1, <1>2, <1>4
  <2>2. CASE i = 1
    BY <2>1, <2>2
  <2>3. CASE i # 1
    <3>1. i - 1 \in 1..k - 1 /\ g[i] = f[i - 1] /\ i - 1 < j - 1
      BY <1>1, <1>4, <2>3
    <3> QED
      BY <1>2, <2>1, <3>1
  <2> QED
    BY <2>2, <2>3
<1>5. g \in [1..Cardinality(S) -> S]
      /\ \A i, j \in 1..Cardinality(S) : i < j => <<g[i], g[j]>> \in R
  <2> HIDE DEF g
  <2> QED
    BY <1>3, <1>4 DEF k
<1> HIDE DEF g
<1> QED
  BY <1>5 DEF Listings

\* By the least counterexample: a set of least size without a listing is not
\* empty, and without its least element it has one.
LEMMA HasListing ==
  ASSUME NEW D, IsFiniteSet(D), NEW R,
         \A S \in SUBSET D : S # {} => \E x \in S : \A y \in S \ {x} : <<x, y>> \in R
  PROVE  \A S \in SUBSET D : Listings(S, R) # {}
<1>1. \A S \in SUBSET D : IsFiniteSet(S) /\ Cardinality(S) \in Nat
  BY FS_Subset, FS_CardinalityType
<1> DEFINE bad == {S \in SUBSET D : Listings(S, R) = {}}
           sizes == {Cardinality(S) : S \in bad}
<1>2. SUFFICES ASSUME bad # {}
               PROVE  FALSE
  OBVIOUS
<1>3. PICK n \in sizes : \A m \in sizes : n =< m
  <2>1. sizes \in SUBSET Nat /\ sizes # {}
    BY <1>1, <1>2
  <2> HIDE DEF sizes
  <2> QED
    BY <2>1, HasLeast
<1>4. PICK S \in bad : n = Cardinality(S)
  BY <1>3
<1>5. CASE S = {}
  <2>1. Cardinality(S) = 0
    BY <1>5, FS_EmptySet
  <2>2. \A i \in 1..Cardinality(S) : FALSE
    BY <2>1
  <2>3. [i \in 1..Cardinality(S) |-> i] \in Listings(S, R)
    BY <2>2 DEF Listings
  <2> QED
    BY <1>4, <2>3
<1>6. CASE S # {}
  <2>1. PICK x \in S : \A y \in S \ {x} : <<x, y>> \in R
    BY <1>4, <1>6
  <2>2. Cardinality(S \ {x}) = Cardinality(S) - 1 /\ Cardinality(S) \in Nat
    BY <1>1, <1>4, FS_RemoveElement
  <2>3. S \ {x} \notin bad
    BY <1>3, <1>4, <2>2
  <2>4. Listings(S \ {x}, R) # {}
    BY <1>4, <2>3
  <2>5. Listings(S, R) # {}
    BY <1>1, <1>4, <2>1, <2>4, ListingGrows
  <2> QED
    BY <1>4, <2>5
<1> QED
  BY <1>5, <1>6

\* The positions an undo goes through have an order.
LEMMA HasOrder ==
  ASSUME NEW n \in Nat, NEW S \in SUBSET (1..n)
  PROVE  InOrder(S) # {}
<1> DEFINE R == {p \in (1..n) \X (1..n) : p[1] < p[2]}
<1>1. IsFiniteSet(1..n)
  BY FS_Interval
<1>2. ASSUME NEW U \in SUBSET (1..n), U # {}
      PROVE  \E x \in U : \A y \in U \ {x} : <<x, y>> \in R
  <2>1. PICK x \in U : \A y \in U : x =< y
    BY <1>2, HasLeast
  <2>2. ASSUME NEW y \in U \ {x}
        PROVE  x < y
    BY <2>1
  <2> QED
    BY <2>2
<1> HIDE DEF R
<1>3. Listings(S, R) # {}
  BY <1>1, <1>2, HasListing
<1>4. PICK f \in [1..Cardinality(S) -> S] : \A i, j \in 1..Cardinality(S) : i < j => <<f[i], f[j]>> \in R
  BY <1>3 DEF Listings
<1>5. \A i, j \in DOMAIN f : i < j => f[i] < f[j]
  BY <1>4 DEF R
<1> QED
  BY <1>5 DEF InOrder

\* A redo stack can be sorted.
LEMMA PlaceTaken ==
  ASSUME NEW list \in Seq(Entries)
  PROVE  \A n \in DOMAIN list : \E i \in DOMAIN list : Cardinality(InFront(list, i)) = n - 1
<1> DEFINE n == Len(list)
           D == 1..n
           before(i, j) == \/ list[i].index < list[j].index
                           \/ list[i].index = list[j].index /\ i < j
           R == {p \in D \X D : before(p[1], p[2])}
<1>1. n \in Nat /\ DOMAIN list = D /\ \A i \in D : list[i].index \in Nat
  <2>1. n \in Nat /\ DOMAIN list = D /\ \A i \in D : list[i] \in Entries
    BY LenProperties
  <2> QED
    BY <2>1 DEF Entries
<1>2. IsFiniteSet(D) /\ Cardinality(D) = n
  BY <1>1, FS_Interval
<1>3. ASSUME NEW U \in SUBSET D, U # {}
      PROVE  \E x \in U : \A y \in U \ {x} : <<x, y>> \in R
  <2> DEFINE V == {list[i].index : i \in U}
  <2>1. V \in SUBSET Nat /\ V # {}
    BY <1>1, <1>3
  <2>2. PICK v \in V : \A w \in V : v =< w
    <3> HIDE DEF V
    <3> QED
      BY <2>1, HasLeast
  <2> DEFINE W == {i \in U : list[i].index = v}
  <2>3. W \in SUBSET Nat /\ W # {}
    <3>1. \A i \in U : i \in Nat
      BY <1>1
    <3>2. \E i \in U : list[i].index = v
      BY <2>2
    <3> QED
      BY <3>1, <3>2
  <2>4. PICK x \in W : \A y \in W : x =< y
    <3> HIDE DEF W
    <3> QED
      BY <2>3, HasLeast
  <2>5. ASSUME NEW y \in U \ {x}
        PROVE  before(x, y)
    <3>1. list[x].index =< list[y].index /\ list[x].index \in Nat /\ list[y].index \in Nat
      BY <1>1, <2>2, <2>4
    <3>2. CASE list[y].index = v
      <4>1. y \in W /\ x =< y /\ x # y /\ x \in Nat /\ y \in Nat
        BY <1>1, <2>4, <2>5, <3>2
      <4> QED
        BY <2>4, <3>2, <4>1
    <3>3. CASE list[y].index # v
      BY <2>4, <3>1, <3>3
    <3> QED
      BY <3>2, <3>3
  <2> QED
    BY <2>4, <2>5
<1> HIDE DEF R
<1>4. Listings(D, R) # {}
  BY <1>2, <1>3, HasListing
<1>5. PICK f \in [D -> D] : \A i, j \in D : i < j => <<f[i], f[j]>> \in R
  BY <1>2, <1>4 DEF Listings
<1>6. \A i, j \in D : i < j => before(f[i], f[j])
  BY <1>5 DEF R
<1>7. \A z \in D : \E i \in D : f[i] = z
  <2> SUFFICES ASSUME NEW z \in D, \A i \in D : f[i] # z
               PROVE  FALSE
    OBVIOUS
  <2>1. f \in [D -> D \ {z}]
    BY <1>5
  <2>2. IsFiniteSet(D \ {z}) /\ Cardinality(D \ {z}) < Cardinality(D)
    <3>1. IsFiniteSet(D \ {z}) /\ Cardinality(D \ {z}) = Cardinality(D) - 1
      BY <1>2, FS_RemoveElement
    <3> QED
      BY <1>1, <1>2, <3>1
  <2>3. PICK i \in D, j \in D : i # j /\ f[i] = f[j]
    <3> HIDE DEF D
    <3> QED
      BY <1>2, <2>1, <2>2, FS_PigeonHole
  <2>4. f[i] \in D /\ ~before(f[i], f[i])
    BY <1>1, <1>5
  <2>5. i < j \/ j < i
    BY <1>1, <2>3
  <2> QED
    BY <1>6, <2>3, <2>4, <2>5
<1>8. ASSUME NEW m \in D
      PROVE  Cardinality(InFront(list, f[m])) = m - 1
  <2> DEFINE S == 1..m - 1
             T == InFront(list, f[m])
             g == [k \in S |-> f[k]]
  <2>1. \A k \in D : f[k] \in D /\ list[f[k]].index \in Nat /\ f[k] \in Nat /\ k \in Nat
    <3>1. \A k \in D : f[k] \in D
      BY <1>5
    <3>2. \A i \in D : i \in Nat
      BY <1>1
    <3> QED
      BY <1>1, <3>1, <3>2
  <2>2. \A k \in D : before(f[k], f[m]) <=> k < m
    <3> SUFFICES ASSUME NEW k \in D
                 PROVE  before(f[k], f[m]) <=> k < m
      OBVIOUS
    <3>1. CASE k < m
      BY <1>6, <3>1
    <3>2. CASE k = m
      BY <2>1, <3>2
    <3>3. CASE m < k
      <4>1. before(f[m], f[k])
        BY <1>6, <3>3
      <4> QED
        BY <2>1, <3>3, <4>1
    <3> QED
      BY <2>1, <3>1, <3>2, <3>3
  <2>3. T = {z \in D : before(z, f[m])}
    BY <1>1 DEF InFront
  <2>4. S \subseteq D /\ \A k \in S : k \in Nat /\ k < m
    BY <1>1
  <2>5. \A z \in T : \E k \in S : f[k] = z
    <3> SUFFICES ASSUME NEW z \in D, before(z, f[m])
                 PROVE  \E k \in S : f[k] = z
      BY <2>3
    <3>1. PICK k \in D : f[k] = z
      BY <1>7
    <3>2. k < m
      BY <2>2, <3>1
    <3> QED
      BY <1>1, <3>1, <3>2
  <2>6. \A k \in S : f[k] \in T
    BY <2>1, <2>2, <2>3, <2>4
  <2>7. \A k, l \in S : f[k] = f[l] => k = l
    <3> SUFFICES ASSUME NEW k \in S, NEW l \in S, f[k] = f[l], k < l
                 PROVE  FALSE
      BY <2>4
    <3>1. before(f[k], f[l])
      BY <1>6, <2>4
    <3> QED
      BY <2>1, <2>4, <3>1
  <2>8. g \in Bijection(S, T)
    <3> HIDE DEF S, T
    <3> QED
      BY <2>5, <2>6, <2>7 DEF Bijection, Injection, IsInjective, Surjection
  <2>9. IsFiniteSet(S) /\ Cardinality(S) = m - 1
    <3>1. m - 1 \in Int /\ m \in Nat \ {0}
      BY <1>1
    <3> QED
      BY <3>1, FS_Interval
  <2> HIDE DEF S, T, g
  <2>10. ExistsBijection(S, T)
    BY <2>8 DEF ExistsBijection
  <2>11. Cardinality(T) = Cardinality(S)
    BY <2>9, <2>10, FS_Bijection
  <2> QED
    BY <2>9, <2>11 DEF T
<1> QED
  BY <1>1, <1>5, <1>8

----------------------------------------------------------------------------
(* Sequences.                                                              *)

LEMMA FunctionIsSeq ==
  ASSUME NEW S, NEW n \in Nat, NEW f \in [1..n -> S]
  PROVE  f \in Seq(S) /\ Len(f) = n /\ DOMAIN f = 1..n
BY SeqDef

\* The first of a sequence is removed.
LEMMA RemovedFirst ==
  ASSUME NEW S, NEW q \in Seq(S), q # <<>>
  PROVE  /\ RemoveAt(q, 1) \in Seq(S)
         /\ Len(RemoveAt(q, 1)) = Len(q) - 1
         /\ \A i \in 1..Len(q) - 1 : RemoveAt(q, 1)[i] = q[i + 1]
<1>1. SubSeq(q, 1, 0) = <<>>
  BY SubSeqEmpty
<1>2. SubSeq(q, 2, Len(q)) = Tail(q) /\ Tail(q) \in Seq(S)
  BY TailIsSubSeq, HeadTailProperties
<1>3. RemoveAt(q, 1) = SubSeq(q, 1, 0) \o SubSeq(q, 2, Len(q))
  BY DEF RemoveAt
<1>4. RemoveAt(q, 1) = Tail(q)
  BY <1>1, <1>2, <1>3, ConcatEmptySeq
<1> QED
  BY <1>4, HeadTailProperties

LEMMA ConcatElement ==
  ASSUME NEW S, NEW q \in Seq(S), NEW r \in Seq(S), NEW k \in 1..Len(q \o r)
  PROVE  (\E i \in 1..Len(q) : (q \o r)[k] = q[i]) \/ (\E i \in 1..Len(r) : (q \o r)[k] = r[i])
<1>1. Len(q) \in Nat /\ Len(r) \in Nat
  BY LenProperties
<1>2. Len(q \o r) = Len(q) + Len(r)
      /\ \A j \in 1..Len(q) + Len(r) : (q \o r)[j] = IF j <= Len(q) THEN q[j] ELSE r[j - Len(q)]
  BY ConcatProperties
<1>3. CASE k <= Len(q)
  BY <1>1, <1>2, <1>3
<1>4. CASE ~(k <= Len(q))
  <2>1. k - Len(q) \in 1..Len(r)
    BY <1>1, <1>2, <1>4
  <2> QED
    BY <1>2, <1>4, <2>1
<1> QED
  BY <1>3, <1>4

LEMMA Ordered ==
  ASSUME NEW n \in Nat, NEW S \in SUBSET (1..n), NEW order \in InOrder(S)
  PROVE  /\ Len(order) \in Nat /\ order \in [1..Len(order) -> S]
         /\ DOMAIN order = 1..Len(order)
<1>1. IsFiniteSet(1..n)
  BY FS_Interval
<1>2. Cardinality(S) \in Nat
  BY <1>1, FS_Subset, FS_CardinalityType
<1>3. order \in [1..Cardinality(S) -> S]
  BY DEF InOrder
<1> QED
  BY <1>2, <1>3, FunctionIsSeq

LEMMA SortedList ==
  ASSUME NEW list \in Seq(Entries)
  PROVE  LET stack == Sorted(list) IN
         /\ stack \in Seq(Entries)
         /\ \A i \in 1..Len(stack) : \E k \in 1..Len(list) : stack[i] = list[k]
         /\ Redoable(stack) \subseteq Redoable(list)
<1> DEFINE stack == Sorted(list)
           f == [n \in DOMAIN list |-> CHOOSE i \in DOMAIN list : Cardinality(InFront(list, i)) = n - 1]
<1>1. f \in [DOMAIN list -> DOMAIN list] /\ stack = [i \in DOMAIN list |-> list[f[i]]]
  BY PlaceTaken DEF Sorted
<1> HIDE DEF stack, f
<1>2. Len(list) \in Nat /\ DOMAIN list = 1..Len(list) /\ list \in [1..Len(list) -> Entries]
  BY LenProperties
<1>3. stack \in [1..Len(list) -> Entries]
  BY <1>1, <1>2
<1>4. stack \in Seq(Entries) /\ DOMAIN stack = 1..Len(list) /\ Len(stack) = Len(list)
  BY <1>2, <1>3, FunctionIsSeq
<1>5. \A i \in 1..Len(list) : f[i] \in 1..Len(list) /\ stack[i] = list[f[i]]
  BY <1>1, <1>2
<1>6. Redoable(stack) \subseteq Redoable(list)
  BY <1>2, <1>4, <1>5 DEF Redoable
<1> QED
  BY <1>4, <1>5, <1>6 DEF stack

----------------------------------------------------------------------------
(* The inductive invariant.                                                *)

\* The checkpoints of a tab are those of the messages it shows.
Synced ==
    \A t \in Tabs :
        /\ Len(cps[t]) = Len(messages[t])
        /\ \A i \in 1..Len(messages[t]) : cps[t][i].prompt = messages[t][i].prompt

Distinct(list) == \A i, j \in 1..Len(list) : list[i].prompt = list[j].prompt => i = j

\* A conversation says nothing twice, and nothing that was not sent; a turn
\* runs only in a conversation that has begun.
TabTold(t) ==
    /\ Distinct(messages[t])
    /\ Asked(messages[t]) \subseteq sent
    /\ Redoable(redo[t]) \subseteq sent
    /\ loading[t] # NoPrompt => messages[t] # <<>>

\* No checkpoint that is shown is undone: what an undo marks, its messages take
\* away in the same moment.
NoneUndone == \A t \in Tabs : \A i \in 1..Len(cps[t]) : ~cps[t][i].undone

\* Nor will it once a job puts its messages there.
JobTold(job, said) ==
    /\ Distinct(job.keep)
    /\ Asked(job.keep) \subseteq said
    /\ Redoable(job.entries) \subseteq said
    /\ Redoable(job.entries) \cap Asked(job.keep) = {}
    /\ job.kind # "tag" => job.keep # <<>>
    /\ job.kind = "undo" => Len(job.keep) = job.index

Told ==
    /\ \A t \in Tabs : TabTold(t)
    /\ \A j \in 1..Len(jobs) : JobTold(jobs[j], sent)

\* A tag that is remembered anywhere exists in git.
Known(list, names) == \A i \in 1..Len(list) : list[i].tag \in names \cup {NoPrompt}

JobKnown(job, names) ==
    /\ job.ref \in names \cup {"HEAD"}
    /\ job.stage = "tagged" => job.prompt \in names
    /\ Known(job.entries, names)

TagsExist ==
    /\ \A t \in Tabs : Known(cps[t], DOMAIN tags) /\ Known(redo[t], DOMAIN tags)
    /\ \A j \in 1..Len(jobs) : JobKnown(jobs[j], DOMAIN tags)

\* Only the first job has begun, and HEAD is away only for the tag it makes.
Tagging == {"committed", "tagged", "refused"}

OneAtATime ==
    /\ \A j \in 1..Len(jobs) :
         /\ j > 1 => jobs[j].stage = "start"
         /\ jobs[j].kind = "tag" => jobs[j].stage \in {"start"} \cup Tagging
         /\ jobs[j].kind # "tag" => jobs[j].stage \in {"start", "restoring"}
    /\ head # base => jobs # <<>> /\ jobs[1].stage \in Tagging

IInv ==
    /\ TypeOK /\ Synced /\ Told /\ TagsExist /\ OneAtATime
    /\ TagsFollowPrompts /\ NothingTwice /\ NoneUndone

----------------------------------------------------------------------------
(* The store.                                                              *)

LEMMA RebuiltList ==
  ASSUME NEW list \in Seq(Exchanges), NEW old \in Seq(Checkpoint)
  PROVE  /\ Rebuilt(list, old) \in Seq(Checkpoint)
         /\ Len(Rebuilt(list, old)) = Len(list)
         /\ DOMAIN Rebuilt(list, old) = 1..Len(list)
         /\ \A i \in 1..Len(list) :
              /\ Rebuilt(list, old)[i].prompt = list[i].prompt
              /\ Rebuilt(list, old)[i].tag # NoPrompt
                   => /\ i \in 1..Len(old) /\ old[i].prompt = list[i].prompt
                      /\ Rebuilt(list, old)[i].tag = old[i].tag
              /\ Rebuilt(list, old)[i].undone
                   => i \in 1..Len(old) /\ old[i].prompt = list[i].prompt /\ old[i].undone
<1> DEFINE same(i) == i \in DOMAIN old /\ old[i].prompt = list[i].prompt
           cp(i) == [prompt |-> list[i].prompt,
                     files |-> UNION {a.files : a \in list[i].answers},
                     tag |-> IF same(i) THEN old[i].tag ELSE NoPrompt,
                     undone |-> same(i) /\ old[i].undone]
<1>1. Len(list) \in Nat /\ DOMAIN list = 1..Len(list) /\ DOMAIN old = 1..Len(old)
  BY LenProperties
<1>2. ASSUME NEW i \in 1..Len(list) PROVE cp(i) \in Checkpoint
  <2>1. list[i] \in Exchanges
    BY ElementOfSeq
  <2>2. list[i].prompt \in Prompts /\ list[i].answers \in SUBSET Answers
    BY <2>1 DEF Exchanges
  <2>3. UNION {a.files : a \in list[i].answers} \in SUBSET Files
    BY <2>2 DEF Answers
  <2>4. (IF same(i) THEN old[i].tag ELSE NoPrompt) \in Prompts \cup {NoPrompt}
    <3>1. CASE same(i)
      <4>1. old[i] \in Checkpoint
        BY <1>1, <3>1, ElementOfSeq
      <4> QED
        BY <4>1 DEF Checkpoint
    <3> QED
      BY <3>1
  <2>5. (same(i) /\ old[i].undone) \in BOOLEAN
    OBVIOUS
  <2> HIDE DEF same
  <2> QED
    BY <2>2, <2>3, <2>4, <2>5 DEF Checkpoint
<1>3. Rebuilt(list, old) = [i \in 1..Len(list) |-> cp(i)]
  BY <1>1 DEF Rebuilt
<1>4. Rebuilt(list, old) \in [1..Len(list) -> Checkpoint]
  <2> HIDE DEF cp
  <2> QED
    BY <1>2, <1>3
<1>5. \A i \in 1..Len(list) : Rebuilt(list, old)[i] = cp(i)
  <2> HIDE DEF cp
  <2> QED
    BY <1>3
<1>6. /\ Rebuilt(list, old) \in Seq(Checkpoint)
      /\ Len(Rebuilt(list, old)) = Len(list)
      /\ DOMAIN Rebuilt(list, old) = 1..Len(list)
  BY <1>1, <1>4, FunctionIsSeq
<1>7. \A i \in 1..Len(list) : /\ cp(i).prompt = list[i].prompt
                              /\ cp(i).tag = IF same(i) THEN old[i].tag ELSE NoPrompt
                              /\ cp(i).undone = (same(i) /\ old[i].undone)
  OBVIOUS
<1>8. \A i \in 1..Len(list) : same(i) => i \in 1..Len(old) /\ old[i].prompt = list[i].prompt
  BY <1>1
<1> HIDE DEF cp, same
<1> QED
  BY <1>5, <1>6, <1>7, <1>8

\* Two lists of checkpoints that differ in nothing but what is undone.
SameButUndone(old, list) ==
    /\ Len(old) = Len(list)
    /\ \A i \in 1..Len(list) : old[i].prompt = list[i].prompt /\ old[i].tag = list[i].tag

LEMMA Marked ==
  ASSUME NEW list \in Seq(Checkpoint), NEW old, DOMAIN old = DOMAIN list,
         \A k \in DOMAIN list : \/ old[k] = list[k]
                                \/ \E b \in BOOLEAN : old[k] = [list[k] EXCEPT !.undone = b],
         old = [k \in DOMAIN list |-> old[k]]
  PROVE  old \in Seq(Checkpoint) /\ SameButUndone(old, list)
<1>1. Len(list) \in Nat /\ DOMAIN list = 1..Len(list)
  BY LenProperties
<1>2. ASSUME NEW k \in 1..Len(list)
      PROVE  old[k] \in Checkpoint /\ old[k].prompt = list[k].prompt /\ old[k].tag = list[k].tag
  <2>1. list[k] \in Checkpoint
    BY ElementOfSeq
  <2>2. CASE old[k] = list[k]
    BY <2>1, <2>2
  <2>3. ASSUME NEW b \in BOOLEAN, old[k] = [list[k] EXCEPT !.undone = b]
        PROVE  old[k] \in Checkpoint /\ old[k].prompt = list[k].prompt /\ old[k].tag = list[k].tag
    BY <2>1, <2>3 DEF Checkpoint
  <2> QED
    BY <1>1, <2>2, <2>3
<1>3. old \in [1..Len(list) -> Checkpoint]
  BY <1>1, <1>2
<1>4. old \in Seq(Checkpoint) /\ Len(old) = Len(list)
  BY <1>1, <1>3, FunctionIsSeq
<1> QED
  BY <1>2, <1>4 DEF SameButUndone

\* What a tab shows: its checkpoints stay in step with its messages, keep
\* their tags, and what can be redone is kept only if nothing was added.
LEMMA Shown ==
  ASSUME TypeOK, Synced, TagsFollowPrompts, NEW t \in Tabs,
         NEW list \in Seq(Exchanges), NEW old \in Seq(Checkpoint), NEW stack \in Seq(Entries),
         SameButUndone(old, cps[t]), Show(t, list, old, stack)
  PROVE  /\ messages' \in [Tabs -> Seq(Exchanges)] /\ messages'[t] = list
         /\ cps' \in [Tabs -> Seq(Checkpoint)]
         /\ redo' \in [Tabs -> Seq(Entries)]
         /\ \A u \in Tabs \ {t} : messages'[u] = messages[u] /\ cps'[u] = cps[u] /\ redo'[u] = redo[u]
         /\ Len(cps'[t]) = Len(list)
         /\ \A i \in 1..Len(list) :
              /\ cps'[t][i].prompt = list[i].prompt
              /\ cps'[t][i].tag # NoPrompt
                   => /\ i \in 1..Len(cps[t]) /\ cps[t][i].prompt = list[i].prompt
                      /\ cps'[t][i].tag = cps[t][i].tag
         /\ redo'[t] = <<>> \/ (redo'[t] = stack /\ Asked(list) \subseteq Asked(messages[t]))
<1> DEFINE new == Rebuilt(list, old)
           appeared == \E i \in DOMAIN new : ~new[i].undone /\ new[i].prompt \notin Asked(old)
<1>1. /\ messages' = [messages EXCEPT ![t] = list]
      /\ cps' = [cps EXCEPT ![t] = new]
      /\ redo' = [redo EXCEPT ![t] = IF appeared THEN <<>> ELSE stack]
  BY DEF Show
<1>2. /\ new \in Seq(Checkpoint) /\ Len(new) = Len(list) /\ DOMAIN new = 1..Len(list)
      /\ \A i \in 1..Len(list) :
           /\ new[i].prompt = list[i].prompt
           /\ new[i].tag # NoPrompt
                => /\ i \in 1..Len(old) /\ old[i].prompt = list[i].prompt
                   /\ new[i].tag = old[i].tag
           /\ new[i].undone => i \in 1..Len(old) /\ old[i].prompt = list[i].prompt
  BY RebuiltList
<1> HIDE DEF new
<1>3. /\ messages \in [Tabs -> Seq(Exchanges)] /\ cps \in [Tabs -> Seq(Checkpoint)]
      /\ redo \in [Tabs -> Seq(Entries)]
  BY DEF TypeOK
<1>4. /\ messages' \in [Tabs -> Seq(Exchanges)] /\ messages'[t] = list
      /\ cps' \in [Tabs -> Seq(Checkpoint)] /\ cps'[t] = new
      /\ \A u \in Tabs \ {t} : messages'[u] = messages[u] /\ cps'[u] = cps[u]
  BY <1>1, <1>2, <1>3
<1>5. /\ redo' \in [Tabs -> Seq(Entries)] /\ redo'[t] = (IF appeared THEN <<>> ELSE stack)
      /\ \A u \in Tabs \ {t} : redo'[u] = redo[u]
  <2>1. <<>> \in Seq(Entries)
    BY EmptySeq
  <2> HIDE DEF appeared
  <2> QED
    BY <1>1, <1>3, <2>1
<1>6. \A i \in 1..Len(list) :
        new[i].tag # NoPrompt
          => /\ i \in 1..Len(cps[t]) /\ cps[t][i].prompt = list[i].prompt
             /\ new[i].tag = cps[t][i].tag
  BY <1>2 DEF SameButUndone
<1>7. ASSUME ~appeared PROVE Asked(list) \subseteq Asked(messages[t])
  <2>1. SUFFICES ASSUME NEW p \in Asked(list) PROVE p \in Asked(messages[t])
    OBVIOUS
  <2>2. DOMAIN list = 1..Len(list) /\ DOMAIN old = 1..Len(old)
        /\ messages[t] \in Seq(Exchanges) /\ DOMAIN messages[t] = 1..Len(messages[t])
    BY <1>3, LenProperties
  <2>3. PICK i \in 1..Len(list) : p = list[i].prompt
    BY <2>2 DEF Asked
  <2>4. p \in Asked(old)
    <3>1. CASE new[i].undone
      BY <1>2, <2>2, <2>3, <3>1 DEF Asked
    <3>2. CASE ~new[i].undone
      BY <1>2, <1>7, <2>3, <3>2
    <3> QED
      BY <3>1, <3>2
  <2>5. PICK k \in 1..Len(old) : p = old[k].prompt
    BY <2>2, <2>4 DEF Asked
  <2>6. k \in 1..Len(messages[t]) /\ p = messages[t][k].prompt
    BY <2>5 DEF SameButUndone, Synced
  <2> QED
    BY <2>2, <2>6 DEF Asked
<1>8. redo'[t] = <<>> \/ (redo'[t] = stack /\ Asked(list) \subseteq Asked(messages[t]))
  <2>1. CASE appeared
    <3> HIDE DEF appeared
    <3> QED
      BY <1>5, <2>1
  <2>2. CASE ~appeared
    <3>1. Asked(list) \subseteq Asked(messages[t])
      BY <1>7, <2>2
    <3> HIDE DEF appeared
    <3> QED
      BY <1>5, <2>2, <3>1
  <2> QED
    BY <2>1, <2>2
<1>9. /\ Len(cps'[t]) = Len(list)
      /\ \A i \in 1..Len(list) : cps'[t][i].prompt = list[i].prompt
  BY <1>2, <1>4
<1>10. \A i \in 1..Len(list) :
         cps'[t][i].tag # NoPrompt
           => /\ i \in 1..Len(cps[t]) /\ cps[t][i].prompt = list[i].prompt
              /\ cps'[t][i].tag = cps[t][i].tag
  BY <1>4, <1>6
<1> QED
  BY <1>4, <1>5, <1>8, <1>9, <1>10

LEMMA ShownDone ==
  ASSUME TypeOK, NoneUndone, NEW t \in Tabs,
         NEW list \in Seq(Exchanges), NEW old \in Seq(Checkpoint), NEW stack, Show(t, list, old, stack),
         \A i \in 1..Len(old) : i =< Len(list) => ~old[i].undone
  PROVE  NoneUndone'
<1>1. cps' = [cps EXCEPT ![t] = Rebuilt(list, old)]
  BY DEF Show
<1>2. ASSUME NEW i \in 1..Len(list) PROVE ~Rebuilt(list, old)[i].undone
  <2>1. Len(list) \in Nat
    BY LenProperties
  <2> QED
    BY <2>1, RebuiltList
<1>3. Len(Rebuilt(list, old)) = Len(list)
  BY RebuiltList
<1> QED
  BY <1>1, <1>2, <1>3 DEF NoneUndone, TypeOK

\* It follows what the invariant says of the tabs.
LEMMA ShownWell ==
  ASSUME TypeOK, Synced, TagsFollowPrompts, TagsExist, NothingTwice, Told, NEW t \in Tabs,
         NEW list \in Seq(Exchanges), NEW old \in Seq(Checkpoint), NEW stack \in Seq(Entries),
         SameButUndone(old, cps[t]), Show(t, list, old, stack),
         Distinct(list), Asked(list) \subseteq sent', list # <<>>, sent \subseteq sent',
         Redoable(stack) \subseteq sent',
         Asked(list) \subseteq Asked(messages[t]) => Redoable(stack) \cap Asked(list) = {},
         Known(stack, DOMAIN tags), UNCHANGED tags,
         loading' \in [Tabs -> Prompts \cup {NoPrompt}], \A u \in Tabs \ {t} : loading'[u] = loading[u]
  PROVE  /\ Synced' /\ TagsFollowPrompts' /\ NothingTwice'
         /\ \A u \in Tabs : TabTold(u)'
         /\ \A u \in Tabs : Known(cps[u], DOMAIN tags)' /\ Known(redo[u], DOMAIN tags)'
<1>1. /\ messages' \in [Tabs -> Seq(Exchanges)] /\ messages'[t] = list
      /\ cps' \in [Tabs -> Seq(Checkpoint)]
      /\ redo' \in [Tabs -> Seq(Entries)]
      /\ \A u \in Tabs \ {t} : messages'[u] = messages[u] /\ cps'[u] = cps[u] /\ redo'[u] = redo[u]
      /\ Len(cps'[t]) = Len(list)
      /\ \A i \in 1..Len(list) : cps'[t][i].prompt = list[i].prompt
      /\ \A i \in 1..Len(list) :
           cps'[t][i].tag # NoPrompt
             => /\ i \in 1..Len(cps[t]) /\ cps[t][i].prompt = list[i].prompt
                /\ cps'[t][i].tag = cps[t][i].tag
      /\ redo'[t] = <<>> \/ (redo'[t] = stack /\ Asked(list) \subseteq Asked(messages[t]))
  BY Shown
<1>2. Redoable(<<>>) = {}
  BY DEF Redoable
<1>3. Synced'
  <2> SUFFICES ASSUME NEW u \in Tabs
               PROVE  /\ Len(cps'[u]) = Len(messages'[u])
                      /\ \A i \in 1..Len(messages'[u]) : cps'[u][i].prompt = messages'[u][i].prompt
    BY DEF Synced
  <2>1. CASE u = t
    BY <1>1, <2>1
  <2>2. CASE u # t
    <3>1. messages'[u] = messages[u] /\ cps'[u] = cps[u]
      BY <1>1, <2>2
    <3> QED
      BY <3>1 DEF Synced
  <2> QED
    BY <2>1, <2>2
<1>4. TagsFollowPrompts'
  <2>1. ASSUME NEW u \in Tabs, NEW i \in 1..Len(cps'[u])
        PROVE  cps'[u][i].tag \in {NoPrompt, cps'[u][i].prompt}
    <3>1. DOMAIN cps[u] = 1..Len(cps[u])
      BY LenProperties DEF TypeOK
    <3>2. CASE u = t
      <4>1. \A k \in 1..Len(cps[t]) : cps[t][k].tag \in {NoPrompt, cps[t][k].prompt}
        BY <3>1, <3>2 DEF TagsFollowPrompts
      <4> QED
        BY <1>1, <2>1, <3>2, <4>1
    <3>3. CASE u # t
      BY <1>1, <2>1, <3>1, <3>3 DEF TagsFollowPrompts
    <3> QED
      BY <3>2, <3>3
  <2>2. \A u \in Tabs : DOMAIN cps'[u] = 1..Len(cps'[u])
    BY <1>1, LenProperties
  <2> QED
    BY <2>1, <2>2 DEF TagsFollowPrompts
<1>5. NothingTwice'
  <2>1. Redoable(redo'[t]) \cap Asked(messages'[t]) = {}
    BY <1>1, <1>2
  <2> QED
    BY <1>1, <2>1 DEF NothingTwice
<1>6. ASSUME NEW u \in Tabs PROVE TabTold(u)'
  <2>1. CASE u = t
    BY <1>1, <1>2, <2>1 DEF TabTold
  <2>2. CASE u # t
    <3>1. TabTold(u)
      BY DEF Told
    <3> QED
      BY <1>1, <2>2, <3>1 DEF TabTold
  <2> QED
    BY <2>1, <2>2
<1>7. ASSUME NEW u \in Tabs
      PROVE  Known(cps'[u], DOMAIN tags) /\ Known(redo'[u], DOMAIN tags)
  <2>1. Known(cps[u], DOMAIN tags) /\ Known(redo[u], DOMAIN tags)
    BY DEF TagsExist
  <2>2. CASE u = t
    <3>1. Known(cps'[t], DOMAIN tags)
      BY <1>1, <2>1, <2>2 DEF Known
    <3>2. Known(<<>>, DOMAIN tags)
      BY EmptySeq DEF Known
    <3> QED
      BY <1>1, <2>2, <3>1, <3>2
  <2>3. CASE u # t
    BY <1>1, <2>1, <2>3
  <2> QED
    BY <2>2, <2>3
<1>8. \A u \in Tabs : Known(cps[u], DOMAIN tags)' /\ Known(redo[u], DOMAIN tags)'
  BY <1>7 DEF Known
<1> QED
  BY <1>3, <1>4, <1>5, <1>6, <1>8

----------------------------------------------------------------------------
(* The jobs.                                                               *)

LEMMA Queued ==
  ASSUME jobs \in Seq(Jobs), NEW more \in Seq(Jobs), Queue(more)
  PROVE  /\ jobs' \in Seq(Jobs) /\ Len(jobs') =< MaxJobs
         /\ Len(jobs') = Len(jobs) + Len(more)
         /\ \A j \in 1..Len(jobs') : \/ j \in 1..Len(jobs) /\ jobs'[j] = jobs[j]
                                     \/ \E k \in 1..Len(more) : j = Len(jobs) + k /\ jobs'[j] = more[k]
<1>1. Len(jobs) \in Nat /\ Len(more) \in Nat
  BY LenProperties
<1>2. jobs' = jobs \o more /\ Len(jobs) + Len(more) =< MaxJobs
  BY DEF Queue
<1>3. /\ jobs' \in Seq(Jobs) /\ Len(jobs') = Len(jobs) + Len(more)
      /\ \A j \in 1..Len(jobs) + Len(more) :
           jobs'[j] = IF j <= Len(jobs) THEN jobs[j] ELSE more[j - Len(jobs)]
  BY <1>2, ConcatProperties
<1>4. ASSUME NEW j \in 1..Len(jobs')
      PROVE  \/ j \in 1..Len(jobs) /\ jobs'[j] = jobs[j]
             \/ \E k \in 1..Len(more) : j = Len(jobs) + k /\ jobs'[j] = more[k]
  <2>1. CASE j <= Len(jobs)
    BY <1>1, <1>3, <2>1
  <2>2. CASE ~(j <= Len(jobs))
    <3>1. j - Len(jobs) \in 1..Len(more) /\ j = Len(jobs) + (j - Len(jobs))
      BY <1>1, <1>3, <2>2
    <3> QED
      BY <1>3, <2>2, <3>1
  <2> QED
    BY <2>1, <2>2
<1> QED
  BY <1>2, <1>3, <1>4

LEMMA FirstReleased ==
  ASSUME jobs \in Seq(Jobs), jobs # <<>>, Release(1)
  PROVE  /\ jobs' \in Seq(Jobs) /\ Len(jobs') = Len(jobs) - 1
         /\ \A j \in 1..Len(jobs') : j + 1 \in 2..Len(jobs) /\ jobs'[j] = jobs[j + 1]
<1>1. Len(jobs) \in Nat
  BY LenProperties
<1> QED
  BY <1>1, RemovedFirst DEF Release

LEMMA Staged ==
  ASSUME jobs \in Seq(Jobs), NEW j \in 1..Len(jobs),
         NEW stage \in {"start", "restoring", "committed", "tagged", "refused"}, Stage(j, stage)
  PROVE  /\ jobs' \in Seq(Jobs) /\ Len(jobs') = Len(jobs)
         /\ jobs'[j] = [jobs[j] EXCEPT !.stage = stage]
         /\ \A k \in 1..Len(jobs) \ {j} : jobs'[k] = jobs[k]
<1>1. jobs[j] \in Jobs
  BY ElementOfSeq
<1>2. [jobs[j] EXCEPT !.stage = stage] \in Jobs
  BY <1>1 DEF Jobs
<1>3. jobs' = [jobs EXCEPT ![j] = [jobs[j] EXCEPT !.stage = stage]]
  BY DEF Stage
<1> QED
  BY <1>2, <1>3, ExceptSeq

LEMMA TagJob ==
  ASSUME NEW t \in Tabs, NEW i \in Nat, NEW p \in Prompts
  PROVE  /\ Job("tag", t, i, p) \in Jobs
         /\ Job("tag", t, i, p).kind = "tag" /\ Job("tag", t, i, p).stage = "start"
         /\ \A said, names : JobTold(Job("tag", t, i, p), said) /\ JobKnown(Job("tag", t, i, p), names)
<1> DEFINE job == Job("tag", t, i, p)
<1>1. <<>> \in Seq(Entries) /\ <<>> \in Seq(Exchanges) /\ Len(<<>>) = 0
  BY EmptySeq
<1>2. job \in Jobs /\ job.kind = "tag" /\ job.stage = "start"
      /\ job.keep = <<>> /\ job.entries = <<>> /\ job.ref = "HEAD"
  BY <1>1 DEF Job, Jobs
<1>3. Asked(<<>>) = {} /\ Redoable(<<>>) = {}
  BY DEF Asked, Redoable
<1> HIDE DEF job
<1>4. \A said : JobTold(job, said)
  BY <1>1, <1>2, <1>3 DEF JobTold, Distinct
<1>5. \A names : JobKnown(job, names)
  BY <1>1, <1>2 DEF JobKnown, Known
<1> QED
  BY <1>2, <1>4, <1>5 DEF job

\* The tag a restore reads from exists.
LEMMA RefExists ==
  ASSUME TypeOK, TagsExist, NEW t \in Tabs, NEW n \in 1..Len(cps[t])
  PROVE  RestoreRef(t, n) \in DOMAIN tags \cup {"HEAD"}
<1>1. CASE Tagged(t, n) = {}
  BY <1>1 DEF RestoreRef
<1>2. CASE Tagged(t, n) # {}
  <2>1. Nearest(Tagged(t, n)) \in Tagged(t, n)
    <3>1. Tagged(t, n) \in SUBSET (1..n) /\ n \in Nat
      BY DEF Tagged
    <3> QED
      BY <1>2, <3>1, HasNearest
  <2>2. PICK i \in 1..n : i = Nearest(Tagged(t, n)) /\ cps[t][i].tag # NoPrompt
    BY <2>1 DEF Tagged
  <2>3. i \in 1..Len(cps[t])
    BY LenProperties DEF TypeOK
  <2>4. cps[t][i].tag \in DOMAIN tags
    BY <2>2, <2>3 DEF TagsExist, Known
  <2> QED
    BY <1>2, <2>2, <2>4 DEF RestoreRef
<1> QED
  BY <1>1, <1>2

LEMMA UndoJobWell ==
  ASSUME CheckpointsAssumption, TypeOK, Synced, Told, TagsExist,
         NEW t \in Tabs, NEW n \in DOMAIN cps[t], NEW order \in InOrder(Undoing(t, n))
  PROVE  /\ UndoJob(t, n, order) \in Jobs
         /\ UndoJob(t, n, order).kind = "undo" /\ UndoJob(t, n, order).tab = t
         /\ UndoJob(t, n, order).stage = "start"
         /\ JobTold(UndoJob(t, n, order), sent)
         /\ JobKnown(UndoJob(t, n, order), DOMAIN tags)
<1> DEFINE job == UndoJob(t, n, order)
           files == UNION {cps[t][i].files : i \in Undoing(t, n)}
           entries == [k \in DOMAIN order |-> Entry(t, order[k])]
           begun == SubSeq(messages[t], 1, n - 1)
           ask == Prompt(cps[t][n].prompt)
           keep == Append(begun, ask)
<1>1. /\ cps[t] \in Seq(Checkpoint) /\ DOMAIN cps[t] = 1..Len(cps[t]) /\ Len(cps[t]) \in Nat
      /\ messages[t] \in Seq(Exchanges) /\ DOMAIN messages[t] = 1..Len(messages[t])
      /\ Len(messages[t]) = Len(cps[t])
      /\ \A i \in 1..Len(cps[t]) : cps[t][i].prompt = messages[t][i].prompt
  BY LenProperties DEF TypeOK, Synced
<1>2. n \in 1..Len(cps[t]) /\ n \in Nat
  BY <1>1
<1>3. \A i \in 1..Len(cps[t]) : cps[t][i] \in Checkpoint /\ messages[t][i] \in Exchanges
  BY <1>1, ElementOfSeq
<1>4. Undoing(t, n) \in SUBSET (1..Len(cps[t])) /\ \A i \in Undoing(t, n) : i > n
  BY <1>1, <1>2 DEF Undoing
<1>5. /\ Len(order) \in Nat /\ DOMAIN order = 1..Len(order)
      /\ \A k \in 1..Len(order) : order[k] \in Undoing(t, n)
  BY <1>1, <1>4, Ordered
<1>6. files \in SUBSET Files
  BY <1>3, <1>4 DEF Checkpoint
<1>7. ASSUME NEW i \in 1..Len(cps[t])
      PROVE  /\ Entry(t, i) \in Entries
             /\ Entry(t, i).dropped.prompt = messages[t][i].prompt
             /\ Entry(t, i).tag = cps[t][i].tag
  BY <1>1, <1>3 DEF Entry, Entries, Checkpoint
<1>8. /\ entries \in Seq(Entries) /\ Len(entries) = Len(order) /\ DOMAIN entries = 1..Len(order)
      /\ \A k \in 1..Len(order) : entries[k] = Entry(t, order[k])
  <2>1. entries \in [1..Len(order) -> Entries]
    BY <1>4, <1>5, <1>7
  <2> QED
    BY <1>5, <2>1, FunctionIsSeq
<1>9. /\ begun \in Seq(Exchanges) /\ Len(begun) = n - 1
      /\ \A i \in 1..n - 1 : begun[i] = messages[t][i]
  <2>1. \A i \in 1..n - 1 : messages[t][i] \in Exchanges
    BY <1>2, <1>3
  <2> QED
    BY <1>2, <2>1, SubSeqProperties
<1>10. ask \in Exchanges /\ ask.prompt = messages[t][n].prompt
  BY <1>1, <1>2, <1>3 DEF Prompt, Exchanges, Checkpoint
<1>11. /\ keep \in Seq(Exchanges) /\ keep # <<>> /\ Len(keep) = n /\ DOMAIN keep = 1..n
       /\ \A i \in 1..n : keep[i].prompt = messages[t][i].prompt
  <2> HIDE DEF begun, ask
  <2>1. /\ keep \in Seq(Exchanges) /\ keep # <<>> /\ Len(keep) = Len(begun) + 1
        /\ \A i \in 1..Len(begun) : keep[i] = begun[i]
        /\ keep[Len(begun) + 1] = ask
    BY <1>9, <1>10, AppendProperties
  <2>2. Len(keep) = n /\ DOMAIN keep = 1..n
    BY <1>2, <1>9, <2>1, LenProperties
  <2> HIDE DEF keep
  <2>3. ASSUME NEW i \in 1..n PROVE keep[i].prompt = messages[t][i].prompt
    <3>1. CASE i = n
      BY <1>2, <1>9, <1>10, <2>1, <3>1
    <3>2. CASE i # n
      BY <1>2, <1>9, <2>1, <3>2
    <3> QED
      BY <3>1, <3>2
  <2> QED
    BY <2>1, <2>2, <2>3
<1>12. RestoreRef(t, n) \in DOMAIN tags \cup {"HEAD"} /\ RestoreRef(t, n) \in Prompts \cup {"HEAD"}
  BY <1>2, RefExists DEF TypeOK
<1>13. /\ job.kind = "undo" /\ job.tab = t /\ job.index = n
       /\ job.prompt = cps[t][n].prompt /\ job.stage = "start"
       /\ job.ref = RestoreRef(t, n) /\ job.files = files /\ job.entries = entries /\ job.keep = keep
       /\ job = [kind |-> "undo", tab |-> t, index |-> n, prompt |-> cps[t][n].prompt,
                 stage |-> "start", ref |-> RestoreRef(t, n), files |-> files,
                 entries |-> entries, keep |-> keep]
  <2>1. job = [Job("undo", t, n, cps[t][n].prompt) EXCEPT
                 !.ref = RestoreRef(t, n), !.files = files, !.entries = entries, !.keep = keep]
    BY DEF UndoJob
  <2> HIDE DEF files, entries, keep, job
  <2> QED
    BY <2>1 DEF Job
<1> HIDE DEF files, entries, keep, job
<1>14. job \in Jobs
  BY <1>2, <1>3, <1>6, <1>8, <1>11, <1>12, <1>13 DEF Jobs, Checkpoint
<1>15. JobTold(job, sent)
  <2>1. Distinct(messages[t]) /\ Asked(messages[t]) \subseteq sent
    BY DEF Told, TabTold
  <2>5. \A i, k \in 1..Len(cps[t]) : messages[t][i].prompt = messages[t][k].prompt => i = k
    BY <1>1, <2>1 DEF Distinct
  <2>6. \A i \in 1..n : i \in 1..Len(cps[t])
    BY <1>1, <1>2
  <2>2. Distinct(keep)
    BY <1>11, <2>5, <2>6 DEF Distinct
  <2>3. Asked(keep) = {messages[t][i].prompt : i \in 1..n} /\ Asked(keep) \subseteq sent
    <3>1. Asked(keep) = {messages[t][i].prompt : i \in 1..n}
      BY <1>11 DEF Asked
    <3>2. \A i \in 1..n : messages[t][i].prompt \in Asked(messages[t])
      BY <1>1, <2>6 DEF Asked
    <3> QED
      BY <2>1, <3>1, <3>2
  <2>4. ASSUME NEW p \in Redoable(entries) PROVE p \in sent /\ p \notin Asked(keep)
    <3>1. PICK k \in 1..Len(order) : p = entries[k].dropped.prompt
      BY <1>8 DEF Redoable
    <3>2. order[k] \in 1..Len(cps[t]) /\ order[k] > n /\ p = messages[t][order[k]].prompt
      BY <1>4, <1>5, <1>7, <1>8, <3>1
    <3>3. p \in sent
      BY <1>1, <2>1, <3>2 DEF Asked
    <3>4. p \notin Asked(keep)
      BY <1>1, <1>2, <2>3, <2>5, <2>6, <3>2
    <3> QED
      BY <3>3, <3>4
  <2> QED
    BY <1>11, <1>13, <2>2, <2>3, <2>4 DEF JobTold
<1>16. JobKnown(job, DOMAIN tags)
  <2>1. Known(cps[t], DOMAIN tags)
    BY DEF TagsExist
  <2>2. Known(entries, DOMAIN tags)
    BY <1>4, <1>5, <1>7, <1>8, <2>1 DEF Known
  <2> QED
    BY <1>12, <1>13, <2>2 DEF JobKnown
<1> QED
  BY <1>13, <1>14, <1>15, <1>16 DEF job

LEMMA RedoJobWell ==
  ASSUME CheckpointsAssumption, TypeOK, Told, TagsExist, NothingTwice,
         NEW t \in Tabs, redo[t] # <<>>
  PROVE  /\ RedoJob(t) \in Jobs
         /\ RedoJob(t).kind = "redo" /\ RedoJob(t).tab = t /\ RedoJob(t).stage = "start"
         /\ JobTold(RedoJob(t), sent)
         /\ JobKnown(RedoJob(t), DOMAIN tags)
<1> DEFINE job == RedoJob(t)
           entry == Head(redo[t])
           ref == IF entry.tag = NoPrompt THEN "HEAD" ELSE entry.tag
           files == IF entry.tag = NoPrompt THEN {} ELSE entry.files
           keep == Append(messages[t], entry.dropped)
<1>1. /\ redo[t] \in Seq(Entries) /\ DOMAIN redo[t] = 1..Len(redo[t]) /\ 1 \in 1..Len(redo[t])
      /\ entry = redo[t][1]
      /\ messages[t] \in Seq(Exchanges) /\ DOMAIN messages[t] = 1..Len(messages[t])
      /\ Len(messages[t]) \in Nat
  BY LenProperties, EmptySeq DEF TypeOK
<1>2. entry \in Entries
  BY <1>1, ElementOfSeq
<1>3. /\ entry.dropped \in Exchanges /\ entry.dropped.prompt \in Prompts /\ entry.index \in Nat
      /\ entry.files \in SUBSET Files /\ entry.tag \in Prompts \cup {NoPrompt}
  BY <1>2 DEF Entries, Exchanges
<1>4. entry.tag \in DOMAIN tags \cup {NoPrompt}
  BY <1>1 DEF TagsExist, Known
<1>5. entry.dropped.prompt \in Redoable(redo[t])
  BY <1>1 DEF Redoable
<1> HIDE DEF entry
<1>6. ref \in DOMAIN tags \cup {"HEAD"} /\ ref \in Prompts \cup {"HEAD"} /\ files \in SUBSET Files
  BY <1>3, <1>4
<1>7. /\ keep \in Seq(Exchanges) /\ keep # <<>>
      /\ Len(keep) = Len(messages[t]) + 1 /\ DOMAIN keep = 1..Len(messages[t]) + 1
      /\ \A i \in 1..Len(messages[t]) : keep[i] = messages[t][i]
      /\ keep[Len(messages[t]) + 1] = entry.dropped
  BY <1>1, <1>3, AppendProperties, LenProperties
<1>8. /\ job.kind = "redo" /\ job.tab = t /\ job.index = entry.index
      /\ job.prompt = entry.dropped.prompt /\ job.stage = "start"
      /\ job.ref = ref /\ job.files = files /\ job.entries = <<>> /\ job.keep = keep
      /\ job = [kind |-> "redo", tab |-> t, index |-> entry.index, prompt |-> entry.dropped.prompt,
                stage |-> "start", ref |-> ref, files |-> files,
                entries |-> <<>>, keep |-> keep]
  <2>1. job = [Job("redo", t, entry.index, entry.dropped.prompt) EXCEPT
                 !.ref = ref, !.files = files, !.keep = keep]
    BY DEF RedoJob, entry
  <2> HIDE DEF ref, files, keep, job
  <2> QED
    BY <2>1 DEF Job
<1> HIDE DEF ref, files, keep, job
<1>9. <<>> \in Seq(Entries) /\ Redoable(<<>>) = {} /\ Len(<<>>) = 0
  BY EmptySeq DEF Redoable
<1>10. job \in Jobs
  BY <1>3, <1>6, <1>7, <1>8, <1>9 DEF Jobs
<1>11. JobTold(job, sent)
  <2>1. /\ Distinct(messages[t]) /\ Asked(messages[t]) \subseteq sent
        /\ entry.dropped.prompt \in sent /\ entry.dropped.prompt \notin Asked(messages[t])
    BY <1>5 DEF Told, TabTold, NothingTwice
  <2>2. \A i \in 1..Len(messages[t]) :
          keep[i].prompt \in Asked(messages[t]) /\ keep[i].prompt # entry.dropped.prompt
    BY <1>1, <1>7, <2>1 DEF Asked
  <2>3. Asked(keep) \subseteq sent
    <3>1. \A i \in 1..Len(messages[t]) + 1 : keep[i].prompt \in sent
      BY <1>1, <1>7, <2>1, <2>2
    <3> QED
      BY <1>7, <3>1 DEF Asked
  <2>4. Distinct(keep)
    <3> SUFFICES ASSUME NEW i \in 1..Len(messages[t]) + 1, NEW k \in 1..Len(messages[t]) + 1,
                        keep[i].prompt = keep[k].prompt
                 PROVE  i = k
      BY <1>7 DEF Distinct
    <3>1. CASE i \in 1..Len(messages[t]) /\ k \in 1..Len(messages[t])
      BY <1>7, <2>1, <3>1 DEF Distinct
    <3>2. CASE i = Len(messages[t]) + 1 \/ k = Len(messages[t]) + 1
      BY <1>1, <1>7, <2>2, <3>2
    <3> QED
      BY <1>1, <3>1, <3>2
  <2> QED
    BY <1>7, <1>8, <1>9, <2>3, <2>4 DEF JobTold
<1>12. JobKnown(job, DOMAIN tags)
  BY <1>6, <1>8, <1>9 DEF JobKnown, Known
<1> QED
  BY <1>8, <1>10, <1>11, <1>12 DEF job

\* What a step that shows a tab's messages keeps.
ShownInv ==
    /\ messages \in [Tabs -> Seq(Exchanges)] /\ cps \in [Tabs -> Seq(Checkpoint)]
    /\ redo \in [Tabs -> Seq(Entries)]
    /\ Synced /\ TagsFollowPrompts /\ NothingTwice /\ NoneUndone
    /\ \A u \in Tabs : TabTold(u)
    /\ \A u \in Tabs : Known(cps[u], DOMAIN tags) /\ Known(redo[u], DOMAIN tags)

LEMMA UndoneWell ==
  ASSUME TypeOK, Synced, TagsFollowPrompts, TagsExist, NothingTwice, Told, NoneUndone,
         NEW job \in Jobs, job.kind = "undo", JobTold(job, sent), JobKnown(job, DOMAIN tags),
         Undone(job), UNCHANGED <<tags, loading, sent>>
  PROVE  ShownInv'
<1> DEFINE t == job.tab
           marked == [k \in DOMAIN cps[t] |->
                        IF k > job.index THEN [cps[t][k] EXCEPT !.undone = TRUE] ELSE cps[t][k]]
<1>1. t \in Tabs /\ job.keep \in Seq(Exchanges) /\ job.entries \in Seq(Entries)
  BY DEF Jobs
<1>2. cps[t] \in Seq(Checkpoint) /\ redo[t] \in Seq(Entries)
  BY <1>1 DEF TypeOK
<1>3. marked \in Seq(Checkpoint) /\ SameButUndone(marked, cps[t])
  <2>1. \A k \in DOMAIN cps[t] : \/ marked[k] = cps[t][k]
                                 \/ \E b \in BOOLEAN : marked[k] = [cps[t][k] EXCEPT !.undone = b]
    OBVIOUS
  <2>2. DOMAIN marked = DOMAIN cps[t] /\ marked = [k \in DOMAIN cps[t] |-> marked[k]]
    OBVIOUS
  <2> HIDE DEF marked
  <2> QED
    BY <1>2, <2>1, <2>2, Marked
<1>16. \A i \in 1..Len(marked) : i =< Len(job.keep) => ~marked[i].undone
  <2>1. Len(job.keep) = job.index /\ job.index \in Nat
    BY DEF JobTold, Jobs
  <2>2. Len(marked) = Len(cps[t]) /\ DOMAIN cps[t] = 1..Len(cps[t])
    BY <1>2, <1>3, LenProperties DEF SameButUndone
  <2> SUFFICES ASSUME NEW i \in 1..Len(cps[t]), i =< job.index
               PROVE  ~marked[i].undone
    BY <2>1, <2>2
  <2>3. marked[i] = cps[t][i]
    BY <2>1, <2>2
  <2>4. ~cps[t][i].undone
    BY <1>1 DEF NoneUndone
  <2> QED
    BY <2>3, <2>4
<1> DEFINE stack == Sorted(redo[t] \o job.entries)
<1>4. Show(t, job.keep, marked, stack)
  BY DEF Undone
<1> HIDE DEF marked, stack
<1>5. redo[t] \o job.entries \in Seq(Entries)
  BY <1>1, <1>2, ConcatProperties
<1>6. /\ stack \in Seq(Entries) /\ Redoable(stack) \subseteq Redoable(redo[t] \o job.entries)
      /\ \A i \in 1..Len(stack) :
           \E k \in 1..Len(redo[t] \o job.entries) : stack[i] = (redo[t] \o job.entries)[k]
  BY <1>5, SortedList DEF stack
<1>7. ASSUME NEW k \in 1..Len(redo[t] \o job.entries)
      PROVE  \/ \E i \in 1..Len(redo[t]) : (redo[t] \o job.entries)[k] = redo[t][i]
             \/ \E i \in 1..Len(job.entries) : (redo[t] \o job.entries)[k] = job.entries[i]
  <2> DEFINE stacked == redo[t]
             dropped == job.entries
  <2>1. stacked \in Seq(Entries) /\ dropped \in Seq(Entries) /\ k \in 1..Len(stacked \o dropped)
    BY <1>1, <1>2
  <2> HIDE DEF stacked, dropped
  <2>2. \/ \E i \in 1..Len(stacked) : (stacked \o dropped)[k] = stacked[i]
        \/ \E i \in 1..Len(dropped) : (stacked \o dropped)[k] = dropped[i]
    BY <2>1, ConcatElement
  <2> QED
    BY <2>2 DEF stacked, dropped
<1>8. Redoable(stack) \subseteq Redoable(redo[t]) \cup Redoable(job.entries)
  <2>1. DOMAIN (redo[t] \o job.entries) = 1..Len(redo[t] \o job.entries)
        /\ DOMAIN redo[t] = 1..Len(redo[t]) /\ DOMAIN job.entries = 1..Len(job.entries)
    BY <1>1, <1>2, <1>5, LenProperties
  <2>2. Redoable(redo[t] \o job.entries) \subseteq Redoable(redo[t]) \cup Redoable(job.entries)
    <3>1. ASSUME NEW p \in Redoable(redo[t] \o job.entries)
          PROVE  p \in Redoable(redo[t]) \/ p \in Redoable(job.entries)
      <4>1. PICK k \in 1..Len(redo[t] \o job.entries) : p = (redo[t] \o job.entries)[k].dropped.prompt
        BY <2>1 DEF Redoable
      <4>2. CASE \E i \in 1..Len(redo[t]) : (redo[t] \o job.entries)[k] = redo[t][i]
        BY <2>1, <4>1, <4>2 DEF Redoable
      <4>3. CASE \E i \in 1..Len(job.entries) : (redo[t] \o job.entries)[k] = job.entries[i]
        BY <2>1, <4>1, <4>3 DEF Redoable
      <4> QED
        BY <1>7, <4>2, <4>3
    <3> QED
      BY <3>1
  <2> QED
    BY <1>6, <2>2
<1>9. Known(stack, DOMAIN tags)
  <2>1. Known(redo[t], DOMAIN tags) /\ Known(job.entries, DOMAIN tags)
    BY <1>1 DEF TagsExist, JobKnown
  <2> QED
    <3> SUFFICES ASSUME NEW i \in 1..Len(stack)
                 PROVE  stack[i].tag \in DOMAIN tags \cup {NoPrompt}
      BY DEF Known
    <3>1. PICK k \in 1..Len(redo[t] \o job.entries) : stack[i] = (redo[t] \o job.entries)[k]
      BY <1>6
    <3>2. \/ \E n \in 1..Len(redo[t]) : stack[i] = redo[t][n]
          \/ \E n \in 1..Len(job.entries) : stack[i] = job.entries[n]
      BY <1>7, <3>1
    <3> QED
      BY <2>1, <3>2 DEF Known
<1>10. Redoable(stack) \subseteq sent
  BY <1>1, <1>8 DEF Told, TabTold, JobTold
<1>11. ASSUME Asked(job.keep) \subseteq Asked(messages[t])
       PROVE  Redoable(stack) \cap Asked(job.keep) = {}
  BY <1>1, <1>8, <1>11 DEF NothingTwice, JobTold
<1>12. Distinct(job.keep) /\ Asked(job.keep) \subseteq sent /\ job.keep # <<>>
  BY DEF JobTold
<1>13. loading \in [Tabs -> Prompts \cup {NoPrompt}]
  BY DEF TypeOK
<1> HIDE DEF t
<1>14. /\ messages' \in [Tabs -> Seq(Exchanges)] /\ cps' \in [Tabs -> Seq(Checkpoint)]
       /\ redo' \in [Tabs -> Seq(Entries)]
  BY <1>1, <1>3, <1>4, <1>6, Shown
<1>15. /\ Synced' /\ TagsFollowPrompts' /\ NothingTwice'
       /\ \A u \in Tabs : TabTold(u)'
       /\ \A u \in Tabs : Known(cps[u], DOMAIN tags)' /\ Known(redo[u], DOMAIN tags)'
  BY <1>1, <1>3, <1>4, <1>6, <1>9, <1>10, <1>11, <1>12, <1>13, ShownWell
<1>17. NoneUndone'
  BY <1>1, <1>3, <1>4, <1>16, ShownDone
<1> QED
  BY <1>14, <1>15, <1>17 DEF ShownInv

LEMMA RedoneWell ==
  ASSUME TypeOK, Synced, TagsFollowPrompts, TagsExist, NothingTwice, Told, NoneUndone,
         NEW job \in Jobs, job.kind # "tag", JobTold(job, sent), JobKnown(job, DOMAIN tags),
         Redone(job), UNCHANGED <<tags, loading, sent>>
  PROVE  ShownInv'
<1> DEFINE t == job.tab
           marked == [k \in DOMAIN cps[t] |->
                        IF cps[t][k].prompt = job.prompt THEN [cps[t][k] EXCEPT !.undone = FALSE]
                        ELSE cps[t][k]]
           stack == IF redo[t] = <<>> THEN <<>> ELSE Tail(redo[t])
<1>1. t \in Tabs /\ job.keep \in Seq(Exchanges)
  BY DEF Jobs
<1>2. cps[t] \in Seq(Checkpoint) /\ redo[t] \in Seq(Entries)
  BY <1>1 DEF TypeOK
<1>3. marked \in Seq(Checkpoint) /\ SameButUndone(marked, cps[t])
  <2>1. \A k \in DOMAIN cps[t] : \/ marked[k] = cps[t][k]
                                 \/ \E b \in BOOLEAN : marked[k] = [cps[t][k] EXCEPT !.undone = b]
    OBVIOUS
  <2>2. DOMAIN marked = DOMAIN cps[t] /\ marked = [k \in DOMAIN cps[t] |-> marked[k]]
    OBVIOUS
  <2> HIDE DEF marked
  <2> QED
    BY <1>2, <2>1, <2>2, Marked
<1>15. \A i \in 1..Len(marked) : ~marked[i].undone
  <2>1. Len(marked) = Len(cps[t]) /\ DOMAIN cps[t] = 1..Len(cps[t])
    BY <1>2, <1>3, LenProperties DEF SameButUndone
  <2> SUFFICES ASSUME NEW i \in 1..Len(cps[t])
               PROVE  ~marked[i].undone
    BY <2>1
  <2>2. ~cps[t][i].undone /\ cps[t][i] \in Checkpoint
    BY <1>1, <1>2, ElementOfSeq DEF NoneUndone
  <2>3. CASE cps[t][i].prompt = job.prompt
    <3>1. marked[i] = [cps[t][i] EXCEPT !.undone = FALSE]
      BY <2>1, <2>3
    <3> HIDE DEF marked
    <3> QED
      BY <2>2, <3>1 DEF Checkpoint
  <2>4. CASE cps[t][i].prompt # job.prompt
    <3>1. marked[i] = cps[t][i]
      BY <2>1, <2>4
    <3> QED
      BY <2>2, <3>1
  <2> QED
    BY <2>3, <2>4
<1>4. Show(t, job.keep, marked, stack)
  BY DEF Redone
<1> HIDE DEF marked
<1>5. /\ stack \in Seq(Entries) /\ DOMAIN stack = 1..Len(stack)
      /\ \A i \in 1..Len(stack) : \E k \in 1..Len(redo[t]) : stack[i] = redo[t][k]
  <2>1. CASE redo[t] = <<>>
    BY <2>1, EmptySeq
  <2>2. CASE redo[t] # <<>>
    <3>1. /\ stack = Tail(redo[t]) /\ Tail(redo[t]) \in Seq(Entries)
          /\ Len(Tail(redo[t])) = Len(redo[t]) - 1 /\ Len(redo[t]) \in Nat
          /\ \A i \in 1..Len(Tail(redo[t])) : Tail(redo[t])[i] = redo[t][i + 1]
      BY <1>2, <2>2, HeadTailProperties, LenProperties
    <3>2. \A i \in 1..Len(stack) : i + 1 \in 1..Len(redo[t]) /\ stack[i] = redo[t][i + 1]
      BY <3>1
    <3> HIDE DEF stack
    <3> QED
      BY <3>1, <3>2, LenProperties
  <2> QED
    BY <2>1, <2>2
<1> HIDE DEF stack
<1>6. DOMAIN redo[t] = 1..Len(redo[t])
  BY <1>2, LenProperties
<1>7. Redoable(stack) \subseteq Redoable(redo[t])
  BY <1>5, <1>6 DEF Redoable
<1>8. Known(stack, DOMAIN tags)
  <2>1. Known(redo[t], DOMAIN tags)
    BY <1>1 DEF TagsExist
  <2> QED
    BY <1>5, <2>1 DEF Known
<1>9. Redoable(stack) \subseteq sent
  BY <1>1, <1>7 DEF Told, TabTold
<1>10. ASSUME Asked(job.keep) \subseteq Asked(messages[t])
       PROVE  Redoable(stack) \cap Asked(job.keep) = {}
  BY <1>1, <1>7, <1>10 DEF NothingTwice
<1>11. Distinct(job.keep) /\ Asked(job.keep) \subseteq sent /\ job.keep # <<>>
  BY DEF JobTold
<1>12. loading \in [Tabs -> Prompts \cup {NoPrompt}]
  BY DEF TypeOK
<1> HIDE DEF t
<1>13. /\ messages' \in [Tabs -> Seq(Exchanges)] /\ cps' \in [Tabs -> Seq(Checkpoint)]
       /\ redo' \in [Tabs -> Seq(Entries)]
  BY <1>1, <1>3, <1>4, <1>5, Shown
<1>14. /\ Synced' /\ TagsFollowPrompts' /\ NothingTwice'
       /\ \A u \in Tabs : TabTold(u)'
       /\ \A u \in Tabs : Known(cps[u], DOMAIN tags)' /\ Known(redo[u], DOMAIN tags)'
  BY <1>1, <1>3, <1>4, <1>5, <1>8, <1>9, <1>10, <1>11, <1>12, ShownWell
<1>16. NoneUndone'
  BY <1>1, <1>3, <1>4, <1>15, ShownDone
<1> QED
  BY <1>13, <1>14, <1>16 DEF ShownInv

----------------------------------------------------------------------------
(* The steps.                                                              *)

\* What is said of the jobs.
JobsInv ==
    /\ jobs \in Seq(Jobs) /\ Len(jobs) =< MaxJobs
    /\ \A j \in 1..Len(jobs) : JobTold(jobs[j], sent) /\ JobKnown(jobs[j], DOMAIN tags)
    /\ OneAtATime

\* The types of the rest.
RestOK ==
    /\ isRepo \in BOOLEAN
    /\ {base, head, tree} \subseteq Trees
    /\ DOMAIN tags \subseteq Prompts /\ \A p \in DOMAIN tags : tags[p] \in Trees
    /\ loading \in [Tabs -> Prompts \cup {NoPrompt}]
    /\ sent \subseteq Prompts
    /\ edited \in [Tabs -> SUBSET Files]

LEMMA Together == ASSUME RestOK', ShownInv', JobsInv' PROVE IInv'
BY DEF RestOK, ShownInv, JobsInv, IInv, TypeOK, Told, TagsExist

LEMMA Apart == ASSUME IInv PROVE RestOK /\ ShownInv /\ JobsInv
BY DEF RestOK, ShownInv, JobsInv, IInv, TypeOK, Told, TagsExist

LEMMA ShownSame ==
  ASSUME ShownInv, UNCHANGED <<messages, cps, redo, loading, sent>>, DOMAIN tags \subseteq DOMAIN tags'
  PROVE  ShownInv'
<1>1. \A u \in Tabs : TabTold(u)'
  BY DEF ShownInv, TabTold
<1>2. \A u \in Tabs : Known(cps[u], DOMAIN tags)' /\ Known(redo[u], DOMAIN tags)'
  BY DEF ShownInv, Known
<1> QED
  BY <1>1, <1>2 DEF ShownInv, Synced, TagsFollowPrompts, NothingTwice, NoneUndone

LEMMA JobStays ==
  ASSUME NEW job, NEW said, NEW names, NEW more, NEW others, said \subseteq more, names \subseteq others,
         JobTold(job, said), JobKnown(job, names)
  PROVE  JobTold(job, more) /\ JobKnown(job, others)
BY DEF JobTold, JobKnown, Known

LEMMA JobsSame ==
  ASSUME JobsInv, UNCHANGED <<jobs, head, base>>, sent \subseteq sent', DOMAIN tags \subseteq DOMAIN tags'
  PROVE  JobsInv'
<1>1. \A j \in 1..Len(jobs) : JobTold(jobs[j], sent') /\ JobKnown(jobs[j], DOMAIN tags')
  BY JobStays DEF JobsInv
<1>2. \A j \in 1..Len(jobs') : JobTold(jobs[j], sent)' /\ JobKnown(jobs[j], DOMAIN tags)'
  BY <1>1 DEF JobTold, JobKnown
<1> QED
  BY <1>2 DEF JobsInv, OneAtATime

LEMMA QueueWell ==
  ASSUME JobsInv, NEW more \in Seq(Jobs), Queue(more),
         \A k \in 1..Len(more) : /\ more[k].stage = "start"
                                 /\ JobTold(more[k], sent) /\ JobKnown(more[k], DOMAIN tags),
         UNCHANGED <<sent, tags, head, base>>
  PROVE  JobsInv'
<1>1. /\ jobs' \in Seq(Jobs) /\ Len(jobs') =< MaxJobs
      /\ Len(jobs') = Len(jobs) + Len(more)
      /\ \A j \in 1..Len(jobs') : \/ j \in 1..Len(jobs) /\ jobs'[j] = jobs[j]
                                  \/ \E k \in 1..Len(more) : j = Len(jobs) + k /\ jobs'[j] = more[k]
  BY Queued DEF JobsInv
<1>2. Len(jobs) \in Nat /\ Len(more) \in Nat
  BY LenProperties DEF JobsInv
<1>3. ASSUME NEW j \in 1..Len(jobs')
      PROVE  JobTold(jobs'[j], sent) /\ JobKnown(jobs'[j], DOMAIN tags)
  BY <1>1 DEF JobsInv
<1>4. \A j \in 1..Len(jobs') : JobTold(jobs[j], sent)' /\ JobKnown(jobs[j], DOMAIN tags)'
  BY <1>3 DEF JobTold, JobKnown
<1>5. ASSUME NEW j \in 1..Len(jobs')
      PROVE  /\ j > 1 => jobs'[j].stage = "start"
             /\ jobs'[j].kind = "tag" => jobs'[j].stage \in {"start"} \cup Tagging
             /\ jobs'[j].kind # "tag" => jobs'[j].stage \in {"start", "restoring"}
  BY <1>1 DEF JobsInv, OneAtATime
<1>6. ASSUME head' # base' PROVE jobs' # <<>> /\ jobs'[1].stage \in Tagging
  <2>1. jobs # <<>> /\ jobs[1].stage \in Tagging
    BY <1>6 DEF JobsInv, OneAtATime
  <2>2. 1 \in 1..Len(jobs) /\ 1 \in 1..Len(jobs')
    BY <1>1, <1>2, <2>1, EmptySeq DEF JobsInv
  <2>3. jobs'[1] = jobs[1]
    BY <1>1, <1>2, <2>2
  <2> QED
    BY <2>1, <2>2, <2>3, EmptySeq
<1> QED
  BY <1>1, <1>4, <1>5, <1>6 DEF JobsInv, OneAtATime

LEMMA ReleaseWell ==
  ASSUME JobsInv, jobs # <<>>, Release(1), head' = base', UNCHANGED <<sent, tags>>
  PROVE  JobsInv'
<1>1. /\ jobs' \in Seq(Jobs) /\ Len(jobs') = Len(jobs) - 1
      /\ \A j \in 1..Len(jobs') : j + 1 \in 2..Len(jobs) /\ jobs'[j] = jobs[j + 1]
  BY FirstReleased DEF JobsInv
<1>2. Len(jobs) \in Nat
  BY LenProperties DEF JobsInv
<1>3. Len(jobs') =< MaxJobs
  BY <1>1, <1>2, CheckpointsAssumption DEF JobsInv
<1>4. ASSUME NEW j \in 1..Len(jobs')
      PROVE  /\ JobTold(jobs'[j], sent) /\ JobKnown(jobs'[j], DOMAIN tags)
             /\ jobs'[j].stage = "start"
  <2>1. j + 1 \in 1..Len(jobs) /\ j + 1 > 1 /\ jobs'[j] = jobs[j + 1]
    BY <1>1, <1>2
  <2> QED
    BY <2>1 DEF JobsInv, OneAtATime
<1>5. \A j \in 1..Len(jobs') : JobTold(jobs[j], sent)' /\ JobKnown(jobs[j], DOMAIN tags)'
  BY <1>4 DEF JobTold, JobKnown
<1>6. OneAtATime'
  BY <1>4 DEF OneAtATime
<1> QED
  BY <1>1, <1>3, <1>5, <1>6 DEF JobsInv

\* The first job goes from one stage to the next.
LEMMA StageWell ==
  ASSUME JobsInv, jobs # <<>>,
         NEW stage \in {"start", "restoring", "committed", "tagged", "refused"}, Stage(1, stage),
         jobs[1].kind = "tag", stage \in Tagging, UNCHANGED <<sent, base>>,
         DOMAIN tags \subseteq DOMAIN tags', stage = "tagged" => jobs[1].prompt \in DOMAIN tags'
  PROVE  JobsInv'
<1>1. jobs \in Seq(Jobs) /\ Len(jobs) \in Nat /\ 1 \in 1..Len(jobs)
  BY LenProperties, EmptySeq DEF JobsInv
<1>2. /\ jobs' \in Seq(Jobs) /\ Len(jobs') = Len(jobs)
      /\ jobs'[1] = [jobs[1] EXCEPT !.stage = stage]
      /\ \A k \in 1..Len(jobs) \ {1} : jobs'[k] = jobs[k]
  BY <1>1, Staged
<1>3. jobs[1] \in Jobs
  BY <1>1, ElementOfSeq
<1>4. /\ jobs'[1].stage = stage /\ jobs'[1].kind = "tag" /\ jobs'[1].prompt = jobs[1].prompt
      /\ jobs'[1].ref = jobs[1].ref /\ jobs'[1].entries = jobs[1].entries
      /\ jobs'[1].keep = jobs[1].keep /\ jobs'[1].index = jobs[1].index
  BY <1>2, <1>3 DEF Jobs
<1>5. JobTold(jobs'[1], sent) /\ JobKnown(jobs'[1], DOMAIN tags')
  <2>1. JobTold(jobs[1], sent) /\ JobKnown(jobs[1], DOMAIN tags')
    BY <1>1, JobStays DEF JobsInv
  <2> QED
    BY <1>4, <2>1 DEF JobTold, JobKnown
<1>6. ASSUME NEW j \in 1..Len(jobs)
      PROVE  JobTold(jobs'[j], sent) /\ JobKnown(jobs'[j], DOMAIN tags')
  <2>1. CASE j = 1
    BY <1>5, <2>1
  <2>2. CASE j # 1
    BY <1>2, <2>2, JobStays DEF JobsInv
  <2> QED
    BY <2>1, <2>2
<1>7. \A j \in 1..Len(jobs') : JobTold(jobs[j], sent)' /\ JobKnown(jobs[j], DOMAIN tags)'
  BY <1>2, <1>6 DEF JobTold, JobKnown
<1>8. ASSUME NEW j \in 1..Len(jobs)
      PROVE  /\ j > 1 => jobs'[j].stage = "start"
             /\ jobs'[j].kind = "tag" => jobs'[j].stage \in {"start"} \cup Tagging
             /\ jobs'[j].kind # "tag" => jobs'[j].stage \in {"start", "restoring"}
  <2>1. CASE j = 1
    BY <1>4, <2>1
  <2>2. CASE j # 1
    BY <1>2, <2>2 DEF JobsInv, OneAtATime
  <2> QED
    BY <2>1, <2>2
<1>9. jobs' # <<>> /\ jobs'[1].stage \in Tagging
  BY <1>1, <1>2, <1>4, EmptySeq
<1>10. OneAtATime'
  BY <1>2, <1>8, <1>9 DEF OneAtATime
<1> QED
  BY <1>2, <1>7, <1>10 DEF JobsInv

----------------------------------------------------------------------------
(* The actions of a tab.                                                   *)

\* The last of a nonempty list is replaced by one with the same prompt.
LEMMA Answered ==
  ASSUME NEW list \in Seq(Exchanges), list # <<>>, NEW a \in Answers
  PROVE  LET said == [list EXCEPT ![Len(list)].answers = @ \cup {a}] IN
         /\ said \in Seq(Exchanges) /\ said # <<>>
         /\ Len(said) = Len(list)
         /\ \A i \in 1..Len(list) : said[i].prompt = list[i].prompt
         /\ Asked(said) = Asked(list)
<1> DEFINE n == Len(list)
           last == [list[n] EXCEPT !.answers = @ \cup {a}]
           said == [list EXCEPT ![n] = last]
<1>1. n \in Nat /\ n \in 1..Len(list) /\ DOMAIN list = 1..n
  BY LenProperties, EmptySeq
<1>2. list[n] \in Exchanges
  BY <1>1, ElementOfSeq
<1>3. last \in Exchanges /\ last.prompt = list[n].prompt
  BY <1>2 DEF Exchanges
<1> HIDE DEF last
<1>4. /\ said \in Seq(Exchanges) /\ Len(said) = n
      /\ \A i \in 1..n : said[i] = IF i = n THEN last ELSE list[i]
  BY <1>1, <1>3, ExceptSeq
<1>5. DOMAIN said = 1..n
  BY <1>4, LenProperties
<1> HIDE DEF said
<1>6. \A i \in 1..n : said[i].prompt = list[i].prompt
  BY <1>3, <1>4
<1>7. Asked(said) = Asked(list)
  BY <1>1, <1>5, <1>6 DEF Asked
<1>8. said # <<>>
  BY <1>1, <1>4, EmptySeq
<1> HIDE DEF n
<1>9. said = [list EXCEPT ![Len(list)].answers = @ \cup {a}]
  BY DEF said, last, n
<1> QED
  BY <1>4, <1>6, <1>7, <1>8, <1>9 DEF n

LEMMA SendStep ==
  ASSUME CheckpointsAssumption, IInv, NEW t \in Tabs, NEW p \in Prompts, Send(t, p)
  PROVE  IInv'
<1> DEFINE list == Append(messages[t], Prompt(p))
<1>1. RestOK /\ ShownInv /\ JobsInv
  BY Apart
<1>2. /\ messages[t] \in Seq(Exchanges) /\ DOMAIN messages[t] = 1..Len(messages[t])
      /\ Len(messages[t]) \in Nat
      /\ cps[t] \in Seq(Checkpoint) /\ redo[t] \in Seq(Entries)
  BY <1>1, LenProperties DEF ShownInv
<1>3. Prompt(p) \in Exchanges /\ Prompt(p).prompt = p
  BY DEF Prompt, Exchanges
<1>4. /\ list \in Seq(Exchanges) /\ list # <<>> /\ Len(list) = Len(messages[t]) + 1
      /\ DOMAIN list = 1..Len(messages[t]) + 1
      /\ \A i \in 1..Len(messages[t]) : list[i] = messages[t][i]
      /\ list[Len(messages[t]) + 1].prompt = p
  BY <1>2, <1>3, AppendProperties, LenProperties
<1>5. Show(t, list, cps[t], redo[t])
  BY DEF Send
<1> HIDE DEF list
<1>6. /\ Distinct(messages[t]) /\ Asked(messages[t]) \subseteq sent
      /\ Redoable(redo[t]) \subseteq sent /\ p \notin sent /\ sent' = sent \cup {p}
  BY <1>1 DEF ShownInv, TabTold, Send
<1>7. \A i \in 1..Len(messages[t]) : list[i].prompt \in sent
  BY <1>2, <1>4, <1>6 DEF Asked
<1>8. Distinct(list)
  <2> SUFFICES ASSUME NEW i \in 1..Len(messages[t]) + 1, NEW k \in 1..Len(messages[t]) + 1,
                      list[i].prompt = list[k].prompt
               PROVE  i = k
    BY <1>4 DEF Distinct
  <2>1. CASE i \in 1..Len(messages[t]) /\ k \in 1..Len(messages[t])
    BY <1>4, <1>6, <2>1 DEF Distinct
  <2>2. CASE i = Len(messages[t]) + 1 \/ k = Len(messages[t]) + 1
    BY <1>2, <1>4, <1>6, <1>7, <2>2
  <2> QED
    BY <1>2, <2>1, <2>2
<1>9. \A i \in 1..Len(messages[t]) + 1 : list[i].prompt \in sent \cup {p}
  BY <1>2, <1>4, <1>7
<1>10. Asked(list) \subseteq sent'
  BY <1>4, <1>6, <1>9 DEF Asked
<1>11. Asked(list) \subseteq Asked(messages[t]) => Redoable(redo[t]) \cap Asked(list) = {}
  <2>1. Redoable(redo[t]) \cap Asked(messages[t]) = {}
    BY <1>1 DEF ShownInv, NothingTwice
  <2> QED
    BY <2>1
<1>12. SameButUndone(cps[t], cps[t])
  BY DEF SameButUndone
<1>13. /\ loading' \in [Tabs -> Prompts \cup {NoPrompt}]
       /\ \A u \in Tabs \ {t} : loading'[u] = loading[u]
       /\ UNCHANGED <<tags, jobs, head, base, isRepo, tree>> /\ edited' \in [Tabs -> SUBSET Files]
       /\ sent' \subseteq Prompts
  BY <1>1 DEF Send, gitVars, RestOK
<1>14. /\ TypeOK /\ Synced /\ TagsFollowPrompts /\ TagsExist /\ NothingTwice /\ Told
       /\ Known(redo[t], DOMAIN tags)
  BY DEF IInv, TagsExist
<1>15. /\ messages' \in [Tabs -> Seq(Exchanges)] /\ cps' \in [Tabs -> Seq(Checkpoint)]
       /\ redo' \in [Tabs -> Seq(Entries)]
  BY <1>2, <1>4, <1>5, <1>12, <1>14, Shown
<1>16. /\ Synced' /\ TagsFollowPrompts' /\ NothingTwice'
       /\ \A u \in Tabs : TabTold(u)'
       /\ \A u \in Tabs : Known(cps[u], DOMAIN tags)' /\ Known(redo[u], DOMAIN tags)'
  BY <1>2, <1>4, <1>5, <1>6, <1>8, <1>10, <1>11, <1>12, <1>13, <1>14, ShownWell
<1>20. NoneUndone'
  <2>1. NoneUndone
    BY DEF IInv
  <2>2. \A i \in 1..Len(cps[t]) : ~cps[t][i].undone
    BY <2>1 DEF NoneUndone
  <2> QED
    BY <1>2, <1>4, <1>5, <1>14, <2>1, <2>2, ShownDone
<1>17. ShownInv'
  BY <1>15, <1>16, <1>20 DEF ShownInv
<1>18. JobsInv'
  BY <1>1, <1>6, <1>13, JobsSame
<1>19. RestOK'
  BY <1>1, <1>13 DEF RestOK
<1> QED
  BY <1>17, <1>18, <1>19, Together

LEMMA TurnEndsStep ==
  ASSUME CheckpointsAssumption, IInv, NEW t \in Tabs, TurnEnds(t)
  PROVE  IInv'
<1> DEFINE answer == [by |-> loading[t], files |-> edited[t]]
           list == [messages[t] EXCEPT ![Len(messages[t])].answers = @ \cup {answer}]
<1>1. RestOK /\ ShownInv /\ JobsInv
  BY Apart
<1>2. /\ messages[t] \in Seq(Exchanges) /\ messages[t] # <<>>
      /\ cps[t] \in Seq(Checkpoint) /\ redo[t] \in Seq(Entries)
  BY <1>1 DEF ShownInv, TabTold, TurnEnds
<1>3. answer \in Answers
  BY <1>1 DEF TurnEnds, RestOK, Answers
<1>4. Show(t, list, cps[t], redo[t])
  BY DEF TurnEnds
<1>5. /\ list \in Seq(Exchanges) /\ list # <<>> /\ Len(list) = Len(messages[t])
      /\ \A i \in 1..Len(messages[t]) : list[i].prompt = messages[t][i].prompt
      /\ Asked(list) = Asked(messages[t])
  <2> HIDE DEF answer
  <2> QED
    BY <1>2, <1>3, Answered
<1> HIDE DEF list, answer
<1>6. /\ Distinct(messages[t]) /\ Asked(messages[t]) \subseteq sent /\ Redoable(redo[t]) \subseteq sent
      /\ Redoable(redo[t]) \cap Asked(messages[t]) = {} /\ Known(redo[t], DOMAIN tags)
  BY <1>1 DEF ShownInv, TabTold, NothingTwice
<1>7. Distinct(list)
  BY <1>5, <1>6 DEF Distinct
<1>8. SameButUndone(cps[t], cps[t])
  BY DEF SameButUndone
<1>9. /\ loading' \in [Tabs -> Prompts \cup {NoPrompt}]
      /\ \A u \in Tabs \ {t} : loading'[u] = loading[u]
      /\ UNCHANGED <<tags, head, base, isRepo, tree, sent>> /\ edited' \in [Tabs -> SUBSET Files]
  BY <1>1 DEF TurnEnds, gitVars, RestOK
<1>10. TypeOK /\ Synced /\ TagsFollowPrompts /\ TagsExist /\ NothingTwice /\ Told /\ NoneUndone
  BY DEF IInv
<1>11. /\ messages' \in [Tabs -> Seq(Exchanges)] /\ cps' \in [Tabs -> Seq(Checkpoint)]
       /\ redo' \in [Tabs -> Seq(Entries)]
  BY <1>2, <1>4, <1>5, <1>8, <1>10, Shown
<1>12. /\ Synced' /\ TagsFollowPrompts' /\ NothingTwice'
       /\ \A u \in Tabs : TabTold(u)'
       /\ \A u \in Tabs : Known(cps[u], DOMAIN tags)' /\ Known(redo[u], DOMAIN tags)'
  BY <1>2, <1>4, <1>5, <1>6, <1>7, <1>8, <1>9, <1>10, ShownWell
<1>16. NoneUndone'
  <2>1. NoneUndone
    BY DEF IInv
  <2>2. \A i \in 1..Len(cps[t]) : ~cps[t][i].undone
    BY <2>1 DEF NoneUndone
  <2> QED
    BY <1>2, <1>4, <1>5, <1>10, <2>1, <2>2, ShownDone
<1>13. ShownInv'
  BY <1>11, <1>12, <1>16 DEF ShownInv
<1>14. JobsInv'
  <2>1. jobs' = jobs
    BY DEF TurnEnds
  <2> QED
    BY <1>1, <1>9, <2>1, JobsSame
<1>15. RestOK'
  BY <1>1, <1>9 DEF RestOK
<1> QED
  BY <1>13, <1>14, <1>15, Together

LEMMA EditStep ==
  ASSUME IInv, NEW t \in Tabs, NEW f \in Files, Edit(t, f)
  PROVE  IInv'
<1>1. RestOK /\ ShownInv /\ JobsInv
  BY Apart
<1>2. UNCHANGED <<tags, jobs, head, base, isRepo, sent, messages, cps, redo, loading>>
  BY DEF Edit, gitVars, storeVars
<1>3. loading[t] \in Contents
  BY <1>1 DEF Edit, RestOK, Contents
<1>4. tree' \in Trees /\ edited' \in [Tabs -> SUBSET Files]
  BY <1>1, <1>3 DEF Edit, RestOK, Trees
<1>5. RestOK'
  BY <1>1, <1>2, <1>4 DEF RestOK
<1> QED
  BY <1>1, <1>2, <1>5, ShownSame, JobsSame, Together

\* One job more waits, and nothing else changes.
LEMMA OneQueued ==
  ASSUME IInv, NEW job \in Jobs, job.stage = "start",
         JobTold(job, sent), JobKnown(job, DOMAIN tags), Queue(<<job>>),
         UNCHANGED <<gitVars, tree, storeVars, chatVars, sent>>
  PROVE  IInv'
<1>1. RestOK /\ ShownInv /\ JobsInv
  BY Apart
<1> DEFINE more == <<job>>
<1>2. /\ more \in Seq(Jobs)
      /\ \A k \in 1..Len(more) : /\ more[k].stage = "start"
                                 /\ JobTold(more[k], sent) /\ JobKnown(more[k], DOMAIN tags)
  <2>1. more \in Seq(Jobs) /\ Len(more) = 1 /\ more[1] = job
    OBVIOUS
  <2> HIDE DEF more
  <2> QED
    BY <2>1
<1>3. UNCHANGED <<tags, head, base, isRepo, tree, sent, messages, cps, redo, loading, edited>>
  BY DEF gitVars, storeVars, chatVars
<1>4. JobsInv'
  <2>1. Queue(more)
    OBVIOUS
  <2> HIDE DEF more
  <2> QED
    BY <1>1, <1>2, <1>3, <2>1, QueueWell
<1>5. RestOK'
  BY <1>1, <1>3 DEF RestOK
<1> QED
  BY <1>1, <1>3, <1>4, <1>5, ShownSame, Together

LEMMA SaveStep ==
  ASSUME IInv, NEW t \in Tabs, Save(t)
  PROVE  IInv'
<1>1. cps[t] \in Seq(Checkpoint)
  BY DEF IInv, TypeOK
<1>2. PICK n \in DOMAIN cps[t] : /\ Queue(<<Job("tag", t, n, cps[t][n].prompt)>>)
                                 /\ UNCHANGED <<gitVars, tree, storeVars, chatVars, sent>>
  BY DEF Save
<1>3. n \in Nat /\ cps[t][n] \in Checkpoint
  BY <1>1, ElementOfSeq, LenProperties
<1>4. cps[t][n].prompt \in Prompts
  BY <1>3 DEF Checkpoint
<1> DEFINE job == Job("tag", t, n, cps[t][n].prompt)
<1>5. job \in Jobs /\ job.stage = "start" /\ JobTold(job, sent) /\ JobKnown(job, DOMAIN tags)
  BY <1>3, <1>4, TagJob
<1>6. Queue(<<job>>)
  BY <1>2
<1> HIDE DEF job
<1> QED
  BY <1>2, <1>5, <1>6, OneQueued

LEMMA UndoStep ==
  ASSUME CheckpointsAssumption, IInv, NEW t \in Tabs, NEW n \in DOMAIN cps[t], Undo(t, n)
  PROVE  IInv'
<1>1. RestOK /\ ShownInv /\ JobsInv
  BY Apart
<1>2. PICK order \in InOrder(Undoing(t, n)) :
        IF UndoJob(t, n, order).files = {}
        THEN Undone(UndoJob(t, n, order)) /\ UNCHANGED jobs
        ELSE Queue(<<UndoJob(t, n, order)>>) /\ UNCHANGED <<storeVars, messages>>
  BY DEF Undo
<1> DEFINE job == UndoJob(t, n, order)
<1>3. TypeOK /\ Synced /\ TagsFollowPrompts /\ TagsExist /\ NothingTwice /\ Told /\ NoneUndone
  BY DEF IInv
<1>4. /\ job \in Jobs /\ job.kind = "undo" /\ job.stage = "start"
      /\ JobTold(job, sent) /\ JobKnown(job, DOMAIN tags)
  BY <1>3, UndoJobWell
<1>5. UNCHANGED <<gitVars, tree, loading, edited, sent>>
  BY DEF Undo
<1>6. \/ Undone(job) /\ UNCHANGED jobs
      \/ Queue(<<job>>) /\ UNCHANGED <<storeVars, messages>>
  BY <1>2
<1> HIDE DEF job
<1>7. CASE Undone(job) /\ UNCHANGED jobs
  <2>1. UNCHANGED <<tags, head, base, isRepo, tree, loading, edited, sent, jobs>>
    BY <1>5, <1>7 DEF gitVars
  <2>2. ShownInv'
    BY <1>3, <1>4, <1>7, <2>1, UndoneWell
  <2>3. RestOK'
    BY <1>1, <2>1 DEF RestOK
  <2> QED
    BY <1>1, <2>1, <2>2, <2>3, JobsSame, Together
<1>8. CASE Queue(<<job>>) /\ UNCHANGED <<storeVars, messages>>
  BY <1>4, <1>5, <1>8, OneQueued DEF chatVars
<1> QED
  BY <1>6, <1>7, <1>8

LEMMA RedoStep ==
  ASSUME CheckpointsAssumption, IInv, NEW t \in Tabs, Redo(t)
  PROVE  IInv'
<1> DEFINE job == RedoJob(t)
<1>1. RestOK /\ ShownInv /\ JobsInv
  BY Apart
<1>2. TypeOK /\ Synced /\ TagsFollowPrompts /\ TagsExist /\ NothingTwice /\ Told /\ NoneUndone
  BY DEF IInv
<1>3. /\ job \in Jobs /\ job.kind = "redo" /\ job.stage = "start"
      /\ JobTold(job, sent) /\ JobKnown(job, DOMAIN tags)
  BY <1>2, RedoJobWell DEF Redo
<1>4. UNCHANGED <<gitVars, tree, loading, edited, sent>>
  BY DEF Redo
<1>5. \/ Redone(job) /\ UNCHANGED jobs
      \/ Queue(<<job>>) /\ UNCHANGED <<storeVars, messages>>
  BY DEF Redo
<1> HIDE DEF job
<1>6. CASE Redone(job) /\ UNCHANGED jobs
  <2>1. UNCHANGED <<tags, head, base, isRepo, tree, loading, edited, sent, jobs>>
    BY <1>4, <1>6 DEF gitVars
  <2>2. ShownInv'
    BY <1>2, <1>3, <1>6, <2>1, RedoneWell
  <2>3. RestOK'
    BY <1>1, <2>1 DEF RestOK
  <2> QED
    BY <1>1, <2>1, <2>2, <2>3, JobsSame, Together
<1>7. CASE Queue(<<job>>) /\ UNCHANGED <<storeVars, messages>>
  BY <1>3, <1>4, <1>7, OneQueued DEF chatVars
<1> QED
  BY <1>5, <1>6, <1>7

----------------------------------------------------------------------------
(* The actions of the job that has the lock.                               *)

LEMMA TagCommitStep ==
  ASSUME CheckpointsAssumption, IInv, NEW j \in DOMAIN jobs, TagCommit(j)
  PROVE  IInv'
<1>1. RestOK /\ ShownInv /\ JobsInv
  BY Apart
<1>2. /\ j = 1 /\ jobs # <<>> /\ jobs[1].kind = "tag" /\ jobs[1].stage = "start"
      /\ UNCHANGED <<tags, base, isRepo, tree, sent, messages, cps, redo, loading, edited>>
  BY DEF TagCommit, HasLock, storeVars, chatVars
<1>3. head = base
  BY <1>1, <1>2 DEF JobsInv, OneAtATime, Tagging
<1>4. CASE isRepo
  <2>1. head' = tree /\ Stage(1, "committed")
    BY <1>2, <1>4 DEF TagCommit
  <2>2. JobsInv'
    BY <1>1, <1>2, <2>1, StageWell DEF Tagging
  <2>3. RestOK'
    BY <1>1, <1>2, <2>1 DEF RestOK
  <2> QED
    BY <1>1, <1>2, <2>2, <2>3, ShownSame, Together
<1>5. CASE ~isRepo
  <2>1. UNCHANGED head /\ Release(1)
    BY <1>2, <1>5 DEF TagCommit
  <2>2. JobsInv'
    BY <1>1, <1>2, <1>3, <2>1, ReleaseWell
  <2>3. RestOK'
    BY <1>1, <1>2, <2>1 DEF RestOK
  <2> QED
    BY <1>1, <1>2, <2>2, <2>3, ShownSame, Together
<1> QED
  BY <1>4, <1>5

LEMMA TagNameStep ==
  ASSUME IInv, NEW j \in DOMAIN jobs, TagName(j)
  PROVE  IInv'
<1>1. RestOK /\ ShownInv /\ JobsInv
  BY Apart
<1>2. /\ jobs \in Seq(Jobs) /\ DOMAIN jobs = 1..Len(jobs)
      /\ UNCHANGED <<head, base, isRepo, tree, sent, messages, cps, redo, loading, edited>>
  BY <1>1, LenProperties DEF TagName, JobsInv, storeVars, chatVars
<1>3. j = 1 /\ jobs # <<>> /\ jobs[1].kind = "tag"
  BY <1>1, <1>2 DEF TagName, JobsInv, OneAtATime
<1>4. jobs[1].prompt \in Prompts
  <2>1. 1 \in 1..Len(jobs) /\ jobs[1] \in Jobs
    BY <1>2, <1>3, ElementOfSeq
  <2> QED
    BY <2>1 DEF Jobs
<1>5. CASE jobs[1].prompt \in DOMAIN tags
  <2>1. UNCHANGED tags /\ Stage(1, "refused")
    BY <1>3, <1>5 DEF TagName
  <2>2. JobsInv'
    BY <1>1, <1>2, <1>3, <2>1, StageWell DEF Tagging
  <2>3. RestOK'
    BY <1>1, <1>2, <2>1 DEF RestOK
  <2> QED
    BY <1>1, <1>2, <2>1, <2>2, <2>3, ShownSame, Together
<1>6. CASE jobs[1].prompt \notin DOMAIN tags
  <2>1. /\ tags' = [q \in DOMAIN tags \cup {jobs[1].prompt} |-> IF q = jobs[1].prompt THEN head ELSE tags[q]]
        /\ Stage(1, "tagged")
    BY <1>3, <1>6 DEF TagName
  <2>2. DOMAIN tags' = DOMAIN tags \cup {jobs[1].prompt}
    BY <2>1
  <2>3. JobsInv'
    BY <1>1, <1>2, <1>3, <2>1, <2>2, StageWell DEF Tagging
  <2>4. \A p \in DOMAIN tags' : tags'[p] \in Trees
    BY <1>1, <2>1, <2>2 DEF RestOK
  <2>5. RestOK'
    BY <1>1, <1>2, <1>4, <2>2, <2>4 DEF RestOK
  <2> QED
    BY <1>1, <1>2, <2>2, <2>3, <2>5, ShownSame, Together
<1> QED
  BY <1>5, <1>6

LEMMA TagResetStep ==
  ASSUME CheckpointsAssumption, IInv, NEW j \in DOMAIN jobs, TagReset(j)
  PROVE  IInv'
<1>1. RestOK /\ ShownInv /\ JobsInv
  BY Apart
<1>2. /\ jobs \in Seq(Jobs) /\ DOMAIN jobs = 1..Len(jobs)
      /\ head' = base /\ Release(j)
      /\ UNCHANGED <<tags, base, isRepo, tree, sent, messages, redo, loading, edited>>
  BY <1>1, LenProperties DEF TagReset, JobsInv, chatVars
<1>3. j = 1 /\ jobs # <<>>
  BY <1>1, <1>2 DEF TagReset, JobsInv, OneAtATime
<1>4. jobs[1] \in Jobs /\ JobKnown(jobs[1], DOMAIN tags)
  <2>1. 1 \in 1..Len(jobs)
    BY <1>2, <1>3
  <2> QED
    BY <1>1, <1>2, <2>1, ElementOfSeq DEF JobsInv
<1> DEFINE t == jobs[1].tab
           i == jobs[1].index
           p == jobs[1].prompt
<1>5. t \in Tabs /\ p \in Prompts
  BY <1>4 DEF Jobs
<1>6. JobsInv'
  BY <1>1, <1>2, <1>3, ReleaseWell
<1>7. ShownInv'
  <2>1. CASE jobs[1].stage = "tagged"
    <3>1. cps' = [cps EXCEPT ![t] = Mark(cps[t], i, p)] /\ p \in DOMAIN tags
      BY <1>3, <1>4, <2>1 DEF TagReset, JobKnown
    <3> HIDE DEF t, i, p
    <3>2. cps[t] \in Seq(Checkpoint) /\ DOMAIN cps[t] = 1..Len(cps[t]) /\ Len(cps[t]) \in Nat
      BY <1>1, <1>5, LenProperties DEF ShownInv
    <3> DEFINE marked == Mark(cps[t], i, p)
    <3>3. ASSUME NEW k \in 1..Len(cps[t])
          PROVE  /\ marked[k] \in Checkpoint /\ marked[k].prompt = cps[t][k].prompt
                 /\ marked[k].undone = cps[t][k].undone
                 /\ \/ marked[k].tag = cps[t][k].tag
                    \/ marked[k].tag = p /\ cps[t][k].prompt = p
      <4>1. cps[t][k] \in Checkpoint
        BY <3>2, ElementOfSeq
      <4>2. marked[k] = IF k = i /\ cps[t][k].prompt = p THEN [cps[t][k] EXCEPT !.tag = p] ELSE cps[t][k]
        BY <3>2 DEF Mark
      <4>3. CASE k = i /\ cps[t][k].prompt = p
        <5>1. marked[k] = [cps[t][k] EXCEPT !.tag = p]
          BY <4>2, <4>3
        <5> HIDE DEF marked
        <5> QED
          BY <1>5, <4>1, <4>3, <5>1 DEF Checkpoint
      <4>4. CASE ~(k = i /\ cps[t][k].prompt = p)
        <5>1. marked[k] = cps[t][k]
          BY <4>2, <4>4
        <5> QED
          BY <4>1, <5>1
      <4> QED
        BY <4>3, <4>4
    <3>4. /\ marked \in Seq(Checkpoint) /\ Len(marked) = Len(cps[t])
          /\ DOMAIN marked = 1..Len(cps[t])
      <4>1. DOMAIN marked = 1..Len(cps[t]) /\ marked = [k \in DOMAIN marked |-> marked[k]]
        BY <3>2 DEF Mark
      <4> HIDE DEF marked
      <4>2. marked \in [1..Len(cps[t]) -> Checkpoint]
        BY <3>3, <4>1
      <4> QED
        BY <3>2, <4>1, <4>2, FunctionIsSeq
    <3>5. cps' = [cps EXCEPT ![t] = marked]
      BY <3>1
    <3> HIDE DEF marked
    <3>6. /\ cps' \in [Tabs -> Seq(Checkpoint)] /\ cps'[t] = marked
          /\ \A u \in Tabs \ {t} : cps'[u] = cps[u]
      BY <1>1, <1>5, <3>4, <3>5 DEF ShownInv
    <3>7. Synced'
      <4> SUFFICES ASSUME NEW u \in Tabs
                   PROVE  /\ Len(cps'[u]) = Len(messages[u])
                          /\ \A k \in 1..Len(messages[u]) : cps'[u][k].prompt = messages[u][k].prompt
        BY <1>2 DEF Synced
      <4>1. /\ Len(cps[u]) = Len(messages[u])
            /\ \A k \in 1..Len(messages[u]) : cps[u][k].prompt = messages[u][k].prompt
        BY <1>1 DEF ShownInv, Synced
      <4>2. CASE u = t
        BY <3>3, <3>4, <3>6, <4>1, <4>2
      <4>3. CASE u # t
        BY <3>6, <4>1, <4>3
      <4> QED
        BY <4>2, <4>3
    <3>8. TagsFollowPrompts'
      <4> SUFFICES ASSUME NEW u \in Tabs, NEW k \in DOMAIN cps'[u]
                   PROVE  cps'[u][k].tag \in {NoPrompt, cps'[u][k].prompt}
        BY DEF TagsFollowPrompts
      <4>1. \A n \in DOMAIN cps[u] : cps[u][n].tag \in {NoPrompt, cps[u][n].prompt}
        BY <1>1 DEF ShownInv, TagsFollowPrompts
      <4>2. CASE u = t
        BY <3>2, <3>3, <3>4, <3>6, <4>1, <4>2
      <4>3. CASE u # t
        BY <3>6, <4>1, <4>3
      <4> QED
        BY <4>2, <4>3
    <3>11. NoneUndone'
      <4> SUFFICES ASSUME NEW u \in Tabs, NEW k \in 1..Len(cps'[u])
                   PROVE  ~cps'[u][k].undone
        BY DEF NoneUndone
      <4>1. \A n \in 1..Len(cps[u]) : ~cps[u][n].undone
        BY <1>1 DEF ShownInv, NoneUndone
      <4>2. CASE u = t
        BY <3>3, <3>4, <3>6, <4>1, <4>2
      <4>3. CASE u # t
        BY <3>6, <4>1, <4>3
      <4> QED
        BY <4>2, <4>3
    <3>9. \A u \in Tabs : TabTold(u)' /\ Redoable(redo'[u]) \cap Asked(messages'[u]) = {}
      BY <1>1, <1>2 DEF ShownInv, TabTold, NothingTwice
    <3>10. ASSUME NEW u \in Tabs PROVE Known(cps[u], DOMAIN tags)' /\ Known(redo[u], DOMAIN tags)'
      <4>1. Known(cps[u], DOMAIN tags) /\ Known(redo[u], DOMAIN tags)
        BY <1>1 DEF ShownInv
      <4>2. Known(redo[u], DOMAIN tags)'
        BY <1>2, <4>1 DEF Known
      <4>3. CASE u = t
        BY <1>2, <3>1, <3>3, <3>4, <3>6, <4>1, <4>2, <4>3 DEF Known
      <4>4. CASE u # t
        BY <1>2, <3>6, <4>1, <4>2, <4>4 DEF Known
      <4> QED
        BY <4>3, <4>4
    <3> QED
      BY <1>1, <1>2, <3>6, <3>7, <3>8, <3>9, <3>10, <3>11 DEF ShownInv, NothingTwice
  <2>2. CASE jobs[1].stage # "tagged"
    <3>1. UNCHANGED cps
      BY <1>3, <2>2 DEF TagReset
    <3> QED
      BY <1>1, <1>2, <3>1, ShownSame
  <2> QED
    BY <2>1, <2>2
<1>8. RestOK'
  BY <1>1, <1>2 DEF RestOK
<1> QED
  BY <1>6, <1>7, <1>8, Together

LEMMA RestoreFileStep ==
  ASSUME CheckpointsAssumption, IInv, NEW j \in DOMAIN jobs, NEW f \in Files, RestoreFile(j, f)
  PROVE  IInv'
<1> DEFINE job == jobs[1]
           after == [job EXCEPT !.files = @ \ {f}, !.stage = "restoring"]
<1>1. RestOK /\ ShownInv /\ JobsInv
  BY Apart
<1>2. /\ jobs \in Seq(Jobs) /\ Len(jobs) \in Nat
      /\ UNCHANGED <<tags, head, base, isRepo, sent, messages, cps, redo, loading, edited>>
  BY <1>1, LenProperties DEF RestoreFile, JobsInv, gitVars, storeVars, chatVars
<1>3. j = 1 /\ 1 \in 1..Len(jobs) /\ job.kind # "tag"
  BY <1>2, EmptySeq DEF RestoreFile, HasLock
<1>4. /\ job \in Jobs /\ JobTold(job, sent) /\ JobKnown(job, DOMAIN tags)
      /\ job.stage \in {"start", "restoring"}
  BY <1>1, <1>2, <1>3, ElementOfSeq DEF JobsInv, OneAtATime
<1>5. /\ after \in Jobs /\ after.stage = "restoring" /\ after.kind = job.kind
      /\ after.keep = job.keep /\ after.entries = job.entries /\ after.ref = job.ref
      /\ after.prompt = job.prompt /\ after.index = job.index
  <2> HIDE DEF job
  <2> QED
    BY <1>4 DEF Jobs
<1>6. jobs' = [jobs EXCEPT ![1] = after]
  BY <1>3 DEF RestoreFile
<1>7. JobTold(after, sent) /\ JobKnown(after, DOMAIN tags)
  <2> HIDE DEF after, job
  <2> QED
    BY <1>4, <1>5 DEF JobTold, JobKnown
<1>8. head = base
  BY <1>1, <1>4 DEF JobsInv, OneAtATime, Tagging
<1>9. JobsInv'
  <2> HIDE DEF after
  <2>1. /\ jobs' \in Seq(Jobs) /\ Len(jobs') = Len(jobs)
        /\ \A k \in 1..Len(jobs) : jobs'[k] = IF k = 1 THEN after ELSE jobs[k]
    BY <1>2, <1>3, <1>5, <1>6, ExceptSeq
  <2>2. ASSUME NEW k \in 1..Len(jobs)
        PROVE  /\ JobTold(jobs'[k], sent) /\ JobKnown(jobs'[k], DOMAIN tags)
               /\ k > 1 => jobs'[k].stage = "start"
               /\ jobs'[k].kind = "tag" => jobs'[k].stage \in {"start"} \cup Tagging
               /\ jobs'[k].kind # "tag" => jobs'[k].stage \in {"start", "restoring"}
    <3>1. CASE k = 1
      BY <1>3, <1>5, <1>7, <2>1, <3>1
    <3>2. CASE k # 1
      BY <1>1, <2>1, <3>2 DEF JobsInv, OneAtATime
    <3> QED
      BY <3>1, <3>2
  <2>3. \A k \in 1..Len(jobs') : JobTold(jobs[k], sent)' /\ JobKnown(jobs[k], DOMAIN tags)'
    BY <1>2, <2>1, <2>2 DEF JobTold, JobKnown
  <2>4. OneAtATime'
    BY <1>2, <1>8, <2>1, <2>2 DEF OneAtATime
  <2> QED
    BY <1>1, <2>1, <2>3, <2>4 DEF JobsInv
<1>10. tree' \in Trees
  <2>1. job.ref \in DOMAIN tags \cup {"HEAD"} /\ job.files \subseteq Files
    BY <1>4 DEF JobKnown, Jobs
  <2>2. Restored(job.ref) \in Trees
    BY <1>1, <2>1 DEF Restored, RestOK
  <2>3. Restored(job.ref)[f] \in Contents /\ "absent" \in Contents /\ tree[f] \in Contents
    BY <1>1, <2>2 DEF Trees, Contents, RestOK
  <2>4. tree' = [tree EXCEPT ![f] = IF isRepo /\ Restored(job.ref)[f] # "absent" THEN Restored(job.ref)[f]
                                    ELSE IF job.kind = "undo" THEN "absent" ELSE tree[f]]
    BY <1>3 DEF RestoreFile
  <2> HIDE DEF job
  <2> QED
    BY <1>1, <2>3, <2>4 DEF Trees, RestOK
<1>11. RestOK'
  BY <1>1, <1>2, <1>10 DEF RestOK
<1> QED
  BY <1>1, <1>2, <1>9, <1>11, ShownSame, Together

LEMMA RestoreEndsStep ==
  ASSUME CheckpointsAssumption, IInv, NEW j \in DOMAIN jobs, RestoreEnds(j)
  PROVE  IInv'
<1>1. RestOK /\ ShownInv /\ JobsInv
  BY Apart
<1>2. TypeOK /\ Synced /\ TagsFollowPrompts /\ TagsExist /\ NothingTwice /\ Told /\ NoneUndone
  BY DEF IInv
<1>3. /\ j = 1 /\ jobs # <<>> /\ jobs[1].stage = "restoring" /\ Release(1)
      /\ UNCHANGED <<tags, head, base, isRepo, tree, sent, loading, edited>>
      /\ (jobs[1].kind = "undo" /\ Undone(jobs[1])) \/ Redone(jobs[1])
  BY DEF RestoreEnds, HasLock, gitVars
<1>4. jobs[1] \in Jobs /\ JobTold(jobs[1], sent) /\ JobKnown(jobs[1], DOMAIN tags)
      /\ jobs[1].kind # "tag"
  <2>1. jobs \in Seq(Jobs) /\ 1 \in 1..Len(jobs)
    BY <1>1, <1>3, LenProperties, EmptySeq DEF JobsInv
  <2> QED
    BY <1>1, <1>3, <2>1, ElementOfSeq DEF JobsInv, OneAtATime, Tagging
<1>5. head = base
  BY <1>1, <1>3 DEF JobsInv, OneAtATime, Tagging
<1>6. JobsInv'
  BY <1>1, <1>3, <1>5, ReleaseWell
<1>7. ShownInv'
  BY <1>2, <1>3, <1>4, UndoneWell, RedoneWell
<1>8. RestOK'
  BY <1>1, <1>3 DEF RestOK
<1> QED
  BY <1>6, <1>7, <1>8, Together

----------------------------------------------------------------------------
(* The theorems.                                                           *)

LEMMA InitIInv == ASSUME CheckpointsAssumption, Init PROVE IInv
<1>1. /\ <<>> \in Seq(Exchanges) /\ <<>> \in Seq(Checkpoint) /\ <<>> \in Seq(Entries)
      /\ <<>> \in Seq(Jobs) /\ Len(<<>>) = 0 /\ 1..0 = {} /\ DOMAIN <<>> = {}
  BY EmptySeq
<1>2. Asked(<<>>) = {} /\ Redoable(<<>>) = {}
  BY DEF Asked, Redoable
<1>3. RestOK
  <2>1. {base, head, tree} \subseteq Trees
    BY DEF Init, Trees, Contents
  <2>2. DOMAIN tags = {}
    BY DEF Init
  <2> QED
    BY <2>1, <2>2 DEF Init, RestOK
<1>4. ShownInv
  <2>1. \A t \in Tabs : messages[t] = <<>> /\ cps[t] = <<>> /\ redo[t] = <<>> /\ loading[t] = NoPrompt
    BY DEF Init
  <2>2. /\ messages \in [Tabs -> Seq(Exchanges)] /\ cps \in [Tabs -> Seq(Checkpoint)]
        /\ redo \in [Tabs -> Seq(Entries)]
    BY <1>1 DEF Init
  <2>3. Synced /\ TagsFollowPrompts /\ NothingTwice /\ NoneUndone
    BY <1>1, <1>2, <2>1 DEF Synced, TagsFollowPrompts, NothingTwice, NoneUndone
  <2>4. \A t \in Tabs : TabTold(t)
    BY <1>1, <1>2, <2>1 DEF TabTold, Distinct
  <2>5. \A t \in Tabs : Known(cps[t], DOMAIN tags) /\ Known(redo[t], DOMAIN tags)
    BY <1>1, <2>1 DEF Known
  <2> QED
    BY <2>2, <2>3, <2>4, <2>5 DEF ShownInv
<1>5. JobsInv
  BY <1>1, CheckpointsAssumption DEF Init, JobsInv, OneAtATime
<1> QED
  BY <1>3, <1>4, <1>5 DEF RestOK, ShownInv, JobsInv, IInv, TypeOK, Told, TagsExist

LEMMA NextIInv == ASSUME CheckpointsAssumption, IInv, [Next]_vars PROVE IInv'
<1>1. CASE UNCHANGED vars
  <2>1. UNCHANGED <<tags, jobs, head, base, isRepo, tree, sent, messages, cps, redo, loading, edited>>
    BY <1>1 DEF vars, gitVars, storeVars, chatVars
  <2>2. RestOK /\ ShownInv /\ JobsInv
    BY Apart
  <2>3. RestOK'
    BY <2>1, <2>2 DEF RestOK
  <2> QED
    BY <2>1, <2>2, <2>3, ShownSame, JobsSame, Together
<1>2. ASSUME NEW t \in Tabs, NEW p \in Prompts, Send(t, p) PROVE IInv'
  BY <1>2, SendStep
<1>3. ASSUME NEW t \in Tabs, NEW f \in Files, Edit(t, f) PROVE IInv'
  BY <1>3, EditStep
<1>4. ASSUME NEW t \in Tabs, NEW n \in DOMAIN cps[t], Undo(t, n) PROVE IInv'
  BY <1>4, UndoStep
<1>5. ASSUME NEW t \in Tabs, TurnEnds(t) PROVE IInv'
  BY <1>5, TurnEndsStep
<1>6. ASSUME NEW t \in Tabs, Save(t) PROVE IInv'
  BY <1>6, SaveStep
<1>7. ASSUME NEW t \in Tabs, Redo(t) PROVE IInv'
  BY <1>7, RedoStep
<1>8. ASSUME NEW j \in DOMAIN jobs, TagCommit(j) PROVE IInv'
  BY <1>8, TagCommitStep
<1>9. ASSUME NEW j \in DOMAIN jobs, TagName(j) PROVE IInv'
  BY <1>9, TagNameStep
<1>10. ASSUME NEW j \in DOMAIN jobs, TagReset(j) PROVE IInv'
  BY <1>10, TagResetStep
<1>11. ASSUME NEW j \in DOMAIN jobs, RestoreEnds(j) PROVE IInv'
  BY <1>11, RestoreEndsStep
<1>12. ASSUME NEW j \in DOMAIN jobs, NEW f \in Files, RestoreFile(j, f) PROVE IInv'
  BY <1>12, RestoreFileStep
<1> QED
  BY <1>1, <1>2, <1>3, <1>4, <1>5, <1>6, <1>7, <1>8, <1>9, <1>10, <1>11, <1>12 DEF Next

\* The invariant holds of every tab, prompt and file, and any number of jobs.
THEOREM Invariance == Spec => []IInv
<1>1. Init => IInv
  BY InitIInv, CheckpointsAssumption
<1>2. IInv /\ [Next]_vars => IInv'
  BY NextIInv, CheckpointsAssumption
<1> QED
  BY <1>1, <1>2, PTL DEF Spec

\* Every variable keeps its type; among it, a restore reads a tag that exists
\* or HEAD (undoToCheckpoint, checkpoints.ts 438-445), and the queue its bound.
THEOREM TypeCorrect == Spec => []TypeOK
<1>1. IInv => TypeOK
  BY DEF IInv
<1> QED
  BY <1>1, Invariance, PTL

\* A checkpoint carries no tag but its own, however undos and new prompts come
\* between the commit of a tag and its record (createGitTag, 346-377).
THEOREM TagsFollow == Spec => []TagsFollowPrompts
<1>1. IInv => TagsFollowPrompts
  BY DEF IInv
<1> QED
  BY <1>1, Invariance, PTL

\* What redo would bring back is not in the conversation already, although an
\* undo puts the messages it kept back only when its files are restored.
THEOREM NeverTwice == Spec => []NothingTwice
<1>1. IInv => NothingTwice
  BY DEF IInv
<1> QED
  BY <1>1, Invariance, PTL

\* The flag of an undone checkpoint is never seen: the undo that sets it drops
\* the messages of the checkpoint in the same step (474-502, checkpoint.ts
\* 92-105), and a checkpoint rebuilt from a redo begins without it.
THEOREM UndoneAreGone == Spec => []NoneUndone
<1>1. IInv => NoneUndone
  BY DEF IInv
<1> QED
  BY <1>1, Invariance, PTL

\* The lock of the git work (withGitLock, 10-17): no tree is committed or
\* tagged while the files of an undo or a redo are half restored, and the HEAD
\* these read is the user's.
THEOREM SnapshotsAreWhole == Spec => []SnapshotsWhole
<1>1. IInv => SnapshotsWhole
  <2> SUFFICES ASSUME IInv, NEW j \in DOMAIN jobs, jobs[j].stage = "restoring"
               PROVE  head = base /\ \A k \in DOMAIN jobs : jobs[k].stage \in {"start", "restoring"}
    BY DEF SnapshotsWhole
  <2>1. OneAtATime /\ DOMAIN jobs = 1..Len(jobs) /\ Len(jobs) \in Nat
    BY LenProperties DEF IInv, TypeOK
  <2>2. j = 1
    BY <2>1 DEF OneAtATime
  <2>3. \A k \in DOMAIN jobs : jobs[k].stage \in {"start", "restoring"}
    BY <2>1, <2>2 DEF OneAtATime
  <2>4. head = base
    BY <2>1, <2>2 DEF OneAtATime, Tagging
  <2> QED
    BY <2>3, <2>4
<1> QED
  BY <1>1, Invariance, PTL
=============================================================================
