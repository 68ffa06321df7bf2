---------------------------- MODULE Checkpoints ----------------------------
(***************************************************************************)
(* Checkpoints of the tabs of a workspace: rebuilt from the messages of a  *)
(* tab, tagged in git by /checkpoint save, undone and redone, with the git *)
(* work of all tabs behind one lock.                                       *)
(*                                                                         *)
(* stores/checkpoints.ts 10-17, 195-545; core/commands/checkpoint.ts       *)
(* 73-149; components/layout/TabInstance.tsx 353-355, 643-672.  The effect *)
(* that would tag when the agent finishes (357-367) never does: the effect *)
(* before it (313-327) has already stored that nothing is loading.         *)
(* A tag is named by the prompt of its checkpoint (makeTagName: tab, index *)
(* and first words).  Left out: viewing a checkpoint (a submit in that     *)
(* state is an undo, then a prompt), tags restored from a saved session,   *)
(* the cleanup of tags, git commands that fail inside a repository.        *)
(***************************************************************************)
EXTENDS Naturals, SequencesExt

CONSTANTS
    Tabs, Prompts, Files,
    NoPrompt,      \* no prompt, no tag
    MaxJobs        \* bound of this model: jobs that wait for the git lock

VARIABLES
    isRepo,    \* whether the working directory is in a git repository
    base,      \* content of the files in the commit HEAD was at
    head,      \* content of the files in the commit HEAD is at
    tree,      \* content of each file on disk: who wrote it last
    tags,      \* the git tags: of each tagged prompt the tree it holds
    messages,  \* of each tab: its messages, each prompt with the answers after it
    loading,   \* of each tab: the prompt whose turn runs, or NoPrompt
    sent,      \* the prompts sent so far (history)
    edited,    \* of each tab: the files the running turn has edited
    cps,       \* of each tab: its checkpoints, in order
    redo,      \* of each tab: redoStack
    jobs       \* _gitLocks: the git work in the order of its start

gitVars == <<isRepo, base, head, tags>>
storeVars == <<cps, redo>>
chatVars == <<messages, loading, edited>>
vars == <<gitVars, tree, storeVars, chatVars, jobs, sent>>

Contents == Prompts \cup {"original", "absent"}
Trees == [Files -> Contents]
Answers == [by : Prompts, files : SUBSET Files]
Exchanges == [prompt : Prompts, answers : SUBSET Answers]
Checkpoint == [prompt : Prompts, files : SUBSET Files, tag : Prompts \cup {NoPrompt}, undone : BOOLEAN]
Entries == [index : Nat, files : SUBSET Files, tag : Prompts \cup {NoPrompt}, dropped : Exchanges]
Jobs == [kind : {"tag", "undo", "redo"}, tab : Tabs, index : Nat, prompt : Prompts,
         stage : {"start", "restoring", "committed", "tagged", "refused"},
         ref : Prompts \cup {"HEAD"}, files : SUBSET Files, entries : Seq(Entries), keep : Seq(Exchanges)]

ASSUME CheckpointsAssumption ==
    /\ NoPrompt \notin Prompts /\ "HEAD" \notin Prompts
    /\ {"original", "absent"} \cap Prompts = {}
    /\ MaxJobs \in Nat

TypeOK ==
    /\ isRepo \in BOOLEAN
    /\ {base, head, tree} \subseteq Trees
    /\ DOMAIN tags \subseteq Prompts /\ \A p \in DOMAIN tags : tags[p] \in Trees
    /\ messages \in [Tabs -> Seq(Exchanges)]
    /\ loading \in [Tabs -> Prompts \cup {NoPrompt}]
    /\ sent \subseteq Prompts
    /\ edited \in [Tabs -> SUBSET Files]
    /\ cps \in [Tabs -> Seq(Checkpoint)]
    /\ redo \in [Tabs -> Seq(Entries)]
    /\ jobs \in Seq(Jobs) /\ Len(jobs) =< MaxJobs

\* Outside a repository there is nothing at HEAD; inside, a file may be
\* untracked.
Init ==
    /\ isRepo \in BOOLEAN
    /\ tree \in [Files -> {"original", "absent"}]
    /\ base \in [Files -> {"original", "absent"}]
    /\ \A f \in Files : base[f] = "original" => isRepo /\ tree[f] = "original"
    /\ head = base
    /\ tags = [p \in {} |-> base]
    /\ messages = [t \in Tabs |-> <<>>]
    /\ loading = [t \in Tabs |-> NoPrompt]
    /\ sent = {}
    /\ edited = [t \in Tabs |-> {}]
    /\ cps = [t \in Tabs |-> <<>>]
    /\ redo = [t \in Tabs |-> <<>>]
    /\ jobs = <<>>

----------------------------------------------------------------------------
(* The store.                                                              *)

Asked(list) == {list[i].prompt : i \in DOMAIN list}
Redoable(stack) == {stack[i].dropped.prompt : i \in DOMAIN stack}

\* One checkpoint for each prompt, with the edits of the answers to it; one
\* with the index and the prompt of a former one keeps its tag and whether it
\* is undone.
Rebuilt(list, old) ==
    LET same(i) == i \in DOMAIN old /\ old[i].prompt = list[i].prompt IN
    [i \in DOMAIN list |->
        [prompt |-> list[i].prompt,
         files |-> UNION {a.files : a \in list[i].answers},
         tag |-> IF same(i) THEN old[i].tag ELSE NoPrompt,
         undone |-> same(i) /\ old[i].undone]]

\* Mutant of Show: a new prompt leaves what can be redone.
ShowKeeping(t, list, old, stack) ==
    /\ messages' = [messages EXCEPT ![t] = list]
    /\ cps' = [cps EXCEPT ![t] = Rebuilt(list, old)]
    /\ redo' = [redo EXCEPT ![t] = stack]

\* setMessages, and the effect that follows it: syncFromMessages rebuilds the
\* checkpoints and empties the redo stack when a prompt has appeared.
Show(t, list, old, stack) ==
    LET new == Rebuilt(list, old)
        appeared == \E i \in DOMAIN new : ~new[i].undone /\ new[i].prompt \notin Asked(old) IN
    /\ messages' = [messages EXCEPT ![t] = list]
    /\ cps' = [cps EXCEPT ![t] = new]
    /\ redo' = [redo EXCEPT ![t] = IF appeared THEN <<>> ELSE stack]

----------------------------------------------------------------------------
(* The lock: a job starts when the one before it has ended.                *)

Job(kind, t, i, p) ==
    [kind |-> kind, tab |-> t, index |-> i, prompt |-> p, stage |-> "start",
     ref |-> "HEAD", files |-> {}, entries |-> <<>>, keep |-> <<>>]

\* Mutant of HasLock: nobody waits.
HasLockAlways(j) == j \in DOMAIN jobs

HasLock(j) == j = 1 /\ jobs # <<>>

Queue(more) ==
    /\ Len(jobs) + Len(more) =< MaxJobs
    /\ jobs' = jobs \o more

Stage(j, stage) == jobs' = [jobs EXCEPT ![j].stage = stage]
Release(j) == jobs' = RemoveAt(jobs, j)

----------------------------------------------------------------------------
(* Turns.                                                                  *)

Prompt(p) == [prompt |-> p, answers |-> {}]

Send(t, p) ==
    /\ loading[t] = NoPrompt
    /\ p \notin sent
    /\ sent' = sent \cup {p}
    /\ loading' = [loading EXCEPT ![t] = p]
    /\ edited' = [edited EXCEPT ![t] = {}]
    /\ Show(t, Append(messages[t], Prompt(p)), cps[t], redo[t])
    /\ UNCHANGED <<gitVars, tree, jobs>>

\* An edit of the running turn; the first makes the file the prompt's.
Edit(t, f) ==
    /\ loading[t] # NoPrompt
    /\ f \notin edited[t]
    /\ tree' = [tree EXCEPT ![f] = loading[t]]
    /\ edited' = [edited EXCEPT ![t] = @ \cup {f}]
    /\ UNCHANGED <<gitVars, storeVars, messages, loading, jobs, sent>>

\* The answer joins the messages, behind whatever prompt is the last one by
\* now.
TurnEnds(t) ==
    LET answer == [by |-> loading[t], files |-> edited[t]] IN
    /\ loading[t] # NoPrompt
    /\ loading' = [loading EXCEPT ![t] = NoPrompt]
    /\ edited' = [edited EXCEPT ![t] = {}]
    /\ Show(t, [messages[t] EXCEPT ![Len(messages[t])].answers = @ \cup {answer}], cps[t], redo[t])
    /\ UNCHANGED <<gitVars, tree, jobs, sent>>

\* /checkpoint save: the last checkpoint that is done, unless it has a tag.
Done(t, i) == ~cps[t][i].undone /\ (i = Len(cps[t]) => loading[t] = NoPrompt)

Save(t) ==
    \E n \in DOMAIN cps[t] :
        /\ Done(t, n) /\ \A i \in DOMAIN cps[t] : i > n => ~Done(t, i)
        /\ cps[t][n].tag = NoPrompt
        /\ Queue(<<Job("tag", t, n, cps[t][n].prompt)>>)
        /\ UNCHANGED <<gitVars, tree, storeVars, chatVars, sent>>

----------------------------------------------------------------------------
(* createGitTag: commit everything, tag the commit, take HEAD back.        *)

TagCommit(j) ==
    /\ HasLock(j)
    /\ jobs[j].kind = "tag" /\ jobs[j].stage = "start"
    /\ IF isRepo
       THEN head' = tree /\ Stage(j, "committed")
       ELSE UNCHANGED head /\ Release(j)
    /\ UNCHANGED <<isRepo, base, tags, tree, storeVars, chatVars, sent>>

\* git refuses a name that exists.
TagName(j) ==
    LET p == jobs[j].prompt IN
    /\ jobs[j].stage = "committed"
    /\ IF p \in DOMAIN tags
       THEN UNCHANGED tags /\ Stage(j, "refused")
       ELSE /\ tags' = [q \in DOMAIN tags \cup {p} |-> IF q = p THEN head ELSE tags[q]]
            /\ Stage(j, "tagged")
    /\ UNCHANGED <<isRepo, base, head, tree, storeVars, chatVars, sent>>

\* Mutant of Mark: the checkpoint is found by its index alone.
MarkIndex(list, i, p) ==
    [k \in DOMAIN list |-> IF k = i THEN [list[k] EXCEPT !.tag = p] ELSE list[k]]

Mark(list, i, p) ==
    [k \in DOMAIN list |-> IF k = i /\ list[k].prompt = p THEN [list[k] EXCEPT !.tag = p] ELSE list[k]]

TagReset(j) ==
    LET job == jobs[j] IN
    /\ job.stage \in {"tagged", "refused"}
    /\ head' = base
    /\ cps' = IF job.stage = "tagged" THEN [cps EXCEPT ![job.tab] = Mark(@, job.index, job.prompt)] ELSE cps
    /\ Release(j)
    /\ UNCHANGED <<isRepo, base, tags, tree, redo, chatVars, sent>>

----------------------------------------------------------------------------
(* undoToCheckpoint.                                                       *)

\* What a redo can bring back: the prompt, with the answers up to the next one.
Entry(t, i) ==
    [index |-> i, files |-> cps[t][i].files, tag |-> cps[t][i].tag, dropped |-> messages[t][i]]

\* The tagged checkpoints up to n, and of them the one nearest to n.
Tagged(t, n) == {i \in 1..n : cps[t][i].tag # NoPrompt /\ (i < n => ~cps[t][i].undone)}
Nearest(S) == CHOOSE i \in S : \A k \in S : k =< i

\* Mutant of RestoreRef: nothing to fall back on.
RestoreRefOrNone(t, n) ==
    IF Tagged(t, n) = {} THEN NoPrompt ELSE cps[t][Nearest(Tagged(t, n))].tag

\* The tag of the target, else of the nearest tagged checkpoint before it.
RestoreRef(t, n) ==
    IF Tagged(t, n) = {} THEN "HEAD" ELSE cps[t][Nearest(Tagged(t, n))].tag

\* Array.prototype.sort by index, which is stable: the entries in front of the
\* i-th, and the entry that has n - 1 in front of it at place n.
InFront(list, i) ==
    {k \in DOMAIN list : \/ list[k].index < list[i].index
                         \/ list[k].index = list[i].index /\ k < i}

Sorted(list) ==
    [n \in DOMAIN list |->
        list[CHOOSE i \in DOMAIN list : Cardinality(InFront(list, i)) = n - 1]]

\* Store and messages after an undo, from what was read when it began.
Undone(job) ==
    LET t == job.tab
        marked == [k \in DOMAIN cps[t] |->
                     IF k > job.index THEN [cps[t][k] EXCEPT !.undone = TRUE] ELSE cps[t][k]] IN
    Show(t, job.keep, marked, Sorted(redo[t] \o job.entries))

\* The sequences that list S in order: one, of which nothing need be known.
InOrder(S) ==
    {order \in [1..Cardinality(S) -> S] : \A i, j \in DOMAIN order : i < j => order[i] < order[j]}

Undoing(t, n) == {i \in n + 1..Len(cps[t]) : ~cps[t][i].undone}

UndoJob(t, n, order) ==
    [Job("undo", t, n, cps[t][n].prompt) EXCEPT
        !.ref = RestoreRef(t, n),
        !.files = UNION {cps[t][i].files : i \in Undoing(t, n)},
        !.entries = [k \in DOMAIN order |-> Entry(t, order[k])],
        !.keep = Append(SubSeq(messages[t], 1, n - 1), Prompt(cps[t][n].prompt))]

\* Everything after the prompt of checkpoint n is dropped, the answers to it too.
Undo(t, n) ==
    /\ n \in DOMAIN cps[t]
    /\ Undoing(t, n) # {}
    /\ \E order \in InOrder(Undoing(t, n)) :
         LET job == UndoJob(t, n, order) IN
         IF job.files = {}
         THEN Undone(job) /\ UNCHANGED jobs
         ELSE Queue(<<job>>) /\ UNCHANGED <<storeVars, messages>>
    /\ UNCHANGED <<gitVars, tree, loading, edited, sent>>

----------------------------------------------------------------------------
(* redo: the oldest entry.                                                 *)

Redone(job) ==
    LET t == job.tab
        marked == [k \in DOMAIN cps[t] |->
                     IF cps[t][k].prompt = job.prompt THEN [cps[t][k] EXCEPT !.undone = FALSE] ELSE cps[t][k]] IN
    Show(t, job.keep, marked, IF redo[t] = <<>> THEN <<>> ELSE Tail(redo[t]))

RedoJob(t) ==
    LET entry == Head(redo[t]) IN
    [Job("redo", t, entry.index, entry.dropped.prompt) EXCEPT
        !.ref = IF entry.tag = NoPrompt THEN "HEAD" ELSE entry.tag,
        !.files = IF entry.tag = NoPrompt THEN {} ELSE entry.files,
        !.keep = Append(messages[t], entry.dropped)]

Redo(t) ==
    /\ redo[t] # <<>>
    /\ IF RedoJob(t).files = {}
       THEN Redone(RedoJob(t)) /\ UNCHANGED jobs
       ELSE Queue(<<RedoJob(t)>>) /\ UNCHANGED <<storeVars, messages>>
    /\ UNCHANGED <<gitVars, tree, loading, edited, sent>>

----------------------------------------------------------------------------
(* Files are restored one by one, with git show.                           *)

Restored(ref) == IF ref = "HEAD" THEN head ELSE tags[ref]

RestoreFile(j, f) ==
    LET job == jobs[j]
        found == isRepo /\ Restored(job.ref)[f] # "absent" IN
    /\ HasLock(j)
    /\ job.kind # "tag"
    /\ f \in job.files
    /\ jobs' = [jobs EXCEPT ![j].files = @ \ {f}, ![j].stage = "restoring"]
    /\ tree' = [tree EXCEPT ![f] = IF found THEN Restored(job.ref)[f]
                                   ELSE IF job.kind = "undo" THEN "absent" ELSE @]
    /\ UNCHANGED <<gitVars, storeVars, chatVars, sent>>

RestoreEnds(j) ==
    /\ HasLock(j)
    /\ jobs[j].stage = "restoring" /\ jobs[j].files = {}
    /\ IF jobs[j].kind = "undo" THEN Undone(jobs[j]) ELSE Redone(jobs[j])
    /\ Release(j)
    /\ UNCHANGED <<gitVars, tree, loading, edited, sent>>

----------------------------------------------------------------------------
Next ==
    \/ \E t \in Tabs :
         \/ \E p \in Prompts : Send(t, p)
         \/ \E f \in Files : Edit(t, f)
         \/ \E n \in DOMAIN cps[t] : Undo(t, n)
         \/ TurnEnds(t) \/ Save(t) \/ Redo(t)
    \/ \E j \in DOMAIN jobs :
         \/ TagCommit(j) \/ TagName(j) \/ TagReset(j) \/ RestoreEnds(j)
         \/ \E f \in Files : RestoreFile(j, f)

Spec == Init /\ [][Next]_vars

----------------------------------------------------------------------------
(* Properties.                                                             *)

\* A checkpoint carries the tag of its own prompt, although its index is given
\* to another prompt after an undo while tags are still made (367-377).
TagsFollowPrompts ==
    \A t \in Tabs : \A i \in DOMAIN cps[t] : cps[t][i].tag \in {NoPrompt, cps[t][i].prompt}

\* What can be redone is not in the conversation: a redo would say it twice.
NothingTwice ==
    \A t \in Tabs : Redoable(redo[t]) \cap Asked(messages[t]) = {}

\* While files are restored no tag is being made, of this tab or another: its
\* tree would be half restored (checkpoints.ts:447 "so createGitTag can't
\* snapshot a partially-restored working tree") and HEAD, which the restore may
\* read, would be at the tag's commit.
SnapshotsWhole ==
    (\E j \in DOMAIN jobs : jobs[j].stage = "restoring")
        => head = base /\ \A j \in DOMAIN jobs : jobs[j].stage \in {"start", "restoring"}

\* checkpoints.ts:394 "Everything after is "dropped" - stashed into the redo
\* stack so a subsequent redo can restore them."
Pieces(exchange) == {exchange.prompt} \cup exchange.answers

DroppedIsStashed ==
    [][\A t \in Tabs :
         loading[t] = NoPrompt /\ Len(redo'[t]) > Len(redo[t])
           => UNION {Pieces(messages[t][i]) : i \in DOMAIN messages[t]} \subseteq
                UNION {Pieces(messages'[t][i]) : i \in DOMAIN messages'[t]} \cup
                UNION {Pieces(redo'[t][i].dropped) : i \in DOMAIN redo'[t]}]_vars
=============================================================================
