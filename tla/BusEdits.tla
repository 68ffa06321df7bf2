------------------------------ MODULE BusEdits ------------------------------
(***************************************************************************)
(* Edits of one file by the agents of one dispatch: the edit lock of       *)
(* agent-bus.ts, the edit_file and multi_edit wrappers of bus-cache.ts     *)
(* around it, and the tools' own read, compare and write (edit-file.ts,    *)
(* multi-edit.ts).                                                         *)
(*                                                                         *)
(* Edits are to different regions, so the content of the file is the set   *)
(* of tool calls whose edit it holds.  A tool call is made once; the model *)
(* may issue the calls of one agent in parallel.                           *)
(***************************************************************************)
EXTENDS Naturals, FiniteSets, Sequences

CONSTANTS
  Calls,        (* edit_file and multi_edit calls for the file             *)
  Agents,
  AgentOf,      (* AgentOf[c]: the agent that makes the call               *)
  Creators,     (* calls with an empty oldString: they create the file     *)
  Hashed,       (* calls that name the hash of the content they expect     *)
  NoAgent,
  LockBreaks    (* may a timer or an abort break the lock?                 *)

ASSUME BusEditsAssumption ==
  /\ AgentOf \in [Calls -> Agents]
  /\ Creators \subseteq Calls
  /\ Hashed \subseteq Calls
  /\ NoAgent \notin Agents
  /\ LockBreaks \in BOOLEAN

VARIABLES
  pc,          (* how far each call has come                               *)
  held,        (* is the path in _editLockHeld?                            *)
  queue,       (* _editLockQueues of the path                              *)
  armed,       (* grants that are not released: their timer is running     *)
  owner,       (* _fileOwners of the path                                  *)
  disk,        (* the file                                                 *)
  base,        (* the content each call matched its oldString against      *)
  cache,       (* the bus's copy of the file: {content}, or {} for none    *)
  rereads,     (* calls whose unawaited re-read for the cache has begun    *)
  fresh,       (* what that re-read has found: {content}, or {} so far     *)
  editors,     (* _filesEdited of the path                                 *)
  breaks       (* what has broken the lock so far: timer, drain (history)  *)

lockVars  == <<held, queue, armed, owner, breaks>>
fileVars  == <<disk, base>>
cacheVars == <<cache, rereads, fresh>>
vars == <<pc, held, queue, armed, owner, disk, base, cache, rereads, fresh,
          editors, breaks>>

PCs == {"idle", "queued", "locked", "matched", "checked", "written", "failed",
        "succeeded", "rejected"}

(* Calls between their grant and their return.                             *)
Editing == {c \in Calls : pc[c] \in {"locked", "matched", "checked", "written", "failed"}}

TypeOK ==
  /\ pc \in [Calls -> PCs]
  /\ held \in BOOLEAN
  /\ queue \in Seq(Calls)
  /\ armed \subseteq Editing
  /\ owner \in Agents \union {NoAgent}
  /\ disk \subseteq Calls
  /\ base \in [Calls -> SUBSET Calls]
  /\ cache \in SUBSET SUBSET Calls
  /\ rereads \subseteq Calls
  /\ fresh \in [Calls -> SUBSET SUBSET Calls]
  /\ editors \subseteq Agents
  /\ breaks \subseteq {"timer", "drain"}

Init ==
  /\ pc = [c \in Calls |-> "idle"]
  /\ held = FALSE
  /\ queue = <<>>
  /\ armed = {}
  /\ owner = NoAgent
  /\ disk = {}
  /\ base = [c \in Calls |-> {}]
  /\ cache = {}
  /\ rereads = {}
  /\ fresh = [c \in Calls |-> {}]
  /\ editors = {}
  /\ breaks = {}

-----------------------------------------------------------------------------
(* The edit lock.                                                          *)

(* releaseEditLock that only hands over and never frees the path           *)
(* (sensitivity).                                                          *)
ReleaseKeepsHeld(c) ==
  IF queue = <<>>
    THEN /\ armed' = armed \ {c}
         /\ UNCHANGED <<held, queue>>
    ELSE /\ held' = TRUE
         /\ queue' = Tail(queue)
         /\ armed' = (armed \ {c}) \union {Head(queue)}

(* releaseEditLock: the path is free, or goes to the first in the queue,   *)
(* whose grant starts a timer of its own.                                  *)
ReleaseEditLock(c) ==
  IF queue = <<>>
    THEN /\ held' = FALSE
         /\ armed' = armed \ {c}
         /\ UNCHANGED queue
    ELSE /\ held' = TRUE
         /\ queue' = Tail(queue)
         /\ armed' = (armed \ {c}) \union {Head(queue)}

(* The call the release wakes goes on with its edit.                       *)
Resumed(c, to) ==
  IF queue = <<>> THEN [pc EXCEPT ![c] = to]
  ELSE [pc EXCEPT ![c] = to, ![Head(queue)] = "locked"]

(* acquireEditLock that grants without a look at the holder (sensitivity). *)
AcquireAtOnce(c) ==
  /\ pc[c] = "idle"
  /\ held' = TRUE
  /\ armed' = armed \union {c}
  /\ owner' = IF owner = NoAgent THEN AgentOf[c] ELSE owner
  /\ pc' = [pc EXCEPT ![c] = "locked"]
  /\ UNCHANGED <<queue, breaks, fileVars, cacheVars, editors>>

(* The first grant makes its agent the owner of the file.                  *)
AcquireEditLock(c) ==
  /\ pc[c] = "idle"
  /\ \/ /\ ~held
        /\ held' = TRUE
        /\ armed' = armed \union {c}
        /\ owner' = IF owner = NoAgent THEN AgentOf[c] ELSE owner
        /\ pc' = [pc EXCEPT ![c] = "locked"]
        /\ UNCHANGED queue
     \/ /\ held
        /\ queue' = Append(queue, c)
        /\ pc' = [pc EXCEPT ![c] = "queued"]
        /\ UNCHANGED <<held, armed, owner>>
  /\ UNCHANGED <<breaks, fileVars, cacheVars, editors>>

(* The grant's timer: the lock moves on although the edit does not stop.   *)
LockTimesOut(c) ==
  /\ LockBreaks
  /\ c \in armed
  /\ ReleaseEditLock(c)
  /\ pc' = Resumed(c, pc[c])
  /\ breaks' = breaks \union {"timer"}
  /\ UNCHANGED <<owner, fileVars, cacheVars, editors>>

(* drainAllWaiters, from an abort or a dispose of the bus: everyone in the *)
(* queue is granted the lock at once.                                      *)
DrainAllWaiters ==
  LET waiting == {queue[i] : i \in DOMAIN queue} IN
  /\ LockBreaks
  /\ queue # <<>>
  /\ held' = TRUE
  /\ queue' = <<>>
  /\ armed' = armed \union waiting
  /\ pc' = [c \in Calls |-> IF c \in waiting THEN "locked" ELSE pc[c]]
  /\ breaks' = breaks \union {"drain"}
  /\ UNCHANGED <<owner, fileVars, cacheVars, editors>>

-----------------------------------------------------------------------------
(* The tools.                                                              *)

(* The file is read and oldString is looked for in what was read.  A call  *)
(* with a hash compares that hash with the same content; "failed" is also  *)
(* a missing file, a text that is not found and a hash that differs.       *)
MatchOldString(c) ==
  /\ pc[c] = "locked"
  /\ c \notin Creators
  /\ \/ /\ base' = [base EXCEPT ![c] = disk]
        /\ pc' = [pc EXCEPT ![c] = IF c \in Hashed THEN "checked" ELSE "matched"]
     \/ /\ pc' = [pc EXCEPT ![c] = "failed"]
        /\ UNCHANGED base
  /\ UNCHANGED <<disk, lockVars, cacheVars, editors>>

(* Without a hash the file is read again: one that has changed is left     *)
(* alone.                                                                  *)
CompareOnDisk(c) ==
  /\ pc[c] = "matched"
  /\ pc' = [pc EXCEPT ![c] = IF disk = base[c] THEN "checked" ELSE "failed"]
  /\ UNCHANGED <<lockVars, fileVars, cacheVars, editors>>

(* The atomic write of the content computed from the first read; one that  *)
(* throws leaves the file as it was.                                       *)
WriteFile(c) ==
  /\ pc[c] = "checked"
  /\ \/ /\ disk' = base[c] \union {c}
        /\ pc' = [pc EXCEPT ![c] = "written"]
     \/ /\ pc' = [pc EXCEPT ![c] = "failed"]
        /\ UNCHANGED disk
  /\ UNCHANGED <<base, lockVars, cacheVars, editors>>

(* An empty oldString writes newString, whatever the file held before; a   *)
(* forbidden path and a mkdir or a write that throws leave it as it was.   *)
CreateFile(c) ==
  /\ pc[c] = "locked"
  /\ c \in Creators
  /\ \/ /\ disk' = {c}
        /\ pc' = [pc EXCEPT ![c] = "written"]
     \/ /\ pc' = [pc EXCEPT ![c] = "failed"]
        /\ UNCHANGED disk
  /\ UNCHANGED <<base, lockVars, cacheVars, editors>>

(* A wrapper that forgets to release when the edit failed (sensitivity).   *)
ReturnWithoutFinally(c) ==
  /\ pc[c] \in {"written", "failed"}
  /\ editors' = editors \union {AgentOf[c]}
  /\ IF pc[c] = "written"
       THEN /\ rereads' = rereads \union {c}
            /\ IF c \in armed
                 THEN /\ ReleaseEditLock(c)
                      /\ pc' = Resumed(c, "succeeded")
                 ELSE /\ pc' = [pc EXCEPT ![c] = "succeeded"]
                      /\ UNCHANGED <<held, queue, armed>>
            /\ UNCHANGED cache
       ELSE /\ cache' = {}
            /\ pc' = [pc EXCEPT ![c] = "rejected"]
            /\ UNCHANGED <<rereads, held, queue, armed>>
  /\ UNCHANGED <<owner, breaks, fileVars, fresh>>

(* A release that is not idempotent: one after the timer's releases        *)
(* somebody else's lock (sensitivity).                                     *)
ReturnReleasesTwice(c) ==
  /\ pc[c] \in {"written", "failed"}
  /\ editors' = editors \union {AgentOf[c]}
  /\ ReleaseEditLock(c)
  /\ pc' = Resumed(c, IF pc[c] = "written" THEN "succeeded" ELSE "rejected")
  /\ UNCHANGED <<owner, breaks, fileVars, cacheVars>>

(* The wrapper's return: a re-read for the cache is started or the cached  *)
(* copy dropped, the agent is recorded as an editor of the file, and its   *)
(* grant is released unless the timer was faster.                          *)
Return(c) ==
  /\ pc[c] \in {"written", "failed"}
  /\ IF pc[c] = "written"
       THEN rereads' = rereads \union {c} /\ UNCHANGED cache
       ELSE cache' = {} /\ UNCHANGED rereads
  /\ editors' = editors \union {AgentOf[c]}
  /\ LET result == IF pc[c] = "written" THEN "succeeded" ELSE "rejected" IN
     IF c \in armed
       THEN /\ ReleaseEditLock(c)
            /\ pc' = Resumed(c, result)
       ELSE /\ pc' = [pc EXCEPT ![c] = result]
            /\ UNCHANGED <<held, queue, armed>>
  /\ UNCHANGED <<owner, breaks, fileVars, fresh>>

(* The re-read sees the file at some moment and reaches updateFile later.  *)
Reread(c) ==
  /\ c \in rereads
  /\ fresh[c] = {}
  /\ fresh' = [fresh EXCEPT ![c] = {disk}]
  /\ UNCHANGED <<pc, lockVars, fileVars, cache, rereads, editors>>

UpdateFile(c) ==
  /\ c \in rereads
  /\ fresh[c] # {}
  /\ cache' = fresh[c]
  /\ rereads' = rereads \ {c}
  /\ UNCHANGED <<pc, lockVars, fileVars, fresh, editors>>

(* A re-read that fails drops the cached copy, newer than it or not.       *)
InvalidateFile(c) ==
  /\ c \in rereads
  /\ fresh[c] = {}
  /\ cache' = {}
  /\ rereads' = rereads \ {c}
  /\ UNCHANGED <<pc, lockVars, fileVars, fresh, editors>>

-----------------------------------------------------------------------------
EditStep(c) ==
  \/ AcquireEditLock(c) \/ MatchOldString(c) \/ CompareOnDisk(c)
  \/ WriteFile(c) \/ CreateFile(c) \/ Return(c)

RereadStep(c) == Reread(c) \/ UpdateFile(c) \/ InvalidateFile(c)

(* Every call has returned: the model stutters instead of deadlocking.     *)
Finished ==
  /\ \A c \in Calls : pc[c] \in {"succeeded", "rejected"}
  /\ rereads = {}
  /\ UNCHANGED vars

Next ==
  \/ \E c \in Calls : EditStep(c) \/ RereadStep(c) \/ LockTimesOut(c)
  \/ DrainAllWaiters
  \/ Finished

Spec == Init /\ [][Next]_vars

(* The tools' awaits are file operations, which end.                       *)
FairSpec == Spec /\ \A c \in Calls : WF_vars(EditStep(c)) /\ WF_vars(RereadStep(c))

-----------------------------------------------------------------------------
(* Properties.                                                             *)

(* A path that is locked is locked by somebody who will release it, and    *)
(* nobody waits for a path that is free - whichever of return, timer and   *)
(* drain ends each grant (acquireEditLock, releaseEditLock: "released").   *)
LockNeverLeaks ==
  /\ held => armed # {}
  /\ queue # <<>> => held

(* dispatch.mdx: "Concurrent writes to the same file are queued, not       *)
(* raced": true until a timer or an abort has broken the lock.             *)
EditsSerialized == breaks = {} => Cardinality(Editing) <= 1

(* No write of an unbroken lock removes a peer's edit from the file,       *)
(* except that of a call with an empty oldString (edit-file.ts overwrites  *)
(* whatever is there).                                                     *)
EditsKept ==
  [][breaks # {} \/ disk \subseteq disk' \/ \E c \in Creators : disk' = {c}]_vars

(* A timer that moves the lock on leaves one holder: the late return of    *)
(* the call that lost the lock does not free its successor's lock (the     *)
(* "released" flag of a grant).                                            *)
GrantsExclusive == "drain" \notin breaks => Cardinality(armed) <= 1

(* Every edit call returns: no agent waits for ever for a lock, although   *)
(* locks are broken and granted in bulk.                                   *)
EveryEditReturns ==
  <>[](\A c \in Calls : pc[c] \in {"succeeded", "rejected"})

=============================================================================
