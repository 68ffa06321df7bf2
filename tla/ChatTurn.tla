------------------------------ MODULE ChatTurn ------------------------------
(***************************************************************************)
(* The life of a prompt in a tab: typed, queued or sent; the guard that    *)
(* keeps a tab to one stream; the retry loop with its stall watchdog,      *)
(* backoffs and finally block, which runs once per round of the loop; the  *)
(* user's abort; and compaction, which is put off while a turn runs and    *)
(* continues the turn afterwards.                                          *)
(*                                                                         *)
(* useChat.ts 847-889, 1332-1358, 1694-1738, 2093-2130, 2193-2309,         *)
(* 2640-2726, 3222-3234, 3400-4134, 4162-4221; InputBox.tsx 443-458;       *)
(* TabInstance.tsx 245-284, 946-952.  Left out: plan reviews, fallback     *)
(* models, the repair of the proxy, and the two returns from the catch     *)
(* block (3674, 3881), which ask again what was just found to be so.       *)
(***************************************************************************)
EXTENDS Naturals, Sequences, FiniteSets

CONSTANTS
    Prompts,        \* what the user and the remote surfaces send
    Continues,      \* the "Continue." prompts sent after a compaction
    NoCall,
    MaxQueue,       \* prompts the queue holds (5)
    MaxStalls,      \* STALL_MAX_RETRIES
    MaxRetries,     \* MAX_TRANSIENT_RETRIES and MAX_LENGTH_RETRIES
    StallCap,       \* bound of this model: the stall counter stops here
    MaxCompacts     \* bound of this model: compactions that are asked for

Calls == Prompts \cup Continues
Summaries == {"asked", "deferred"}

ASSUME CallsAssumption == NoCall \notin Calls /\ Prompts \cap Continues = {}
ASSUME BoundsAssumption ==
    /\ {MaxQueue, MaxStalls, MaxRetries, StallCap, MaxCompacts} \subseteq Nat
    /\ MaxQueue > 0
    /\ StallCap > MaxStalls

VARIABLES
    where,          \* of each call of handleSubmit: how far it is
    abortRef,       \* the call whose controller the tab holds
    signal,         \* of each call: its controller has been aborted
    stalled,        \* of each call: stallTriggered
    tries,          \* of each call: streamRetryCount
    opening,        \* the calls that await the options of their stream
    userAborted,    \* userAbortedRef
    stallCount,     \* stallRetryCountRef
    retryPending,   \* stallRetryPendingRef
    loading,        \* isLoading
    queue,          \* messageQueue
    queueRef,       \* messageQueueRef: the queue at the last render
    steerOff,       \* steeringAbortedRef
    compacting,     \* isCompactingRef
    pendingCompact, \* pendingCompactRef
    compacts,       \* compactions asked for so far (bound)
    summary,        \* of each kind of compaction: it is running
    stopped,        \* the live calls the user has aborted (history)
    calm,           \* nothing was aborted and no call awaited a hook (history)
    refused         \* a hook or the lack of a model has refused a call (history)

loopVars == <<signal, stalled, tries, opening, userAborted, stallCount, retryPending>>
compactVars == <<compacting, pendingCompact, compacts, summary>>
history == <<stopped, calm, refused>>
queues == <<queue, queueRef>>
vars == <<where, abortRef, loopVars, loading, queues, steerOff, compactVars, history>>

Live == {c \in Calls : where[c] \in {"streaming", "backoff"}}

TypeOK ==
    /\ where \in [Calls -> {"unsent", "queued", "scheduled", "preparing", "streaming",
                            "backoff", "gone", "lost"}]
    /\ abortRef \in Calls \cup {NoCall}
    /\ signal \in [Calls -> BOOLEAN]
    /\ stalled \in [Calls -> BOOLEAN]
    /\ tries \in [Calls -> 0..MaxRetries]
    /\ opening \subseteq Calls
    /\ stallCount \in 0..StallCap
    /\ {userAborted, retryPending, loading, steerOff, compacting, pendingCompact, calm, refused}
         \subseteq BOOLEAN
    /\ {queue, queueRef} \subseteq Seq(Prompts)
    /\ Len(queue) =< MaxQueue
    /\ compacts \in 0..MaxCompacts
    /\ summary \in [Summaries -> BOOLEAN]
    /\ stopped \subseteq Calls

Init ==
    /\ where = [c \in Calls |-> "unsent"]
    /\ abortRef = NoCall
    /\ signal = [c \in Calls |-> FALSE]
    /\ stalled = [c \in Calls |-> FALSE]
    /\ tries = [c \in Calls |-> 0]
    /\ opening = {}
    /\ stallCount = 0
    /\ queue = <<>> /\ queueRef = <<>>
    /\ userAborted = FALSE /\ retryPending = FALSE /\ loading = FALSE /\ steerOff = FALSE
    /\ compacting = FALSE /\ pendingCompact = FALSE
    /\ compacts = 0
    /\ summary = [k \in Summaries |-> FALSE]
    /\ stopped = {}
    /\ calm = TRUE /\ refused = FALSE

----------------------------------------------------------------------------
(* The loop of handleSubmit.                                               *)

\* The head of the loop: a new controller for c, whatever the old one was.
LoopTop(c) ==
    /\ abortRef' = c
    /\ signal' = [signal EXCEPT ![c] = FALSE]
    /\ stalled' = [stalled EXCEPT ![c] = FALSE]
    /\ userAborted' = FALSE
    /\ retryPending' = FALSE
    /\ loading' = TRUE
    /\ opening' = opening \cup {c}
    /\ UNCHANGED steerOff

\* buildProviderOptions has returned; the turn may be steered from here on,
\* although it was aborted meanwhile.
Opens(c) ==
    /\ c \in opening
    /\ opening' = opening \ {c}
    /\ steerOff' = FALSE
    /\ UNCHANGED <<where, abortRef, signal, stalled, tries, userAborted, stallCount, retryPending,
                   loading, queues, compactVars, history>>

\* A call is over; "Continue." can be sent again.
Over(c) == IF c \in Continues THEN "unsent" ELSE "gone"

\* From the start of the call to its first stream.
Begin(c, before) ==
    /\ where' = [before EXCEPT ![c] = "streaming"]
    /\ LoopTop(c)
    /\ tries' = [tries EXCEPT ![c] = 0]
    /\ stallCount' = IF c \in Continues /\ retryPending THEN stallCount ELSE 0

\* The guard looks once.  Without a model the call ends there; a hook or an
\* image is awaited after it, and the hook may refuse the prompt.
HandleSubmit(c) ==
    IF abortRef # NoCall
    THEN /\ where' = [where EXCEPT ![c] = Over(c)]
         /\ UNCHANGED <<abortRef, loopVars, loading, steerOff, calm, refused>>
    ELSE \/ /\ Begin(c, where)
            /\ UNCHANGED <<calm, refused>>
         \/ /\ where' = [where EXCEPT ![c] = Over(c)]
            /\ refused' = TRUE
            /\ UNCHANGED <<abortRef, loopVars, loading, steerOff, calm>>
         \/ /\ where' = [where EXCEPT ![c] = "preparing"]
            /\ calm' = FALSE
            /\ UNCHANGED <<abortRef, loopVars, loading, steerOff, refused>>

Prepared(c) ==
    /\ where[c] = "preparing"
    /\ \/ Begin(c, where) /\ UNCHANGED refused
       \/ /\ where' = [where EXCEPT ![c] = Over(c)]
          /\ refused' = TRUE
          /\ UNCHANGED <<abortRef, loopVars, loading, steerOff>>
    /\ UNCHANGED <<queues, compactVars, stopped, calm>>

\* A timer sends "Continue.".  Bound: one that finds all of Continues under
\* way is not sent.
Schedule(S) ==
    LET free == {k \in Continues : S[k] = "unsent"} IN
    IF free = {} THEN S
    ELSE [S EXCEPT ![CHOOSE k \in free : TRUE] = "scheduled"]

\* What the finally block does with a deferred compaction and the queue;
\* end is where its call goes then.
FinallyQueue(c, end) ==
    IF pendingCompact
    THEN /\ pendingCompact' = compacting
         /\ UNCHANGED <<queue, compacts>>
         /\ \/ /\ ~compacting
               /\ compacting' = TRUE
               /\ summary' = [summary EXCEPT !["deferred"] = TRUE]
               /\ where' = [where EXCEPT ![c] = end]
            \/ /\ where' = Schedule([where EXCEPT ![c] = end])
               /\ UNCHANGED <<compacting, summary>>
    ELSE /\ UNCHANGED compactVars
         /\ IF retryPending \/ queue = <<>>
            THEN /\ where' = [where EXCEPT ![c] = end]
                 /\ UNCHANGED queue
            ELSE /\ where' = [where EXCEPT ![c] = end, ![Head(queue)] = "scheduled"]
                 /\ queue' = Tail(queue)

\* The rest of the finally block when c leaves the loop: the controller is
\* let go whoever holds it, and the locals of c are gone.
Leave(c) ==
    /\ abortRef' = NoCall
    /\ loading' = (loading /\ retryPending)
    /\ signal' = [signal EXCEPT ![c] = FALSE]
    /\ stalled' = [stalled EXCEPT ![c] = FALSE]
    /\ tries' = [tries EXCEPT ![c] = 0]
    /\ stopped' = stopped \ {c}

\* The stream has ended and the loop is left.  A stream that a stall has
\* aborted does not get here.
StreamEnds(c) ==
    /\ where[c] = "streaming" /\ c \notin opening
    /\ ~(stalled[c] /\ signal[c] /\ ~userAborted)
    /\ FinallyQueue(c, Over(c))
    /\ Leave(c)
    /\ UNCHANGED <<opening, userAborted, stallCount, retryPending, queueRef, steerOff, calm, refused>>

\* An error the loop retries: a transient one or a truncated output within
\* its budget, or a stall.  The finally block waits until after the backoff.
IsStallRetry(c) ==
    signal[c] /\ stalled[c] /\ ~userAborted /\ stallCount =< MaxStalls

\* Mutant of StreamRetries: the finally block's reset comes before the backoff.
StreamRetriesUnheld(c) ==
    /\ where[c] = "streaming"
    /\ \/ IsStallRetry(c) /\ UNCHANGED tries
       \/ /\ ~IsStallRetry(c) /\ ~signal[c] /\ tries[c] < MaxRetries
          /\ tries' = [tries EXCEPT ![c] = @ + 1]
    /\ retryPending' = TRUE
    /\ opening' = opening \ {c}
    /\ where' = [where EXCEPT ![c] = "backoff"]
    /\ abortRef' = NoCall
    /\ UNCHANGED <<signal, stalled, userAborted, stallCount, loading, queues,
                   steerOff, compactVars, history>>

StreamRetries(c) ==
    /\ where[c] = "streaming"
    /\ \/ IsStallRetry(c) /\ UNCHANGED tries
       \/ /\ ~IsStallRetry(c) /\ ~signal[c] /\ tries[c] < MaxRetries
          /\ tries' = [tries EXCEPT ![c] = @ + 1]
    /\ retryPending' = TRUE
    /\ opening' = opening \ {c}
    /\ where' = [where EXCEPT ![c] = "backoff"]
    /\ UNCHANGED <<abortRef, signal, stalled, userAborted, stallCount, loading, queues,
                   steerOff, compactVars, history>>

\* After the backoff: finally, then the head of the loop.
Retry(c) ==
    /\ where[c] = "backoff"
    /\ FinallyQueue(c, "streaming")
    /\ LoopTop(c)
    /\ UNCHANGED <<tries, stallCount, queueRef, history>>

\* Any other error, the user's abort among them: it is shown, the finally
\* block runs, and nothing leaves the loop.
StreamFails(c) ==
    /\ where[c] = "streaming"
    /\ ~IsStallRetry(c)
    /\ FinallyQueue(c, "streaming")
    /\ LoopTop(c)
    /\ tries' = [tries EXCEPT ![c] = IF @ < MaxRetries THEN @ + 1 ELSE @]
    /\ UNCHANGED <<stallCount, queueRef, history>>

\* The watchdog: no activity for too long.
Stall(c) ==
    /\ where[c] = "streaming" /\ c \notin opening
    /\ ~signal[c]
    /\ stalled' = [stalled EXCEPT ![c] = TRUE]
    /\ signal' = [signal EXCEPT ![c] = TRUE]
    /\ stallCount' = IF stallCount < StallCap THEN stallCount + 1 ELSE stallCount
    /\ UNCHANGED <<where, abortRef, tries, opening, userAborted, retryPending, loading, queues,
                   steerOff, compactVars, history>>

\* drainSteering, between two steps of the agent: the whole queue of the last
\* render goes into the running stream; a prompt queued since is lost.
Steer(c) ==
    /\ where[c] = "streaming" /\ c \notin opening
    /\ ~signal[c]
    /\ ~steerOff
    /\ queueRef # <<>>
    /\ where' = [m \in Calls |->
                   IF where[m] # "queued" THEN where[m]
                   ELSE IF \E i \in DOMAIN queueRef : queueRef[i] = m THEN "gone" ELSE "lost"]
    /\ queue' = <<>> /\ queueRef' = <<>>
    /\ UNCHANGED <<abortRef, loopVars, loading, steerOff, compactVars, history>>

----------------------------------------------------------------------------
(* The user.                                                               *)

\* Mutant of Type: the queue has no end.
TypeEndlessly(m) ==
    /\ where[m] = "unsent"
    /\ IF loading \/ compacting
       THEN /\ queue' = Append(queue, m)
            /\ where' = [where EXCEPT ![m] = "queued"]
            /\ UNCHANGED <<abortRef, loopVars, loading, steerOff, calm, refused>>
       ELSE HandleSubmit(m) /\ UNCHANGED queue
    /\ UNCHANGED <<queueRef, compactVars, stopped>>

\* The input box: queued while the tab is busy, if there is room.
Type(m) ==
    /\ where[m] = "unsent"
    /\ IF loading \/ compacting
       THEN /\ IF Len(queue) < MaxQueue
               THEN /\ queue' = Append(queue, m)
                    /\ where' = [where EXCEPT ![m] = "queued"]
               ELSE /\ where' = [where EXCEPT ![m] = "gone"]
                    /\ UNCHANGED queue
            /\ UNCHANGED <<abortRef, loopVars, loading, steerOff, calm, refused>>
       ELSE HandleSubmit(m) /\ UNCHANGED queue
    /\ UNCHANGED <<queueRef, compactVars, stopped>>

\* A message from a remote surface does not ask whether the tab is busy.
SendRemotely(m) ==
    /\ where[m] = "unsent"
    /\ HandleSubmit(m)
    /\ UNCHANGED <<queues, compactVars, stopped>>

\* The timer of a drained or continuing prompt.
Scheduled(c) ==
    /\ where[c] = "scheduled"
    /\ HandleSubmit(c)
    /\ UNCHANGED <<queues, compactVars, stopped>>

\* React renders the tab with the new queue.
Render ==
    /\ queueRef # queue
    /\ queueRef' = queue
    /\ UNCHANGED <<where, abortRef, loopVars, loading, queue, steerOff, compactVars, history>>

\* Mutant of Abort: the queue is emptied before the turn's prompts are marked.
AbortKeepsNoQueue ==
    /\ userAborted' = TRUE
    /\ compacting' = FALSE
    /\ IF abortRef = NoCall
       THEN UNCHANGED <<where, abortRef, signal, loading, queues, steerOff, stopped, calm>>
       ELSE /\ signal' = [signal EXCEPT ![abortRef] = TRUE]
            /\ stopped' = stopped \cup {abortRef}
            /\ calm' = FALSE
            /\ abortRef' = NoCall
            /\ loading' = FALSE
            /\ steerOff' = TRUE
            /\ queue' = <<>> /\ queueRef' = <<>>
            /\ UNCHANGED where
    /\ UNCHANGED <<stalled, tries, opening, stallCount, retryPending, pendingCompact, compacts, summary, refused>>

\* abort(): a running compaction is given up, the turn's controller aborted
\* and let go, the queue emptied.
Abort ==
    /\ userAborted' = TRUE
    /\ compacting' = FALSE
    /\ IF abortRef = NoCall
       THEN UNCHANGED <<where, abortRef, signal, loading, queues, steerOff, stopped, calm>>
       ELSE /\ signal' = [signal EXCEPT ![abortRef] = TRUE]
            /\ stopped' = stopped \cup {abortRef}
            /\ calm' = FALSE
            /\ abortRef' = NoCall
            /\ loading' = FALSE
            /\ steerOff' = TRUE
            /\ queue' = <<>> /\ queueRef' = <<>>
            /\ where' = [m \in Calls |-> IF where[m] = "queued" THEN "gone" ELSE where[m]]
    /\ UNCHANGED <<stalled, tries, opening, stallCount, retryPending, pendingCompact, compacts, summary, refused>>

\* summarizeConversation, asked for by the user or by the context's size.
\* Bound: none while another one runs.
Compact ==
    /\ \A k \in Summaries : ~summary[k]
    /\ compacts < MaxCompacts
    /\ compacts' = compacts + 1
    /\ IF compacting \/ abortRef # NoCall
       THEN pendingCompact' = TRUE /\ UNCHANGED <<compacting, summary>>
       ELSE /\ compacting' = TRUE
            /\ summary' = [summary EXCEPT !["asked"] = TRUE]
            /\ UNCHANGED pendingCompact
    /\ UNCHANGED <<where, abortRef, loopVars, loading, queues, steerOff, history>>

\* Mutant of CompactEnds: the queue is left to the next turn.
CompactEndsQuietly(k) ==
    /\ summary[k]
    /\ summary' = [summary EXCEPT ![k] = FALSE]
    /\ compacting' = FALSE
    /\ IF k = "deferred" THEN where' = Schedule(where) ELSE UNCHANGED where
    /\ UNCHANGED <<queues, abortRef, loopVars, loading, steerOff, pendingCompact, compacts, history>>

\* The end of a compaction: one that was asked for sends the next queued
\* prompt, a deferred one continues the turn.
CompactEnds(k) ==
    /\ summary[k]
    /\ summary' = [summary EXCEPT ![k] = FALSE]
    /\ compacting' = FALSE
    /\ IF k = "deferred"
       THEN where' = Schedule(where) /\ UNCHANGED queue
       ELSE IF queue = <<>> THEN UNCHANGED <<where, queue>>
       ELSE /\ where' = [where EXCEPT ![Head(queue)] = "scheduled"]
            /\ queue' = Tail(queue)
    /\ UNCHANGED <<queueRef, abortRef, loopVars, loading, steerOff, pendingCompact, compacts, history>>

----------------------------------------------------------------------------
Next ==
    \/ Abort \/ Compact \/ Render
    \/ \E k \in Summaries : CompactEnds(k)
    \/ \E m \in Prompts : Type(m) \/ SendRemotely(m)
    \/ \E c \in Calls :
         \/ Scheduled(c) \/ Prepared(c) \/ Opens(c) \/ Steer(c) \/ Stall(c)
         \/ StreamEnds(c) \/ StreamRetries(c) \/ StreamFails(c) \/ Retry(c)

\* Timers fire, the tab is rendered, and every stream is opened and comes to an
\* end of some kind: the provider answers, or fails, or the watchdog, where one
\* is configured, aborts it.
Fairness ==
    /\ \A c \in Calls :
         /\ WF_vars(Scheduled(c)) /\ WF_vars(Prepared(c)) /\ WF_vars(Retry(c))
         /\ WF_vars(Opens(c))
         /\ WF_vars(StreamEnds(c) \/ StreamRetries(c) \/ StreamFails(c))
    /\ \A k \in Summaries : WF_vars(CompactEnds(k))
    /\ WF_vars(Render)

Spec == Init /\ [][Next]_vars /\ Fairness

----------------------------------------------------------------------------
(* Properties.                                                             *)

\* As long as the user has not aborted and no call has awaited a hook or an
\* image, a tab has one stream at most: drained prompts, continuations,
\* remote messages and retries never overlap (useChat.ts 1703-1704, 3594).
OneStreamWhileCalm ==
    calm => Cardinality(Live) =< 1

\* The queue and the prompts marked as queued are the same: no prompt is lost
\* between the two or sent while it is still queued (useChat.ts 2296, 4121).
QueueHoldsQueued ==
    /\ {queue[i] : i \in DOMAIN queue} = {m \in Calls : where[m] = "queued"}
    /\ Cardinality({m \in Calls : where[m] = "queued"}) = Len(queue)

\* A queued prompt does not stay queued: a turn, a compaction or an abort
\* takes it out.  The exception is a prompt before it that a hook refuses, or
\* that finds no model selected, which ends without the finally block
\* (useChat.ts 1342-1353, 1706-1727, 4117-4131).
QueueMoves ==
    \A m \in Prompts : where[m] = "queued" ~> where[m] # "queued" \/ refused

\* A call the user has stopped does not stream again ("User abort (Ctrl-X)
\* always wins", useChat.ts 3607).
AbortWins == \A c \in stopped : where[c] = "streaming" => signal[c]
=============================================================================
