---------------------------- MODULE Permissions ----------------------------
(***************************************************************************)
(* The questions a tab asks its user while a turn runs: permission for web *)
(* access and for writes outside the project (each behind a promise chain  *)
(* that serves as a mutex), permission for destructive actions, and the    *)
(* agent's own questions.  All share one place on the screen.  Web access  *)
(* and questions are also sent to the user's phone through the Hearth      *)
(* bridge, and the first answer wins.                                      *)
(*                                                                         *)
(* useChat.ts 1404-1543, 1637-1672, 4183-4198; bridge.ts 805-855.          *)
(***************************************************************************)
EXTENDS Naturals, Sequences, FiniteSets

CONSTANTS
    WebAsks,          \* web_search and fetch_page: one mutex, local and remote
    OutsideAsks,      \* writes outside the project: one mutex, local only
    DestructiveAsks,  \* destructive actions: no mutex, local only
    Questions,        \* ask_user: no mutex, local and remote
    NoAsk

Asks == WebAsks \cup OutsideAsks \cup DestructiveAsks \cup Questions
Gated == WebAsks \cup OutsideAsks
Gates == {"web", "outside"}
Gate(a) == IF a \in WebAsks THEN "web" ELSE "outside"
HasRemote(a) == a \in WebAsks \cup Questions

ASSUME AsksFinite == IsFiniteSet(Asks)
ASSUME AsksDisjoint ==
    /\ NoAsk \notin Asks
    /\ WebAsks \cap (OutsideAsks \cup DestructiveAsks \cup Questions) = {}
    /\ OutsideAsks \cap (DestructiveAsks \cup Questions) = {}
    /\ DestructiveAsks \cap Questions = {}

VARIABLES
    phase,   \* of the tab: no turn, a turn, a turn the user has aborted
    status,  \* of each ask: not made, in its mutex's chain, posted, decided
    line,    \* mutexRef: the asks behind each mutex, in order
    holder,  \* the ask whose turn it is at each mutex
    auto,    \* autoApproveRef: "Allow all (session)" was chosen
    slot,    \* the pendingQuestion state, last value set
    shown,   \* pendingQuestionRef: the value of the last render
    remote,  \* of each ask: its callback in the bridge's pendingCallbacks
    active,  \* remoteApprovalActiveRef
    cancelling, \* an abort waits for the import of the bridge, then cancels
    heard    \* the asks the user has said yes to (history)

vars == <<phase, status, line, holder, auto, slot, shown, remote, active,
          cancelling, heard>>

Undecided(a) == status[a] \in {"chained", "posted"}
Pending(r, S) == {a \in S : r[a] = "pending"}

TypeOK ==
    /\ phase \in {"idle", "running", "aborted"}
    /\ status \in [Asks -> {"idle", "chained", "posted", "allowed", "denied"}]
    /\ line \in [Gates -> Seq(Gated)]
    /\ holder \in [Gates -> Gated \cup {NoAsk}]
    /\ auto \in [Gates -> BOOLEAN]
    /\ slot \in Asks \cup {NoAsk}
    /\ shown \in Asks \cup {NoAsk}
    /\ remote \in [Asks -> {"none", "importing", "pending", "closed"}]
    /\ active \in Nat
    /\ cancelling \in BOOLEAN
    /\ heard \subseteq Asks

Init ==
    /\ phase = "idle"
    /\ status = [a \in Asks |-> "idle"]
    /\ line = [m \in Gates |-> <<>>]
    /\ holder = [m \in Gates |-> NoAsk]
    /\ auto = [m \in Gates |-> FALSE]
    /\ slot = NoAsk
    /\ shown = NoAsk
    /\ remote = [a \in Asks |-> "none"]
    /\ active = 0
    /\ cancelling = FALSE
    /\ heard = {}

----------------------------------------------------------------------------
(* What several handlers have in common.                                   *)

\* The promise of a settles; the chain behind it goes on.
Decide(a, answer) ==
    /\ status' = [status EXCEPT ![a] = answer]
    /\ holder' = [m \in Gates |-> IF holder[m] = a THEN NoAsk ELSE holder[m]]

\* setPendingQuestion with the prompt of a; its remote half waits for the
\* import of the bridge.
Post(a) ==
    /\ status' = [status EXCEPT ![a] = "posted"]
    /\ slot' = a
    /\ remote' = [remote EXCEPT ![a] = IF HasRemote(a) THEN "importing" ELSE @]

\* Mutant of CancelRemotes: the callbacks that are gone already are taken off
\* the counter as well.
CancelRemotesTwice ==
    /\ remote' = [a \in Asks |-> IF remote[a] = "pending" THEN "closed" ELSE remote[a]]
    /\ active' = active - Cardinality({a \in WebAsks : remote[a] \in {"pending", "closed"}})

\* cancelRemoteCallbacksForTab: every callback of the tab is answered with
\* null, which decides nothing.
CancelRemotes ==
    /\ remote' = [a \in Asks |-> IF remote[a] = "pending" THEN "closed" ELSE remote[a]]
    /\ active' = active - Cardinality(Pending(remote, WebAsks))

\* The resolve function of the prompt on the screen, called with an answer.
\* Only a gated prompt that was sent to the phone withdraws it.
ResolveLocal(a, answer) ==
    /\ IF Undecided(a) THEN Decide(a, answer) ELSE UNCHANGED <<status, holder>>
    /\ slot' = IF Undecided(a) \/ a \in DestructiveAsks THEN NoAsk ELSE slot

Withdraw(a) ==
    IF Undecided(a) /\ a \in WebAsks /\ remote[a] \in {"pending", "closed"}
    THEN CancelRemotes
    ELSE UNCHANGED <<remote, active>>

----------------------------------------------------------------------------
(* The turn.                                                               *)

StartTurn ==
    /\ phase = "idle"
    /\ phase' = "running"
    /\ slot' = NoAsk
    /\ UNCHANGED <<status, line, holder, auto, shown, remote, active, cancelling, heard>>

\* abort(): the prompt on the screen is resolved with "__skipped__"; the tab's
\* callbacks are cancelled once the bridge has been imported.
Abort ==
    /\ phase = "running"
    /\ phase' = "aborted"
    /\ cancelling' = TRUE
    /\ IF shown = NoAsk
       THEN UNCHANGED <<status, holder, slot, remote, active>>
       ELSE /\ IF Undecided(shown) THEN Decide(shown, "denied")
                                   ELSE UNCHANGED <<status, holder>>
            /\ slot' = NoAsk
            /\ Withdraw(shown)
    /\ UNCHANGED <<line, auto, shown, heard>>

\* The import of the abort resolves, before or after those of prompts asked
\* earlier or later.  Two aborts under way at once count as one.
AbortImported ==
    /\ cancelling
    /\ cancelling' = FALSE
    /\ CancelRemotes
    /\ UNCHANGED <<phase, status, line, holder, auto, slot, shown, heard>>

\* The finally block of handleSubmit.  Tools of an aborted or failed turn may
\* still be waiting for their answers.
TurnEnds ==
    /\ phase # "idle"
    /\ phase' = "idle"
    /\ slot' = NoAsk
    /\ UNCHANGED <<status, line, holder, auto, shown, remote, active, cancelling, heard>>

----------------------------------------------------------------------------
(* Asking.                                                                 *)

\* A gated prompt is called: approved at once after "Allow all", else it
\* queues behind its mutex.
CallGated(a) ==
    /\ phase = "running"
    /\ status[a] = "idle"
    /\ IF auto[Gate(a)]
       THEN /\ status' = [status EXCEPT ![a] = "allowed"]
            /\ UNCHANGED line
       ELSE /\ status' = [status EXCEPT ![a] = "chained"]
            /\ line' = [line EXCEPT ![Gate(a)] = Append(@, a)]
    /\ UNCHANGED <<phase, holder, auto, slot, shown, remote, active, cancelling, heard>>

\* The promise before it has settled: look at "Allow all" again, then post.
Enter(m) ==
    /\ holder[m] = NoAsk
    /\ line[m] # <<>>
    /\ line' = [line EXCEPT ![m] = Tail(@)]
    /\ LET a == Head(line[m]) IN
       IF auto[m]
       THEN /\ status' = [status EXCEPT ![a] = "allowed"]
            /\ UNCHANGED <<holder, slot, remote>>
       ELSE /\ holder' = [holder EXCEPT ![m] = a]
            /\ Post(a)
    /\ UNCHANGED <<phase, auto, shown, active, cancelling, heard>>

\* promptDestructive and onAskUser post at once.
CallUngated(a) ==
    /\ phase = "running"
    /\ status[a] = "idle"
    /\ Post(a)
    /\ UNCHANGED <<phase, line, holder, auto, shown, active, cancelling, heard>>

\* Mutant of Imported: the prompt is sent to the phone without a second look at done.
ImportedAnyway(a) ==
    /\ remote[a] = "importing"
    /\ remote' = [remote EXCEPT ![a] = "pending"]
    /\ active' = IF a \in WebAsks THEN active + 1 ELSE active
    /\ UNCHANGED <<phase, status, line, holder, auto, slot, shown, cancelling, heard>>

\* The import of the bridge resolves.  A prompt decided meanwhile is not sent;
\* without a bound chat or a live bridge askRemote falls back at once.
Imported(a) ==
    /\ remote[a] = "importing"
    /\ \E live \in BOOLEAN :
         IF Undecided(a) /\ live
         THEN /\ remote' = [remote EXCEPT ![a] = "pending"]
              /\ active' = IF a \in WebAsks THEN active + 1 ELSE active
         ELSE /\ remote' = [remote EXCEPT ![a] = "closed"]
              /\ UNCHANGED active
    /\ UNCHANGED <<phase, status, line, holder, auto, slot, shown, cancelling, heard>>

----------------------------------------------------------------------------
(* Answers.                                                                *)

Render ==
    /\ shown # slot
    /\ shown' = slot
    /\ UNCHANGED <<phase, status, line, holder, auto, slot, remote, active, cancelling, heard>>

\* The user answers the prompt on the screen; always is "Allow all (session)".
LocalAnswer(a, yes, always) ==
    /\ shown = a
    /\ always => yes /\ a \in Gated
    /\ ResolveLocal(a, IF yes THEN "allowed" ELSE "denied")
    /\ Withdraw(a)
    /\ auto' = IF always /\ Undecided(a) THEN [auto EXCEPT ![Gate(a)] = TRUE] ELSE auto
    /\ heard' = IF yes THEN heard \cup {a} ELSE heard
    /\ UNCHANGED <<phase, line, shown, cancelling>>

\* A callback leaves pendingCallbacks.
Close(a) ==
    /\ remote[a] = "pending"
    /\ remote' = [remote EXCEPT ![a] = "closed"]
    /\ active' = IF a \in WebAsks THEN active - 1 ELSE active

\* Mutant of RemoteAnswer: the remote answer settles whether or not the prompt was done.
RemoteAnswerAgain(a, yes) ==
    /\ Close(a)
    /\ Decide(a, IF yes THEN "allowed" ELSE "denied")
    /\ slot' = NoAsk
    /\ heard' = IF yes THEN heard \cup {a} ELSE heard
    /\ UNCHANGED <<phase, line, auto, shown, cancelling>>

\* resolveRemoteCallback with an answer the prompt understands.
RemoteAnswer(a, yes) ==
    /\ Close(a)
    /\ IF Undecided(a)
       THEN /\ Decide(a, IF yes THEN "allowed" ELSE "denied")
            /\ slot' = NoAsk
       ELSE UNCHANGED <<status, holder, slot>>
    /\ heard' = IF yes THEN heard \cup {a} ELSE heard
    /\ UNCHANGED <<phase, line, auto, shown, cancelling>>

\* Mutant of RemoteExpires: a request that expires on the phone counts as a yes.
RemoteExpiresAllows(a) ==
    /\ Close(a)
    /\ IF Undecided(a)
       THEN Decide(a, "allowed") /\ slot' = NoAsk
       ELSE UNCHANGED <<status, holder, slot>>
    /\ UNCHANGED <<phase, line, auto, shown, cancelling, heard>>

\* The five-minute timer, or an answer the prompt does not understand: the
\* fallback decides nothing.
RemoteExpires(a) ==
    /\ Close(a)
    /\ UNCHANGED <<phase, status, line, holder, auto, slot, shown, cancelling, heard>>

Next ==
    \/ StartTurn \/ Abort \/ AbortImported \/ TurnEnds \/ Render
    \/ \E m \in Gates : Enter(m)
    \/ \E a \in Gated : CallGated(a)
    \/ \E a \in DestructiveAsks \cup Questions : CallUngated(a)
    \/ \E a \in Asks : Imported(a) \/ RemoteExpires(a)
    \/ \E a \in Asks, yes \in BOOLEAN : RemoteAnswer(a, yes)
    \/ \E a \in Asks, yes, always \in BOOLEAN : LocalAnswer(a, yes, always)

Spec == Init /\ [][Next]_vars

----------------------------------------------------------------------------
(* Properties.                                                             *)

\* Nothing is permitted that the user has not permitted: an allowed ask was
\* answered yes on the screen or the phone, or an earlier one behind the same
\* mutex was answered "Allow all"; aborts, time-outs, fallbacks and cancels
\* never allow (useChat.ts 1437-1471).
NoSilentAllow ==
    /\ \A a \in Asks : status[a] = "allowed" =>
         \/ a \in heard
         \/ a \in Gated /\ auto[Gate(a)]
    /\ \A m \in Gates : auto[m] => \E b \in heard \cap Gated : Gate(b) = m

\* The counter that pauses the stall watchdog equals the number of
\* permission prompts waiting on the phone, through every settle, time-out,
\* cancel and abort (useChat.ts 447-450, 1450, 1474).
WatchdogCountsRemotes == active = Cardinality(Pending(remote, WebAsks))

\* A permission prompt that has been decided has no callback left on the
\* phone: the button does not outlive the decision, also when the decision
\* came while the bridge was still being imported (useChat.ts 1422-1425, 1448).
DecidedPromptsLeavePhone ==
    \A a \in WebAsks : remote[a] = "pending" => status[a] = "posted"

\* A decision is final: the second of two answers, a late time-out or an
\* abort does not change it (the done flags, useChat.ts 1418, 1643).
DecisionsFinal ==
    [][\A a \in Asks : status[a] \in {"allowed", "denied"} => status'[a] = status[a]]_vars

=============================================================================
