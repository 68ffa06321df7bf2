----------------------------- MODULE AgentPool -----------------------------
(***************************************************************************)
(* What the dispatch tool promises its caller about the agents of one      *)
(* dispatch, with the mechanism left out: an agent starts only after every *)
(* agent it depends on has succeeded, at most MaxConcurrent agents work at *)
(* any time, an agent is skipped only because a dependency failed, and an  *)
(* outcome, once reached, is final.                                        *)
(***************************************************************************)
EXTENDS Naturals, FiniteSets

CONSTANTS
  Agents,         (* the tasks of the dispatch                             *)
  MaxConcurrent   (* how many agents may work at the same time             *)

VARIABLES
  deps,           (* deps[a]: the agents that must complete before a       *)
  status          (* status[a]: how far a has come                         *)

vars == <<deps, status>>

Working == {a \in Agents : status[a] = "working"}

TypeOK ==
  /\ deps \in [Agents -> SUBSET Agents]
  /\ status \in [Agents -> {"waiting", "working", "succeeded", "failed"}]

Init ==
  /\ deps \in [Agents -> SUBSET Agents]
  /\ status = [a \in Agents |-> "waiting"]

(* An agent starts when its dependencies have all succeeded and there is   *)
(* room in the pool.                                                       *)
Start(a) ==
  /\ status[a] = "waiting"
  /\ \A d \in deps[a] : status[d] = "succeeded"
  /\ Cardinality(Working) < MaxConcurrent
  /\ status' = [status EXCEPT ![a] = "working"]
  /\ UNCHANGED deps

Finish(a) ==
  /\ status[a] = "working"
  /\ \E s \in {"succeeded", "failed"} : status' = [status EXCEPT ![a] = s]
  /\ UNCHANGED deps

(* An agent is given up without running only if a dependency failed.       *)
Skip(a) ==
  /\ status[a] = "waiting"
  /\ \E d \in deps[a] : status[d] = "failed"
  /\ status' = [status EXCEPT ![a] = "failed"]
  /\ UNCHANGED deps

Next == \E a \in Agents : Start(a) \/ Finish(a) \/ Skip(a)

Spec == Init /\ [][Next]_vars
=============================================================================
