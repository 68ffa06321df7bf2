----------------------------- MODULE MCDispatch -----------------------------
(* Small instances of Dispatch for TLC.                                    *)
EXTENDS Dispatch

(* Four tasks, listed before the ones they depend on: two wait for a task  *)
(* that itself waits for the last.                                         *)
FanOut == << {3}, {3}, {4}, {} >>

FanOutOnly == {FanOut}

(* The fan-out; a diamond whose last task waits for both sides; a chain.   *)
TangledGraphs == {FanOut, << {}, {1}, {1}, {2, 3} >>, << {}, {1}, {2}, {3} >>}

=============================================================================
