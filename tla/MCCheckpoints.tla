--------------------------- MODULE MCCheckpoints ---------------------------
EXTENDS Checkpoints

\* Tabs, prompts and files are told apart by nothing.
Symmetry == Permutations(Tabs) \cup Permutations(Prompts) \cup Permutations(Files)
=============================================================================
