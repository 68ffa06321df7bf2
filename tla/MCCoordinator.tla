--------------------------- MODULE MCCoordinator ---------------------------
(* Names for the small instances of Coordinator that TLC checks.           *)
EXTENDS Coordinator

CONSTANTS tabA, tabB, fileA, d1, d2
=============================================================================
