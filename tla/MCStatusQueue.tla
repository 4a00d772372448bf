--------------------------- MODULE MCStatusQueue ---------------------------
(***************************************************************************)
(* Instances of StatusQueue for TLC.  Two driver identities, so that a     *)
(* second driver could show up next to the first; one in the liveness run, *)
(* which uses that none does (OneRun).                                     *)
(***************************************************************************)
EXTENDS StatusQueue, TLC

CONSTANTS p1, p2, t1, t2, o1, o2, c1

MCPaths   == {p1, p2}
MCTasks   == {t1, t2}
MCTask    == {t1}
MCOps     == {o1, o2}
MCOp      == {o1}
MCNoOps   == {}
MCCallers == {c1}

Symmetry == Permutations(MCPaths) \cup Permutations(MCTasks) \cup Permutations(MCOps)
=============================================================================
