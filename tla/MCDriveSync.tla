---------------------------- MODULE MCDriveSync ----------------------------
(***************************************************************************)
(* Instances of DriveSync for TLC: two replicas that can reach each other, *)
(* where both make versions or only the first does.                        *)
(***************************************************************************)
EXTENDS DriveSync, TLC

CONSTANTS r1, r2

MCPair      == {r1, r2}
MCPairLinks == {{r1, r2}}
MCAuthor    == {r1}

Symmetry == Permutations(MCPair)
=============================================================================
