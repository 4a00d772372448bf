-------------------------- MODULE MCDirectoryLoads --------------------------
(***************************************************************************)
(* Instances of DirectoryLoads for TLC: directory 1 holds nothing but      *)
(* directory 2, so the compact projection shows the two as one row and a   *)
(* load of 1 takes two reads.                                              *)
(***************************************************************************)
EXTENDS DirectoryLoads

MCSessions    == {1, 2}
MCSession     == {1}
MCDirs        == {1, 2}
MCDir         == {1}
MCChain       == [d \in MCDirs |-> IF d = 1 THEN <<1, 2>> ELSE <<2>>]
MCFlatChain   == [d \in MCDir |-> <<d>>]
=============================================================================
