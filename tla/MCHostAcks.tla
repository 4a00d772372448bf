----------------------------- MODULE MCHostAcks -----------------------------
(***************************************************************************)
(* Instances of HostAcks for TLC: two windows on one tree.                 *)
(***************************************************************************)
EXTENDS HostAcks

CONSTANTS w1, w2, j1, j2

MCSessions == {w1, w2}
MCJobs     == {j1, j2}

\* Each window makes a request, or the first makes both.
MCEach  == (j1 :> w1) @@ (j2 :> w2)
MCFirst == (j1 :> w1) @@ (j2 :> w1)

-----------------------------------------------------------------------------
(* The larger run has one trouble per behaviour: either a channel fails,   *)
(* or the tree changes under the first window's request.                   *)
VARIABLE trouble

mcVars == <<trouble, vars>>

MCInit == Init /\ trouble \in {"channel", "tree"}

Allowed ==
  CASE trouble = "channel" -> version' = version \/ job' # job
    [] trouble = "tree" -> job'[j2] = job[j2] /\ \A s \in Sessions : session'[s].state # "gone" /\ ~Disposed(s)'

MCNext == Next /\ Allowed /\ UNCHANGED trouble

MCSpec == MCInit /\ [][MCNext]_mcVars /\ Fairness
=============================================================================
