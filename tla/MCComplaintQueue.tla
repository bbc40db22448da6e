-------------------------- MODULE MCComplaintQueue --------------------------
(* Small instances of ComplaintQueue: the .cfg files give the bounds.      *)
EXTENDS ComplaintQueue, TLC

CONSTANTS p1, p2

MCIds == 1..2
MCTwoProcs == {p1, p2}
MCOneProc == {p1}

\* Processes are only compared, so the two may be swapped.
Symmetry == Permutations(MCTwoProcs)
=============================================================================
