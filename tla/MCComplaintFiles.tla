-------------------------- MODULE MCComplaintFiles --------------------------
(* Small instances of ComplaintFiles: the .cfg files give the bounds.      *)
EXTENDS ComplaintFiles, TLC

\* Contents and threads are only compared, so they may be permuted.
Symmetry == Permutations(Contents) \cup Permutations(Threads)
=============================================================================
