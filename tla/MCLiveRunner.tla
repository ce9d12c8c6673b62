---------------------------- MODULE MCLiveRunner ----------------------------
(* The instances of LiveRunner that TLC checks; values are in the .cfg files. *)
EXTENDS LiveRunnerProofs, TLC

\* Every definition treats the codes alike.
CodeSymmetry == Permutations(Codes)
=============================================================================
