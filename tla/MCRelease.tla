----------------------------- MODULE MCRelease -----------------------------
(***************************************************************************)
(* Instances of Release for TLC.                                           *)
(***************************************************************************)
EXTENDS Release, TLC

\* The runs are interchangeable.
RunSymmetry == Permutations(Runs)
=============================================================================
