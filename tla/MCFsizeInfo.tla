---------------------------- MODULE MCFsizeInfo ----------------------------
(* Model values and symmetry for the runs of FsizeInfo. *)
EXTENDS FsizeInfo, TLC

ClientSymmetry == Permutations(Clients)

=============================================================================
