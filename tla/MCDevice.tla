------------------------------ MODULE MCDevice ------------------------------
(***************************************************************************)
(* Device for model checking.                                              *)
(***************************************************************************)
EXTENDS Device, TLC

ThreadSymmetry == Permutations(Threads)

=============================================================================
