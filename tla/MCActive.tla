------------------------------ MODULE MCActive ------------------------------
(***************************************************************************)
(* Active instantiated for model checking.                                 *)
(***************************************************************************)
EXTENDS Active, TLC

\* The threads run the same code: any permutation of them is a symmetry of
\* the specification.  Used for the safety runs only.
ThreadSymmetry == Permutations(Threads)

=============================================================================
