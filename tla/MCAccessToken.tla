---------------------------- MODULE MCAccessToken ----------------------------
(***************************************************************************)
(* AccessToken for TLC.  The constants are given in the .cfg files; worker *)
(* threads are interchangeable, and so are the secrets, and the runs that  *)
(* use the symmetry check invariants and action properties only.           *)
(***************************************************************************)
EXTENDS AccessToken, TLC

Symmetry == Permutations(Worker) \cup Permutations(Secret)
================================================================================
