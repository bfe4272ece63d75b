------------------------------ MODULE MCToggle ------------------------------
(***************************************************************************)
(* Toggle on a small instance: two switches whose handles move between 0   *)
(* and 2, on a page whose places are 0 to 3.                               *)
(***************************************************************************)
EXTENDS Toggle, TLC

Interchangeable == Permutations(Box)
=============================================================================
