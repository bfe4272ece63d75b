------------------------------- MODULE MCNoty -------------------------------
(***************************************************************************)
(* Noty on a small instance: three bars that take their turn, a plain one, *)
(* one without timeout and one forced and modal, and a modal growl.        *)
(***************************************************************************)
EXTENDS Noty
=============================================================================
