------------------------------- MODULE MCPage -------------------------------
(***************************************************************************)
(* A page whose table has lengths to choose from in the proportions of the *)
(* menu 10, 25, 50, 100 and rows for more pages than there are numbers.    *)
(***************************************************************************)
EXTENDS Page
=============================================================================
