----------------------------- MODULE MCRegistry -----------------------------
(***************************************************************************)
(* Registry on small instances.  Endpoints are model values; liveness is   *)
(* checked with safety, so no symmetry is declared.                        *)
(*                                                                         *)
(* MCRegistry          two endpoints, two stops or failed writes           *)
(* MCRegistryRestart   two endpoints, a save that is interrupted           *)
(***************************************************************************)
EXTENDS Registry
=============================================================================
