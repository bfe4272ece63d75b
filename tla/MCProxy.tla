------------------------------ MODULE MCProxy ------------------------------
(***************************************************************************)
(* Proxy on small instances.                                               *)
(*                                                                         *)
(* MCProxy       two connections, which race in the lookup, and two        *)
(*               targets; safety and liveness, hence no symmetry           *)
(* MCProxySafe   two clients of a service with one target, as mysql-master *)
(***************************************************************************)
EXTENDS Proxy
=============================================================================
