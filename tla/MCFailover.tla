----------------------------- MODULE MCFailover -----------------------------
(***************************************************************************)
(* Failover on small instances; servers and writes are model values.  The  *)
(* roles tell the servers apart, so no symmetry is declared.               *)
(*                                                                         *)
(* MCFailover          a master and a standby, both operated, one write,   *)
(*                     one fault; safety and the refinement                *)
(* MCFailoverSlave     a slave beside them, which is promoted or has to be *)
(*                     repointed; no write, no fault; what a switch leaves *)
(*                     and what the proxies learn of it                    *)
(* MCFailoverPaused,   claims of the documentation, no fault at all        *)
(* MCFailoverSynced                                                        *)
(***************************************************************************)
EXTENDS Failover, TLC
=============================================================================
