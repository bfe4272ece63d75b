----------------------------- MODULE MCPublish -----------------------------
(***************************************************************************)
(* Publish on a small instance: two proxies, two connections, two changes, *)
(* one fault, and channels short enough to be full.                        *)
(***************************************************************************)
EXTENDS Publish
=============================================================================
