-------------------------------- MODULE Feed --------------------------------
(***************************************************************************)
(* What publishing promises the proxies.  The monitor publishes versions   *)
(* of the list of instances; a proxy that takes one takes the current one  *)
(* or one that is on its way, and never goes back to an older one.  Only a *)
(* proxy that starts again knows nothing.                                  *)
(***************************************************************************)
EXTENDS Integers

CONSTANT Proxy

VARIABLES
  published,   \* the number of the current version
  got          \* per proxy: the version it works with, -1 for none

vars == <<published, got>>

Init == published = 0 /\ got = [p \in Proxy |-> -1]

Publish == published' = published + 1 /\ UNCHANGED got

Take(p) ==
  /\ \E v \in (got[p] + 1)..published : got' = [got EXCEPT ![p] = v]
  /\ UNCHANGED published

Forget(p) == got' = [got EXCEPT ![p] = -1] /\ UNCHANGED published

Next == Publish \/ \E p \in Proxy : Take(p) \/ Forget(p)

Spec == Init /\ [][Next]_vars
=============================================================================
