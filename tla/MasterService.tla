--------------------------- MODULE MasterService ---------------------------
(***************************************************************************)
(* What the cluster promises the users of the service mysql-master, with   *)
(* none of the monitor's steps in it: there is one place where writes are  *)
(* acknowledged, an acknowledged write is never missing from it, and the   *)
(* place may move, by a handover that loses nothing.                       *)
(*                                                                         *)
(* The promise ends where the program cannot keep it: the monitor process  *)
(* stops in the middle of a handover it has not saved, and the operator is *)
(* told of a master the servers have left; or the next place was taken for *)
(* one that has every write, by a comparison of two different files.       *)
(***************************************************************************)
CONSTANTS Server, Write

VARIABLES
  primary,   \* the server that acknowledges writes
  accepted,  \* the writes it has acknowledged
  cutShort   \* a handover was interrupted or misled: no promise from there on

avars == <<primary, accepted, cutShort>>

AInit ==
  /\ primary \in Server
  /\ accepted = {}
  /\ cutShort = FALSE

Accept ==
  /\ ~cutShort
  /\ \E w \in Write \ accepted : accepted' = accepted \cup {w}
  /\ UNCHANGED <<primary, cutShort>>

Handover ==
  /\ ~cutShort
  /\ primary' \in Server
  /\ UNCHANGED <<accepted, cutShort>>

Lapse ==
  /\ cutShort' = TRUE
  /\ primary' \in Server
  /\ accepted' \in SUBSET Write

ANext == Accept \/ Handover \/ Lapse

ASpec == AInit /\ [][ANext]_avars
=============================================================================
