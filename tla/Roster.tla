------------------------------- MODULE Roster -------------------------------
(***************************************************************************)
(* What the monitor promises about the roles it keeps.  An endpoint takes  *)
(* a role that is open and may lose it; the one way from a role to another *)
(* is a promotion, in which the one promoted and the primary change places *)
(* and nobody else is moved.  A request, a list of running instances, a    *)
(* save or a restart is one of these, or nothing.                          *)
(*                                                                         *)
(* The promise lapses when a restart reads roles that were not all saved.  *)
(***************************************************************************)
CONSTANTS Endpoint, Nobody

VARIABLES
  primary,   \* Endpoint, or Nobody
  backup,    \* Endpoint, or Nobody
  replicas,  \* a set of endpoints
  lapsed

seats == <<primary, backup, replicas>>
vars  == <<seats, lapsed>>

Held == ({primary, backup} \cup replicas) \ {Nobody}

Init ==
  /\ primary \in Endpoint \cup {Nobody}
  /\ backup \in (Endpoint \cup {Nobody}) \ ({primary} \ {Nobody})
  /\ replicas \in SUBSET (Endpoint \ {primary, backup})
  /\ lapsed = FALSE

\* The first to come has to be the primary.
Enter(e) ==
  /\ e \notin Held
  /\ \/ primary = Nobody /\ primary' = e /\ UNCHANGED <<backup, replicas>>
     \/ primary # Nobody /\ backup = Nobody /\ backup' = e /\ UNCHANGED <<primary, replicas>>
     \/ primary # Nobody /\ replicas' = replicas \cup {e} /\ UNCHANGED <<primary, backup>>

Depart ==
  /\ primary' \in {primary, Nobody}
  /\ backup' \in {backup, Nobody}
  /\ replicas' \in SUBSET replicas

Promote(e) ==
  /\ primary # Nobody /\ e \in Held \ {primary}
  /\ primary' = e
  /\ IF e = backup
     THEN backup' = primary /\ replicas' = replicas
     ELSE backup' = backup /\ replicas' = (replicas \ {e}) \cup {primary}

Lapse ==
  /\ lapsed' = TRUE
  /\ primary' \in Endpoint \cup {Nobody}
  /\ backup' \in Endpoint \cup {Nobody}
  /\ replicas' \in SUBSET Endpoint

Next ==
  \/ /\ ~lapsed /\ UNCHANGED lapsed
     /\ Depart \/ \E e \in Endpoint : Enter(e) \/ Promote(e)
  \/ Lapse

Spec == Init /\ [][Next]_vars
=============================================================================
