---------------------------- MODULE SwitchProofs ----------------------------
(***************************************************************************)
(* More theorems about Failover: the roles remain a partition of the       *)
(* servers, and change as Roster allows; a switch, wherever it fails, tries *)
(* to leave the master writable, and one that goes through leaves a        *)
(* cluster that replicates; every operation comes nearer to its end with   *)
(* each of its steps.                                                      *)
(***************************************************************************)
EXTENDS FailoverProofs, FiniteSetTheorems

(***************************************************************************)
(* The roles.  A restart takes them from the files, so that the files have *)
(* to hold a partition as well; the exchange needs a candidate that is not *)
(* the master, which was tested when the request came.                     *)
(***************************************************************************)

Partition(m, b, s) ==
  /\ m # b /\ m \notin s /\ b \notin s
  /\ {m} \cup s \cup ({b} \ {NoServer}) = Server

Switching == {"kill", "readonly", "rekill", "check", "recheck", "reverse", "stop", "change"}

RolesInv ==
  /\ Partition(master, standby, slave)
  /\ Partition(saved[1], saved[2], saved[3])
  /\ pc \in Switching => cand # master

LEMMA InitRoles == Init => RolesInv
BY ServerAssumption DEF Init, RolesInv, Partition, Switching, roles

\* The exchange of two roles keeps the partition.
LEMMA ExchangePartitions ==
  ASSUME Partition(master, standby, slave), master \in Server, cand \in Server, cand # master,
         ExchangeRoles
  PROVE  Partition(master', standby', slave')
<1>0. NoServer \notin Server
  BY ServerAssumption
<1>1. CASE cand # standby
  <2>1. master' = cand /\ standby' = standby /\ slave' = (slave \cup {master}) \ {cand}
    BY <1>1 DEF ExchangeRoles
  <2>2. {cand} \cup slave' = {master} \cup slave
    BY <1>1, <2>1 DEF Partition
  <2> QED BY <1>1, <2>1, <2>2 DEF Partition
<1>2. CASE cand = standby
  <2>1. master' = cand /\ standby' = master /\ slave' = slave
    BY <1>2 DEF ExchangeRoles
  <2> QED BY <1>0, <1>2, <2>1 DEF Partition
<1> QED BY <1>1, <1>2

LEMMA RolesStep == TypeOK /\ PlaceInv /\ RolesInv /\ [Next]_vars => RolesInv'
<1> SUFFICES ASSUME TypeOK, PlaceInv, RolesInv, [Next]_vars PROVE RolesInv'
  OBVIOUS
<1> USE DEF RolesInv
<1>0. UNCHANGED <<roles, saved>> => UNCHANGED <<master, standby, slave, saved>>
  BY DEF roles
<1>1. ASSUME NEW e \in Operated, Operate(e) PROVE RolesInv'
  <2>1. UNCHANGED <<roles, saved>> /\ pc' \in {"request", "kill"} /\ (pc' = "kill" => cand' # master)
    BY <1>1 DEF Operate, Active, Detach, Pause, Resume, Switch, Request
  <2> QED BY <1>0, <2>1 DEF Switching
<1>2. CASE \/ PreKill \/ EnableReadOnly \/ PostKill \/ CheckCandidate \/ CheckReverse
           \/ StopOldMaster \/ RestartOldMaster \/ Reopen
  <2>1. UNCHANGED <<roles, saved>> /\ (pc' \in Switching => pc \in Switching /\ cand' = cand)
    BY <1>2 DEF PreKill, EnableReadOnly, PostKill, CheckCandidate, CheckReverse, StopOldMaster,
       RestartOldMaster, Reopen, Switching, quiet, loop, local, Locals
  <2> QED BY <1>0, <2>1
<1>3. CASE RequestCall \/ Repoint \/ Repointed \/ (\E s \in Server : RepointSlave(s)) \/ Inspect
  <2>1. UNCHANGED <<roles, saved>> /\ pc' \notin Switching
    BY <1>3 DEF RequestCall, Repoint, Repointed, RepointSlave, Inspect, Switching, quiet
  <2> QED BY <1>0, <2>1
<1>4. CASE ChangeOldMaster
  <2>1. CASE ExchangeRoles
    <3>1. master \in Server /\ cand \in Server /\ cand # master
      BY <1>4 DEF ChangeOldMaster, PlaceInv, CandidateKnown, Switching, TypeOK, roles, RoleTable
    <3>2. Partition(master', standby', slave')
      BY <2>1, <3>1, ExchangePartitions
    <3>3. UNCHANGED saved /\ pc' \notin Switching
      BY <1>4 DEF ChangeOldMaster, Switching
    <3> QED BY <3>2, <3>3 DEF Partition
  <2>2. CASE UNCHANGED roles
    BY <1>0, <1>4, <2>2 DEF ChangeOldMaster, Switching
  <2> QED BY <1>4, <2>1, <2>2 DEF ChangeOldMaster
<1>5. CASE SaveConfig
  <2>1. saved'[1] = master /\ saved'[2] = standby /\ saved'[3] = slave /\ pc' \notin Switching
        /\ UNCHANGED <<master, standby, slave>>
    BY <1>5 DEF SaveConfig, Switching, roles
  <2> QED BY <2>1 DEF Partition
<1>6. CASE MonitorRestart
  BY <1>6 DEF MonitorRestart, Switching
<1>7. CASE Connect \/ (\E s \in Server : Environment(s)) \/ UNCHANGED vars
  <2>1. UNCHANGED <<roles, saved, pc, cand>>
    BY <1>7 DEF Connect, Environment, Commit, Fetch, Execute, Arrive, ServerStop, ServerStart, monitor, loop, local, vars
  <2> QED BY <1>0, <2>1
<1> QED BY <1>1, <1>2, <1>3, <1>4, <1>5, <1>6, <1>7 DEF Next, Step

\* A switch neither drops the old master nor leaves the new one among the
\* slaves, for any number of servers and whatever fails.
THEOREM RolesArePartition == Spec => []RolesPartition
<1>1. Init => RolesInv
  BY InitRoles
<1>2. IInv /\ RolesInv /\ [Next]_vars => RolesInv'
  BY RolesStep DEF IInv, PlaceInv
<1>3. IInv /\ RolesInv => RolesPartition
  <2> SUFFICES ASSUME IInv, RolesInv PROVE RolesPartition
    OBVIOUS
  <2>1. master \in Server /\ Partition(master, standby, slave)
    BY DEF IInv, TypeOK, roles, RoleTable, RolesInv
  <2> QED BY <2>1 DEF Partition, RolesPartition, Others
<1> QED BY <1>1, <1>2, <1>3, Invariance, PTL DEF Spec

-----------------------------------------------------------------------------
(***************************************************************************)
(* The refinement: the roles are a Roster, the same that Registry's table  *)
(* implements.  Registry makes a switch in one step; this is what the many *)
(* steps of one come to.                                                   *)
(***************************************************************************)

Seats == INSTANCE Roster WITH
  Endpoint <- Server, primary <- master, backup <- standby, replicas <- slave,
  lapsed <- interrupted, Nobody <- NoServer

\* However a switch goes and whatever stops, roles change by the promotion of the
\* candidate in the place of the master, and in no other way, until the monitor
\* stops between an exchange and its save.
RosterKept == Seats!Spec

LEMMA ExchangePromotes ==
  ASSUME Partition(master, standby, slave), master \in Server, cand \in Server, cand # master,
         ExchangeRoles
  PROVE  Seats!Promote(cand)
<1>1. master # NoServer /\ cand # NoServer
  BY ServerAssumption
<1>2. cand \in Seats!Held \ {master}
  BY <1>1 DEF Partition, Seats!Held
<1> QED BY <1>1, <1>2 DEF ExchangeRoles, Seats!Promote

LEMMA SeatsStep ==
  IInv /\ IInv' /\ RolesInv /\ [Next]_vars => [Seats!Next]_(Seats!vars)
<1> SUFFICES ASSUME IInv, IInv', RolesInv, [Next]_vars PROVE [Seats!Next]_(Seats!vars)
  OBVIOUS
<1>0. /\ TypeOK /\ TypeOK'
      /\ interrupted \in BOOLEAN /\ interrupted' \in BOOLEAN
  BY DEF IInv, TypeOK, HistoryOK
<1>1. CASE interrupted'
  <2>1. interrupted' = TRUE
    BY <1>0, <1>1, Zenon
  <2>2. /\ master' \in Server \cup {NoServer} /\ standby' \in Server \cup {NoServer}
        /\ slave' \in SUBSET Server
    BY <1>0 DEF TypeOK, roles, RoleTable
  <2>3. Seats!Lapse
    BY <2>1, <2>2 DEF Seats!Lapse
  <2> QED BY <2>3 DEF Seats!Next
<1>2. CASE ~interrupted'
  <2>1. ~interrupted /\ UNCHANGED interrupted
    <3>1. ~interrupted
      BY <1>0, <1>2, InterruptedStep
    <3> QED BY <1>0, <1>2, <3>1, Zenon
  <2>2. CASE UNCHANGED <<master, standby, slave>>
    BY <2>1, <2>2 DEF Seats!vars, Seats!seats
  <2>3. CASE ChangeOldMaster /\ ExchangeRoles
    <3>1. master \in Server /\ cand \in Server /\ cand # master
      BY <1>0, <2>3 DEF ChangeOldMaster, IInv, CandidateKnown, Switching, RolesInv, TypeOK, roles,
         RoleTable
    <3>2. Seats!Promote(cand)
      BY <2>3, <3>1, ExchangePromotes DEF RolesInv
    <3> QED BY <2>1, <3>1, <3>2 DEF Seats!Next
  <2>4. CASE MonitorRestart
    <3>1. roles = saved
      BY <1>2, <2>4, Zenon DEF MonitorRestart
    <3>2. UNCHANGED <<master, standby, slave>>
      BY <2>4, <3>1 DEF MonitorRestart, roles
    <3> QED BY <2>2, <3>2
  <2>5. ChangeOldMaster \/ MonitorRestart \/ UNCHANGED roles
    BY DEF Next, Step, Operate, Active, Detach, Pause, Resume, Switch, Request, RequestCall, PreKill,
       EnableReadOnly, PostKill, CheckCandidate, CheckReverse, StopOldMaster, RestartOldMaster,
       Repoint, Repointed, RepointSlave, Reopen, SaveConfig, Inspect, quiet, Connect, Environment,
       Commit, Fetch, Execute, Arrive, ServerStop, ServerStart, monitor, vars
  <2>6. ChangeOldMaster => ExchangeRoles \/ UNCHANGED roles
    BY DEF ChangeOldMaster
  <2> QED BY <2>2, <2>3, <2>4, <2>5, <2>6 DEF roles
<1> QED BY <1>1, <1>2

\* The steps of a switch, its failures and the restarts of the monitor come to what
\* Registry does in one step or not at all, for any number of servers and faults.
THEOREM ImplementsRoster == Spec => RosterKept
<1>1. Init => Seats!Init
  <2> SUFFICES ASSUME Init PROVE Seats!Init
    OBVIOUS
  <2>1. interrupted = FALSE
    BY Zenon DEF Init
  <2> QED BY <2>1, ServerAssumption DEF Init, Seats!Init
<1>2. Init => RolesInv
  BY InitRoles
<1>3. IInv /\ RolesInv /\ [Next]_vars => RolesInv'
  BY RolesStep DEF IInv, PlaceInv
<1> QED BY <1>1, <1>2, <1>3, SeatsStep, Invariance, PTL DEF Spec, RosterKept, Seats!Spec

-----------------------------------------------------------------------------
(***************************************************************************)
(* As long as nothing has failed every server is up, so that no call is    *)
(* refused for want of one, and the call that reopens the master is the    *)
(* last before the save.                                                   *)
(***************************************************************************)

FaultlessInv == faults = 0 => up = Server /\ (pc = "save" => master \notin readOnly)

\* Faults are only counted up.
LEMMA CallCounts ==
  ASSUME TypeOK, NEW c \in CallSet, CallStep(c)
  PROVE  /\ faults' = 0 => faults = 0
         /\ UNCHANGED up
         /\ (c.op = "writable" /\ faults' = 0 /\ up = Server) => c.at \notin readOnly'
<1>0. c.at \in Server /\ c.op \in Ops
  BY DEF CallSet
<1>1. CASE Succeeds(c)
  BY <1>1 DEF Succeeds, Do
<1>2. CASE Fails(c)
  <2>1. CASE ~Can(c) /\ UNCHANGED <<servers, faults>>
    <3>1. c.op = "writable" => c.at \notin up
      BY <2>1 DEF Can
    <3> QED BY <1>0, <2>1, <3>1 DEF servers
  <2>2. CASE faults' = faults + 1
    <3>1. faults' # 0
      BY <2>2 DEF TypeOK, ServersOK
    <3>2. UNCHANGED up
      BY <1>2 DEF Fails, servers, Do
    <3> QED BY <3>1, <3>2
  <2> QED BY <1>2, <2>1, <2>2 DEF Fails
<1> QED BY <1>1, <1>2 DEF CallStep

LEMMA FaultlessStep == TypeOK /\ FaultlessInv /\ [Next]_vars => FaultlessInv'
<1> SUFFICES ASSUME TypeOK, FaultlessInv, [Next]_vars PROVE FaultlessInv'
  OBVIOUS
<1> USE DEF FaultlessInv
<1>0. master \in Server /\ cand \in Server \cup {NoServer} /\ todo \in Seq(CallSet) /\ faults \in Nat
  BY DEF TypeOK, roles, RoleTable, LoopOK, ServersOK
<1>1. ASSUME NEW e \in Operated, Operate(e) PROVE FaultlessInv'
  BY <1>1 DEF Operate, Active, Detach, Pause, Resume, Switch, Request, servers
<1>2. CASE PreKill \/ EnableReadOnly
  <2>1. pc' # "save" /\ \E c \in CallSet : CallStep(c)
    BY <1>0, <1>2, CallTypes DEF PreKill, EnableReadOnly, CallStep
  <2> QED BY <2>1, CallCounts
<1>3. CASE PostKill \/ StopOldMaster \/ ChangeOldMaster \/ RestartOldMaster \/ Repoint
  <2>1. pc' # "save" /\ \E c \in CallSet : CallStep(c)
    BY <1>0, <1>3, CallTypes, TailOfCalls DEF PostKill, StopOldMaster, ChangeOldMaster, RestartOldMaster,
       Repoint, CallStep
  <2> QED BY <2>1, CallCounts
<1>4. CASE RequestCall
  <2>1. pc = "request" /\ pc' \in {"idle", "request"} /\ CallStep(Head(todo)) /\ todo # <<>>
    BY <1>4 DEF RequestCall, CallStep
  <2> QED BY <1>0, <2>1, TailOfCalls, CallCounts
<1>5. CASE Reopen
  <2>1. SetWritable(master) \in CallSet /\ SetWritable(master).op = "writable"
        /\ SetWritable(master).at = master /\ CallStep(SetWritable(master))
    BY <1>0, <1>5, CallTypes DEF Reopen, CallStep, SetWritable, Call
  <2>2. master' = master
    BY <1>5 DEF Reopen, quiet, roles
  <2> QED BY <2>1, <2>2, CallCounts
<1>6. CASE CheckCandidate \/ CheckReverse \/ Repointed \/ (\E s \in Server : RepointSlave(s))
  BY <1>6 DEF CheckCandidate, CheckReverse, Repointed, RepointSlave, servers
<1>7. CASE SaveConfig
  BY <1>7 DEF SaveConfig, servers, roles
<1>8. CASE Inspect
  BY <1>8 DEF Inspect, servers
<1>9. CASE MonitorRestart
  BY <1>0, <1>9 DEF MonitorRestart, servers
<1>10. CASE Connect \/ UNCHANGED vars
  BY <1>10 DEF Connect, monitor, roles, vars, servers
<1>11. ASSUME NEW s \in Server, Environment(s) PROVE FaultlessInv'
  <2>1. pc' = pc /\ master' = master
    BY <1>11 DEF Environment, Commit, Fetch, Execute, Arrive, ServerStop, ServerStart, monitor, roles
  <2>2. CASE Commit(s) \/ Fetch(s) \/ Execute(s) \/ Arrive(s)
    BY <2>1, <2>2 DEF Commit, Fetch, Execute, Arrive
  <2>3. CASE ServerStop(s)
    BY <1>0, <2>3 DEF ServerStop
  <2>4. CASE ServerStart(s)
    BY <2>1, <2>4 DEF ServerStart
  <2> QED BY <1>11, <2>2, <2>3, <2>4 DEF Environment
<1> QED BY <1>1, <1>2, <1>3, <1>4, <1>5, <1>6, <1>7, <1>8, <1>9, <1>10, <1>11 DEF Next, Step

\* Whatever a switch fails at after read_only = 1, a call that is refused or lost or
\* the check of the candidate, it does not come back to the select, nor to the save,
\* before it has sent read_only = 0, and it leaves the master closed only if that
\* call fails too, or the monitor stops.
THEOREM SwitchesReopen == Spec => SwitchReopens
<1>1. [Next]_vars => ~LeftClosed
  <2> SUFFICES ASSUME [Next]_vars, LeftClosed PROVE FALSE
    OBVIOUS
  <2> USE DEF LeftClosed, Closed
  <2>1. CASE Reopen
    <3>1. Succeeds(SetWritable(master)) /\ master' = master
      BY <2>1 DEF Reopen, quiet, roles
    <3>2. readOnly' = readOnly \ {master}
      BY <3>1 DEF Succeeds, Do, SetWritable, Call
    <3> QED BY <3>1, <3>2
  <2>2. ~(\E e \in Operated : Operate(e)) /\ ~Inspect
    BY DEF Operate, Active, Detach, Pause, Resume, Switch, Request, Inspect
  <2>3. ~Step \/ Reopen
    BY DEF Step, RequestCall, PreKill, EnableReadOnly, PostKill, CheckCandidate, CheckReverse,
       StopOldMaster, ChangeOldMaster, RestartOldMaster, Repoint, RepointSlave, Repointed,
       SaveConfig
  <2>4. Connect \/ (\E s \in Server : Environment(s)) \/ UNCHANGED vars => UNCHANGED pc
    BY DEF Connect, Environment, Commit, Fetch, Execute, Arrive, ServerStop, ServerStart,
       monitor, vars
  <2> QED BY <2>1, <2>2, <2>3, <2>4 DEF Next
<1> QED BY <1>1, PTL DEF Spec, SwitchReopens

-----------------------------------------------------------------------------
(***************************************************************************)
(* A switch whose calls all went through leaves a cluster that works.      *)
(* From the exchange of the roles on no error is looked at, so that the    *)
(* state of the servers has to follow from the calls already made: one     *)
(* conjunct for each place in the sequence of calls.                       *)
(***************************************************************************)

\* The statements that make s a replica of m, and those that make m one of b
\* again, where the two were mutual.
Reattach(s, m) == <<StopSlave(s), ChangeMasterTo(s, m), StartSlave(s)>>
Return(m, b)   == IF b = NoServer \/ reverse = "oneWay" THEN <<>>
                  ELSE <<ChangeMasterTo(m, b), StartSlave(m)>>

Follows(S) == \A s \in S : source[s] = master /\ s \in running

Promoted ==
  /\ Follows({standby} \ {NoServer})
  /\ source[master] = IF reverse = "mutual" THEN standby ELSE NoServer

\* The reattachment of s is under way: what it has done holds.
Reattaching(s, rest) ==
  \/ todo = Reattach(s, master) \o rest
  \/ todo = Tail(Reattach(s, master)) \o rest /\ s \notin running
  \/ todo = <<StartSlave(s)>> \o rest /\ s \notin running /\ source[s] = master

Detaching ==
  \/ todo = Promotion(master, standby)
  \/ todo = Tail(Promotion(master, standby)) /\ master \notin running

PairUp ==
  /\ standby # NoServer /\ master \notin running /\ source[master] = NoServer
  /\ Reattaching(standby, Return(master, standby))

Returning ==
  /\ standby # NoServer /\ reverse = "mutual" /\ Follows({standby})
  /\ \/ todo = Return(master, standby) /\ master \notin running
     \/ todo = <<StartSlave(master)>> /\ source[master] = standby

SlavesUp ==
  /\ Promoted
  /\ \/ todo = <<>> /\ Follows(slave \ left)
     \/ \E s \in slave \ left : Follows(slave \ (left \cup {s})) /\ Reattaching(s, <<>>)

PromotionUnderWay == (left = slave /\ (Detaching \/ PairUp \/ Returning)) \/ SlavesUp

\* The way back to the select, with the roles exchanged and not yet saved.
Finishing == pc = "save" \/ (pc = "reopen" /\ roles # saved)

CompletionInv ==
  faults = 0 =>
    /\ pc = "repoint" => master = cand /\ left \subseteq slave /\ PromotionUnderWay
    /\ Finishing => master = cand /\ Promoted /\ Follows(slave)

\* With every server up and no fault a call is only refused by the state of
\* the slave threads.
LEMMA FaultlessCall ==
  ASSUME ServersOK, NEW c \in CallSet, CallStep(c), faults' = 0, up = Server
  PROVE  /\ c.op = "stop" => running' = running \ {c.at} /\ source' = source
         /\ c.op = "start" /\ source[c.at] # NoServer
              => running' = running \cup {c.at} /\ source' = source
         /\ c.op = "reset" /\ c.at \notin running
              => running' = running /\ source' = [source EXCEPT ![c.at] = c.to]
         /\ c.op = "change" /\ c.at \notin running /\ c.to # NoServer
              => running' = running /\ source' = [source EXCEPT ![c.at] = c.to]
         /\ c.op \in {"kill", "readonly", "writable"} => running' = running /\ source' = source
<1>0. c.at \in Server /\ c.op \in Ops /\ faults \in Nat
  BY DEF CallSet, ServersOK
<1>1. CASE Do(c)
  BY <1>0, <1>1 DEF Do
<1>2. CASE ~Can(c) /\ UNCHANGED servers
  BY <1>0, <1>2 DEF Can, servers
<1>3. faults' # faults + 1
  BY <1>0
<1> QED BY <1>1, <1>2, <1>3 DEF CallStep, Succeeds, Fails

LEMMA FirstCall ==
  ASSUME NEW c \in CallSet, NEW rest \in Seq(CallSet)
  PROVE  <<c>> \o rest # <<>> /\ Head(<<c>> \o rest) = c /\ Tail(<<c>> \o rest) = rest
<1>1. Len(<<c>> \o rest) = Len(rest) + 1 /\ (<<c>> \o rest)[1] = c
  OBVIOUS
<1>2. Tail(<<c>> \o rest) = rest
  <2>1. Len(Tail(<<c>> \o rest)) = Len(rest)
    BY <1>1
  <2>2. \A i \in 1..Len(rest) : Tail(<<c>> \o rest)[i] = rest[i]
    BY <1>1
  <2> QED BY <2>1, <2>2
<1> QED BY <1>1, <1>2

LEMMA PairOfCalls ==
  ASSUME NEW c \in CallSet, NEW d \in CallSet
  PROVE  <<c, d>> = <<c>> \o <<d>>
<1>1. <<c>> \o <<d>> \in Seq(CallSet) /\ Len(<<c>> \o <<d>>) = 2
      /\ (<<c>> \o <<d>>)[1] = c /\ (<<c>> \o <<d>>)[2] = d
  OBVIOUS
<1>2. <<c, d>> \in Seq(CallSet) /\ Len(<<c, d>>) = 2 /\ <<c, d>>[1] = c /\ <<c, d>>[2] = d
  OBVIOUS
<1>3. \A i \in 1..2 : <<c, d>>[i] = (<<c>> \o <<d>>)[i]
  BY <1>1, <1>2
<1> QED BY <1>1, <1>2, <1>3, SeqEqual

LEMMA ThreeCalls ==
  ASSUME NEW c \in CallSet, NEW d \in CallSet, NEW e \in CallSet
  PROVE  <<c, d, e>> \in Seq(CallSet) /\ Len(<<c, d, e>>) = 3
  OBVIOUS

\* The sequences of calls, one call at a time.
LEMMA ReattachShape ==
  ASSUME NEW s \in Server, NEW m \in Server, NEW rest \in Seq(CallSet)
  PROVE  /\ Reattach(s, m) \o rest = <<StopSlave(s)>> \o (Tail(Reattach(s, m)) \o rest)
         /\ Tail(Reattach(s, m)) \o rest = <<ChangeMasterTo(s, m)>> \o (<<StartSlave(s)>> \o rest)
         /\ <<StartSlave(s)>> \o rest \in Seq(CallSet)
         /\ Tail(Reattach(s, m)) \o rest \in Seq(CallSet)
<1> DEFINE a == StopSlave(s)
           b == ChangeMasterTo(s, m)
           c == StartSlave(s)
<1>1. a \in CallSet /\ b \in CallSet /\ c \in CallSet
  BY CallTypes
<1>2. Reattach(s, m) = <<a, b, c>>
  BY DEF Reattach
<1> HIDE DEF a, b, c
<1>3. Tail(<<a, b, c>>) = <<b, c>>
  OBVIOUS
<1>4. <<c>> \o rest \in Seq(CallSet) /\ <<b, c>> \o rest \in Seq(CallSet)
  BY <1>1
<1>5. <<b, c>> \o rest = <<b>> \o (<<c>> \o rest)
  <2>1. <<b>> \in Seq(CallSet) /\ <<c>> \in Seq(CallSet)
    BY <1>1
  <2> QED BY <1>1, <2>1, PairOfCalls, ConcatAssociative
<1>6. <<a, b, c>> \o rest = <<a>> \o (<<b, c>> \o rest)
  BY <1>1
<1> QED BY <1>2, <1>3, <1>4, <1>5, <1>6 DEF a, b, c

LEMMA PromotionShape ==
  ASSUME NEW m \in Server, NEW b \in Server \cup {NoServer}
  PROVE  /\ Return(m, b) \in Seq(CallSet)
         /\ Promotion(m, b) = <<StopSlave(m)>> \o Tail(Promotion(m, b))
         /\ Tail(Promotion(m, b)) \in Seq(CallSet)
         /\ \E rest \in Seq(CallSet) :
              /\ Tail(Promotion(m, b)) = <<ResetSlave(m)>> \o rest
              /\ b = NoServer => rest = <<>>
              /\ b # NoServer => rest = Reattach(b, m) \o Return(m, b)
<1> DEFINE a      == StopSlave(m)
           r      == ResetSlave(m)
           second == IF b = NoServer THEN <<>> ELSE Reattach(b, m)
           third  == Return(m, b)
<1>1. a \in CallSet /\ r \in CallSet
  BY CallTypes
<1>2. second \in Seq(CallSet)
  <2>1. CASE b = NoServer
    BY <2>1
  <2>2. CASE b # NoServer
    BY <2>2, CallTypes, ThreeCalls DEF Reattach
  <2> QED BY <2>1, <2>2
<1>3. third \in Seq(CallSet)
  <2>1. ChangeMasterTo(m, b) \in CallSet /\ StartSlave(m) \in CallSet
    BY CallTypes
  <2> QED BY <2>1, TwoCalls DEF Return
<1>4. Promotion(m, b) = <<a, r>> \o second \o third
  BY DEF Promotion, Reattach, Return
<1>5. second \o third = IF b = NoServer THEN <<>> ELSE Reattach(b, m) \o Return(m, b)
  <2>1. CASE b = NoServer
    BY <2>1 DEF Return
  <2>2. CASE b # NoServer
    BY <2>2
  <2> QED BY <2>1, <2>2
<1> HIDE DEF a, r, second, third
<1>6. second \o third \in Seq(CallSet)
  BY <1>2, <1>3
<1>7. <<a, r>> \o second \o third = <<a>> \o (<<r>> \o (second \o third))
  <2>1. <<a, r>> = <<a>> \o <<r>> /\ <<a>> \in Seq(CallSet) /\ <<r>> \in Seq(CallSet)
    BY <1>1, PairOfCalls
  <2>2. <<a, r>> \o second \o third = <<a, r>> \o (second \o third)
    BY <1>1, <1>2, <1>3, TwoCalls, ConcatAssociative
  <2> QED BY <1>6, <2>1, <2>2, ConcatAssociative
<1>8. <<r>> \o (second \o third) \in Seq(CallSet)
  BY <1>1, <1>6
<1>9. Tail(Promotion(m, b)) = <<r>> \o (second \o third)
  BY <1>1, <1>4, <1>7, <1>8, FirstCall
<1> QED BY <1>3, <1>4, <1>5, <1>6, <1>7, <1>8, <1>9 DEF a, r, third

\* One call of a reattachment brings it a step further, or ends it with s a
\* running replica of the master; no other server is touched.
LEMMA ReattachStep ==
  ASSUME ServersOK, up = Server, master \in Server, UNCHANGED master,
         NEW s \in Server, NEW rest \in Seq(CallSet), Reattaching(s, rest),
         CallStep(Head(todo)), faults' = 0, todo' = Tail(todo)
  PROVE  /\ \A t \in Server \ {s} : source'[t] = source[t] /\ (t \in running' <=> t \in running)
         /\ \/ Reattaching(s, rest)'
            \/ todo' = rest /\ s \in running' /\ source'[s] = master
<1>0. /\ StopSlave(s) \in CallSet /\ StopSlave(s).op = "stop" /\ StopSlave(s).at = s
      /\ StartSlave(s) \in CallSet /\ StartSlave(s).op = "start" /\ StartSlave(s).at = s
      /\ ChangeMasterTo(s, master) \in CallSet /\ ChangeMasterTo(s, master).op = "change"
      /\ ChangeMasterTo(s, master).at = s /\ ChangeMasterTo(s, master).to = master
      /\ master # NoServer
  BY CallTypes, ServerAssumption DEF StopSlave, StartSlave, ChangeMasterTo, Call
<1>1. CASE todo = Reattach(s, master) \o rest
  <2>1. Head(todo) = StopSlave(s) /\ todo' = Tail(Reattach(s, master)) \o rest
    <3>1. todo = <<StopSlave(s)>> \o (Tail(Reattach(s, master)) \o rest)
          /\ Tail(Reattach(s, master)) \o rest \in Seq(CallSet)
      BY <1>1, ReattachShape
    <3> QED BY <1>0, <3>1, FirstCall
  <2>2. running' = running \ {s} /\ source' = source
    BY <1>0, <2>1, FaultlessCall
  <2> QED BY <2>1, <2>2 DEF Reattaching
<1>2. CASE todo = Tail(Reattach(s, master)) \o rest /\ s \notin running
  <2>1. Head(todo) = ChangeMasterTo(s, master) /\ todo' = <<StartSlave(s)>> \o rest
    <3>1. todo = <<ChangeMasterTo(s, master)>> \o (<<StartSlave(s)>> \o rest)
          /\ <<StartSlave(s)>> \o rest \in Seq(CallSet)
      BY <1>2, ReattachShape
    <3> QED BY <1>0, <3>1, FirstCall
  <2>2. running' = running /\ source' = [source EXCEPT ![s] = master]
    BY <1>0, <1>2, <2>1, FaultlessCall
  <2> QED BY <1>2, <2>1, <2>2 DEF Reattaching, ServersOK
<1>3. CASE todo = <<StartSlave(s)>> \o rest /\ s \notin running /\ source[s] = master
  <2>1. Head(todo) = StartSlave(s) /\ todo' = rest
    BY <1>0, <1>3, FirstCall
  <2>2. running' = running \cup {s} /\ source' = source
    BY <1>0, <1>3, <2>1, FaultlessCall
  <2> QED BY <1>3, <2>1, <2>2
<1> QED BY <1>1, <1>2, <1>3 DEF Reattaching

\* Each call of the promotion, and each of a slave's, brings the switch further.
LEMMA RepointCall ==
  ASSUME TypeOK, RolesInv, up = Server, PromotionUnderWay, Repoint, faults' = 0
  PROVE  PromotionUnderWay'
<1>0. /\ ServersOK /\ master \in Server /\ standby \in Server \cup {NoServer} /\ slave \subseteq Server
      /\ reverse \in {"oneWay", "mutual"} /\ todo \in Seq(CallSet)
      /\ UNCHANGED <<master, standby, slave, reverse, left>>
      /\ todo # <<>> /\ todo' = Tail(todo) /\ CallStep(Head(todo))
      /\ master # standby /\ master \notin slave /\ standby \notin slave /\ NoServer \notin Server
  BY ServerAssumption DEF local, Repoint, TypeOK, roles, RoleTable, LoopOK, RolesInv, Partition, CallStep
<1> DEFINE m == master
<1>1. /\ StopSlave(m) \in CallSet /\ StopSlave(m).op = "stop" /\ StopSlave(m).at = m
      /\ StartSlave(m) \in CallSet /\ StartSlave(m).op = "start" /\ StartSlave(m).at = m
      /\ ResetSlave(m) \in CallSet /\ ResetSlave(m).op = "reset" /\ ResetSlave(m).at = m
      /\ ResetSlave(m).to = NoServer
  BY <1>0, CallTypes DEF StopSlave, StartSlave, ResetSlave, Call
<1>2. Return(m, standby)' = Return(m, standby)
  BY <1>0 DEF Return
<1>3. CASE left = slave /\ todo = Promotion(m, standby)
  <2>1. Head(todo) = StopSlave(m) /\ todo' = Tail(Promotion(m, standby))
    <3>1. todo = <<StopSlave(m)>> \o Tail(Promotion(m, standby))
          /\ Tail(Promotion(m, standby)) \in Seq(CallSet)
      BY <1>0, <1>3, PromotionShape
    <3> QED BY <1>0, <1>1, <3>1, FirstCall
  <2>2. m \notin running'
    BY <1>0, <1>1, <2>1, FaultlessCall
  <2>3. Promotion(m, standby)' = Promotion(m, standby)
    BY <1>0 DEF Promotion
  <2> QED BY <1>0, <1>3, <2>1, <2>2, <2>3 DEF PromotionUnderWay, Detaching
<1>4. CASE left = slave /\ todo = Tail(Promotion(m, standby)) /\ m \notin running
  <2>1. PICK rest \in Seq(CallSet) :
          /\ todo = <<ResetSlave(m)>> \o rest
          /\ standby = NoServer => rest = <<>>
          /\ standby # NoServer => rest = Reattach(standby, m) \o Return(m, standby)
    BY <1>0, <1>4, PromotionShape
  <2>2. Head(todo) = ResetSlave(m) /\ todo' = rest
    BY <1>0, <1>1, <2>1, FirstCall
  <2>3. m \notin running' /\ source'[m] = NoServer
    BY <1>0, <1>1, <1>4, <2>2, FaultlessCall DEF ServersOK
  <2>4. CASE standby = NoServer
    <3>1. Promoted' /\ Follows(slave \ left)' /\ todo' = <<>>
      BY <1>0, <1>4, <2>1, <2>2, <2>3, <2>4 DEF Promoted, Follows
    <3> QED BY <3>1 DEF PromotionUnderWay, SlavesUp
  <2>5. CASE standby # NoServer
    <3>1. PairUp'
      BY <1>0, <1>2, <2>1, <2>2, <2>3, <2>5 DEF PairUp, Reattaching, Reattach
    <3> QED BY <1>0, <1>4, <3>1 DEF PromotionUnderWay
  <2> QED BY <2>4, <2>5
<1>5. CASE left = slave /\ PairUp
  <2>1. PICK b \in Server, rest \in Seq(CallSet) : b = standby /\ rest = Return(m, standby)
    BY <1>0, <1>5, PromotionShape DEF PairUp
  <2>2. Reattaching(b, rest)
    BY <1>5, <2>1 DEF PairUp
  <2>3. /\ \A t \in Server \ {b} : source'[t] = source[t] /\ (t \in running' <=> t \in running)
        /\ Reattaching(b, rest)' \/ (todo' = rest /\ b \in running' /\ source'[b] = m)
    BY <1>0, <2>2, ReattachStep
  <2>4. m \notin running' /\ source'[m] = NoServer
    BY <1>0, <1>5, <2>1, <2>3 DEF PairUp
  <2>5. CASE Reattaching(b, rest)'
    <3>1. PairUp'
      BY <1>0, <1>2, <1>5, <2>1, <2>4, <2>5 DEF PairUp, Reattaching
    <3> QED BY <1>0, <1>5, <3>1 DEF PromotionUnderWay
  <2>6. CASE todo' = rest /\ b \in running' /\ source'[b] = m
    <3>1. Follows({standby})'
      BY <1>0, <2>1, <2>6 DEF Follows
    <3>2. CASE reverse = "oneWay"
      <4>1. todo' = <<>> /\ Promoted'
        BY <1>0, <2>1, <2>4, <2>6, <3>1, <3>2 DEF Promoted, Follows, Return
      <4>2. Follows(slave \ left)'
        BY <1>0, <1>5 DEF Follows
      <4> QED BY <4>1, <4>2 DEF PromotionUnderWay, SlavesUp
    <3>3. CASE reverse = "mutual"
      <4>1. Returning'
        BY <1>0, <1>2, <1>5, <2>1, <2>4, <2>6, <3>1, <3>3 DEF PairUp, Returning
      <4> QED BY <1>0, <1>5, <4>1 DEF PromotionUnderWay
    <3> QED BY <1>0, <3>2, <3>3
  <2> QED BY <2>3, <2>5, <2>6
<1>6. CASE left = slave /\ Returning
  <2>0. standby \in Server /\ reverse = "mutual"
    BY <1>0, <1>6 DEF Returning
  <2>1. ChangeMasterTo(m, standby) \in CallSet /\ ChangeMasterTo(m, standby).op = "change"
        /\ ChangeMasterTo(m, standby).at = m /\ ChangeMasterTo(m, standby).to = standby
    BY <1>0, CallTypes DEF ChangeMasterTo, Call
  <2>2. CASE todo = Return(m, standby) /\ m \notin running
    <3>1. todo = <<ChangeMasterTo(m, standby), StartSlave(m)>>
      BY <1>0, <2>0, <2>2 DEF Return
    <3>2. Head(todo) = ChangeMasterTo(m, standby) /\ todo' = <<StartSlave(m)>>
      BY <1>0, <1>1, <2>1, <3>1
    <3>3. running' = running /\ source' = [source EXCEPT ![m] = standby]
      BY <1>0, <2>0, <2>1, <2>2, <3>2, FaultlessCall
    <3>4. Returning'
      BY <1>0, <1>6, <2>0, <3>2, <3>3 DEF Returning, Follows, ServersOK, StartSlave
    <3> QED BY <1>0, <1>6, <3>4 DEF PromotionUnderWay
  <2>3. CASE todo = <<StartSlave(m)>> /\ source[m] = standby
    <3>1. Head(todo) = StartSlave(m) /\ todo' = <<>>
      BY <1>0, <1>1, <2>3
    <3>2. running' = running \cup {m} /\ source' = source
      BY <1>0, <1>1, <2>0, <2>3, <3>1, FaultlessCall
    <3>3. Promoted' /\ Follows(slave \ left)'
      BY <1>0, <1>6, <2>0, <2>3, <3>2 DEF Returning, Promoted, Follows
    <3> QED BY <3>1, <3>3 DEF PromotionUnderWay, SlavesUp
  <2> QED BY <1>6, <2>2, <2>3 DEF Returning
<1>7. ASSUME Promoted, NEW s \in slave \ left, Follows(slave \ (left \cup {s})),
             Reattaching(s, <<>>)
      PROVE  PromotionUnderWay'
  <2>1. /\ \A t \in Server \ {s} : source'[t] = source[t] /\ (t \in running' <=> t \in running)
        /\ Reattaching(s, <<>>)' \/ (todo' = <<>> /\ s \in running' /\ source'[s] = m)
    <3>1. s \in Server /\ <<>> \in Seq(CallSet)
      BY <1>0
    <3> QED BY <1>0, <1>7, <3>1, ReattachStep
  <2>2. Promoted' /\ Follows(slave \ (left \cup {s}))'
    BY <1>0, <1>7, <2>1 DEF Promoted, Follows
  <2>3. CASE Reattaching(s, <<>>)'
    BY <1>0, <2>2, <2>3 DEF PromotionUnderWay, SlavesUp
  <2>4. CASE todo' = <<>> /\ s \in running' /\ source'[s] = m
    <3>1. Follows(slave \ left)'
      BY <1>0, <2>2, <2>4 DEF Follows
    <3> QED BY <2>2, <2>4, <3>1 DEF PromotionUnderWay, SlavesUp
  <2> QED BY <2>1, <2>3, <2>4
<1> QED BY <1>0, <1>3, <1>4, <1>5, <1>6, <1>7 DEF PromotionUnderWay, Detaching, SlavesUp

\* The exchange of the roles hands the promotion over to the calls.
LEMMA ExchangeHandsOver ==
  ASSUME ExchangeRoles, UNCHANGED <<cand, reverse>>
  PROVE  (master = cand /\ left \subseteq slave /\ PromotionUnderWay)'
<1>1. /\ master' = cand /\ left' = slave' /\ todo' = Promotion(master', standby')
  BY DEF ExchangeRoles
<1>2. Promotion(master', standby') = Promotion(master, standby)'
  BY DEF Promotion
<1> QED BY <1>1, <1>2 DEF PromotionUnderWay, Detaching

\* With no call left the pair is up, and every slave that is not left follows.
LEMMA NoCallLeft ==
  ASSUME TypeOK, PromotionUnderWay, todo = <<>>
  PROVE  Promoted /\ Follows(slave \ left)
<1>0. master \in Server /\ standby \in Server \cup {NoServer} /\ slave \subseteq Server
      /\ reverse \in {"oneWay", "mutual"}
  BY DEF TypeOK, roles, RoleTable, LoopOK
<1>1. ASSUME NEW s \in Server, NEW rest \in Seq(CallSet) PROVE ~Reattaching(s, rest)
  <2>1. /\ StopSlave(s) \in CallSet /\ ChangeMasterTo(s, master) \in CallSet
        /\ StartSlave(s) \in CallSet
    BY <1>0, CallTypes
  <2>2. Reattach(s, master) \o rest # <<>> /\ Tail(Reattach(s, master)) \o rest # <<>>
        /\ <<StartSlave(s)>> \o rest # <<>>
    <3>1. /\ Reattach(s, master) \o rest = <<StopSlave(s)>> \o (Tail(Reattach(s, master)) \o rest)
          /\ Tail(Reattach(s, master)) \o rest = <<ChangeMasterTo(s, master)>> \o (<<StartSlave(s)>> \o rest)
          /\ <<StartSlave(s)>> \o rest \in Seq(CallSet)
          /\ Tail(Reattach(s, master)) \o rest \in Seq(CallSet)
      BY <1>0, ReattachShape
    <3> QED BY <2>1, <3>1, FirstCall
  <2> QED BY <2>2 DEF Reattaching
<1>2. ~Detaching
  <2>1. StopSlave(master) \in CallSet /\ ResetSlave(master) \in CallSet
    BY <1>0, CallTypes
  <2>2. Promotion(master, standby) # <<>> /\ Tail(Promotion(master, standby)) # <<>>
    <3>1. PICK rest \in Seq(CallSet) :
            /\ Promotion(master, standby) = <<StopSlave(master)>> \o Tail(Promotion(master, standby))
            /\ Tail(Promotion(master, standby)) = <<ResetSlave(master)>> \o rest
            /\ Tail(Promotion(master, standby)) \in Seq(CallSet)
      BY <1>0, PromotionShape
    <3> QED BY <2>1, <3>1, FirstCall
  <2> QED BY <2>2 DEF Detaching
<1>3. ~PairUp
  BY <1>0, <1>1, PromotionShape DEF PairUp
<1>4. ~Returning
  <2>1. ~(standby # NoServer /\ reverse = "mutual" /\ todo = Return(master, standby))
    BY DEF Return
  <2> QED BY <2>1 DEF Returning
<1>5. \A s \in slave : ~Reattaching(s, <<>>)
  <2>1. <<>> \in Seq(CallSet)
    OBVIOUS
  <2> QED BY <1>0, <1>1, <2>1
<1> QED BY <1>2, <1>3, <1>4, <1>5 DEF PromotionUnderWay, SlavesUp

\* A step that touches neither the slave threads nor the roles nor the calls.
LEMMA CompletionKept ==
  ASSUME CompletionInv, UNCHANGED <<running, source, roles, cand, reverse, todo, left>>,
         faults' = 0 => faults = 0, pc' = "repoint" => pc = "repoint", Finishing' => Finishing
  PROVE  CompletionInv'
<1>1. UNCHANGED <<master, standby, slave>>
  BY DEF roles
<1>2. PromotionUnderWay' = PromotionUnderWay /\ Promoted' = Promoted
      /\ Follows(slave)' = Follows(slave)
  <2>1. \A s : Reattaching(s, <<>>)' = Reattaching(s, <<>>)
    BY <1>1 DEF Reattaching, Reattach
  <2>2. Return(master, standby)' = Return(master, standby) /\ Promotion(master, standby)' = Promotion(master, standby)
    BY <1>1 DEF Return, Promotion
  <2>3. PairUp' = PairUp /\ Returning' = Returning /\ Detaching' = Detaching
    BY <1>1, <2>2 DEF PairUp, Returning, Detaching, Follows, Reattaching
  <2>4. Promoted' = Promoted /\ \A S : Follows(S)' = Follows(S)
    BY <1>1 DEF Promoted, Follows
  <2>5. SlavesUp' = SlavesUp
    BY <1>1, <2>1, <2>4 DEF SlavesUp, Follows
  <2>6. Follows(slave)' = Follows(slave)
    BY <1>1 DEF Follows
  <2> QED BY <1>1, <2>3, <2>4, <2>5, <2>6 DEF PromotionUnderWay
<1> QED BY <1>1, <1>2 DEF CompletionInv

LEMMA CompletionStep ==
  TypeOK /\ PlaceInv /\ RolesInv /\ FaultlessInv /\ CompletionInv /\ [Next]_vars => CompletionInv'
<1> SUFFICES ASSUME TypeOK, PlaceInv, RolesInv, FaultlessInv, CompletionInv, [Next]_vars, faults' = 0
             PROVE  CompletionInv'
  BY DEF CompletionInv
<1>0. /\ ServersOK /\ master \in Server /\ faults \in Nat /\ todo \in Seq(CallSet)
      /\ cand \in Server \cup {NoServer} /\ slave \subseteq Server
  BY DEF TypeOK, ServersOK, LoopOK, roles, RoleTable
<1>1. ASSUME pc' \notin {"repoint", "save"}, pc' = "reopen" => roles' = saved'
      PROVE  CompletionInv'
  BY <1>1 DEF CompletionInv, Finishing
<1>2. ASSUME NEW c \in CallSet, CallStep(c) PROVE faults = 0 /\ up = Server
  BY <1>0, <1>2, CallCounts DEF FaultlessInv
<1>3. ASSUME NEW e \in Operated, Operate(e) PROVE CompletionInv'
  BY <1>1, <1>3 DEF Operate, Active, Detach, Pause, Resume, Switch, Request
<1>4. CASE \/ PreKill \/ EnableReadOnly \/ PostKill \/ CheckCandidate \/ CheckReverse
           \/ StopOldMaster \/ RestartOldMaster \/ RequestCall
  <2>1. UNCHANGED <<roles, saved>> /\ pc \notin {"repoint", "reopen", "save"}
        /\ pc' \notin {"repoint", "save"}
    BY <1>4 DEF PreKill, EnableReadOnly, PostKill, CheckCandidate, CheckReverse, StopOldMaster,
       RestartOldMaster, RequestCall, quiet
  <2> QED BY <1>1, <2>1 DEF PlaceInv, RolesSaved
<1>5. CASE ChangeOldMaster
  <2>1. CASE ExchangeRoles /\ pc' = "repoint"
    <3>1. UNCHANGED <<cand, reverse>>
      BY <1>5 DEF ChangeOldMaster, local
    <3> QED BY <2>1, <3>1, ExchangeHandsOver DEF CompletionInv, Finishing
  <2>2. CASE pc' = "restart"
    BY <1>1, <2>2
  <2> QED BY <1>5, <2>1, <2>2 DEF ChangeOldMaster
<1>6. CASE Repoint
  <2>1. Head(todo) \in CallSet /\ CallStep(Head(todo)) /\ pc = "repoint" /\ pc' = "repoint"
        /\ UNCHANGED <<master, slave, cand, left>>
    BY <1>0, <1>6, TailOfCalls DEF local, Repoint, CallStep, roles
  <2>2. faults = 0 /\ up = Server
    BY <1>2, <2>1
  <2>3. PromotionUnderWay'
    BY <1>6, <2>1, <2>2, RepointCall DEF CompletionInv
  <2> QED BY <2>1, <2>2, <2>3 DEF CompletionInv, Finishing
<1>7. ASSUME NEW s \in Server, RepointSlave(s) PROVE CompletionInv'
  <2>1. /\ pc = "repoint" /\ pc' = "repoint" /\ todo = <<>> /\ s \in left /\ left' = left \ {s}
        /\ todo' = Reattach(s, master) /\ faults = 0
        /\ UNCHANGED <<source, running, master, standby, slave, cand, reverse>>
    BY <1>7 DEF local, RepointSlave, Reattach, servers, roles
  <2>2. master = cand /\ left \subseteq slave /\ PromotionUnderWay
    BY <2>1 DEF CompletionInv
  <2>3. Promoted' /\ Follows(slave \ left)
    BY <2>1, <2>2, NoCallLeft DEF Promoted, Follows
  <2>4. Reattaching(s, <<>>)'
    <3>1. Reattach(s, master) \in Seq(CallSet)
      BY <1>0, CallTypes, ThreeCalls DEF Reattach
    <3>2. todo' = Reattach(s, master) \o <<>>
      BY <2>1, <3>1
    <3> QED BY <2>1, <3>2 DEF Reattaching
  <2>5. s \in (slave \ left)' /\ Follows(slave \ (left \cup {s}))'
    BY <2>1, <2>2, <2>3 DEF Follows
  <2> QED BY <2>1, <2>2, <2>3, <2>4, <2>5 DEF CompletionInv, Finishing, PromotionUnderWay, SlavesUp
<1>8. CASE Repointed
  <2>1. /\ pc = "repoint" /\ pc' = "reopen" /\ todo = <<>> /\ left = {} /\ faults = 0
        /\ UNCHANGED <<source, running, master, standby, slave, cand, reverse>>
    BY <1>8 DEF Repointed, quiet, loop, local, servers, roles
  <2>2. master = cand /\ Promoted /\ Follows(slave \ left)
    BY <2>1, NoCallLeft DEF CompletionInv
  <2>3. master' = cand' /\ Promoted' /\ Follows(slave)'
    BY <2>1, <2>2 DEF Promoted, Follows
  <2> QED BY <2>1, <2>3 DEF CompletionInv
<1>9. CASE Reopen
  <2>1. SetWritable(master) \in CallSet /\ SetWritable(master).op = "writable"
        /\ CallStep(SetWritable(master))
    BY <1>0, <1>9, CallTypes DEF Reopen, CallStep, SetWritable, Call
  <2>2. UNCHANGED <<source, running>> /\ faults = 0
    BY <1>0, <1>2, <2>1, FaultlessCall
  <2>3. UNCHANGED <<roles, todo, left>> /\ pc = "reopen" /\ pc' \in {"idle", "save"}
        /\ (pc' = "save" => roles # saved /\ UNCHANGED <<cand, reverse>>)
    BY <1>9 DEF Reopen, quiet, Locals, local
  <2>4. CASE pc' = "idle"
    BY <1>1, <2>4
  <2>5. CASE pc' = "save"
    <3>1. Finishing
      BY <2>3, <2>5 DEF Finishing
    <3> QED BY <2>2, <2>3, <2>5, <3>1, CompletionKept
  <2> QED BY <2>3, <2>4, <2>5
<1>10. CASE SaveConfig
  BY <1>1, <1>10 DEF SaveConfig
<1>11. ~MonitorRestart
  BY <1>0 DEF MonitorRestart
<1>12. CASE Inspect \/ Connect \/ (\E s \in Server : Environment(s)) \/ UNCHANGED vars
  <2>1. UNCHANGED <<roles, saved, cand, reverse, todo, left, pc>>
    BY <1>12 DEF Inspect, Connect, Environment, Commit, Fetch, Execute, Arrive, ServerStop, ServerStart,
       vars, monitor, loop, local
  <2>2. UNCHANGED <<running, source, faults>>
    <3>1. ASSUME NEW s \in Server, ServerStart(s) PROVE FALSE
      BY <3>1 DEF ServerStart, FaultlessInv
    <3>2. ASSUME NEW s \in Server, ServerStop(s) PROVE FALSE
      BY <1>0, <3>2 DEF ServerStop
    <3> QED BY <1>12, <3>1, <3>2 DEF Inspect, Connect, Environment, Commit, Fetch, Execute,
                      Arrive, vars, servers, slaves
  <2>3. Finishing' = Finishing
    BY <2>1 DEF Finishing
  <2> QED BY <2>1, <2>2, <2>3, CompletionKept
<1> QED BY <1>3, <1>4, <1>5, <1>6, <1>7, <1>8, <1>9, <1>10, <1>11, <1>12 DEF Next, Step

\* A switch whose calls all went through leaves a cluster that works: the new
\* master is open, every other server replicates from it, and it replicates
\* from the standby exactly when the two had been found mutual.
THEOREM SwitchesComplete == Spec => []SwitchCompletes
<1>1. Init => RolesInv /\ FaultlessInv /\ CompletionInv
  BY InitRoles DEF Init, FaultlessInv, CompletionInv, Finishing
<1>2. IInv /\ RolesInv /\ FaultlessInv /\ CompletionInv /\ [Next]_vars
        => (RolesInv /\ FaultlessInv /\ CompletionInv)'
  BY RolesStep, FaultlessStep, CompletionStep DEF IInv, PlaceInv
<1>3. FaultlessInv /\ CompletionInv => SwitchCompletes
  BY DEF FaultlessInv, CompletionInv, Finishing, SwitchCompletes, Promoted, Follows, Others
<1> QED BY <1>1, <1>2, <1>3, Invariance, PTL DEF Spec

-----------------------------------------------------------------------------
(***************************************************************************)
(* Every operation ends.  The run loop is in none, or has a number of      *)
(* steps still to make that is bounded by the number of servers, and each  *)
(* step it makes leaves fewer, whatever its call meets.  The check of the  *)
(* candidate is repeated once, each slave adds three calls and takes one   *)
(* slave off.                                                              *)
(***************************************************************************)

Ahead ==
  [kill |-> 18, readonly |-> 17, rekill |-> 16, check |-> 15, recheck |-> 14,
   reverse |-> 13, stop |-> 12, change |-> 11]

Remaining ==
  CASE pc = "idle"       -> 0
    [] pc = "request"    -> Len(todo)
    [] pc \in Switching  -> Ahead[pc] + 4 * Cardinality(Server)
    [] pc = "repoint"    -> 3 + Len(todo) + 4 * Cardinality(left)
    [] pc = "restart"    -> 3
    [] pc = "reopen"     -> 2
    [] pc = "save"       -> 1

\* The select is reached from an operation in this many steps; a request that
\* is being served has a call to make.
Ends == Remaining \in Nat /\ (Remaining = 0 <=> pc = "idle")

\* What an operation begins with is bounded; while it is under way nothing
\* lengthens it, and each of its own steps shortens it.
Longest  == 18 + 4 * Cardinality(Server)
Shortens ==
  [][IF pc = "idle" THEN Remaining' <= Longest
     ELSE Remaining' <= Remaining /\ (Step => Remaining' < Remaining)]_vars

LEMMA RemainingIs ==
  ASSUME TypeOK
  PROVE  /\ pc = "idle" => Remaining = 0
         /\ pc = "request" => Remaining = Len(todo)
         /\ pc \in Switching => Remaining = Ahead[pc] + 4 * Cardinality(Server)
         /\ pc = "repoint" => Remaining = 3 + Len(todo) + 4 * Cardinality(left)
         /\ pc = "restart" => Remaining = 3
         /\ pc = "reopen" => Remaining = 2
         /\ pc = "save" => Remaining = 1
BY DEF Remaining, Switching

\* The promotion is of seven calls at most.
LEMMA PromotionLength ==
  ASSUME NEW m \in Server, NEW b \in Server \cup {NoServer}
  PROVE  Len(Promotion(m, b)) <= 7
<1>0. /\ StopSlave(m) \in CallSet /\ ResetSlave(m) \in CallSet
      /\ ChangeMasterTo(m, b) \in CallSet /\ StartSlave(m) \in CallSet
  BY CallTypes
<1>1. /\ <<StopSlave(m), ResetSlave(m)>> \in Seq(CallSet)
      /\ Len(<<StopSlave(m), ResetSlave(m)>>) = 2
  BY <1>0, TwoCalls
<1>2. Return(m, b) \in Seq(CallSet) /\ Len(Return(m, b)) \in 0..2
  BY <1>0, TwoCalls DEF Return
<1> DEFINE second == IF b = NoServer THEN <<>>
                     ELSE <<StopSlave(b), ChangeMasterTo(b, m), StartSlave(b)>>
<1>3. second \in Seq(CallSet) /\ Len(second) \in 0..3
  BY CallTypes, ThreeCalls
<1>4. Promotion(m, b) = <<StopSlave(m), ResetSlave(m)>> \o second \o Return(m, b)
  BY DEF Promotion, Return
<1> HIDE DEF second
<1>5. ASSUME NEW p \in Seq(CallSet), NEW q \in Seq(CallSet), NEW r \in Seq(CallSet)
      PROVE  Len(p \o q \o r) = Len(p) + Len(q) + Len(r)
  OBVIOUS
<1>6. Len(Promotion(m, b)) = 2 + Len(second) + Len(Return(m, b))
  BY <1>1, <1>2, <1>3, <1>4, <1>5
<1>7. \A x \in 0..3, y \in 0..2 : 2 + x + y <= 7
  OBVIOUS
<1> QED BY <1>2, <1>3, <1>6, <1>7

LEMMA AheadIs ==
  /\ Ahead["kill"] = 18 /\ Ahead["readonly"] = 17 /\ Ahead["rekill"] = 16
  /\ Ahead["check"] = 15 /\ Ahead["recheck"] = 14 /\ Ahead["reverse"] = 13
  /\ Ahead["stop"] = 12 /\ Ahead["change"] = 11
BY DEF Ahead

\* A request that is being served has a call to make.
Busy == pc = "request" => todo # <<>>

LEMMA BusyStep == TypeOK /\ Busy /\ [Next]_vars => Busy'
<1> SUFFICES ASSUME TypeOK, Busy, [Next]_vars PROVE Busy'
  OBVIOUS
<1> USE DEF Busy
<1>1. ASSUME NEW calls, calls # <<>>, Request(calls) PROVE Busy'
  BY <1>1 DEF Request
<1>2. ASSUME NEW e \in Operated, Operate(e) PROVE Busy'
  <2>1. \A c, d : <<c>> # <<>> /\ <<c, d>> # <<>>
    OBVIOUS
  <2> QED BY <1>1, <1>2, <2>1 DEF Operate, Active, Detach, Pause, Resume, Switch
<1>3. Step => Busy'
  BY DEF Step, RequestCall, PreKill, EnableReadOnly, PostKill, CheckCandidate, CheckReverse,
     StopOldMaster, ChangeOldMaster, RestartOldMaster, Repoint, RepointSlave, Repointed, Reopen,
     SaveConfig
<1>4. MonitorRestart => Busy'
  BY DEF MonitorRestart
<1>5. Inspect \/ Connect \/ (\E s \in Server : Environment(s)) \/ UNCHANGED vars
        => UNCHANGED <<pc, todo>>
  BY DEF Inspect, Connect, Environment, Commit, Fetch, Execute, Arrive, ServerStop, ServerStart, monitor, loop, local,
     vars
<1> QED BY <1>2, <1>3, <1>4, <1>5 DEF Next

LEMMA RemainingType ==
  ASSUME TypeOK, Busy, IsFiniteSet(Server)
  PROVE  /\ Ends
         /\ Cardinality(Server) \in Nat /\ Len(todo) \in Nat
         /\ IsFiniteSet(left) /\ Cardinality(left) \in Nat
<1>1. Cardinality(Server) \in Nat /\ IsFiniteSet(left) /\ Cardinality(left) \in Nat
  BY FS_CardinalityType, FS_Subset DEF TypeOK, LoopOK
<1>2. Len(todo) \in Nat /\ (todo # <<>> => Len(todo) > 0)
  BY DEF TypeOK, LoopOK
<1>3. pc \in Place
  BY DEF TypeOK
<1>4. CASE pc \in Switching
  <2>1. Ahead[pc] \in 11..18
    BY <1>4, AheadIs DEF Switching
  <2> QED BY <1>1, <1>2, <1>4, <2>1, RemainingIs DEF Ends, Switching
<1>5. CASE pc \notin Switching
  BY <1>1, <1>2, <1>3, <1>5, RemainingIs DEF Ends, Busy, Place, Switching
<1> QED BY <1>1, <1>2, <1>4, <1>5

LEMMA StepShortens ==
  ASSUME TypeOK, Busy, TypeOK', Busy', IsFiniteSet(Server), RolesInv, CandidateKnown, Step
  PROVE  Remaining' < Remaining
<1>0. /\ Ends /\ Len(todo) \in Nat /\ Cardinality(Server) \in Nat
      /\ Ends' /\ Len(todo') \in Nat
      /\ IsFiniteSet(left) /\ Cardinality(left) \in Nat /\ Cardinality(left') \in Nat
  <2>1. (TypeOK /\ Busy => Ends /\ Len(todo) \in Nat /\ IsFiniteSet(left) /\ Cardinality(left) \in Nat)'
    BY RemainingType, PTL
  <2> QED BY <2>1, RemainingType
<1> DEFINE N == Cardinality(Server)
<1>1. (TypeOK => /\ pc = "idle" => Remaining = 0
                 /\ pc = "request" => Remaining = Len(todo)
                 /\ pc \in Switching => Remaining = Ahead[pc] + 4 * N
                 /\ pc = "repoint" => Remaining = 3 + Len(todo) + 4 * Cardinality(left)
                 /\ pc = "restart" => Remaining = 3
                 /\ pc = "reopen" => Remaining = 2
                 /\ pc = "save" => Remaining = 1)'
  BY RemainingIs, PTL
<1>2. master \in Server /\ standby \in Server \cup {NoServer} /\ slave \subseteq Server
  BY DEF TypeOK, roles, RoleTable
<1>3. todo # <<>> => Len(Tail(todo)) = Len(todo) - 1
  BY DEF TypeOK, LoopOK
<1>4. CASE RequestCall
  <2>1. pc = "request" /\ todo # <<>> /\ (todo' = Tail(todo) \/ todo' = <<>>)
        /\ pc' \in {"request", "idle"}
    BY <1>4 DEF RequestCall
  <2>2. Len(todo) > 0 /\ Len(todo') < Len(todo)
    BY <1>0, <1>3, <2>1 DEF TypeOK, LoopOK
  <2> QED BY <1>0, <1>1, <2>1, <2>2, RemainingIs
<1>5. CASE \/ PreKill \/ EnableReadOnly \/ PostKill \/ CheckCandidate \/ CheckReverse \/ StopOldMaster
  <2>1. pc \in Switching /\ (\/ pc' \in Switching /\ Ahead[pc'] < Ahead[pc]
                            \/ pc' \in {"idle", "reopen"})
    BY <1>5, AheadIs DEF PreKill, EnableReadOnly, PostKill, CheckCandidate, CheckReverse,
       StopOldMaster, Switching
  <2>2. Remaining = Ahead[pc] + 4 * N /\ (pc' \in Switching => Remaining' = Ahead[pc'] + 4 * N)
    BY <1>1, <2>1, RemainingIs
  <2>3. Ahead[pc] \in Nat /\ Ahead[pc] >= 11 /\ (pc' \in Switching => Ahead[pc'] \in Nat)
    BY <2>1, AheadIs DEF Switching
  <2>4. pc' \in {"idle", "reopen"} => Remaining' \in Nat /\ Remaining' <= 2
    BY <1>1
  <2>5. 4 * N \in Nat
    BY <1>0
  <2> HIDE DEF N
  <2> QED BY <2>1, <2>2, <2>3, <2>4, <2>5
<1>6. CASE ChangeOldMaster
  <2>1. Remaining = 11 + 4 * N
    BY <1>6, AheadIs, RemainingIs DEF ChangeOldMaster, Switching
  <2>2. CASE pc' = "restart"
    BY <1>0, <1>1, <2>1, <2>2
  <2>3. CASE ExchangeRoles /\ pc' = "repoint"
    <3>1. master' \in Server /\ standby' \in Server \cup {NoServer}
      BY <1>2, <1>6, <2>3 DEF ExchangeRoles, CandidateKnown, ChangeOldMaster
    <3>2. left' \in SUBSET Server
      BY DEF TypeOK, LoopOK
    <3>3. Cardinality(left') <= N
      BY <3>2, FS_Subset
    <3>4. reverse' = reverse /\ todo' = Promotion(master', standby')
      BY <1>6, <2>3 DEF local, ExchangeRoles, ChangeOldMaster
    <3>5. Len(todo') <= 7
      BY <3>1, <3>4, PromotionLength
    <3>6. Remaining' = 3 + Len(todo') + 4 * Cardinality(left')
      BY <1>1, <2>3
    <3>7. \A x, y, z \in Nat : x <= 7 /\ y <= z => 3 + x + 4 * y < 11 + 4 * z
      OBVIOUS
    <3> QED BY <1>0, <2>1, <3>3, <3>5, <3>6, <3>7
  <2> QED BY <1>6, <2>2, <2>3 DEF ChangeOldMaster
<1>7. CASE RestartOldMaster \/ Reopen \/ SaveConfig
  BY <1>1, <1>7, RemainingIs DEF RestartOldMaster, Reopen, SaveConfig
<1>8. CASE Repoint
  <2>1. pc = "repoint" /\ pc' = pc /\ left' = left /\ Len(todo') = Len(todo) - 1
    BY <1>3, <1>8 DEF Repoint
  <2> QED BY <1>0, <1>1, <2>1, RemainingIs
<1>9. ASSUME NEW s \in Server, RepointSlave(s) PROVE Remaining' < Remaining
  <2>1. pc = "repoint" /\ pc' = pc /\ todo = <<>> /\ s \in left /\ left' = left \ {s}
        /\ todo' = <<StopSlave(s), ChangeMasterTo(s, master), StartSlave(s)>>
    BY <1>9 DEF RepointSlave
  <2>2. Len(todo') = 3 /\ Len(todo) = 0
    BY <1>2, <2>1, CallTypes, ThreeCalls
  <2>3. Cardinality(left') = Cardinality(left) - 1
    BY <1>0, <2>1, FS_RemoveElement
  <2> QED BY <1>0, <1>1, <2>1, <2>2, <2>3, RemainingIs
<1>10. CASE Repointed
  <2>1. pc = "repoint" /\ pc' = "reopen" /\ Remaining' = 2
    BY <1>1, <1>10 DEF Repointed
  <2> QED BY <1>0, <2>1, RemainingIs
<1> QED BY <1>4, <1>5, <1>6, <1>7, <1>8, <1>9, <1>10 DEF Step

\* Outside the run loop's own steps an operation gets no longer.
LEMMA OthersLengthenNot ==
  ASSUME TypeOK, Busy, TypeOK', Busy', IsFiniteSet(Server), [Next]_vars, ~Step, pc # "idle"
  PROVE  Remaining' <= Remaining
<1>0. Ends /\ (TypeOK => (pc = "idle" => Remaining = 0))'
  BY RemainingType, RemainingIs, PTL
<1>1. CASE MonitorRestart
  <2>1. pc' = "idle"
    BY <1>1 DEF MonitorRestart
  <2> QED BY <1>0, <2>1 DEF Ends
<1>2. CASE UNCHANGED <<pc, todo, left>>
  <2>1. Remaining' = Remaining
    BY <1>2 DEF Remaining
  <2> QED BY <1>0, <2>1 DEF Ends
<1>3. Connect \/ (\E s \in Server : Environment(s)) \/ UNCHANGED vars => UNCHANGED <<pc, todo, left>>
  BY DEF Connect, Environment, Commit, Fetch, Execute, Arrive, ServerStop, ServerStart, monitor, loop, local, vars
<1>4. ~Inspect /\ \A e \in Operated : ~Operate(e)
  BY DEF Inspect, Operate, Active, Detach, Pause, Resume, Switch, Request
<1> QED BY <1>1, <1>2, <1>3, <1>4 DEF Next

\* An operation begins with a request of one call or two, or with a switch.
LEMMA BeginsBounded ==
  ASSUME TypeOK, TypeOK', Busy, Busy', IsFiniteSet(Server), [Next]_vars, pc = "idle"
  PROVE  Remaining' <= Longest
<1> DEFINE N == Cardinality(Server)
<1>0. N \in Nat /\ 4 * N \in Nat
  BY RemainingType
<1>1. (TypeOK => /\ pc = "idle" => Remaining = 0
                 /\ pc = "request" => Remaining = Len(todo)
                 /\ pc \in Switching => Remaining = Ahead[pc] + 4 * N)'
  BY RemainingIs, PTL
<1>2. ASSUME NEW e \in Operated, Operate(e)
      PROVE  (pc' = "request" /\ Len(todo') <= 2) \/ pc' = "kill"
  <2>1. \A c, d : Len(<<c>>) <= 2 /\ Len(<<c, d>>) <= 2
    OBVIOUS
  <2>2. ASSUME NEW calls, Len(calls) <= 2, Request(calls)
        PROVE  pc' = "request" /\ Len(todo') <= 2
    BY <2>2 DEF Request
  <2> QED BY <1>2, <2>1, <2>2 DEF Operate, Active, Detach, Pause, Resume, Switch
<1>3. ASSUME \A e \in Operated : ~Operate(e) PROVE pc' = "idle"
  <2>1. ~Step
    BY DEF Step, RequestCall, PreKill, EnableReadOnly, PostKill, CheckCandidate, CheckReverse,
       StopOldMaster, ChangeOldMaster, RestartOldMaster, Repoint, RepointSlave, Repointed, Reopen,
       SaveConfig
  <2>2. Inspect \/ Connect \/ (\E s \in Server : Environment(s)) \/ UNCHANGED vars => pc' = pc
    BY DEF Inspect, Connect, Environment, Commit, Fetch, Execute, Arrive, ServerStop, ServerStart, monitor, vars
  <2> QED BY <1>3, <2>1, <2>2 DEF Next, MonitorRestart
<1>4. CASE pc' = "kill"
  <2>1. Remaining' = 18 + 4 * N
    BY <1>1, <1>4, AheadIs DEF Switching
  <2> QED BY <1>0, <2>1 DEF Longest
<1>5. CASE pc' = "request" /\ Len(todo') <= 2
  <2>1. Remaining' <= 2
    BY <1>1, <1>5
  <2>2. Remaining' \in Nat
    <3>1. Ends'
      BY RemainingType, PTL
    <3> QED BY <3>1 DEF Ends
  <2> QED BY <1>0, <2>1, <2>2 DEF Longest
<1>6. CASE pc' = "idle"
  <2>1. Remaining' = 0
    BY <1>1, <1>6
  <2> QED BY <1>0, <2>1 DEF Longest
<1> QED BY <1>2, <1>3, <1>4, <1>5, <1>6

\* No operation goes on for ever: it has at most Longest steps to make, and each
\* of them brings the select nearer, whatever its calls meet, and whatever servers
\* and clients do meanwhile.
THEOREM OperationsEnd ==
  ASSUME IsFiniteSet(Server)
  PROVE  Spec => []Ends /\ Shortens
<1> DEFINE Shorter == IF pc = "idle" THEN Remaining' <= Longest
                      ELSE Remaining' <= Remaining /\ (Step => Remaining' < Remaining)
<1>1. Init => Busy
  BY DEF Init, Busy
<1>2. IInv /\ Busy /\ [Next]_vars => Busy'
  BY BusyStep DEF IInv
<1>3. IInv /\ Busy => Ends
  BY RemainingType DEF IInv
<1>4. IInv /\ IInv' /\ RolesInv /\ Busy /\ Busy' /\ [Next]_vars => Shorter
  <2> SUFFICES ASSUME IInv, IInv', RolesInv, Busy, Busy', [Next]_vars PROVE Shorter
    OBVIOUS
  <2>0. TypeOK /\ TypeOK' /\ CandidateKnown
    BY DEF IInv
  <2>1. Ends /\ Ends'
    BY <1>3, <2>0, PTL
  <2>2. Step => Remaining' < Remaining
    BY <2>0, StepShortens
  <2>3. ~Step /\ pc # "idle" => Remaining' <= Remaining
    BY <2>0, OthersLengthenNot
  <2>4. pc = "idle" => Remaining' <= Longest
    BY <2>0, BeginsBounded
  <2> QED BY <2>1, <2>2, <2>3, <2>4 DEF Ends
<1>5. Init => RolesInv
  BY InitRoles
<1>6. IInv /\ RolesInv /\ [Next]_vars => RolesInv'
  BY RolesStep DEF IInv, PlaceInv
<1> QED BY <1>1, <1>2, <1>3, <1>4, <1>5, <1>6, Invariance, PTL DEF Spec, Shortens
=============================================================================
