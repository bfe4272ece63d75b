--------------------------- MODULE RegistryProofs ---------------------------
(***************************************************************************)
(* Theorems about Registry, for every set of endpoints and every number of *)
(* faults.  The invariants of the run loop's table and of the three files  *)
(* are proved together: what a restart reads must be consistent, and what  *)
(* is saved is.                                                            *)
(***************************************************************************)
EXTENDS Registry, TLAPS

(***************************************************************************)
(* The inductive invariant.  The files come to hold the roles one by one,  *)
(* so that the fact "the files before this one hold what memory holds"     *)
(* carries the save; while the process is down the variables of its memory *)
(* still say what it had saved.                                            *)
(***************************************************************************)
SavedPrefix ==
  pc \in {"truncate", "write"} /\ ~damaged =>
    \A i \in 1..3 : i < file => conf[Files[i]] = Current[Files[i]]

SavedWhenDown == pc = "down" /\ ~torn => conf = Current

ListsShown ==
  lpc = "watch" /\ pc # "down" =>
    tmpList \subseteq Visible /\ endpointList \subseteq Visible

IInv ==
  /\ TypeOK
  /\ TableConsistent
  /\ SavedWhenIdle
  /\ SavedPrefix
  /\ SavedWhenDown
  /\ ListsShown

-----------------------------------------------------------------------------

\* The roles in memory make a value of the type of conf.
LEMMA CurrentType ==
  ASSUME TypeOK
  PROVE  /\ Current \in [Role -> SUBSET Endpoint]
         /\ Current["master"] = One(master)
         /\ Current["slave"] = slave
         /\ Current["standby"] = One(standby)
  BY DEF TypeOK, Current, Roles, One, Role

\* Two contents of the files are equal when the three files are.
LEMMA ThreeFiles ==
  ASSUME NEW f \in [Role -> SUBSET Endpoint], NEW g \in [Role -> SUBSET Endpoint],
         \A i \in 1..3 : f[Files[i]] = g[Files[i]]
  PROVE  f = g
<1>1. f["master"] = g["master"] /\ f["slave"] = g["slave"] /\ f["standby"] = g["standby"]
  <2>1. Files[1] = "master" /\ Files[2] = "slave" /\ Files[3] = "standby"
    BY DEF Files
  <2>2. 1 \in 1..3 /\ 2 \in 1..3 /\ 3 \in 1..3
    OBVIOUS
  <2> QED BY <2>1, <2>2
<1> QED BY <1>1 DEF Role

\* A file that holds one endpoint, or none, is read back as what was saved.
LEMMA OnlyOne ==
  ASSUME NEW e \in Endpoint \cup {NoEndpoint}
  PROVE  Only(One(e)) = e
<1>1. CASE e = NoEndpoint
  BY <1>1 DEF Only, One
<1>2. CASE e # NoEndpoint
  <2>1. One(e) = {e}
    BY <1>2 DEF One
  <2> QED BY <2>1 DEF Only
<1> QED BY <1>1, <1>2

-----------------------------------------------------------------------------

\* The Boolean variables stay Boolean.
LEMMA FlagsStep == FlagsOK /\ [Next]_vars => FlagsOK'
<1> SUFFICES ASSUME FlagsOK, [Next]_vars PROVE FlagsOK'
  OBVIOUS
<1>1. CASE BeginSave /\ UNCHANGED torn
  BY <1>1, Zenon DEF FlagsOK, BeginSave
<1>2. CASE UNCHANGED <<damaged, torn>>
  BY <1>2, Zenon DEF FlagsOK
<1>3. CASE SaveError
  BY <1>3, Zenon DEF FlagsOK, SaveError
<1>4. CASE Crash
  BY <1>4, Zenon DEF FlagsOK, Crash
<1>5. \/ InstancesChange \/ LainletEvent \/ Truncate \/ Write \/ UNCHANGED vars
      => UNCHANGED <<damaged, torn>>
  BY DEF InstancesChange, LainletEvent, Truncate, Write, vars, writer
<1>6. \/ Deliver \/ Tick \/ LoadConfig \/ \E e \in Operated : Operate(e)
      => BeginSave /\ UNCHANGED torn
  BY DEF Deliver, Tick, LoadConfig, Operate, RegisterMaster, RegisterSlave,
     RegisterStandby, Unregister, SwitchToMaster, Patch
<1> QED BY <1>1, <1>2, <1>3, <1>4, <1>5, <1>6 DEF Next

LEMMA InitIInv == Init => IInv
<1> SUFFICES ASSUME Init PROVE IInv
  OBVIOUS
<1>1. TypeOK
  <2>1. conf \in [Role -> SUBSET Endpoint] /\ saved \in [Role -> SUBSET Endpoint]
    BY DEF Init, Roles, One, Role
  <2>2. FlagsOK
    BY Zenon DEF Init, FlagsOK
  <2> QED BY <2>1, <2>2 DEF Init, TypeOK
<1>2. TableConsistent
  BY EndpointAssumption DEF Init, TableConsistent, OneRoleEach, Disjoint,
     UnregisteredApart, PoolIsManaged, Managed, One
<1>3. SavedWhenIdle /\ SavedWhenDown
  BY DEF Init, SavedWhenIdle, SavedWhenDown
<1>4. SavedPrefix
  BY DEF Init, SavedPrefix
<1>5. ListsShown
  BY DEF Init, ListsShown
<1> QED BY <1>1, <1>2, <1>3, <1>4, <1>5 DEF IInv

-----------------------------------------------------------------------------
(***************************************************************************)
(* One lemma per conjunct of the invariant that needs several actions.     *)
(***************************************************************************)

\* What an operator's request leaves alone, and the save it starts.
LEMMA OperateType ==
  ASSUME TypeOK, FlagsOK', NEW e \in Endpoint, Operate(e)
  PROVE  TypeOK'
<1>1. CASE RegisterMaster(e)
  BY <1>1 DEF TypeOK, RegisterMaster, Patch, Register, BeginSave, watcher
<1>2. CASE RegisterSlave(e)
  BY <1>2 DEF TypeOK, RegisterSlave, Patch, Register, BeginSave, watcher
<1>3. CASE RegisterStandby(e)
  BY <1>3 DEF TypeOK, RegisterStandby, Patch, Register, BeginSave, watcher
<1>4. CASE Unregister(e)
  BY <1>4 DEF TypeOK, Unregister, Patch, BeginSave, watcher
<1>5. CASE SwitchToMaster(e)
  <2>1. master' \in Endpoint /\ slave' \in SUBSET Endpoint
        /\ standby' \in Endpoint \cup {NoEndpoint}
    BY <1>5 DEF TypeOK, SwitchToMaster
  <2> QED BY <1>5, <2>1 DEF TypeOK, SwitchToMaster, Patch, BeginSave, watcher
<1> QED BY <1>1, <1>2, <1>3, <1>4, <1>5 DEF Operate

LEMMA NextType == TypeOK /\ [Next]_vars => TypeOK'
<1> SUFFICES ASSUME TypeOK, [Next]_vars PROVE TypeOK'
  OBVIOUS
<1>0. FlagsOK'
  BY FlagsStep DEF TypeOK
<1>1. CASE InstancesChange
  BY <1>0, <1>1 DEF TypeOK, InstancesChange, table, writer, watcher
<1>2. CASE LainletEvent
  BY <1>0, <1>2 DEF TypeOK, LainletEvent, table, writer
<1>3. CASE Deliver
  BY <1>0, <1>3 DEF TypeOK, Deliver, UpdateServersList, BeginSave
<1>4. ASSUME NEW e \in Operated, Operate(e) PROVE TypeOK'
  BY <1>0, <1>4, OperateType, EndpointAssumption
<1>5. CASE Tick
  BY <1>0, <1>5 DEF TypeOK, Tick, BeginSave, table, watcher
<1>6. CASE Truncate
  BY <1>0, <1>6 DEF TypeOK, Truncate, table, watcher
<1>7. CASE Write
  <2>1. conf' \in [Role -> SUBSET Endpoint]
    <3>1. file \in 1..3 /\ \A i \in 1..3 : Files[i] \in Role
      BY DEF TypeOK, Files, Role
    <3>2. Current[Files[file]] \in SUBSET Endpoint
      BY <3>1, CurrentType
    <3> QED BY <1>7, <3>1, <3>2 DEF Write, TypeOK
  <2>2. pc' \in {"select", "truncate"} /\ file' \in 1..3 /\ saved' \in [Role -> SUBSET Endpoint]
    BY <1>7, <2>1 DEF Write, NextFile, TypeOK
  <2> QED BY <1>0, <1>7, <2>1, <2>2 DEF TypeOK, Write, table, watcher
<1>8. CASE SaveError
  <2>1. pc' \in {"select", "truncate"} /\ file' \in 1..3 /\ saved' \in [Role -> SUBSET Endpoint]
    BY <1>8 DEF SaveError, NextFile, TypeOK
  <2> QED BY <1>0, <1>8, <2>1 DEF TypeOK, SaveError, table, watcher
<1>9. CASE Crash
  BY <1>0, <1>9 DEF TypeOK, Crash, table, watcher
<1>10. CASE LoadConfig
  <2>1. ASSUME NEW S \in SUBSET Endpoint
        PROVE  Only(S) \in Endpoint \cup {NoEndpoint} /\ One(Only(S)) \subseteq Endpoint
    BY <2>1, EndpointAssumption DEF Only, One
  <2>2. conf["master"] \in SUBSET Endpoint /\ conf["slave"] \in SUBSET Endpoint
        /\ conf["standby"] \in SUBSET Endpoint
    BY DEF TypeOK, Role
  <2> QED BY <1>0, <1>10, <2>1, <2>2 DEF TypeOK, LoadConfig, BeginSave
<1>11. CASE UNCHANGED vars
  BY <1>0, <1>11 DEF TypeOK, vars, table, writer, watcher
<1> QED BY <1>1, <1>2, <1>3, <1>4, <1>5, <1>6, <1>7, <1>8, <1>9, <1>10, <1>11 DEF Next

\* Type correctness of every reachable state.
THEOREM TypeCorrect == Spec => []TypeOK
<1>1. Init => TypeOK
  BY InitIInv DEF IInv
<1> QED BY <1>1, NextType, PTL DEF Spec

-----------------------------------------------------------------------------
(***************************************************************************)
(* The table stays consistent.                                             *)
(***************************************************************************)

\* The facts of TableConsistent about a given table.
Consistent(m, s, b, u, p) ==
  /\ Disjoint(One(m), s, One(b))
  /\ u \cap (One(m) \cup s \cup One(b)) = {}
  /\ p = One(m) \cup s \cup One(b)

LEMMA ConsistentTable ==
  TableConsistent <=> (~torn => Consistent(master, slave, standby, unregistered, pool))
BY DEF TableConsistent, Consistent, OneRoleEach, UnregisteredApart, PoolIsManaged, Managed

LEMMA DeliverConsistent ==
  ASSUME TypeOK, NEW list \in SUBSET Endpoint, UpdateServersList(list),
         Consistent(master, slave, standby, unregistered, pool)
  PROVE  Consistent(master, slave, standby, unregistered, pool)'
<1> DEFINE afterMaster == list \ One(master)
           afterSlave  == afterMaster \ slave
<1>1. One(master') = One(master) \cap list
  BY EndpointAssumption DEF TypeOK, UpdateServersList, One
<1>2. slave' = slave \cap list
  BY DEF UpdateServersList, Consistent, Disjoint
<1>3. One(standby') = One(standby) \cap list
  <2>1. standby \in afterSlave <=> standby \in list /\ standby # NoEndpoint
    BY EndpointAssumption DEF Consistent, Disjoint, One
  <2> QED BY <2>1, EndpointAssumption DEF TypeOK, UpdateServersList, One
<1>4. unregistered' \cap (One(master) \cup slave \cup One(standby)) = {}
  BY DEF UpdateServersList
<1>5. pool' = pool \cap list
  BY DEF UpdateServersList, Consistent, Disjoint
<1> QED BY <1>1, <1>2, <1>3, <1>4, <1>5 DEF Consistent, Disjoint

LEMMA OperateConsistent ==
  ASSUME TypeOK, NEW e \in Endpoint, Operate(e),
         Consistent(master, slave, standby, unregistered, pool)
  PROVE  Consistent(master, slave, standby, unregistered, pool)'
<1> USE EndpointAssumption DEF Consistent, Disjoint, One, TypeOK
<1>1. CASE RegisterMaster(e)
  BY <1>1 DEF RegisterMaster, Register
<1>2. CASE RegisterSlave(e)
  BY <1>2 DEF RegisterSlave, Register
<1>3. CASE RegisterStandby(e)
  BY <1>3 DEF RegisterStandby, Register
<1>4. CASE Unregister(e)
  BY <1>4 DEF Unregister
<1>5. CASE SwitchToMaster(e)
  BY <1>5 DEF SwitchToMaster
<1> QED BY <1>1, <1>2, <1>3, <1>4, <1>5 DEF Operate

\* What loadConfig makes of the files of an undisturbed save.
LEMMA LoadRestores ==
  ASSUME IInv, LoadConfig, ~torn
  PROVE  /\ UNCHANGED <<master, slave, standby, pool>>
         /\ unregistered' = {}
<1>1. conf = Current /\ TableConsistent /\ TypeOK
  BY DEF IInv, SavedWhenDown, LoadConfig
<1>2. conf["master"] = One(master) /\ conf["slave"] = slave /\ conf["standby"] = One(standby)
  BY <1>1, CurrentType
<1>3. UNCHANGED <<master, slave, standby>>
  BY <1>1, <1>2, OnlyOne DEF LoadConfig, TypeOK
<1>4. pool = One(master) \cup slave \cup One(standby)
  BY <1>1 DEF TableConsistent, PoolIsManaged, Managed
<1> QED BY <1>3, <1>4 DEF LoadConfig

LEMMA TableStep == IInv /\ [Next]_vars => TableConsistent'
<1> SUFFICES ASSUME IInv, [Next]_vars PROVE TableConsistent'
  OBVIOUS
<1> DEFINE C == Consistent(master, slave, standby, unregistered, pool)
<1>1. torn => torn'
  BY DEF Next, InstancesChange, LainletEvent, Deliver, Operate, RegisterMaster,
     RegisterSlave, RegisterStandby, Unregister, SwitchToMaster, Patch, Tick,
     Truncate, Write, SaveError, Crash, LoadConfig, vars
<1> SUFFICES ASSUME ~torn, ~torn' PROVE C'
  BY <1>1, ConsistentTable DEF TableConsistent, Consistent, OneRoleEach,
     UnregisteredApart, PoolIsManaged, Managed
<1>2. TypeOK /\ C
  BY ConsistentTable DEF IInv
<1>3. CASE UNCHANGED table
  BY <1>2, <1>3 DEF table, Consistent, Disjoint
<1>4. CASE Deliver
  BY <1>2, <1>4, DeliverConsistent DEF Deliver, TypeOK
<1>5. ASSUME NEW e \in Operated, Operate(e) PROVE C'
  BY <1>2, <1>5, OperateConsistent, EndpointAssumption
<1>6. CASE LoadConfig
  BY <1>2, <1>6, LoadRestores DEF Consistent, Disjoint
<1>7. \/ InstancesChange \/ LainletEvent \/ Tick \/ Truncate \/ Write
      \/ SaveError \/ Crash \/ UNCHANGED vars
      => UNCHANGED table
  BY DEF InstancesChange, LainletEvent, Tick, Truncate, Write, SaveError, Crash, vars
<1> QED BY <1>3, <1>4, <1>5, <1>6, <1>7 DEF Next

-----------------------------------------------------------------------------
(***************************************************************************)
(* The files follow the table.                                             *)
(***************************************************************************)

DiskInv == SavedWhenIdle /\ SavedPrefix /\ SavedWhenDown

\* A save that has just begun owes nothing yet.
LEMMA BeginSaveDisk == BeginSave => DiskInv'
BY DEF BeginSave, DiskInv, SavedWhenIdle, SavedPrefix, SavedWhenDown

\* A step that touches neither the roles nor what the files are about.
LEMMA QuietDisk ==
  ASSUME DiskInv, UNCHANGED <<master, slave, standby>>, UNCHANGED writer, UNCHANGED torn
  PROVE  DiskInv'
BY DEF DiskInv, SavedWhenIdle, SavedPrefix, SavedWhenDown, writer, Current

LEMMA WriteDisk ==
  ASSUME TypeOK, DiskInv, Write
  PROVE  DiskInv'
<1>1. Current' = Current /\ TypeOK'
  BY NextType DEF Write, table, Current, Next
<1>2. file \in 1..3 /\ Files[file] \in Role /\ conf \in [Role -> SUBSET Endpoint]
  BY DEF TypeOK, Files, Role
<1>3. \A i \in 1..3 : i # file => Files[i] # Files[file]
  BY <1>2 DEF Files
<1>4. conf'[Files[file]] = Current[Files[file]]
  BY <1>2 DEF Write
<1>5. \A i \in 1..3 : i # file => conf'[Files[i]] = conf[Files[i]]
  BY <1>2, <1>3 DEF Write
<1>6. ~damaged => \A i \in 1..3 : i <= file => conf'[Files[i]] = Current[Files[i]]
  BY <1>2, <1>4, <1>5 DEF DiskInv, SavedPrefix, Write
<1>7. CASE file < 3
  <2>1. pc' = "truncate" /\ file' = file + 1 /\ damaged' = damaged
    BY <1>7 DEF Write, NextFile
  <2> QED BY <1>1, <1>2, <1>6, <2>1 DEF DiskInv, SavedWhenIdle, SavedPrefix, SavedWhenDown
<1>8. CASE file = 3
  <2>1. pc' = "select" /\ saved' = IF damaged' THEN saved ELSE conf'
    BY <1>8 DEF Write, NextFile
  <2>2. ~damaged => conf' = Current
    <3>1. Current \in [Role -> SUBSET Endpoint] /\ conf' \in [Role -> SUBSET Endpoint]
      BY <1>1, CurrentType DEF TypeOK
    <3> QED BY <1>6, <1>8, <3>1, ThreeFiles
  <2>3. damaged' = damaged
    BY DEF Write
  <2> QED BY <1>1, <2>1, <2>2, <2>3 DEF DiskInv, SavedWhenIdle, SavedPrefix, SavedWhenDown
<1> QED BY <1>2, <1>7, <1>8

LEMMA DiskStep == IInv /\ [Next]_vars => DiskInv'
<1> SUFFICES ASSUME IInv, [Next]_vars PROVE DiskInv'
  OBVIOUS
<1>1. TypeOK /\ DiskInv
  BY DEF IInv, DiskInv
<1>2. \/ Deliver \/ Tick \/ LoadConfig \/ \E e \in Operated : Operate(e)
      => BeginSave
  BY DEF Deliver, Tick, LoadConfig, Operate, RegisterMaster, RegisterSlave,
     RegisterStandby, Unregister, SwitchToMaster, Patch
<1>3. \/ InstancesChange \/ LainletEvent \/ UNCHANGED vars
      => UNCHANGED <<master, slave, standby>> /\ UNCHANGED writer /\ UNCHANGED torn
  BY DEF InstancesChange, LainletEvent, vars, table
<1>4. CASE Truncate
  <2>1. file \in 1..3 /\ Files[file] \in Role /\ conf \in [Role -> SUBSET Endpoint]
    BY <1>1 DEF TypeOK, Files, Role
  <2>2. \A i \in 1..3 : i < file => Files[i] # Files[file]
    BY <2>1 DEF Files
  <2>3. \A i \in 1..3 : i < file => conf'[Files[i]] = conf[Files[i]]
    BY <1>4, <2>1, <2>2 DEF Truncate
  <2>4. Current' = Current
    BY <1>4 DEF Truncate, table, Current
  <2> QED BY <1>1, <1>4, <2>3, <2>4
        DEF DiskInv, Truncate, SavedWhenIdle, SavedPrefix, SavedWhenDown
<1>5. CASE Write
  BY <1>1, <1>5, WriteDisk
<1>6. CASE SaveError
  <2>1. damaged' /\ pc' \in {"select", "truncate"}
    BY <1>6 DEF SaveError, NextFile
  <2> QED BY <2>1 DEF DiskInv, SavedWhenIdle, SavedPrefix, SavedWhenDown
<1>7. CASE Crash
  <2>1. pc' = "down" /\ conf' = conf /\ Current' = Current
    BY <1>7 DEF Crash, table, Current
  <2>2. ~torn' => pc = "select" /\ ~damaged
    BY <1>7 DEF Crash
  <2> QED BY <1>1, <2>1, <2>2 DEF DiskInv, SavedWhenIdle, SavedPrefix, SavedWhenDown
<1> QED BY <1>1, <1>2, <1>3, <1>4, <1>5, <1>6, <1>7, BeginSaveDisk, QuietDisk DEF Next

-----------------------------------------------------------------------------
(***************************************************************************)
(* What the listener has passed over is shown.                             *)
(***************************************************************************)

LEMMA OperateShown ==
  ASSUME TypeOK, NEW e \in Endpoint, Operate(e)
  PROVE  Visible \subseteq Visible'
<1> USE EndpointAssumption DEF Visible, Managed, One, TypeOK
<1>1. CASE RegisterMaster(e)
  BY <1>1 DEF RegisterMaster, Register
<1>2. CASE RegisterSlave(e)
  BY <1>2 DEF RegisterSlave, Register
<1>3. CASE RegisterStandby(e)
  BY <1>3 DEF RegisterStandby, Register
<1>4. CASE Unregister(e)
  BY <1>4 DEF Unregister
<1>5. CASE SwitchToMaster(e)
  BY <1>5 DEF SwitchToMaster
<1> QED BY <1>1, <1>2, <1>3, <1>4, <1>5 DEF Operate

LEMMA ShownStep == IInv /\ [Next]_vars => ListsShown'
<1> SUFFICES ASSUME IInv, [Next]_vars PROVE ListsShown'
  OBVIOUS
<1>1. TypeOK /\ ListsShown
  BY DEF IInv
<1>2. CASE UNCHANGED watcher /\ Visible \subseteq Visible' /\ (pc' # "down" => pc # "down")
  BY <1>1, <1>2 DEF ListsShown, watcher
<1>3. \/ InstancesChange \/ Tick \/ Truncate \/ Write \/ SaveError \/ Crash \/ UNCHANGED vars
      => UNCHANGED watcher /\ Visible' = Visible /\ (pc' # "down" => pc # "down")
  BY DEF InstancesChange, Tick, Truncate, Write, SaveError, Crash, vars, table, writer,
     Visible, Managed
<1>4. ASSUME NEW e \in Operated, Operate(e) PROVE ListsShown'
  <2>1. UNCHANGED watcher /\ pc # "down"
    BY <1>4 DEF Operate, RegisterMaster, RegisterSlave, RegisterStandby, Unregister,
       SwitchToMaster, Patch
  <2> QED BY <1>1, <1>2, <1>4, <2>1, OperateShown, EndpointAssumption
<1>5. CASE LainletEvent
  <2>1. Visible' = Visible /\ endpointList' = endpointList
    BY <1>5 DEF LainletEvent, table, Visible, Managed
  <2>2. lpc' = "watch" => tmpList' = endpointList
    BY <1>5 DEF LainletEvent
  <2> QED BY <1>1, <1>5, <2>1, <2>2 DEF ListsShown, LainletEvent
<1>6. CASE Deliver
  <2>1. tmpList' = tmpList /\ UpdateServersList(tmpList)
    BY <1>6 DEF Deliver
  <2>2. tmpList \subseteq Visible'
    BY <2>1, EndpointAssumption, <1>1 DEF UpdateServersList, Visible, Managed, One, TypeOK
  <2>3. endpointList' \subseteq Visible'
    BY <2>1 DEF UpdateServersList, Visible
  <2> QED BY <2>1, <2>2, <2>3 DEF ListsShown
<1>7. CASE LoadConfig
  BY <1>7 DEF LoadConfig, ListsShown
<1> QED BY <1>2, <1>3, <1>4, <1>5, <1>6, <1>7 DEF Next

-----------------------------------------------------------------------------
(***************************************************************************)
(* The theorems.                                                           *)
(***************************************************************************)

LEMMA Invariance == Spec => []IInv
<1>1. IInv /\ [Next]_vars => IInv'
  BY NextType, TableStep, DiskStep, ShownStep DEF IInv, DiskInv
<1> QED BY <1>1, InitIInv, PTL DEF Spec

\* Unless a restart read torn files, every endpoint has at most one role, none
\* with a role is offered for registration, and msops has a connection to
\* exactly the endpoints with a role.
THEOREM TableIsConsistent == Spec => []TableConsistent
<1>1. IInv => TableConsistent
  BY DEF IInv
<1> QED BY <1>1, Invariance, PTL

\* When the run loop is idle the files hold the roles, unless a write failed.
THEOREM IdleMeansSaved == Spec => []SavedWhenIdle
<1>1. IInv => SavedWhenIdle
  BY DEF IInv
<1> QED BY <1>1, Invariance, PTL

\* An endpoint of the last list the listener dealt with is shown in the table.
THEOREM NoArrivalHidden == Spec => []ArrivalsShown
<1>1. IInv => ArrivalsShown
  BY DEF IInv, ListsShown, ArrivalsShown
<1> QED BY <1>1, Invariance, PTL

\* A restart after an undisturbed save finds every role and connects to it.
THEOREM RestartIsFaithful == Spec => RestartKeepsRoles
<1> DEFINE Keep == pc = "down" /\ pc' # "down" /\ ~torn =>
                     Current' = Current /\ pool' = pool
<1>1. IInv /\ [Next]_vars => [Keep]_vars
  <2> SUFFICES ASSUME IInv, [Next]_vars, pc = "down", pc' # "down", ~torn
               PROVE  Current' = Current /\ pool' = pool
    OBVIOUS
  <2>1. LoadConfig
    BY DEF Next, InstancesChange, LainletEvent, Deliver, Operate, RegisterMaster,
       RegisterSlave, RegisterStandby, Unregister, SwitchToMaster, Patch, Tick,
       Truncate, Write, SaveError, Crash, vars, writer
  <2> QED BY <2>1, LoadRestores DEF Current
<1> QED BY <1>1, Invariance, PTL DEF Spec, RestartKeepsRoles

-----------------------------------------------------------------------------
(***************************************************************************)
(* The refinement: the table is a Roster.                                  *)
(***************************************************************************)

Seats == INSTANCE Roster WITH
  primary <- master, backup <- standby, replicas <- slave, lapsed <- torn,
  Nobody <- NoEndpoint

\* Whatever feeds the table, roles are taken, lost, and exchanged by a promotion
\* of one endpoint, and in no other way, until a restart reads torn files.
RosterKept == Seats!Spec

\* A list of instances takes roles away and moves none.
LEMMA DeliverDeparts ==
  ASSUME NEW list \in SUBSET Endpoint, UpdateServersList(list)
  PROVE  Seats!Depart
BY DEF UpdateServersList, Seats!Depart

\* A request fills an empty role, frees one, or promotes.
LEMMA OperateSeats ==
  ASSUME TypeOK, NEW e \in Endpoint, Operate(e),
         Consistent(master, slave, standby, unregistered, pool)
  PROVE  Seats!Depart \/ Seats!Enter(e) \/ Seats!Promote(e)
<1> USE EndpointAssumption DEF Consistent, One, TypeOK
<1>1. CASE RegisterMaster(e)
  BY <1>1 DEF RegisterMaster, Register, Seats!Enter, Seats!Held
<1>2. CASE RegisterSlave(e)
  BY <1>2 DEF RegisterSlave, Register, Seats!Enter, Seats!Held
<1>3. CASE RegisterStandby(e)
  BY <1>3 DEF RegisterStandby, Register, Seats!Enter, Seats!Held
<1>4. CASE Unregister(e)
  BY <1>4 DEF Unregister, Seats!Depart
<1>5. CASE SwitchToMaster(e)
  BY <1>5 DEF SwitchToMaster, Disjoint, Seats!Promote, Seats!Held
<1> QED BY <1>1, <1>2, <1>3, <1>4, <1>5 DEF Operate

LEMMA SeatsStep == IInv /\ IInv' /\ [Next]_vars => [Seats!Next]_(Seats!vars)
<1> SUFFICES ASSUME IInv, IInv', [Next]_vars PROVE [Seats!Next]_(Seats!vars)
  OBVIOUS
<1>0. TypeOK /\ TypeOK' /\ torn \in BOOLEAN /\ torn' \in BOOLEAN
  BY DEF IInv, TypeOK, FlagsOK
<1>1. CASE torn'
  <2>1. torn' = TRUE
    BY <1>0, <1>1, Zenon
  <2>2. Seats!Lapse
    BY <1>0, <2>1 DEF TypeOK, Seats!Lapse
  <2> QED BY <2>2 DEF Seats!Next
<1>2. CASE ~torn'
  <2>1. ~torn /\ UNCHANGED torn
    <3>1. torn => torn'
      BY Zenon DEF Next, InstancesChange, LainletEvent, Deliver, Operate, RegisterMaster,
         RegisterSlave, RegisterStandby, Unregister, SwitchToMaster, Patch, Tick,
         Truncate, Write, SaveError, Crash, LoadConfig, vars
    <3> QED BY <1>0, <1>2, <3>1, Zenon
  <2>2. Consistent(master, slave, standby, unregistered, pool)
    BY <2>1, ConsistentTable DEF IInv
  <2>3. CASE UNCHANGED <<master, standby, slave>>
    BY <2>1, <2>3 DEF Seats!vars, Seats!seats
  <2>4. CASE Deliver
    <3>1. Seats!Depart
      BY <1>0, <2>4, DeliverDeparts DEF Deliver, TypeOK
    <3> QED BY <2>1, <3>1 DEF Seats!Next
  <2>5. ASSUME NEW e \in Operated, Operate(e)
        PROVE  [Seats!Next]_(Seats!vars)
    <3>1. e \in Endpoint
      BY EndpointAssumption
    <3>2. Seats!Depart \/ Seats!Enter(e) \/ Seats!Promote(e)
      BY <1>0, <2>2, <2>5, <3>1, OperateSeats
    <3> QED BY <2>1, <3>1, <3>2 DEF Seats!Next
  <2>6. CASE LoadConfig
    <3>1. UNCHANGED <<master, slave, standby>>
      BY <2>1, <2>6, LoadRestores
    <3> QED BY <2>3, <3>1
  <2>7. \/ InstancesChange \/ LainletEvent \/ Tick \/ Truncate \/ Write
        \/ SaveError \/ Crash \/ UNCHANGED vars
        => UNCHANGED table
    BY DEF InstancesChange, LainletEvent, Tick, Truncate, Write, SaveError, Crash, vars
  <2> QED BY <2>3, <2>4, <2>5, <2>6, <2>7 DEF Next, table
<1> QED BY <1>1, <1>2

\* Requests, lists, saves, stops and restarts keep the promise of Roster, for any
\* endpoints and any number of faults: no list, and no restart from files that were
\* saved, moves an endpoint from one role to another.
THEOREM ImplementsRoster == Spec => RosterKept
<1>1. Init => Seats!Init
  <2> SUFFICES ASSUME Init PROVE Seats!Init
    OBVIOUS
  <2>1. torn = FALSE
    BY Zenon DEF Init
  <2> QED BY <2>1 DEF Init, Seats!Init
<1> QED BY <1>1, SeatsStep, Invariance, PTL DEF Spec, RosterKept, Seats!Spec
=============================================================================
