------------------------------ MODULE Registry ------------------------------
(***************************************************************************)
(* The monitor's table of MySQL instances: which endpoint is master, which *)
(* is standby, which are slaves, which are known and unregistered.  Four   *)
(* things feed it:                                                         *)
(*                                                                         *)
(*   - lainlet, whose lists of running instances a goroutine of its own    *)
(*     (the listener) filters and hands to the run loop;                   *)
(*   - the operator's PATCH requests (register, unregister, switch);       *)
(*   - the inspection timer of the run loop, which rewrites the files;     *)
(*   - the three files role.conf/{master,slave,standby}, read at start.    *)
(*                                                                         *)
(* The run loop serves one input at a time and rewrites the three files,   *)
(* one after the other and none of them atomically, after every change and *)
(* at every tick.  The process can stop between any two of its steps.      *)
(* Replication between the servers is the subject of module Failover.      *)
(***************************************************************************)
EXTENDS Naturals

CONSTANTS
  Endpoint,     \* "mysql-server-<n>:<port>" strings
  NoEndpoint,   \* the empty string in monitor.master and monitor.standby
  Operated,     \* the endpoints the operator's requests are about
  MaxFaults     \* bound: stops of the process and failed writes together

ASSUME EndpointAssumption ==
  /\ NoEndpoint \notin Endpoint
  /\ Operated \subseteq Endpoint

VARIABLES
  \* --- memory of the monitor process; while the process is down the
  \*     variables keep the value they had when it stopped
  master,        \* Endpoint or NoEndpoint
  standby,       \* Endpoint or NoEndpoint
  slave,         \* keys of the map monitor.slave
  unregistered,  \* keys of the map monitor.unregistered
  pool,          \* keys of msops.connectionPool
  \* --- control of the two goroutines
  pc,            \* run loop: "select", "truncate" or "write" (a file), "down"
  file,          \* the file being saved, an index of Files
  lpc,           \* listener: "watch", or "send" (blocked on newEventChan)
  tmpList,       \* the list the listener built from the last event
  endpointList,  \* the listener's previous list (see UpdateServersList)
  \* --- the disk and the platform
  conf,          \* content of the three files
  instances,     \* the instances that run, as lainlet knows them
  \* --- history and counters
  damaged,       \* the last save skipped or emptied a file
  saved,         \* the roles as the last undamaged save left them on disk
  torn,          \* some restart found files of an unfinished or damaged save
  faults         \* stops of the process and failed writes so far

table   == <<master, standby, slave, unregistered, pool>>
writer  == <<pc, file, conf, damaged, saved>>
watcher == <<lpc, tmpList, endpointList>>
vars    == <<table, writer, watcher, instances, torn, faults>>

-----------------------------------------------------------------------------
(***************************************************************************)
(* Roles and files.                                                        *)
(***************************************************************************)

Role  == {"master", "slave", "standby"}
Files == <<"master", "slave", "standby">>   \* the order saveConfig writes them

One(e) == {e} \ {NoEndpoint}

\* What load() makes of a file that must hold exactly one line.
Only(S) == IF \E e \in S : S = {e} THEN CHOOSE e \in S : S = {e} ELSE NoEndpoint

Roles(m, s, b) == [master |-> One(m), slave |-> s, standby |-> One(b)]
Current        == Roles(master, slave, standby)

Managed == One(master) \cup slave \cup One(standby)
Visible == Managed \cup unregistered

-----------------------------------------------------------------------------
(***************************************************************************)
(* The first start: no role files, empty maps, and the inspection that run *)
(* performs before its loop, which saves.                                  *)
(***************************************************************************)

Init ==
  /\ master = NoEndpoint /\ standby = NoEndpoint
  /\ slave = {} /\ unregistered = {} /\ pool = {}
  /\ pc = "truncate" /\ file = 1
  /\ lpc = "watch" /\ tmpList = {} /\ endpointList = {}
  /\ conf = Roles(NoEndpoint, {}, NoEndpoint)
  /\ saved = conf
  /\ instances \in SUBSET Endpoint
  /\ damaged = FALSE /\ torn = FALSE
  /\ faults = 0

\* The end of every handler that changed a role: saveConfig begins.
BeginSave ==
  /\ pc' = "truncate" /\ file' = 1 /\ damaged' = FALSE
  /\ UNCHANGED <<conf, saved>>

-----------------------------------------------------------------------------
(***************************************************************************)
(* The platform and the listener.                                          *)
(***************************************************************************)

InstancesChange ==
  /\ instances' \in SUBSET Endpoint
  /\ UNCHANGED <<table, writer, watcher, torn, faults>>

\* Mutant: the send does not wait for the run loop (select with a default).
LainletEventDropped ==
  /\ pc # "down" /\ lpc = "watch"
  /\ tmpList' = instances
  /\ lpc' = IF tmpList' # endpointList /\ pc = "select" THEN "send" ELSE "watch"
  /\ UNCHANGED <<table, writer, endpointList, instances, torn, faults>>

(***************************************************************************)
(* One event of the lainlet watch: the listener builds a list and compares *)
(* it with the previous one.  Equal lists are not sent on.                 *)
(***************************************************************************)
LainletEvent ==
  /\ pc # "down" /\ lpc = "watch"
  /\ tmpList' = instances
  /\ lpc' = IF tmpList' # endpointList THEN "send" ELSE "watch"
  /\ UNCHANGED <<table, writer, endpointList, instances, torn, faults>>

(***************************************************************************)
(* updateServersList empties its argument as it goes: what it has found is *)
(* deleted, so that an endpoint with two roles is missing from the list    *)
(* when the second one is looked up, and what is left at the end are the   *)
(* endpoints it had not known.                                             *)
(***************************************************************************)
UpdateServersList(list) ==
  LET afterMaster  == list \ One(master)
      afterSlave   == afterMaster \ slave
      afterStandby == afterSlave \ One(standby)
      missed       == (One(master) \ list) \cup (slave \ afterMaster)
                        \cup (One(standby) \ afterSlave)
  IN  /\ master'  = IF master \in list THEN master ELSE NoEndpoint
      /\ slave'   = slave \cap afterMaster
      /\ standby' = IF standby \in afterSlave THEN standby ELSE NoEndpoint
      /\ unregistered' = afterStandby
      /\ pool' = pool \ missed
      /\ endpointList' = afterStandby \ unregistered

(***************************************************************************)
(* The run loop takes the list from newEventChan.  The listener keeps the  *)
(* very map it sent as its endpointList, so the deletions above are made   *)
(* in the listener's copy too.  Its cooldown of three seconds lets the     *)
(* handler finish before the next comparison.  inspect() follows and saves.*)
(***************************************************************************)
Deliver ==
  /\ pc = "select" /\ lpc = "send"
  /\ UpdateServersList(tmpList)
  /\ lpc' = "watch"
  /\ BeginSave
  /\ UNCHANGED <<tmpList, instances, torn, faults>>

-----------------------------------------------------------------------------
(***************************************************************************)
(* The operator's requests that change the table; those that are refused,  *)
(* and those that only act on the servers, leave it as it is.              *)
(***************************************************************************)

\* The condition under which handlePatch answers 404.
InvalidInstance(e) ==
  /\ e # master /\ e \in slave
  /\ e # standby /\ e \in unregistered

\* Mutant: the handler answers without saveConfig.
PatchUnsaved(e) ==
  /\ pc = "select" /\ ~InvalidInstance(e)
  /\ UNCHANGED <<writer, watcher, instances, torn, faults>>

Patch(e) ==
  /\ pc = "select" /\ ~InvalidInstance(e)
  /\ BeginSave
  /\ UNCHANGED <<watcher, instances, torn, faults>>

\* Mutant: the endpoint stays among the unregistered.
RegisterKept(e) ==
  /\ e \in unregistered
  /\ pool' = pool \cup {e}
  /\ UNCHANGED unregistered

Register(e) ==
  /\ e \in unregistered
  /\ pool' = pool \cup {e}
  /\ unregistered' = unregistered \ {e}

RegisterMaster(e) ==
  /\ Patch(e) /\ Register(e)
  /\ master = NoEndpoint /\ master' = e
  /\ UNCHANGED <<slave, standby>>

RegisterSlave(e) ==
  /\ Patch(e) /\ Register(e)
  /\ master # NoEndpoint /\ slave' = slave \cup {e}
  /\ UNCHANGED <<master, standby>>

RegisterStandby(e) ==
  /\ Patch(e) /\ Register(e)
  /\ master # NoEndpoint /\ standby = NoEndpoint /\ standby' = e
  /\ UNCHANGED <<master, slave>>

Unregister(e) ==
  /\ Patch(e)
  /\ e # master
  /\ IF e = standby
     THEN standby' = NoEndpoint /\ slave' = slave
     ELSE standby' = standby /\ slave' = slave \ {e}
  /\ unregistered' = unregistered \cup {e}
  /\ pool' = pool \ {e}
  /\ UNCHANGED master

(***************************************************************************)
(* A switch that succeeds: the replication checks need a connection to     *)
(* both servers (module Failover has the steps), then the two endpoints    *)
(* exchange their roles.  A switch that fails leaves the table alone.      *)
(***************************************************************************)
SwitchToMaster(e) ==
  /\ Patch(e)
  /\ master # NoEndpoint /\ e # master /\ e \notin unregistered
  /\ {e, master} \subseteq pool
  /\ IF e # standby
     THEN slave' = (slave \cup {master}) \ {e} /\ standby' = standby
     ELSE slave' = slave /\ standby' = master
  /\ master' = e
  /\ UNCHANGED <<unregistered, pool>>

-----------------------------------------------------------------------------
(***************************************************************************)
(* Saving: os.Create truncates the file, the flush of the buffer fills it. *)
(* Neither error reaches anybody: the next file is saved all the same.     *)
(***************************************************************************)

Tick ==
  /\ pc = "select"
  /\ BeginSave
  /\ UNCHANGED <<table, watcher, instances, torn, faults>>

\* Mutant: one file too many.
NextFileBeyond ==
  IF file <= 3
  THEN pc' = "truncate" /\ file' = file + 1 /\ saved' = saved
  ELSE /\ pc' = "select" /\ file' = 1
       /\ saved' = IF damaged' THEN saved ELSE conf'

NextFile ==
  IF file < 3
  THEN pc' = "truncate" /\ file' = file + 1 /\ saved' = saved
  ELSE /\ pc' = "select" /\ file' = 1
       /\ saved' = IF damaged' THEN saved ELSE conf'

Truncate ==
  /\ pc = "truncate"
  /\ conf' = [conf EXCEPT ![Files[file]] = {}]
  /\ pc' = "write"
  /\ UNCHANGED <<table, file, damaged, saved, watcher, instances, torn, faults>>

Write ==
  /\ pc = "write"
  /\ conf' = [conf EXCEPT ![Files[file]] = Current[Files[file]]]
  /\ damaged' = damaged
  /\ NextFile
  /\ UNCHANGED <<table, watcher, instances, torn, faults>>

\* os.Create, or the unchecked WriteString and Flush, fail (a full disk).
SaveError ==
  /\ pc \in {"truncate", "write"}
  /\ faults < MaxFaults /\ faults' = faults + 1
  /\ damaged' = TRUE
  /\ conf' = conf
  /\ NextFile
  /\ UNCHANGED <<table, watcher, instances, torn>>

-----------------------------------------------------------------------------
(***************************************************************************)
(* The process stops anywhere and starts again: loadConfig reads the files *)
(* and opens a connection for each role, all other memory starts empty.    *)
(***************************************************************************)

Crash ==
  /\ pc # "down" /\ faults < MaxFaults
  /\ pc' = "down" /\ faults' = faults + 1
  /\ torn' = (torn \/ damaged \/ pc # "select")
  /\ UNCHANGED <<table, file, conf, damaged, saved, watcher, instances>>

\* Mutant: the slaves read from the file are not registered with msops.
LoadConfigUnconnected ==
  /\ pc = "down"
  /\ master'  = Only(conf["master"])
  /\ slave'   = conf["slave"]
  /\ standby' = Only(conf["standby"])
  /\ pool' = One(master') \cup One(standby')
  /\ unregistered' = {}
  /\ lpc' = "watch" /\ tmpList' = {} /\ endpointList' = {}
  /\ BeginSave
  /\ UNCHANGED <<instances, torn, faults>>

LoadConfig ==
  /\ pc = "down"
  /\ master'  = Only(conf["master"])
  /\ slave'   = conf["slave"]
  /\ standby' = Only(conf["standby"])
  /\ pool' = One(master') \cup slave' \cup One(standby')
  /\ unregistered' = {}
  /\ lpc' = "watch" /\ tmpList' = {} /\ endpointList' = {}
  /\ BeginSave
  /\ UNCHANGED <<instances, torn, faults>>

-----------------------------------------------------------------------------

Operate(e) ==
  \/ RegisterMaster(e)
  \/ RegisterSlave(e)
  \/ RegisterStandby(e)
  \/ Unregister(e)
  \/ SwitchToMaster(e)

Next ==
  \/ InstancesChange
  \/ LainletEvent
  \/ Deliver
  \/ \E e \in Operated : Operate(e)
  \/ Tick
  \/ Truncate
  \/ Write
  \/ SaveError
  \/ Crash
  \/ LoadConfig

Spec == Init /\ [][Next]_vars

(***************************************************************************)
(* The process manager restarts the monitor, the run loop goes on, the     *)
(* watch delivers what changed, and a sender blocked on newEventChan is    *)
(* served in spite of the requests and ticks that are ready at the same    *)
(* time (select picks at random): hence strong fairness for Deliver.       *)
(***************************************************************************)
Fairness ==
  /\ WF_vars(LoadConfig)
  /\ WF_vars(Truncate \/ Write \/ SaveError)
  /\ WF_vars(LainletEvent /\ tmpList' # tmpList)
  /\ SF_vars(Deliver)

FairSpec == Spec /\ Fairness

-----------------------------------------------------------------------------
(***************************************************************************)
(* PROPERTIES                                                              *)
(***************************************************************************)

\* The types of the variables.
FlagsOK == damaged \in BOOLEAN /\ torn \in BOOLEAN

TypeOK ==
  /\ master \in Endpoint \cup {NoEndpoint}
  /\ standby \in Endpoint \cup {NoEndpoint}
  /\ slave \in SUBSET Endpoint
  /\ unregistered \in SUBSET Endpoint
  /\ pool \in SUBSET Endpoint
  /\ pc \in {"select", "truncate", "write", "down"}
  /\ file \in 1..3
  /\ lpc \in {"watch", "send"}
  /\ tmpList \in SUBSET Endpoint
  /\ endpointList \in SUBSET Endpoint
  /\ instances \in SUBSET Endpoint
  /\ conf \in [Role -> SUBSET Endpoint]
  /\ saved \in [Role -> SUBSET Endpoint]
  /\ FlagsOK
  /\ faults \in Nat

Disjoint(m, s, b) ==
  /\ m \cap s = {}
  /\ m \cap b = {}
  /\ s \cap b = {}

\* Unless a restart read torn files: no endpoint has two roles, none that has
\* a role is offered for registration, and the connections of msops are those
\* to the endpoints with a role.  (monitor.go:187-230, model.go:147-183,
\* 236-242 and 267-279 each maintain it by hand, over five containers.)
OneRoleEach       == Disjoint(One(master), slave, One(standby))
UnregisteredApart == unregistered \cap Managed = {}
PoolIsManaged     == pool = Managed

TableConsistent ==
  ~torn => OneRoleEach /\ UnregisteredApart /\ PoolIsManaged

\* When the run loop waits for work the files hold the roles in memory, save
\* for a write that failed: every handler that changes a role saves, and the
\* answer the operator gets (monitor.go:397) follows the save.
SavedWhenIdle == pc = "select" /\ ~damaged => conf = Current /\ saved = Current

\* The listener's filter never hides an instance that has arrived: when it
\* waits for an event, each endpoint of the last list is shown in some role.
\* (It compares with a list from which everything known was deleted.)
ArrivalsShown == lpc = "watch" /\ pc # "down" => tmpList \subseteq Visible

\* A restart after an undisturbed save finds the roles of the process that
\* stopped, with a connection to each of them.  (loadConfig, monitor.go:302)
RestartKeepsRoles ==
  [][pc = "down" /\ pc' # "down" /\ ~torn =>
       Current' = Current /\ pool' = pool]_vars

\* An instance that stays is in the end shown for good, whatever the operator
\* does and whenever the monitor restarts.
ArrivalShownForGood ==
  \A e \in Endpoint : <>[](e \in instances) => <>[](pc # "down" /\ e \in Visible)

-----------------------------------------------------------------------------
(***************************************************************************)
(* A claim of the documentation that the code does not meet.               *)
(***************************************************************************)

\* README.md:48: changed state is flushed to the configuration files, and the
\* monitor takes the cluster's state from them: a restart finds the roles of
\* the last complete save, or those of the process that stopped.
RestartFindsSavedRoles ==
  [][pc = "down" /\ pc' # "down" => Current' \in {saved, Current}]_vars
=============================================================================
