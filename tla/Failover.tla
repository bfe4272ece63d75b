------------------------------ MODULE Failover ------------------------------
(***************************************************************************)
(* The monitor's operations on the replicated servers: activate, detach,   *)
(* pause, resume and switchToMaster.  Each is a sequence of SQL statements *)
(* that msops sends to one server after the other; clients, replication,   *)
(* server restarts and the monitor's own death come between any two.       *)
(*                                                                         *)
(* The endpoints and their number are fixed here: registration is module   *)
(* Registry's.  Every endpoint is registered, so that msops knows them all.*)
(***************************************************************************)
EXTENDS Naturals, Sequences

CONSTANTS
  Server,         \* the registered endpoints
  NoServer,       \* the empty string
  InitMaster,     \* the master first registered
  InitStandby,    \* the standby first registered, or NoServer
  Operated,       \* the servers the operator's requests are about
  Write,          \* the transactions clients may commit
  MaxFaults       \* bound: calls that fail or lose their answer, stops of
                  \* servers and of the monitor, taken together

ASSUME ServerAssumption ==
  /\ NoServer \notin Server
  /\ InitMaster \in Server
  /\ InitStandby \in (Server \cup {NoServer}) \ {InitMaster}
  /\ Operated \subseteq Server

VARIABLES
  \* --- the MySQL servers
  up,        \* the servers that run and can be reached
  readOnly,  \* the servers with read_only = 1
  source,    \* the master each server's slave threads are configured with
  running,   \* the servers whose slave threads, I/O and SQL, are started
  io,        \* where in its source's log each I/O thread reads, see IoPlace
  relay,     \* the transactions it has fetched and the SQL thread not executed
  sql,       \* where in its source's log each SQL thread is, see SqlPlace
  data,      \* the transactions each server has executed
  session,   \* the servers on which client sessions of mysql-master are open
  target,    \* the master the proxies have last been told
  \* --- the monitor
  master, standby, slave,
  saved,     \* the roles in the files
  pc,        \* where the run loop is; "idle" is its select
  cand,      \* switchToMaster's argument
  reverse,   \* "mutual" or "oneWay", the variable rev of switchToMaster
  todo,      \* calls the current operation has still to make
  left,      \* slaves the switch has not yet repointed
  \* --- history and counters
  paused,      \* the master the operator has paused and not resumed, if any
  interrupted, \* the monitor died between a switch of roles and its save
  misread,     \* a candidate was "ok" by a position in another file
  faults

slaves  == <<io, relay, sql>>
servers == <<up, readOnly, source, running, slaves, data, session>>
roles   == <<master, standby, slave>>
local   == <<cand, reverse>>
loop    == <<local, todo, left>>
history == <<paused, interrupted, misread>>
vars    == <<servers, target, roles, saved, pc, loop, history, faults>>

\* A server's log is a row of files.  A replica's threads read the file its source
\* writes, up to the end of the log or short of it, or a file before that; there
\* the SQL thread's offset may be "alike": the number that is the source's own
\* offset.  Before it has read anything it is at the "start", in no file.
IoPlace  == {"earlier", "current", "end"}
SqlPlace == {"start", "earlier", "alike", "current", "end"}

Others == slave \cup ({standby} \ {NoServer})

-----------------------------------------------------------------------------
(***************************************************************************)
(* A fresh cluster: my.cnf starts every server read-only, nothing          *)
(* replicates, the operator has registered the roles.                      *)
(***************************************************************************)
Init ==
  /\ up = Server /\ readOnly = Server
  /\ source = [s \in Server |-> NoServer]
  /\ running = {} /\ session = {}
  /\ io = [s \in Server |-> "earlier"] /\ sql = [s \in Server |-> "start"]
  /\ relay = [s \in Server |-> {}]
  /\ data = [s \in Server |-> {}]
  /\ target = NoServer
  /\ master = InitMaster /\ standby = InitStandby
  /\ slave = Server \ {InitMaster, InitStandby}
  /\ saved = roles
  /\ pc = "idle" /\ cand = NoServer /\ reverse = "oneWay"
  /\ todo = <<>> /\ left = {}
  /\ paused = {} /\ interrupted = FALSE /\ misread = FALSE
  /\ faults = 0

-----------------------------------------------------------------------------
(***************************************************************************)
(* msops: the status of a replica, and the calls.                          *)
(***************************************************************************)

\* Mutant: offsets are not compared, a replica that runs is "ok".
ReplicationStatusLax(s, m) ==
  IF m = NoServer \/ ~({s, m} \subseteq up) THEN "unknown"
  ELSE IF source[s] = NoServer THEN "none"
  ELSE IF source[s] # m THEN "wrongMaster"
  ELSE IF s \notin running THEN "pausing" ELSE "ok"

\* Master_Log_File, the I/O thread's, is compared with the file the master writes,
\* and Exec_Master_Log_Pos, the SQL thread's, with the master's offset in it; the
\* file the SQL thread is in, Relay_Master_Log_File, is not looked at.
ReplicationStatus(s, m) ==
  IF m = NoServer \/ ~({s, m} \subseteq up) THEN "unknown"
  ELSE IF source[s] = NoServer THEN "none"
  ELSE IF source[s] # m THEN "wrongMaster"
  ELSE IF s \notin running THEN "pausing"
  ELSE IF io[s] = "earlier" \/ sql[s] \notin {"alike", "end"} THEN "syning"
  ELSE "ok"

Call(op, at, to) == [op |-> op, at |-> at, to |-> to]
Kill(s)          == Call("kill", s, NoServer)
SetReadOnly(s)   == Call("readonly", s, NoServer)
SetWritable(s)   == Call("writable", s, NoServer)
StopSlave(s)     == Call("stop", s, NoServer)
StartSlave(s)    == Call("start", s, NoServer)
ResetSlave(s)    == Call("reset", s, NoServer)
ChangeMasterTo(s, m) == Call("change", s, m)

Ops     == {"kill", "readonly", "writable", "stop", "start", "reset", "change"}
CallSet == [op : Ops, at : Server, to : Server \cup {NoServer}]

\* The server accepts the statement; ChangeMasterTo(s, "") is not even sent.
Can(c) ==
  /\ c.at \in up
  /\ c.op \in {"reset", "change"} => c.at \notin running
  /\ c.op = "start" => source[c.at] # NoServer
  /\ c.op = "change" => c.to # NoServer

\* What the statement does at the server.  "kill" is one KILL per session, and one
\* that fails is not looked at; CHANGE MASTER and RESET SLAVE ALL delete the relay
\* log and forget the position.
Do(c) ==
  /\ session'  \in IF c.op = "kill" THEN {session \ {c.at}, session} ELSE {session}
  /\ readOnly' = IF c.op = "readonly" THEN readOnly \cup {c.at}
                 ELSE IF c.op = "writable" THEN readOnly \ {c.at}
                 ELSE readOnly
  /\ running'  = IF c.op = "start" THEN running \cup {c.at}
                 ELSE IF c.op = "stop" THEN running \ {c.at}
                 ELSE running
  /\ source'   = IF c.op \in {"change", "reset"}
                 THEN [source EXCEPT ![c.at] = c.to] ELSE source
  /\ IF c.op \in {"change", "reset"}
     THEN /\ io'    = [io EXCEPT ![c.at] = "earlier"]
          /\ relay' = [relay EXCEPT ![c.at] = {}]
          /\ sql'   = [sql EXCEPT ![c.at] = "start"]
     ELSE UNCHANGED slaves
  /\ UNCHANGED <<up, data>>

Succeeds(c) == Can(c) /\ Do(c) /\ UNCHANGED faults

\* The server refuses; or the call does not reach it; or its answer is lost.
Fails(c) ==
  \/ ~Can(c) /\ UNCHANGED <<servers, faults>>
  \/ /\ faults < MaxFaults /\ faults' = faults + 1
     /\ \/ UNCHANGED servers
        \/ Can(c) /\ Do(c)

-----------------------------------------------------------------------------
(***************************************************************************)
(* The operator's requests other than switch.  Their calls are made in     *)
(* order; the first that fails ends the request.                           *)
(***************************************************************************)

Request(calls) ==
  /\ pc = "idle" /\ pc' = "request" /\ todo' = calls
  /\ UNCHANGED <<servers, target, roles, saved, local, left, interrupted, misread, faults>>

Active(e) ==
  LET m == IF e = master THEN standby ELSE master
  IN  /\ ReplicationStatus(e, m) = "none"
      /\ Request(<<ChangeMasterTo(e, m), StartSlave(e)>>)
      /\ UNCHANGED paused

Detach(e) == Request(<<StopSlave(e), ResetSlave(e)>>) /\ UNCHANGED paused

Pause(e) ==
  /\ Request(<<IF e = master THEN SetReadOnly(e) ELSE StopSlave(e)>>)
  /\ UNCHANGED paused

Resume(e) ==
  /\ Request(<<IF e = master THEN SetWritable(e) ELSE StartSlave(e)>>)
  /\ paused' = paused \ {e}

RequestCall ==
  /\ pc = "request" /\ todo # <<>>
  /\ \/ /\ Succeeds(Head(todo))
        /\ todo' = Tail(todo)
        /\ pc' = IF todo' = <<>> THEN "idle" ELSE "request"
        /\ paused' = IF Head(todo).op = "readonly"
                     THEN paused \cup {Head(todo).at} ELSE paused
     \/ /\ Fails(Head(todo))
        /\ todo' = <<>> /\ pc' = "idle" /\ paused' = paused
  /\ UNCHANGED <<target, roles, saved, local, left, interrupted, misread>>

-----------------------------------------------------------------------------
(***************************************************************************)
(* switchToMaster, statement by statement.                                 *)
(***************************************************************************)

quiet == <<target, roles, saved, todo, left, history>>

\* The argument and rev are variables of the call: gone when it returns.
Locals == IF pc' = "idle" THEN cand' = NoServer /\ reverse' = "oneWay" ELSE UNCHANGED local

Switch(e) ==
  /\ pc = "idle" /\ pc' = "kill"
  /\ e # master /\ master # NoServer
  /\ cand' = e
  /\ UNCHANGED <<servers, target, roles, saved, reverse, todo, left, history, faults>>

PreKill ==
  /\ pc = "kill"
  /\ \/ Succeeds(Kill(master)) /\ pc' = "readonly"
     \/ Fails(Kill(master)) /\ pc' = "idle"
  /\ Locals /\ UNCHANGED quiet

\* Mutant: the error of SET GLOBAL read_only = 1 is not looked at.
EnableReadOnlyUnchecked ==
  /\ pc = "readonly" /\ pc' = "rekill"
  /\ Succeeds(SetReadOnly(master)) \/ Fails(SetReadOnly(master))
  /\ UNCHANGED <<quiet, local>>

EnableReadOnly ==
  /\ pc = "readonly"
  /\ \/ Succeeds(SetReadOnly(master)) /\ pc' = "rekill"
     \/ Fails(SetReadOnly(master)) /\ pc' = "idle"
  /\ Locals /\ UNCHANGED quiet

\* Mutant: a failed second kill is not undone.
PostKillOnly ==
  /\ pc = "rekill"
  /\ \/ Succeeds(Kill(master)) /\ pc' = "check"
     \/ Fails(Kill(master)) /\ pc' = "idle"
  /\ Locals /\ UNCHANGED quiet

PostKill ==
  /\ pc = "rekill"
  /\ \/ Succeeds(Kill(master)) /\ pc' = "check"
     \/ Fails(Kill(master)) /\ pc' = "reopen"
  /\ UNCHANGED <<quiet, local>>

TakenForOk == ReplicationStatus(cand, master) = "ok" /\ sql[cand] = "alike"

\* Mutant: the second check is only waited for.
CheckCandidateOnce ==
  /\ pc \in {"check", "recheck"}
  /\ pc' = IF ReplicationStatus(cand, master) = "ok" \/ pc = "recheck"
           THEN "reverse" ELSE "recheck"
  /\ misread' = (misread \/ TakenForOk)
  /\ UNCHANGED <<servers, target, roles, saved, loop, paused, interrupted, faults>>

\* The candidate gets a second chance three seconds later.
CheckCandidate ==
  /\ pc \in {"check", "recheck"}
  /\ pc' = IF ReplicationStatus(cand, master) = "ok" THEN "reverse"
           ELSE IF pc = "check" THEN "recheck" ELSE "reopen"
  /\ misread' = (misread \/ TakenForOk)
  /\ UNCHANGED <<servers, target, roles, saved, loop, paused, interrupted, faults>>

\* Mutant: rev holds the status, not the outcome of the comparison.
CheckReverseRaw ==
  /\ pc = "reverse" /\ pc' = "stop"
  /\ reverse' = ReplicationStatus(master, standby)
  /\ UNCHANGED <<servers, target, roles, saved, cand, todo, left, history, faults>>

\* rev: the master's own replication from the standby is "ok" at this moment.
CheckReverse ==
  /\ pc = "reverse" /\ pc' = "stop"
  /\ reverse' = IF ReplicationStatus(master, standby) = "ok" THEN "mutual" ELSE "oneWay"
  /\ UNCHANGED <<servers, target, roles, saved, cand, todo, left, history, faults>>

StopOldMaster ==
  /\ pc = "stop"
  /\ \/ Succeeds(StopSlave(master)) /\ pc' = "change"
     \/ Fails(StopSlave(master)) /\ pc' = "reopen"
  /\ UNCHANGED <<quiet, local>>

\* The new master leaves its old source; the standby, if there is one, is
\* pointed at it, and it at the standby if they were mutual.
Promotion(m, b) ==
  <<StopSlave(m), ResetSlave(m)>>
    \o (IF b = NoServer THEN <<>>
        ELSE <<StopSlave(b), ChangeMasterTo(b, m), StartSlave(b)>>)
    \o (IF b = NoServer \/ reverse = "oneWay" THEN <<>>
        ELSE <<ChangeMasterTo(m, b), StartSlave(m)>>)

ExchangeRoles ==
  /\ master' = cand
  /\ IF cand # standby
     THEN slave' = (slave \cup {master}) \ {cand} /\ standby' = standby
     ELSE slave' = slave /\ standby' = master
  /\ todo' = Promotion(master', standby')
  /\ left' = slave'
  /\ paused' = {}

ChangeOldMaster ==
  /\ pc = "change"
  /\ \/ /\ Succeeds(ChangeMasterTo(master, cand))
        /\ ExchangeRoles /\ pc' = "repoint"
     \/ /\ Fails(ChangeMasterTo(master, cand))
        /\ pc' = "restart"
        /\ UNCHANGED <<roles, todo, left, paused>>
  /\ UNCHANGED <<target, saved, local, interrupted, misread>>

RestartOldMaster ==
  /\ pc = "restart" /\ pc' = "reopen"
  /\ Succeeds(StartSlave(master)) \/ Fails(StartSlave(master))
  /\ UNCHANGED <<quiet, local>>

\* From here on no error is looked at.
Repoint ==
  /\ pc = "repoint" /\ todo # <<>>
  /\ Succeeds(Head(todo)) \/ Fails(Head(todo))
  /\ todo' = Tail(todo)
  /\ UNCHANGED <<target, roles, saved, pc, local, left, history>>

\* Mutant: CHANGE MASTER while the slave threads run.
RepointSlaveRunning(s) ==
  /\ pc = "repoint" /\ todo = <<>> /\ s \in left
  /\ left' = left \ {s}
  /\ todo' = <<ChangeMasterTo(s, master), StartSlave(s)>>
  /\ UNCHANGED <<servers, target, roles, saved, pc, local, history, faults>>

RepointSlave(s) ==
  /\ pc = "repoint" /\ todo = <<>> /\ s \in left
  /\ left' = left \ {s}
  /\ todo' = <<StopSlave(s), ChangeMasterTo(s, master), StartSlave(s)>>
  /\ UNCHANGED <<servers, target, roles, saved, pc, local, history, faults>>

Repointed ==
  /\ pc = "repoint" /\ todo = <<>> /\ left = {}
  /\ pc' = "reopen"
  /\ UNCHANGED <<servers, quiet, local, faults>>

\* read_only = 0 at the master: the last statement of a switch that went
\* through, and what every failed one does to undo itself.
Reopen ==
  /\ pc = "reopen" /\ pc' = IF roles = saved THEN "idle" ELSE "save"
  /\ Succeeds(SetWritable(master)) \/ Fails(SetWritable(master))
  /\ Locals /\ UNCHANGED quiet

SaveConfig ==
  /\ pc = "save" /\ pc' = "idle"
  /\ saved' = roles /\ Locals
  /\ UNCHANGED <<servers, target, roles, todo, left, history, faults>>

-----------------------------------------------------------------------------
(***************************************************************************)
(* The rest of the monitor: the inspection tick tells the proxies which    *)
(* master answers; a restart takes the roles from the files.               *)
(***************************************************************************)

\* Mutant: proxies are only told when the master they have is gone.
InspectLost ==
  /\ pc = "idle"
  /\ target' = IF target \in up THEN target ELSE IF master \in up THEN master ELSE NoServer
  /\ UNCHANGED <<servers, roles, saved, pc, loop, history, faults>>

Inspect ==
  /\ pc = "idle"
  /\ target' = IF master \in up THEN master ELSE NoServer
  /\ UNCHANGED <<servers, roles, saved, pc, loop, history, faults>>

MonitorRestart ==
  /\ faults < MaxFaults /\ faults' = faults + 1
  /\ pc' = "idle" /\ todo' = <<>> /\ left' = {} /\ Locals
  /\ master' = saved[1] /\ standby' = saved[2] /\ slave' = saved[3]
  /\ interrupted' = (interrupted \/ roles # saved)
  /\ UNCHANGED <<servers, target, saved, paused, misread>>

-----------------------------------------------------------------------------
(***************************************************************************)
(* Clients, replication and the servers themselves.                        *)
(***************************************************************************)

monitor == <<roles, saved, pc, loop, history>>

Replicas(s) == {t \in Server : source[t] = s}

\* What becomes of the positions in the log of s when s writes to it: what was its
\* end is not, and when a file is full the log goes on in a new one.
IoAfter(s, newFile) ==
  [t \in Server |->
     IF t \notin Replicas(s) THEN io[t]
     ELSE IF newFile THEN "earlier"
     ELSE IF io[t] = "end" THEN "current" ELSE io[t]]

SqlAfter(s, newFile) ==
  LET outside == {t \in Replicas(s) :
                    sql[t] \in {"earlier", "alike"} \/ (newFile /\ sql[t] # "start")}
  IN  {[t \in Server |->
          IF t \in same THEN "alike"
          ELSE IF t \in outside THEN "earlier"
          ELSE IF t \in Replicas(s) /\ sql[t] = "end" THEN "current" ELSE sql[t]]
        : same \in SUBSET outside}

\* A client connects through a proxy of the service mysql-master.
Connect ==
  /\ target \in up
  /\ session' = session \cup {target}
  /\ UNCHANGED <<up, readOnly, source, running, slaves, data, target, monitor, faults>>

Commit(s) ==
  /\ s \in (session \cap up) \ readOnly
  /\ \E w \in Write \ UNION {data[t] : t \in Server} :
       data' = [data EXCEPT ![s] = @ \cup {w}]
  /\ \E newFile \in BOOLEAN :
       io' = IoAfter(s, newFile) /\ sql' \in SqlAfter(s, newFile)
  /\ UNCHANGED <<up, readOnly, source, running, relay, session, target, monitor, faults>>

\* The I/O thread, with MASTER_AUTO_POSITION, copies what the server lacks to its
\* relay log, up to the end of its source's log.
Fetch(s) ==
  /\ s \in running /\ source[s] # NoServer /\ {s, source[s]} \subseteq up
  /\ io[s] # "end" /\ io' = [io EXCEPT ![s] = "end"]
  /\ relay' = [relay EXCEPT ![s] = @ \cup (data[source[s]] \ data[s])]
  /\ UNCHANGED <<up, readOnly, source, running, sql, data, session, target, monitor, faults>>

\* The SQL thread executes a transaction of the relay log, which log-slave-updates
\* puts into the server's own log as well.
Underway(s) ==
  IF io[s] = "earlier" THEN {"earlier", "alike"}
  ELSE IF sql[s] = "current" THEN {"current"} ELSE {"earlier", "alike", "current"}

Execute(s) ==
  /\ s \in running \cap up
  /\ \E w \in relay[s] :
       /\ data'  = [data EXCEPT ![s] = @ \cup {w}]
       /\ relay' = [relay EXCEPT ![s] = @ \ {w}]
  /\ \E newFile \in BOOLEAN :
       /\ io' = IoAfter(s, newFile)
       /\ \E q \in SqlAfter(s, newFile), p \in Underway(s) : sql' = [q EXCEPT ![s] = p]
  /\ UNCHANGED <<up, readOnly, source, running, session, target, monitor, faults>>

\* With nothing left to execute it arrives where the I/O thread is.  In between are
\* the ends of files, and in a mutual pair the server's own transactions, which the
\* source has logged and which are skipped.
Arrive(s) ==
  /\ s \in running \cap up
  /\ relay[s] = {} /\ io[s] # "earlier" /\ sql[s] # io[s]
  /\ sql' = [sql EXCEPT ![s] = io[s]]
  /\ UNCHANGED <<up, readOnly, source, running, io, relay, data, session, target, monitor, faults>>

ServerStop(s) ==
  /\ s \in up /\ up' = up \ {s}
  /\ faults < MaxFaults /\ faults' = faults + 1
  /\ session' = session \ {s}
  /\ UNCHANGED <<readOnly, source, running, slaves, data, target, monitor>>

\* my.cnf: read_only on, and the slave threads of a configured slave start.  The
\* server begins a new file of its log, and keeps its relay log.
ServerStart(s) ==
  /\ s \notin up /\ up' = up \cup {s}
  /\ readOnly' = readOnly \cup {s}
  /\ running' = IF source[s] = NoServer THEN running \ {s} ELSE running \cup {s}
  /\ io' = IoAfter(s, TRUE) /\ sql' \in SqlAfter(s, TRUE)
  /\ UNCHANGED <<source, relay, data, session, target, monitor, faults>>

-----------------------------------------------------------------------------

Operate(e) ==
  \/ Active(e)
  \/ Detach(e)
  \/ Pause(e)
  \/ Resume(e)
  \/ Switch(e)

Step ==
  \/ RequestCall
  \/ PreKill
  \/ EnableReadOnly
  \/ PostKill
  \/ CheckCandidate
  \/ CheckReverse
  \/ StopOldMaster
  \/ ChangeOldMaster
  \/ RestartOldMaster
  \/ Repoint
  \/ \E s \in Server : RepointSlave(s)
  \/ Repointed
  \/ Reopen
  \/ SaveConfig

Environment(s) ==
  \/ Commit(s)
  \/ Fetch(s)
  \/ Execute(s)
  \/ Arrive(s)
  \/ ServerStop(s)
  \/ ServerStart(s)

Next ==
  \/ \E e \in Operated : Operate(e)
  \/ Step
  \/ Inspect
  \/ MonitorRestart
  \/ Connect
  \/ \E s \in Server : Environment(s)

Spec == Init /\ [][Next]_vars

(***************************************************************************)
(* The run loop goes on with the operation it is in: each call returns or  *)
(* fails.  Between operations the tick competes with the requests for the  *)
(* select, which picks at random: strong fairness.                         *)
(***************************************************************************)
FairSpec == Spec /\ WF_vars(Step) /\ SF_vars(Inspect)
-----------------------------------------------------------------------------
(***************************************************************************)
(* PROPERTIES                                                              *)
(***************************************************************************)

\* The types of the variables.
HistoryOK ==
  interrupted \in BOOLEAN /\ misread \in BOOLEAN /\ paused \in SUBSET Server

RoleTable == Server \X (Server \cup {NoServer}) \X (SUBSET Server)

Place == {"idle", "request", "kill", "readonly", "rekill", "check", "recheck",
          "reverse", "stop", "change", "restart", "repoint", "reopen", "save"}

ServersOK ==
  /\ up \in SUBSET Server /\ readOnly \in SUBSET Server
  /\ running \in SUBSET Server /\ session \in SUBSET Server
  /\ io \in [Server -> IoPlace] /\ sql \in [Server -> SqlPlace]
  /\ relay \in [Server -> SUBSET Write]
  /\ source \in [Server -> Server \cup {NoServer}]
  /\ data \in [Server -> SUBSET Write]
  /\ faults \in Nat

LoopOK ==
  /\ cand \in Server \cup {NoServer}
  /\ reverse \in {"oneWay", "mutual"}
  /\ todo \in Seq(CallSet)
  /\ left \in SUBSET Server

TypeOK ==
  /\ ServersOK
  /\ target \in Server \cup {NoServer}
  /\ roles \in RoleTable /\ saved \in RoleTable
  /\ pc \in Place
  /\ LoopOK
  /\ HistoryOK

\* No server but the one the monitor takes for master accepts writes, at any
\* step of any operation and whatever fails, unless the monitor died between
\* exchanging the roles and saving them.  (model.go:209-263)
OnlyMasterWritable == ~interrupted => Server \ {master} \subseteq readOnly

\* A committed write is at the master, before, during and after every switch:
\* no server has one the master lacks, executed or in its relay log.  (The order of
\* model.go:212, 219 and 242: no writes any more, nothing missing at the candidate,
\* new role.)  Excepted are the two ways in which the code does lose writes: the
\* monitor died between switch and save, or the check of model.go:219 took for "ok" a
\* candidate whose offset is the master's in another file (see OkMeansSynced).
NoWriteLost ==
  ~interrupted /\ ~misread => \A s \in Server : data[s] \cup relay[s] \subseteq data[master]

\* Each server has one role, and the roles cover what they covered: a switch
\* neither drops the old master nor leaves the new one among the slaves.
RolesPartition ==
  /\ master \notin Others
  /\ standby \notin slave
  /\ {master} \cup Others = Server

\* A switch whose calls all went through leaves a cluster that works: the new
\* master writable, all others replicating from it, and it from the standby if the
\* two were found mutual, else from nobody.  (model.go:226-263)  That a pair which
\* is mutual is found so is not said: see MutualStaysMutual.
SwitchCompletes ==
  pc = "save" /\ faults = 0 =>
    /\ master = cand /\ master \notin readOnly
    /\ \A s \in Others : source[s] = master /\ s \in running
    /\ source[master] = IF reverse = "mutual" THEN standby ELSE NoServer

\* The places of a switch between read_only = 1 and read_only = 0 at the master.
Closed == {"rekill", "check", "recheck", "reverse", "stop", "change", "restart",
           "repoint", "reopen"}

\* A switch that has set read_only = 1 does not end with the master closed: whichever
\* call or check it fails at, each early return undoes it first.  (model.go:215-234)
\* Excepted are a failure of the undo's own call and the end of the monitor.
LeftClosed ==
  /\ pc \in Closed /\ pc' \notin Closed
  /\ master' \in readOnly'
  /\ ~(pc = "reopen" /\ Fails(SetWritable(master)))
  /\ ~MonitorRestart

SwitchReopens == [][~LeftClosed]_vars

\* The proxies learn of a master that a switch has installed, unless it stops
\* or loses the role first.
NewMasterPublished ==
  \A e \in Server :
    (pc = "save" /\ master = e) ~> (target = e \/ master # e \/ e \notin up)

\* What the users of mysql-master are promised: one place where writes are
\* acknowledged, which moves without losing any.
Service == INSTANCE MasterService
             WITH primary <- master, accepted <- data[master],
                  cutShort <- interrupted \/ misread
ServiceProvided == Service!ASpec

-----------------------------------------------------------------------------
(***************************************************************************)
(* Claims of the documentation that the code does not meet.                *)
(***************************************************************************)

\* README.md:90-91: a paused master is read-only until the operator resumes it.
PausedStaysReadOnly == paused \cap up \subseteq readOnly

\* README.md:88: of a replica connected to the master the status is OK if it works
\* normally and SYNING if its data is not in sync.  So one that is "ok" lacks nothing.
OkMeansSynced ==
  \A s \in Others : ReplicationStatus(s, master) = "ok" => data[master] \subseteq data[s]

\* README.md:79: a pair that was mutual before a switch is mutual after it.  The code
\* asks for more than README.md: it compares one status with "ok", once, and a pair
\* whose master has still to read what the standby logged comes out one-way.
Mutual(a, b) == source[a] = b /\ source[b] = a /\ {a, b} \subseteq running

MutualStaysMutual == pc = "stop" /\ Mutual(master, standby) => reverse = "mutual"
=============================================================================
