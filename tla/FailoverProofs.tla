--------------------------- MODULE FailoverProofs ---------------------------
(***************************************************************************)
(* Theorems about Failover, for every set of servers and of transactions   *)
(* and every number of faults: only the master accepts writes, no          *)
(* committed write is missing at the master, and the operations provide    *)
(* the abstract MasterService.                                             *)
(***************************************************************************)
EXTENDS Failover, SequenceTheorems, TLAPS

(***************************************************************************)
(* The inductive invariant.  A replica whose I/O thread is at the end of   *)
(* its source's log has, executed or in its relay log, all the source has; *)
(* one whose SQL thread is there has nothing left in the relay log.  From  *)
(* the statement that closes the master until the exchange of the roles    *)
(* the master is read-only; no call that is still to be made opens any     *)
(* server but the master; and unless an offset in another file was taken   *)
(* for the end, the candidate lacks nothing from its check on.             *)
(***************************************************************************)
FetchedAll ==
  \A t \in Server : io[t] = "end" /\ source[t] \in Server
                      => data[source[t]] \subseteq data[t] \cup relay[t]

ExecutedAll == \A t \in Server : sql[t] = "end" => io[t] = "end" /\ relay[t] = {}

CandidateKnown ==
  pc \in {"kill", "readonly", "rekill", "check", "recheck", "reverse", "stop", "change"}
    => cand \in Server

MasterClosed ==
  pc \in {"rekill", "check", "recheck", "reverse", "stop", "change"} => master \in readOnly

OnlyMasterOpened ==
  \A i \in 1..Len(todo) : todo[i].op = "writable" => todo[i].at = master

RolesSaved == pc \notin {"repoint", "reopen", "save"} => roles = saved

OneOpen == Server \ {master} \subseteq readOnly

WhileSaved == OneOpen /\ MasterClosed /\ OnlyMasterOpened

HasAll == \A s \in Server : data[s] \cup relay[s] \subseteq data[master]

CandidateReady ==
  pc \in {"reverse", "stop", "change"} => data[master] \subseteq data[cand]

WhileTrusted == HasAll /\ CandidateReady

IInv ==
  /\ TypeOK
  /\ FetchedAll /\ ExecutedAll
  /\ CandidateKnown
  /\ RolesSaved
  /\ ~interrupted => WhileSaved
  /\ ~interrupted /\ ~misread => WhileTrusted

-----------------------------------------------------------------------------
(***************************************************************************)
(* What one call to a server can do, whether it succeeds or fails.         *)
(***************************************************************************)

CallStep(c) == Succeeds(c) \/ Fails(c)

LEMMA CallTypes ==
  ASSUME NEW s \in Server, NEW t \in Server \cup {NoServer}
  PROVE  /\ Kill(s) \in CallSet /\ SetReadOnly(s) \in CallSet /\ SetWritable(s) \in CallSet
         /\ StopSlave(s) \in CallSet /\ StartSlave(s) \in CallSet /\ ResetSlave(s) \in CallSet
         /\ ChangeMasterTo(s, t) \in CallSet
  BY DEF Kill, SetReadOnly, SetWritable, StopSlave, StartSlave, ResetSlave,
     ChangeMasterTo, Call, CallSet, Ops

LEMMA CallEffect ==
  ASSUME ServersOK, NEW c \in CallSet, CallStep(c)
  PROVE  /\ ServersOK'
         /\ UNCHANGED <<up, data>>
         /\ readOnly \ {c.at} \subseteq readOnly'
         /\ c.op # "writable" => readOnly \subseteq readOnly'
         /\ \A t \in Server :
              /\ relay'[t] \subseteq relay[t]
              /\ io'[t] = "end" => io[t] = "end" /\ source'[t] = source[t] /\ relay'[t] = relay[t]
              /\ sql'[t] = "end" => sql[t] = "end" /\ io'[t] = io[t]
<1> USE DEF ServersOK, IoPlace, SqlPlace
<1>0. /\ c.at \in Server /\ c.to \in Server \cup {NoServer}
      /\ c.op \in Ops
  BY DEF CallSet
<1>1. CASE Do(c) /\ faults' \in Nat
  <2>1. source' \in [Server -> Server \cup {NoServer}]
    BY <1>0, <1>1 DEF Do
  <2>2. /\ readOnly' \in SUBSET Server /\ running' \in SUBSET Server
        /\ session' \in SUBSET Server
    BY <1>0, <1>1 DEF Do
  <2>3. /\ readOnly \ {c.at} \subseteq readOnly'
        /\ c.op # "writable" => readOnly \subseteq readOnly'
    BY <1>0, <1>1 DEF Do
  <2>4. CASE c.op \in {"change", "reset"}
    <3>1. /\ io' = [io EXCEPT ![c.at] = "earlier"] /\ sql' = [sql EXCEPT ![c.at] = "start"]
          /\ relay' = [relay EXCEPT ![c.at] = {}] /\ source' = [source EXCEPT ![c.at] = c.to]
      BY <1>1, <2>4 DEF Do
    <3>2. io' \in [Server -> IoPlace] /\ sql' \in [Server -> SqlPlace]
          /\ relay' \in [Server -> SUBSET Write]
      BY <1>0, <3>1
    <3> QED BY <1>0, <1>1, <2>1, <2>2, <2>3, <3>1, <3>2 DEF Do
  <2>5. CASE c.op \notin {"change", "reset"}
    <3>1. UNCHANGED <<source, io, sql, relay, up, data>>
      BY <1>1, <2>5 DEF Do, slaves
    <3> QED BY <1>1, <2>2, <2>3, <3>1
  <2> QED BY <2>4, <2>5
<1>2. CASE UNCHANGED servers /\ faults' \in Nat
  BY <1>2 DEF servers, slaves
<1> QED BY <1>1, <1>2 DEF CallStep, Succeeds, Fails

\* Statements that have succeeded did what they are for.
LEMMA ClosingCloses ==
  ASSUME NEW s \in Server, Succeeds(SetReadOnly(s))
  PROVE  s \in readOnly'
  BY DEF Succeeds, Do, SetReadOnly, Call

\* A replica is "ok" by the end of the log, or by an offset in another file.
LEMMA OkMeansCaughtUp ==
  ASSUME FetchedAll, ExecutedAll, NEW s \in Server, NEW m \in Server,
         ReplicationStatus(s, m) = "ok", sql[s] # "alike"
  PROVE  data[m] \subseteq data[s]
<1>1. sql[s] = "end" /\ source[s] = m
  BY DEF ReplicationStatus
<1> QED BY <1>1 DEF FetchedAll, ExecutedAll

-----------------------------------------------------------------------------
(***************************************************************************)
(* Sequences of calls.                                                     *)
(***************************************************************************)

LEMMA OneCall ==
  ASSUME NEW c \in CallSet
  PROVE  <<c>> \in Seq(CallSet) /\ Len(<<c>>) = 1 /\ <<c>>[1] = c
  OBVIOUS

LEMMA TwoCalls ==
  ASSUME NEW c \in CallSet, NEW d \in CallSet
  PROVE  <<c, d>> \in Seq(CallSet) /\ Len(<<c, d>>) = 2
  OBVIOUS

LEMMA TailOfCalls ==
  ASSUME todo \in Seq(CallSet), todo # <<>>
  PROVE  /\ Head(todo) \in CallSet /\ Tail(todo) \in Seq(CallSet)
         /\ Head(todo) = todo[1] /\ 1 \in 1..Len(todo)
         /\ \A i \in 1..Len(Tail(todo)) : i + 1 \in 1..Len(todo) /\ Tail(todo)[i] = todo[i + 1]
<1>1. Len(todo) \in Nat /\ Len(todo) >= 1
  OBVIOUS
<1>2. Tail(todo) \in Seq(CallSet) /\ Len(Tail(todo)) = Len(todo) - 1
  OBVIOUS
<1>3. \A i \in 1..Len(Tail(todo)) : Tail(todo)[i] = todo[i + 1]
  BY <1>1, <1>2
<1> QED BY <1>1, <1>2, <1>3

\* The calls that repoint the pair of new master and standby are well formed
\* and open no server.
LEMMA PromotionCalls ==
  ASSUME NEW m \in Server, NEW b \in Server \cup {NoServer}
  PROVE  /\ Promotion(m, b) \in Seq(CallSet)
         /\ \A i \in 1..Len(Promotion(m, b)) : Promotion(m, b)[i].op # "writable"
<1> DEFINE Closing == {c \in CallSet : c.op # "writable"}
           first  == <<StopSlave(m), ResetSlave(m)>>
           second == IF b = NoServer THEN <<>>
                     ELSE <<StopSlave(b), ChangeMasterTo(b, m), StartSlave(b)>>
           third  == IF b = NoServer \/ reverse = "oneWay" THEN <<>>
                     ELSE <<ChangeMasterTo(m, b), StartSlave(m)>>
<1>1. ASSUME NEW s \in Server, NEW t \in Server \cup {NoServer}
      PROVE  StopSlave(s) \in Closing /\ ResetSlave(s) \in Closing
             /\ StartSlave(s) \in Closing /\ ChangeMasterTo(s, t) \in Closing
  BY CallTypes DEF StopSlave, ResetSlave, StartSlave, ChangeMasterTo, Call
<1>2. first \in Seq(Closing)
  <2>1. StopSlave(m) \in Closing /\ ResetSlave(m) \in Closing
    BY <1>1
  <2> HIDE DEF Closing
  <2> QED BY <2>1
<1>3. second \in Seq(Closing)
  <2>1. CASE b = NoServer
    BY <2>1
  <2>2. CASE b \in Server /\ b # NoServer
    <3>1. StopSlave(b) \in Closing /\ ChangeMasterTo(b, m) \in Closing /\ StartSlave(b) \in Closing
      BY <1>1, <2>2
    <3> HIDE DEF Closing
    <3> QED BY <2>2, <3>1
  <2> QED BY <2>1, <2>2
<1>4. third \in Seq(Closing)
  <2>1. ChangeMasterTo(m, b) \in Closing /\ StartSlave(m) \in Closing
    BY <1>1
  <2> HIDE DEF Closing
  <2> QED BY <2>1
<1>5. Promotion(m, b) = first \o second \o third
  BY DEF Promotion
<1>6. first \o second \o third \in Seq(Closing)
  <2> HIDE DEF first, second, third, Closing
  <2> QED BY <1>2, <1>3, <1>4
<1>7. ASSUME NEW q \in Seq(Closing)
      PROVE  q \in Seq(CallSet) /\ \A i \in 1..Len(q) : q[i].op # "writable"
  <2>1. \A i \in 1..Len(q) : q[i] \in Closing
    <3> HIDE DEF Closing
    <3> QED OBVIOUS
  <2>2. Closing \subseteq CallSet
    OBVIOUS
  <2>3. q \in Seq(CallSet)
    <3> HIDE DEF Closing
    <3> QED BY <2>2
  <2> QED BY <2>1, <2>3
<1> QED BY <1>5, <1>6, <1>7

-----------------------------------------------------------------------------
(***************************************************************************)
(* Type correctness.                                                       *)
(***************************************************************************)

\* Only a restart of the monitor can cut a switch short.
LEMMA OnlyRestartInterrupts == [Next]_vars => UNCHANGED interrupted \/ MonitorRestart
<1> SUFFICES ASSUME [Next]_vars, ~MonitorRestart PROVE UNCHANGED interrupted
  OBVIOUS
<1>1. ASSUME NEW e \in Operated, Operate(e)
      PROVE  UNCHANGED interrupted
  BY <1>1 DEF Operate, Active, Detach, Pause, Resume, Switch, Request, history
<1>2. \/ RequestCall \/ PreKill \/ EnableReadOnly \/ PostKill \/ CheckCandidate
      \/ CheckReverse \/ StopOldMaster \/ ChangeOldMaster \/ RestartOldMaster
      \/ Repoint \/ Repointed \/ Reopen \/ SaveConfig \/ Inspect \/ Connect
      \/ UNCHANGED vars
      => UNCHANGED interrupted
  BY DEF RequestCall, PreKill, EnableReadOnly, PostKill, CheckCandidate, CheckReverse,
     StopOldMaster, ChangeOldMaster, RestartOldMaster, Repoint, Repointed, Reopen,
     SaveConfig, Inspect, Connect, vars, quiet, monitor, history
<1>3. ASSUME NEW s \in Server, RepointSlave(s) \/ Environment(s)
      PROVE  UNCHANGED interrupted
  BY <1>3 DEF RepointSlave, Environment, Commit, Fetch, Execute, Arrive, ServerStop, ServerStart,
     monitor, history
<1> QED BY <1>1, <1>2, <1>3 DEF Next, Step

LEMMA InterruptedStep ==
  ASSUME interrupted \in BOOLEAN, [Next]_vars
  PROVE  interrupted' \in BOOLEAN /\ (interrupted => interrupted')
<1>1. UNCHANGED interrupted \/ interrupted' = (interrupted \/ roles # saved)
  BY OnlyRestartInterrupts DEF MonitorRestart
<1> QED BY <1>1, Zenon

\* Only the check of a candidate can take it wrongly for ready.
LEMMA OnlyCheckMisreads == [Next]_vars => UNCHANGED misread \/ CheckCandidate
<1> SUFFICES ASSUME [Next]_vars, ~CheckCandidate PROVE UNCHANGED misread
  OBVIOUS
<1>1. ASSUME NEW e \in Operated, Operate(e)
      PROVE  UNCHANGED misread
  BY <1>1 DEF Operate, Active, Detach, Pause, Resume, Switch, Request, history
<1>2. \/ RequestCall \/ PreKill \/ EnableReadOnly \/ PostKill
      \/ CheckReverse \/ StopOldMaster \/ ChangeOldMaster \/ RestartOldMaster
      \/ Repoint \/ Repointed \/ Reopen \/ SaveConfig \/ Inspect \/ Connect
      \/ MonitorRestart \/ UNCHANGED vars
      => UNCHANGED misread
  BY DEF RequestCall, PreKill, EnableReadOnly, PostKill, CheckReverse, StopOldMaster,
     ChangeOldMaster, RestartOldMaster, Repoint, Repointed, Reopen, SaveConfig, Inspect,
     Connect, MonitorRestart, vars, quiet, monitor, history
<1>3. ASSUME NEW s \in Server, RepointSlave(s) \/ Environment(s)
      PROVE  UNCHANGED misread
  BY <1>3 DEF RepointSlave, Environment, Commit, Fetch, Execute, Arrive, ServerStop,
     ServerStart, monitor, history
<1> QED BY <1>1, <1>2, <1>3 DEF Next, Step

LEMMA MisreadStep ==
  ASSUME misread \in BOOLEAN, [Next]_vars
  PROVE  misread' \in BOOLEAN /\ (misread => misread')
<1>1. UNCHANGED misread \/ misread' = (misread \/ TakenForOk)
  BY OnlyCheckMisreads DEF CheckCandidate
<1> QED BY <1>1, Zenon

LEMMA PausedStep == TypeOK /\ [Next]_vars => (paused \in SUBSET Server)'
<1> SUFFICES ASSUME TypeOK, [Next]_vars PROVE (paused \in SUBSET Server)'
  OBVIOUS
<1>0. paused \in SUBSET Server /\ todo \in Seq(CallSet)
  BY DEF TypeOK, HistoryOK, LoopOK
<1>1. CASE paused' \subseteq paused
  BY <1>0, <1>1
<1>2. CASE RequestCall
  <2>1. Head(todo).at \in Server
    BY <1>0, <1>2, TailOfCalls DEF RequestCall, CallSet
  <2> QED BY <1>0, <1>2, <2>1 DEF RequestCall
<1>3. ASSUME NEW e \in Operated, Operate(e)
      PROVE  paused' \subseteq paused
  BY <1>3 DEF Operate, Active, Detach, Pause, Resume, Switch, Request, history
<1>4. \/ PreKill \/ EnableReadOnly \/ PostKill \/ CheckCandidate
      \/ CheckReverse \/ StopOldMaster \/ ChangeOldMaster \/ RestartOldMaster
      \/ Repoint \/ Repointed \/ Reopen \/ SaveConfig \/ Inspect \/ Connect
      \/ MonitorRestart \/ UNCHANGED vars
      => paused' \subseteq paused
  BY DEF PreKill, EnableReadOnly, PostKill, CheckCandidate, CheckReverse,
     StopOldMaster, ChangeOldMaster, ExchangeRoles, RestartOldMaster, Repoint, Repointed,
     Reopen, SaveConfig, Inspect, Connect, MonitorRestart, vars, quiet, monitor, history
<1>5. ASSUME NEW s \in Server, RepointSlave(s) \/ Environment(s)
      PROVE  paused' \subseteq paused
  BY <1>5 DEF RepointSlave, Environment, Commit, Fetch, Execute, Arrive, ServerStop, ServerStart,
     monitor, history
<1> QED BY <1>1, <1>2, <1>3, <1>4, <1>5 DEF Next, Step

LEMMA HistoryStep == TypeOK /\ [Next]_vars => HistoryOK'
BY InterruptedStep, MisreadStep, PausedStep DEF TypeOK, HistoryOK

LEMMA InitType == Init => TypeOK
<1> SUFFICES ASSUME Init PROVE TypeOK
  OBVIOUS
<1>1. HistoryOK
  BY Zenon DEF Init, HistoryOK
<1>2. ServersOK
  BY DEF Init, ServersOK, IoPlace, SqlPlace
<1>3. LoopOK
  BY DEF Init, LoopOK
<1>4. roles \in RoleTable /\ saved \in RoleTable
  BY ServerAssumption DEF Init, roles, RoleTable
<1> QED BY <1>1, <1>2, <1>3, <1>4 DEF Init, TypeOK, Place

\* The request handlers hand over well-formed calls, which open no server but
\* the master.
LEMMA RequestCalls ==
  ASSUME TypeOK, NEW e \in Server,
         Active(e) \/ Detach(e) \/ Pause(e) \/ Resume(e)
  PROVE  /\ todo' \in Seq(CallSet)
         /\ \A i \in 1..Len(todo') : todo'[i].op = "writable" => todo'[i].at = master
<1>0. master \in Server /\ standby \in Server \cup {NoServer}
  BY DEF TypeOK, roles, RoleTable
<1>1. CASE Active(e)
  <2> DEFINE m == IF e = master THEN standby ELSE master
  <2>1. todo' = <<ChangeMasterTo(e, m), StartSlave(e)>>
    BY <1>1 DEF Active, Request
  <2>2. ChangeMasterTo(e, m) \in CallSet /\ StartSlave(e) \in CallSet
        /\ ChangeMasterTo(e, m).op = "change" /\ StartSlave(e).op = "start"
    BY <1>0, CallTypes DEF ChangeMasterTo, StartSlave, Call
  <2> QED BY <2>1, <2>2
<1>2. CASE Detach(e)
  <2>1. todo' = <<StopSlave(e), ResetSlave(e)>>
    BY <1>2 DEF Detach, Request
  <2>2. StopSlave(e) \in CallSet /\ ResetSlave(e) \in CallSet
        /\ StopSlave(e).op = "stop" /\ ResetSlave(e).op = "reset"
    BY <1>0, CallTypes DEF StopSlave, ResetSlave, Call
  <2> QED BY <2>1, <2>2
<1>3. CASE Pause(e)
  <2> DEFINE c == IF e = master THEN SetReadOnly(e) ELSE StopSlave(e)
  <2>1. todo' = <<c>>
    BY <1>3 DEF Pause, Request
  <2>2. c \in CallSet /\ c.op # "writable"
    BY CallTypes DEF SetReadOnly, StopSlave, Call
  <2> QED BY <2>1, <2>2
<1>4. CASE Resume(e)
  <2> DEFINE c == IF e = master THEN SetWritable(e) ELSE StartSlave(e)
  <2>1. todo' = <<c>>
    BY <1>4 DEF Resume, Request
  <2>2. c \in CallSet /\ (c.op = "writable" => c.at = master)
    BY CallTypes DEF SetWritable, StartSlave, Call
  <2> QED BY <2>1, <2>2
<1> QED BY <1>1, <1>2, <1>3, <1>4

\* What the writing of a server does to the positions in its log.
LEMMA PositionsAfter ==
  ASSUME ServersOK, NEW s \in Server, NEW newFile \in BOOLEAN, NEW q \in SqlAfter(s, newFile)
  PROVE  /\ IoAfter(s, newFile) \in [Server -> IoPlace] /\ q \in [Server -> SqlPlace]
         /\ \A t \in Server : IoAfter(s, newFile)[t] = "end" => t \notin Replicas(s) /\ io[t] = "end"
         /\ \A t \in Server : q[t] = "end" => t \notin Replicas(s) /\ sql[t] = "end"
         /\ \A t \in Server \ Replicas(s) : IoAfter(s, newFile)[t] = io[t]
<1> USE DEF ServersOK, IoPlace, SqlPlace
<1>1. \A t \in Server : io[t] \in IoPlace /\ sql[t] \in SqlPlace
  OBVIOUS
<1>2. IoAfter(s, newFile) \in [Server -> IoPlace]
  BY <1>1 DEF IoAfter
<1>3. \A t \in Server : IoAfter(s, newFile)[t] = "end" => t \notin Replicas(s) /\ io[t] = "end"
  BY <1>1 DEF IoAfter
<1>4. \A t \in Server \ Replicas(s) : IoAfter(s, newFile)[t] = io[t]
  BY <1>1 DEF IoAfter
<1> DEFINE outside == {t \in Replicas(s) :
                         sql[t] \in {"earlier", "alike"} \/ (newFile /\ sql[t] # "start")}
<1>5. PICK same \in SUBSET outside :
        q = [t \in Server |->
               IF t \in same THEN "alike"
               ELSE IF t \in outside THEN "earlier"
               ELSE IF t \in Replicas(s) /\ sql[t] = "end" THEN "current" ELSE sql[t]]
  BY DEF SqlAfter
<1>6. q \in [Server -> SqlPlace]
  <2> HIDE DEF outside
  <2> QED BY <1>1, <1>5
<1>7. \A t \in Server : q[t] = "end" => t \notin Replicas(s) /\ sql[t] = "end"
  <2> HIDE DEF outside
  <2> QED BY <1>1, <1>5
<1> QED BY <1>2, <1>3, <1>4, <1>6, <1>7

\* What a step of the environment does to transactions and positions.
LEMMA EnvironmentEffect ==
  ASSUME TypeOK, NEW s \in Server, Environment(s)
  PROVE  /\ ServersOK' /\ UNCHANGED <<target, monitor, source>>
         /\ readOnly \subseteq readOnly'
         /\ \A t \in Server : io'[t] = "end" => \/ t = s /\ Fetch(s)
                                                \/ io[t] = "end" /\ data'[source[t]] = data[source[t]]
         /\ \A t \in Server : sql'[t] = "end" => \/ t = s /\ Arrive(s)
                                                 \/ /\ sql[t] = "end"
                                                    /\ io[t] = "end" /\ relay[t] = {} =>
                                                         io'[t] = "end" /\ relay'[t] = {}
         /\ \A t \in Server : data[t] \cup relay[t] \subseteq data'[t] \cup relay'[t]
<1> USE DEF ServersOK
<1>0. ServersOK
  BY DEF TypeOK
<1>1. CASE Commit(s)
  <2>1. PICK w \in Write : data' = [data EXCEPT ![s] = @ \cup {w}]
    BY <1>1 DEF Commit
  <2>2. PICK newFile \in BOOLEAN : io' = IoAfter(s, newFile) /\ sql' \in SqlAfter(s, newFile)
    BY <1>1 DEF Commit
  <2>3. /\ io' \in [Server -> IoPlace] /\ sql' \in [Server -> SqlPlace]
        /\ \A t \in Server : io'[t] = "end" => t \notin Replicas(s) /\ io[t] = "end"
        /\ \A t \in Server : sql'[t] = "end" => t \notin Replicas(s) /\ sql[t] = "end"
        /\ \A t \in Server \ Replicas(s) : io'[t] = io[t]
    BY <1>0, <2>2, PositionsAfter
  <2>4. UNCHANGED <<target, monitor, source, readOnly, relay, up, running, session, faults>>
    BY <1>1 DEF Commit
  <2>5. data' \in [Server -> SUBSET Write]
        /\ \A t \in Server : data[t] \subseteq data'[t] /\ (t # s => data'[t] = data[t])
    BY <1>0, <2>1
  <2>6. \A t \in Server : t \notin Replicas(s) => data'[source[t]] = data[source[t]]
    <3> SUFFICES ASSUME NEW t \in Server, t \notin Replicas(s)
                 PROVE  data'[source[t]] = data[source[t]]
      OBVIOUS
    <3>1. source[t] # s
      BY DEF Replicas
    <3> QED BY <1>0, <2>1, <3>1
  <2> QED BY <1>0, <2>3, <2>4, <2>5, <2>6
<1>2. CASE Fetch(s)
  <2>1. /\ io' = [io EXCEPT ![s] = "end"] /\ io[s] # "end"
        /\ relay' = [relay EXCEPT ![s] = @ \cup (data[source[s]] \ data[s])]
        /\ source[s] \in Server
        /\ UNCHANGED <<target, monitor, source, readOnly, data, sql, up, running, session, faults>>
    BY <1>0, <1>2 DEF Fetch
  <2>2. io' \in [Server -> IoPlace] /\ relay' \in [Server -> SUBSET Write]
    BY <1>0, <2>1 DEF IoPlace
  <2>3. \A t \in Server : relay[t] \subseteq relay'[t] /\ (t # s => relay'[t] = relay[t] /\ io'[t] = io[t])
    BY <1>0, <2>1
  <2>4. ServersOK'
    BY <1>0, <2>1, <2>2
  <2>5. \A t \in Server : io'[t] = "end" => \/ t = s
                                            \/ io[t] = "end" /\ data'[source[t]] = data[source[t]]
    BY <2>1, <2>3
  <2>6. ASSUME NEW t \in Server, sql'[t] = "end"
        PROVE  /\ sql[t] = "end"
               /\ io[t] = "end" /\ relay[t] = {} => io'[t] = "end" /\ relay'[t] = {}
    BY <2>1, <2>3, <2>6
  <2> QED BY <1>2, <2>1, <2>3, <2>4, <2>5, <2>6
<1>3. CASE Execute(s)
  <2>1. PICK w \in relay[s] : /\ data' = [data EXCEPT ![s] = @ \cup {w}]
                             /\ relay' = [relay EXCEPT ![s] = @ \ {w}]
    BY <1>3 DEF Execute
  <2>2. PICK newFile \in BOOLEAN :
           /\ io' = IoAfter(s, newFile)
           /\ \E q \in SqlAfter(s, newFile), p \in Underway(s) : sql' = [q EXCEPT ![s] = p]
    BY <1>3 DEF Execute
  <2>3. PICK q \in SqlAfter(s, newFile), p \in Underway(s) : sql' = [q EXCEPT ![s] = p]
    BY <2>2
  <2>4. p \in SqlPlace /\ p # "end"
    BY DEF Underway, SqlPlace
  <2>5. /\ io' \in [Server -> IoPlace] /\ q \in [Server -> SqlPlace]
        /\ \A t \in Server : io'[t] = "end" => t \notin Replicas(s) /\ io[t] = "end"
        /\ \A t \in Server : q[t] = "end" => t \notin Replicas(s) /\ sql[t] = "end"
        /\ \A t \in Server \ Replicas(s) : io'[t] = io[t]
    BY <1>0, <2>2, PositionsAfter
  <2>6. UNCHANGED <<target, monitor, source, readOnly, up, running, session, faults>>
    BY <1>3 DEF Execute
  <2>7. /\ data' \in [Server -> SUBSET Write] /\ relay' \in [Server -> SUBSET Write]
        /\ sql' \in [Server -> SqlPlace]
    BY <1>0, <2>1, <2>3, <2>4, <2>5
  <2>8. \A t \in Server : data[t] \cup relay[t] \subseteq data'[t] \cup relay'[t]
    BY <1>0, <2>1
  <2>8a. ASSUME NEW t \in Server, t # s PROVE relay'[t] = relay[t] /\ sql'[t] = q[t]
    BY <1>0, <2>1, <2>3, <2>5, <2>8a
  <2>9. sql'[s] # "end"
    BY <2>3, <2>4, <2>5
  <2>10. \A t \in Server : t \notin Replicas(s) => data'[source[t]] = data[source[t]]
    <3> SUFFICES ASSUME NEW t \in Server, t \notin Replicas(s)
                 PROVE  data'[source[t]] = data[source[t]]
      OBVIOUS
    <3>1. source[t] # s
      BY DEF Replicas
    <3> QED BY <1>0, <2>1, <3>1
  <2>11. ServersOK'
    BY <1>0, <2>5, <2>6, <2>7
  <2>12. \A t \in Server : io'[t] = "end" => io[t] = "end" /\ data'[source[t]] = data[source[t]]
    BY <2>5, <2>10
  <2>13. ASSUME NEW t \in Server, sql'[t] = "end"
         PROVE  sql[t] = "end" /\ io'[t] = io[t] /\ relay'[t] = relay[t]
    <3>1. t # s
      BY <2>9, <2>13
    <3>2. q[t] = "end" /\ relay'[t] = relay[t]
      BY <2>13, <2>8a, <3>1
    <3>3. t \in Server \ Replicas(s) /\ sql[t] = "end"
      BY <2>5, <3>2
    <3> QED BY <2>5, <3>3, <3>2
  <2> QED BY <2>6, <2>8, <2>11, <2>12, <2>13
<1>4. CASE Arrive(s)
  <2>1. /\ sql' = [sql EXCEPT ![s] = io[s]] /\ io[s] # "earlier"
        /\ UNCHANGED <<target, monitor, source, readOnly, data, io, relay, up, running, session, faults>>
    BY <1>4 DEF Arrive
  <2>2. sql' \in [Server -> SqlPlace]
    BY <1>0, <2>1 DEF IoPlace, SqlPlace
  <2> QED BY <1>0, <1>4, <2>1, <2>2
<1>5. CASE ServerStop(s)
  <2>1. /\ UNCHANGED <<target, monitor, source, readOnly, data, io, sql, relay, running>>
        /\ up' \subseteq up /\ session' \subseteq session /\ faults' \in Nat
    BY <1>0, <1>5 DEF ServerStop, slaves
  <2> QED BY <1>0, <2>1
<1>6. CASE ServerStart(s)
  <2>1. io' = IoAfter(s, TRUE) /\ sql' \in SqlAfter(s, TRUE)
    BY <1>6 DEF ServerStart
  <2>2. /\ io' \in [Server -> IoPlace] /\ sql' \in [Server -> SqlPlace]
        /\ \A t \in Server : io'[t] = "end" => t \notin Replicas(s) /\ io[t] = "end"
        /\ \A t \in Server : sql'[t] = "end" => t \notin Replicas(s) /\ sql[t] = "end"
        /\ \A t \in Server \ Replicas(s) : io'[t] = io[t]
    BY <1>0, <2>1, PositionsAfter
  <2>3. /\ UNCHANGED <<target, monitor, source, data, relay, session, faults>>
        /\ up' \in SUBSET Server /\ readOnly' \in SUBSET Server /\ running' \in SUBSET Server
        /\ readOnly \subseteq readOnly'
    BY <1>0, <1>6 DEF ServerStart
  <2> QED BY <1>0, <2>2, <2>3
<1> QED BY <1>1, <1>2, <1>3, <1>4, <1>5, <1>6 DEF Environment

LEMMA EnvironmentType ==
  ASSUME TypeOK, NEW s \in Server, Environment(s)
  PROVE  ServersOK' /\ UNCHANGED <<target, monitor>>
BY EnvironmentEffect

\* A call of switchToMaster that returns takes its variables with it.
LEMMA LocalsType ==
  ASSUME TypeOK, UNCHANGED local \/ Locals
  PROVE  cand' \in Server \cup {NoServer} /\ reverse' \in {"oneWay", "mutual"}
BY DEF TypeOK, LoopOK, local, Locals

\* A step of the switch that makes one call and moves on.
LEMMA QuietCallType ==
  ASSUME TypeOK, HistoryOK', NEW c \in CallSet, CallStep(c), UNCHANGED quiet,
         UNCHANGED local \/ Locals, pc' \in Place
  PROVE  TypeOK'
<1>1. ServersOK'
  BY CallEffect DEF TypeOK
<1>2. UNCHANGED <<target, saved, roles>> /\ LoopOK'
  BY LocalsType DEF quiet, TypeOK, LoopOK
<1> QED BY <1>1, <1>2 DEF TypeOK

\* A step of the run loop that makes no call.
LEMMA NoCallType ==
  ASSUME TypeOK, HistoryOK', UNCHANGED <<servers, faults, saved, roles>>, LoopOK', pc' \in Place,
         target' \in Server \cup {NoServer}
  PROVE  TypeOK'
BY DEF TypeOK, ServersOK, servers, slaves

LEMMA NextType == TypeOK /\ [Next]_vars => TypeOK'
<1> SUFFICES ASSUME TypeOK, [Next]_vars PROVE TypeOK'
  OBVIOUS
<1>a. HistoryOK'
  BY HistoryStep
<1>b. /\ master \in Server /\ standby \in Server \cup {NoServer} /\ slave \in SUBSET Server
      /\ ServersOK /\ LoopOK /\ target \in Server \cup {NoServer} /\ pc \in Place
  BY DEF TypeOK, roles, RoleTable
<1>1. ASSUME NEW e \in Operated, Operate(e) PROVE TypeOK'
  <2>1. CASE Switch(e)
    <3>1. LoopOK' /\ pc' \in Place
      BY <1>b, <2>1, ServerAssumption DEF Switch, LoopOK, Place
    <3> QED BY <1>a, <1>b, <2>1, <3>1, NoCallType DEF Switch, roles
  <2>2. CASE Active(e) \/ Detach(e) \/ Pause(e) \/ Resume(e)
    <3>1. todo' \in Seq(CallSet)
      BY <2>2, RequestCalls, ServerAssumption
    <3>2. pc' = "request" /\ UNCHANGED <<servers, target, roles, saved, cand, reverse, left, faults>>
      BY <2>2 DEF Active, Detach, Pause, Resume, Request, local
    <3>3. LoopOK' /\ pc' \in Place
      BY <1>b, <3>1, <3>2 DEF LoopOK, Place
    <3> QED BY <1>a, <1>b, <3>2, <3>3, NoCallType
  <2> QED BY <1>1, <2>1, <2>2 DEF Operate
<1>2. CASE RequestCall
  <2>1. Head(todo) \in CallSet /\ Tail(todo) \in Seq(CallSet)
    BY <1>2, <1>b, TailOfCalls DEF RequestCall, LoopOK
  <2>2. CallStep(Head(todo))
    BY <1>2 DEF RequestCall, CallStep
  <2>3. ServersOK'
    BY <1>b, <2>1, <2>2, CallEffect
  <2>4. todo' \in Seq(CallSet) /\ pc' \in Place
    <3>1. todo' \in {Tail(todo), <<>>} /\ pc' \in {"idle", "request"}
      BY <1>2 DEF RequestCall
    <3>2. <<>> \in Seq(CallSet)
      OBVIOUS
    <3> QED BY <2>1, <3>1, <3>2 DEF Place
  <2>5. UNCHANGED <<target, roles, saved, cand, reverse, left>>
    BY <1>2 DEF RequestCall, local
  <2> QED BY <1>a, <1>b, <2>3, <2>4, <2>5 DEF TypeOK, LoopOK
<1>3. CASE PreKill \/ PostKill
  <2>1. pc' \in Place /\ UNCHANGED quiet /\ (UNCHANGED local \/ Locals) /\ CallStep(Kill(master))
    BY <1>3 DEF PreKill, PostKill, Place, CallStep
  <2> QED BY <1>a, <1>b, <2>1, CallTypes, QuietCallType
<1>4. CASE EnableReadOnly
  <2>1. pc' \in Place /\ UNCHANGED quiet /\ (UNCHANGED local \/ Locals) /\ CallStep(SetReadOnly(master))
    BY <1>4 DEF EnableReadOnly, Place, CallStep
  <2> QED BY <1>a, <1>b, <2>1, CallTypes, QuietCallType
<1>5. CASE StopOldMaster
  <2>1. pc' \in Place /\ UNCHANGED quiet /\ (UNCHANGED local \/ Locals) /\ CallStep(StopSlave(master))
    BY <1>5 DEF StopOldMaster, Place, CallStep
  <2> QED BY <1>a, <1>b, <2>1, CallTypes, QuietCallType
<1>6. CASE RestartOldMaster
  <2>1. pc' \in Place /\ UNCHANGED quiet /\ (UNCHANGED local \/ Locals) /\ CallStep(StartSlave(master))
    BY <1>6 DEF RestartOldMaster, Place, CallStep
  <2> QED BY <1>a, <1>b, <2>1, CallTypes, QuietCallType
<1>7. CASE Reopen
  <2>1. pc' \in Place /\ UNCHANGED quiet /\ (UNCHANGED local \/ Locals) /\ CallStep(SetWritable(master))
    BY <1>7 DEF Reopen, Place, CallStep
  <2> QED BY <1>a, <1>b, <2>1, CallTypes, QuietCallType
<1>8. CASE CheckCandidate \/ Repointed
  <2>1. pc' \in Place /\ UNCHANGED <<servers, target, roles, saved, loop, faults>>
    BY <1>8 DEF CheckCandidate, Repointed, Place, quiet, loop
  <2>2. LoopOK'
    BY <1>b, <2>1 DEF loop, local, LoopOK
  <2> QED BY <1>a, <1>b, <2>1, <2>2, NoCallType
<1>9. CASE CheckReverse
  <2>1. LoopOK' /\ pc' \in Place
    BY <1>b, <1>9 DEF CheckReverse, LoopOK, Place
  <2> QED BY <1>a, <1>b, <1>9, <2>1, NoCallType DEF CheckReverse
<1>10. CASE ChangeOldMaster
  <2>1. ChangeMasterTo(master, cand) \in CallSet
    BY <1>b, CallTypes DEF LoopOK
  <2>2. CallStep(ChangeMasterTo(master, cand))
    BY <1>10 DEF ChangeOldMaster, CallStep
  <2>3. ServersOK'
    BY <1>b, <2>1, <2>2, CallEffect
  <2>4. UNCHANGED <<target, saved, cand, reverse>> /\ pc' \in Place
    BY <1>10 DEF ChangeOldMaster, Place, local
  <2>5. CASE UNCHANGED <<roles, todo, left>>
    BY <1>a, <1>b, <2>3, <2>4, <2>5 DEF TypeOK, LoopOK
  <2>6. CASE Succeeds(ChangeMasterTo(master, cand)) /\ ExchangeRoles
    <3>1. cand \in Server
      BY <1>b, <2>6 DEF Succeeds, Can, ChangeMasterTo, Call, LoopOK
    <3>2. master' \in Server /\ slave' \in SUBSET Server /\ standby' \in Server \cup {NoServer}
      BY <1>b, <2>6, <3>1 DEF ExchangeRoles
    <3>3. todo' = Promotion(master', standby')
      BY <2>6 DEF ExchangeRoles
    <3>4. todo' \in Seq(CallSet)
      BY <3>2, <3>3, PromotionCalls
    <3>5. left' \in SUBSET Server
      BY <2>6, <3>2 DEF ExchangeRoles
    <3>6. roles' \in RoleTable
      BY <3>2 DEF roles, RoleTable
    <3> QED BY <1>a, <1>b, <2>3, <2>4, <3>4, <3>5, <3>6 DEF TypeOK, LoopOK
  <2> QED BY <1>10, <2>5, <2>6 DEF ChangeOldMaster
<1>11. CASE Repoint
  <2>1. Head(todo) \in CallSet /\ Tail(todo) \in Seq(CallSet)
    BY <1>11, <1>b, TailOfCalls DEF Repoint, LoopOK
  <2>2. CallStep(Head(todo))
    BY <1>11 DEF Repoint, CallStep
  <2>3. ServersOK'
    BY <1>b, <2>1, <2>2, CallEffect
  <2>4. todo' \in Seq(CallSet) /\ UNCHANGED <<target, roles, saved, pc, cand, reverse, left>>
    BY <1>11, <2>1 DEF Repoint, local
  <2> QED BY <1>a, <1>b, <2>3, <2>4 DEF TypeOK, LoopOK
<1>12. ASSUME NEW s \in Server, RepointSlave(s) PROVE TypeOK'
  <2>1. todo' \in Seq(CallSet)
    <3>1. StopSlave(s) \in CallSet /\ ChangeMasterTo(s, master) \in CallSet /\ StartSlave(s) \in CallSet
      BY <1>b, CallTypes
    <3> QED BY <1>12, <3>1 DEF RepointSlave
  <2>2. LoopOK' /\ UNCHANGED <<servers, target, roles, saved, pc, faults>>
    BY <1>b, <1>12, <2>1 DEF RepointSlave, LoopOK, local
  <2> QED BY <1>a, <1>b, <2>2, NoCallType
<1>13. CASE SaveConfig
  <2>1. /\ UNCHANGED <<servers, target, roles, todo, left, faults>> /\ saved' = roles
        /\ pc' \in Place /\ Locals
    BY <1>13 DEF SaveConfig, Place
  <2>2. LoopOK'
    BY <1>b, <2>1, LocalsType DEF LoopOK
  <2> QED BY <1>a, <1>b, <2>1, <2>2 DEF TypeOK, servers, slaves, ServersOK
<1>14. CASE Inspect
  <2>1. UNCHANGED <<servers, roles, saved, pc, faults>> /\ LoopOK' /\ target' \in Server \cup {NoServer}
    BY <1>b, <1>14 DEF Inspect, loop, local, LoopOK
  <2> QED BY <1>a, <1>b, <2>1, NoCallType
<1>15. CASE MonitorRestart
  <2>1. roles' = <<saved[1], saved[2], saved[3]>> /\ saved' = saved /\ target' = target
        /\ pc' = "idle" /\ UNCHANGED servers /\ faults' = faults + 1
    BY <1>15 DEF MonitorRestart, roles
  <2>2. roles' \in RoleTable
    BY <2>1 DEF TypeOK, RoleTable
  <2>3. ServersOK' /\ pc' \in Place
    BY <1>b, <2>1 DEF ServersOK, servers, slaves, Place
  <2>4. todo' = <<>> /\ left' = {} /\ Locals
    BY <1>15 DEF MonitorRestart
  <2>5. LoopOK'
    BY <2>4, LocalsType DEF LoopOK
  <2> QED BY <1>a, <1>b, <2>1, <2>2, <2>3, <2>5 DEF TypeOK
<1>16. CASE Connect
  <2>1. ServersOK' /\ UNCHANGED <<target, monitor>>
    BY <1>b, <1>16 DEF Connect, ServersOK, slaves
  <2> QED BY <1>a, <1>b, <2>1 DEF TypeOK, monitor, loop, local, LoopOK
<1>17. ASSUME NEW s \in Server, Environment(s) PROVE TypeOK'
  <2>1. ServersOK' /\ UNCHANGED <<target, monitor>>
    BY <1>17, EnvironmentType
  <2> QED BY <1>a, <1>b, <2>1 DEF TypeOK, monitor, loop, local, LoopOK
<1>18. CASE UNCHANGED vars
  BY <1>a, <1>18 DEF TypeOK, vars, servers, slaves, ServersOK, loop, local, LoopOK
<1> QED BY <1>1, <1>2, <1>3, <1>4, <1>5, <1>6, <1>7, <1>8, <1>9, <1>10, <1>11, <1>12,
           <1>13, <1>14, <1>15, <1>16, <1>17, <1>18 DEF Next, Step

\* Type correctness of every reachable state.
THEOREM TypeCorrect == Spec => []TypeOK
BY InitType, NextType, PTL DEF Spec

-----------------------------------------------------------------------------
(***************************************************************************)
(* The monitor changes the servers through calls only.                     *)
(***************************************************************************)

LEMMA MonitorCalls ==
  ASSUME TypeOK,
         \/ \E e \in Operated : Operate(e)
         \/ Step \/ Inspect \/ MonitorRestart
  PROVE  UNCHANGED servers \/ \E c \in CallSet : CallStep(c)
<1>0. master \in Server /\ cand \in Server \cup {NoServer} /\ todo \in Seq(CallSet)
  BY DEF TypeOK, roles, RoleTable, LoopOK
<1>1. /\ Kill(master) \in CallSet /\ SetReadOnly(master) \in CallSet
      /\ SetWritable(master) \in CallSet /\ StopSlave(master) \in CallSet
      /\ StartSlave(master) \in CallSet /\ ChangeMasterTo(master, cand) \in CallSet
  BY <1>0, CallTypes
<1>2. CASE PreKill \/ EnableReadOnly \/ PostKill \/ StopOldMaster \/ ChangeOldMaster
           \/ RestartOldMaster \/ Reopen
  BY <1>1, <1>2 DEF PreKill, EnableReadOnly, PostKill, StopOldMaster, ChangeOldMaster,
     RestartOldMaster, Reopen, CallStep
<1>3. CASE RequestCall \/ Repoint
  <2>1. Head(todo) \in CallSet
    BY <1>0, <1>3, TailOfCalls DEF RequestCall, Repoint
  <2>2. CallStep(Head(todo))
    BY <1>3 DEF RequestCall, Repoint, CallStep
  <2> QED BY <2>1, <2>2
<1>4. \/ CheckCandidate \/ CheckReverse \/ Repointed \/ SaveConfig \/ Inspect
      \/ MonitorRestart \/ (\E s \in Server : RepointSlave(s))
      => UNCHANGED servers
  BY DEF CheckCandidate, CheckReverse, Repointed, SaveConfig, Inspect, MonitorRestart,
     RepointSlave
<1>5. (\E e \in Operated : Operate(e)) => UNCHANGED servers
  BY DEF Operate, Active, Detach, Pause, Resume, Switch, Request
<1> QED BY <1>2, <1>3, <1>4, <1>5 DEF Step

-----------------------------------------------------------------------------
(***************************************************************************)
(* What a replica at the end of its source's log has.                      *)
(***************************************************************************)

LEMMA LogsStep ==
  TypeOK /\ FetchedAll /\ ExecutedAll /\ [Next]_vars => FetchedAll' /\ ExecutedAll'
<1> SUFFICES ASSUME TypeOK, FetchedAll, ExecutedAll, [Next]_vars
             PROVE  FetchedAll' /\ ExecutedAll'
  OBVIOUS
<1> USE DEF FetchedAll, ExecutedAll
<1>0. ServersOK
  BY DEF TypeOK
<1>1. CASE UNCHANGED servers
  BY <1>1 DEF servers, slaves
<1>2. ASSUME NEW c \in CallSet, CallStep(c) PROVE FetchedAll' /\ ExecutedAll'
  <2>1. /\ ServersOK' /\ UNCHANGED data
        /\ \A t \in Server :
             /\ relay'[t] \subseteq relay[t]
             /\ io'[t] = "end" => io[t] = "end" /\ source'[t] = source[t] /\ relay'[t] = relay[t]
             /\ sql'[t] = "end" => sql[t] = "end" /\ io'[t] = io[t]
    BY <1>0, <1>2, CallEffect
  <2>2. FetchedAll'
    BY <2>1
  <2>3. ExecutedAll'
    BY <2>1
  <2> QED BY <2>2, <2>3
<1>3. ASSUME NEW s \in Server, Environment(s) PROVE FetchedAll' /\ ExecutedAll'
  <2>1. /\ UNCHANGED source
        /\ \A t \in Server : io'[t] = "end" => \/ t = s /\ Fetch(s)
                                               \/ io[t] = "end" /\ data'[source[t]] = data[source[t]]
        /\ \A t \in Server : sql'[t] = "end" => \/ t = s /\ Arrive(s)
                                                \/ /\ sql[t] = "end"
                                                   /\ io[t] = "end" /\ relay[t] = {} =>
                                                        io'[t] = "end" /\ relay'[t] = {}
        /\ \A t \in Server : data[t] \cup relay[t] \subseteq data'[t] \cup relay'[t]
    BY <1>3, EnvironmentEffect
  <2>2. ASSUME NEW t \in Server, io'[t] = "end", source'[t] \in Server
        PROVE  data'[source'[t]] \subseteq data'[t] \cup relay'[t]
    <3>1. CASE t = s /\ Fetch(s)
      <4>1. UNCHANGED data /\ relay' = [relay EXCEPT ![s] = @ \cup (data[source[s]] \ data[s])]
        BY <3>1 DEF Fetch
      <4> QED BY <1>0, <2>1, <3>1, <4>1 DEF ServersOK
    <3>2. CASE io[t] = "end" /\ data'[source[t]] = data[source[t]]
      <4>1. data[source[t]] \subseteq data[t] \cup relay[t]
        BY <2>1, <2>2, <3>2
      <4> QED BY <2>1, <3>2, <4>1
    <3> QED BY <2>1, <2>2, <3>1, <3>2
  <2>3. ASSUME NEW t \in Server, sql'[t] = "end"
        PROVE  io'[t] = "end" /\ relay'[t] = {}
    <3>1. CASE t = s /\ Arrive(s)
      <4>1. /\ UNCHANGED <<io, relay>> /\ relay[s] = {} /\ sql' = [sql EXCEPT ![s] = io[s]]
        BY <3>1 DEF Arrive
      <4> QED BY <1>0, <2>3, <3>1, <4>1 DEF ServersOK
    <3>2. CASE /\ sql[t] = "end"
               /\ io[t] = "end" /\ relay[t] = {} =>
                    io'[t] = "end" /\ relay'[t] = {}
      BY <3>2
    <3> QED BY <2>1, <2>3, <3>1, <3>2
  <2> QED BY <2>2, <2>3
<1>4. CASE Connect
  BY <1>4 DEF Connect, slaves
<1>5. UNCHANGED vars => UNCHANGED servers
  BY DEF vars
<1> QED BY <1>1, <1>2, <1>3, <1>4, <1>5, MonitorCalls DEF Next

-----------------------------------------------------------------------------
(***************************************************************************)
(* Where the run loop is says whether the candidate is known and the roles *)
(* are those in the files.                                                 *)
(***************************************************************************)

PlaceInv == CandidateKnown /\ RolesSaved

LEMMA PlaceStep == TypeOK /\ PlaceInv /\ [Next]_vars => PlaceInv'
<1> SUFFICES ASSUME TypeOK, PlaceInv, [Next]_vars PROVE PlaceInv'
  OBVIOUS
<1> USE DEF PlaceInv, CandidateKnown, RolesSaved
<1>0. pc \in Place /\ Operated \subseteq Server
  BY ServerAssumption DEF TypeOK
<1>1. ASSUME NEW e \in Operated, Operate(e) PROVE PlaceInv'
  BY <1>0, <1>1 DEF Operate, Active, Detach, Pause, Resume, Switch, Request, roles
<1>2. CASE RequestCall
  <2>1. pc = "request" /\ pc' \in {"idle", "request"} /\ UNCHANGED <<roles, saved>>
    BY <1>2 DEF RequestCall
  <2> QED BY <2>1
<1>3. CASE PreKill \/ EnableReadOnly \/ PostKill \/ StopOldMaster
           \/ RestartOldMaster \/ CheckCandidate
  <2>1. UNCHANGED <<roles, saved>> /\ (pc' # "idle" => cand' = cand)
    BY <1>3 DEF PreKill, EnableReadOnly, PostKill, StopOldMaster, RestartOldMaster,
       CheckCandidate, quiet, loop, local, Locals
  <2> QED BY <1>3, <2>1 DEF PreKill, EnableReadOnly, PostKill, StopOldMaster,
             RestartOldMaster, CheckCandidate
<1>4. CASE CheckReverse
  BY <1>4 DEF CheckReverse
<1>5. CASE ChangeOldMaster
  BY <1>5 DEF ChangeOldMaster
<1>6. CASE Repoint \/ (\E s \in Server : RepointSlave(s)) \/ Repointed
  <2>1. pc' \in {"repoint", "reopen"}
    BY <1>6 DEF Repoint, RepointSlave, Repointed
  <2> QED BY <2>1
<1>7. CASE Reopen
  <2>1. UNCHANGED <<roles, saved>> /\ pc' = IF roles = saved THEN "idle" ELSE "save"
    BY <1>7 DEF Reopen, quiet
  <2> QED BY <2>1
<1>8. CASE SaveConfig
  <2>1. pc' = "idle" /\ saved' = roles /\ UNCHANGED roles
    BY <1>8 DEF SaveConfig
  <2> QED BY <2>1
<1>9. CASE MonitorRestart
  <2>1. pc' = "idle" /\ roles' = <<saved[1], saved[2], saved[3]>> /\ saved' = saved
    BY <1>9 DEF MonitorRestart, roles
  <2>2. saved = <<saved[1], saved[2], saved[3]>>
    BY DEF TypeOK, RoleTable
  <2> QED BY <2>1, <2>2
<1>10. CASE UNCHANGED <<pc, roles, saved, cand>>
  BY <1>10
<1>11. Inspect \/ Connect \/ (\E s \in Server : Environment(s)) \/ UNCHANGED vars
       => UNCHANGED <<pc, roles, saved, cand>>
  BY DEF Inspect, Connect, Environment, Commit, Fetch, Execute, Arrive, ServerStop,
     ServerStart, vars, monitor, loop, local
<1> QED BY <1>1, <1>2, <1>3, <1>4, <1>5, <1>6, <1>7, <1>8, <1>9, <1>10, <1>11 DEF Next, Step

-----------------------------------------------------------------------------
(***************************************************************************)
(* While no unsaved switch has been cut short the master alone is open;    *)
(* while no candidate was misread either, it has every write.              *)
(***************************************************************************)

\* A call that opens no server but the master, while the roles stay.
LEMMA SavedCall ==
  ASSUME TypeOK, NEW c \in CallSet, CallStep(c),
         c.op = "writable" => c.at = master, UNCHANGED roles
  PROVE  /\ OneOpen => OneOpen'
         /\ HasAll => HasAll'
         /\ UNCHANGED <<data, master>>
         /\ c.op # "writable" => readOnly \subseteq readOnly'
<1>1. /\ UNCHANGED data /\ master' = master
      /\ readOnly \ {c.at} \subseteq readOnly'
      /\ c.op # "writable" => readOnly \subseteq readOnly'
      /\ \A t \in Server : relay'[t] \subseteq relay[t]
  BY CallEffect DEF TypeOK, roles
<1>2. OneOpen => OneOpen'
  BY <1>1 DEF OneOpen
<1>3. HasAll => HasAll'
  BY <1>1 DEF HasAll
<1> QED BY <1>1, <1>2, <1>3

LEMMA SavedEnvironment ==
  ASSUME TypeOK, WhileSaved, NEW s \in Server, Environment(s)
  PROVE  WhileSaved'
<1>1. UNCHANGED <<master, pc, cand, todo>> /\ readOnly \subseteq readOnly'
  BY EnvironmentEffect DEF monitor, roles, loop, local
<1> QED BY <1>1 DEF WhileSaved, OneOpen, MasterClosed, OnlyMasterOpened

\* Neither clients nor replication nor a restart put a write elsewhere, and
\* while the master is closed it gets none.
LEMMA TrustedEnvironment ==
  ASSUME TypeOK, WhileSaved, WhileTrusted, CandidateKnown, NEW s \in Server, Environment(s)
  PROVE  WhileTrusted'
<1>0. /\ ServersOK /\ master \in Server
      /\ Server \ {master} \subseteq readOnly /\ HasAll
  BY DEF TypeOK, roles, RoleTable, WhileSaved, OneOpen, WhileTrusted
<1>1. UNCHANGED <<master, pc, cand, todo>>
  BY EnvironmentType DEF monitor, roles, loop, local
<1>2. CASE Commit(s)
  <2>1. s = master /\ master \notin readOnly /\ UNCHANGED relay
    BY <1>0, <1>2 DEF Commit
  <2>2. \A t \in Server : t # master => data'[t] = data[t]
    BY <1>0, <1>2, <2>1 DEF Commit, ServersOK
  <2>3. data[master] \subseteq data'[master]
    BY <1>0, <1>2, <2>1 DEF Commit, ServersOK
  <2>4. HasAll'
    BY <1>0, <1>1, <2>1, <2>2, <2>3 DEF HasAll
  <2>5. pc \notin {"reverse", "stop", "change"}
    BY <2>1 DEF WhileSaved, MasterClosed
  <2> QED BY <1>1, <2>4, <2>5 DEF CandidateReady, WhileTrusted
<1>3. CASE Fetch(s)
  <2>1. /\ source[s] \in Server /\ UNCHANGED data
        /\ relay' = [relay EXCEPT ![s] = @ \cup (data[source[s]] \ data[s])]
    BY <1>0, <1>3 DEF Fetch, ServersOK
  <2>2. \A t \in Server : relay'[t] \subseteq data[master]
    BY <1>0, <2>1 DEF ServersOK, HasAll
  <2> QED BY <1>0, <1>1, <2>1, <2>2 DEF HasAll, WhileTrusted, CandidateReady
<1>4. CASE Execute(s)
  <2>1. PICK w \in relay[s] : /\ data' = [data EXCEPT ![s] = @ \cup {w}]
                             /\ relay' = [relay EXCEPT ![s] = @ \ {w}]
    BY <1>4 DEF Execute
  <2>2. \A t \in Server : /\ data[t] \subseteq data'[t]
                         /\ data'[t] \cup relay'[t] \subseteq data[master]
    BY <1>0, <2>1 DEF ServersOK, HasAll
  <2>3. data'[master] = data[master]
    BY <1>0, <2>2
  <2>4. CandidateReady'
    BY <1>1, <2>2, <2>3 DEF CandidateReady, CandidateKnown, WhileTrusted
  <2> QED BY <1>1, <2>2, <2>3, <2>4 DEF HasAll, WhileTrusted
<1>5. CASE Arrive(s) \/ ServerStop(s) \/ ServerStart(s)
  <2>1. UNCHANGED <<data, relay>>
    BY <1>5 DEF Arrive, ServerStop, ServerStart, slaves
  <2> QED BY <1>0, <1>1, <2>1 DEF HasAll, CandidateReady, WhileTrusted
<1> QED BY <1>2, <1>3, <1>4, <1>5 DEF Environment

\* The exchange: the old master is closed, and the candidate lacks nothing.
LEMMA ExchangeKeeps ==
  ASSUME TypeOK, WhileSaved, CandidateKnown, pc = "change",
         Succeeds(ChangeMasterTo(master, cand)), ExchangeRoles, pc' = "repoint"
  PROVE  /\ WhileSaved'
         /\ WhileTrusted => WhileTrusted' /\ data'[master'] = data[master]
<1>0. /\ master \in Server /\ cand \in Server /\ standby \in Server \cup {NoServer}
      /\ ServersOK
  BY DEF TypeOK, roles, RoleTable, CandidateKnown
<1>1. master' = cand /\ todo' = Promotion(master', standby')
      /\ standby' \in Server \cup {NoServer}
  BY <1>0 DEF ExchangeRoles
<1>2. /\ UNCHANGED data /\ readOnly \subseteq readOnly'
      /\ \A t \in Server : relay'[t] \subseteq relay[t]
  <2>1. ChangeMasterTo(master, cand) \in CallSet
        /\ ChangeMasterTo(master, cand).op # "writable"
    BY <1>0, CallTypes DEF ChangeMasterTo, Call
  <2> QED BY <1>0, <2>1, CallEffect DEF CallStep
<1>3. master \in readOnly
  BY DEF WhileSaved, MasterClosed
<1>4. OneOpen'
  BY <1>1, <1>2, <1>3 DEF WhileSaved, OneOpen
<1>5. OnlyMasterOpened'
  BY <1>0, <1>1, PromotionCalls DEF OnlyMasterOpened
<1>6. MasterClosed' /\ CandidateReady'
  BY DEF MasterClosed, CandidateReady
<1>7. ASSUME WhileTrusted
      PROVE  HasAll' /\ data'[master'] = data[master]
  <2>1. data[master] = data[cand]
    BY <1>0, <1>7 DEF WhileTrusted, HasAll, CandidateReady
  <2> QED BY <1>1, <1>2, <1>7, <2>1 DEF WhileTrusted, HasAll
<1> QED BY <1>4, <1>5, <1>6, <1>7 DEF WhileSaved, WhileTrusted

\* A step of the switch that makes a call and leaves the roles alone.
LEMMA SwitchCalls ==
  ASSUME TypeOK, WhileSaved,
         PreKill \/ EnableReadOnly \/ PostKill \/ StopOldMaster \/ RestartOldMaster \/ Reopen
  PROVE  /\ WhileSaved'
         /\ WhileTrusted => WhileTrusted'
         /\ UNCHANGED <<data, master>>
<1>0. master \in Server /\ OneOpen /\ OnlyMasterOpened
  BY DEF TypeOK, roles, RoleTable, WhileSaved
<1>1. UNCHANGED <<roles, todo>> /\ (pc' # "idle" => cand' = cand)
  BY DEF PreKill, EnableReadOnly, PostKill, StopOldMaster, RestartOldMaster, Reopen,
     quiet, local, Locals
<1>2. master' = master /\ OnlyMasterOpened'
  BY <1>0, <1>1 DEF roles, OnlyMasterOpened
<1> DEFINE Keeps(c) == /\ OneOpen' /\ (HasAll => HasAll') /\ data' = data
                       /\ c.op # "writable" => readOnly \subseteq readOnly'
<1>3. ASSUME NEW c \in CallSet, CallStep(c), c.op = "writable" => c.at = master
      PROVE  Keeps(c)
  BY <1>0, <1>1, <1>3, SavedCall
<1>4. /\ Kill(master) \in CallSet /\ Kill(master).op = "kill"
      /\ SetReadOnly(master) \in CallSet /\ SetReadOnly(master).op = "readonly"
      /\ StopSlave(master) \in CallSet /\ StopSlave(master).op = "stop"
      /\ StartSlave(master) \in CallSet /\ StartSlave(master).op = "start"
      /\ SetWritable(master) \in CallSet /\ SetWritable(master).at = master
  BY <1>0, CallTypes DEF Kill, SetReadOnly, StopSlave, StartSlave, SetWritable, Call
<1> USE DEF WhileSaved, WhileTrusted, MasterClosed, CandidateReady
<1>5. CASE PreKill
  <2>1. CallStep(Kill(master)) /\ pc' \in {"readonly", "idle"}
    BY <1>5 DEF PreKill, CallStep
  <2> QED BY <1>2, <1>3, <1>4, <2>1
<1>6. CASE EnableReadOnly
  <2>1. CallStep(SetReadOnly(master)) /\ pc' \in {"rekill", "idle"}
    BY <1>6 DEF EnableReadOnly, CallStep
  <2>2. pc' = "rekill" => master \in readOnly'
    BY <1>0, <1>6, ClosingCloses DEF EnableReadOnly
  <2> QED BY <1>2, <1>3, <1>4, <2>1, <2>2
<1>7. CASE PostKill
  <2>1. CallStep(Kill(master)) /\ pc = "rekill" /\ pc' \in {"check", "reopen"}
    BY <1>7 DEF PostKill, CallStep
  <2>2. readOnly \subseteq readOnly' /\ master \in readOnly
    BY <1>3, <1>4, <2>1
  <2> QED BY <1>2, <1>3, <1>4, <2>1, <2>2
<1>8. CASE StopOldMaster
  <2>1. CallStep(StopSlave(master)) /\ pc = "stop" /\ pc' \in {"change", "reopen"}
    BY <1>8 DEF StopOldMaster, CallStep
  <2>2. readOnly \subseteq readOnly' /\ master \in readOnly /\ cand' = cand
    BY <1>1, <1>3, <1>4, <2>1
  <2> QED BY <1>2, <1>3, <1>4, <2>1, <2>2
<1>9. CASE RestartOldMaster
  <2>1. CallStep(StartSlave(master)) /\ pc' = "reopen"
    BY <1>9 DEF RestartOldMaster, CallStep
  <2> QED BY <1>2, <1>3, <1>4, <2>1
<1>10. CASE Reopen
  <2>1. CallStep(SetWritable(master)) /\ pc' \in {"idle", "save"}
    BY <1>10 DEF Reopen, CallStep
  <2> QED BY <1>2, <1>3, <1>4, <2>1
<1> QED BY <1>5, <1>6, <1>7, <1>8, <1>9, <1>10

\* The next of the calls still to be made.
LEMMA TodoCalls ==
  ASSUME TypeOK, WhileSaved, RequestCall \/ Repoint
  PROVE  /\ WhileSaved'
         /\ WhileTrusted => WhileTrusted'
         /\ UNCHANGED <<data, master>>
<1>0. todo \in Seq(CallSet) /\ todo # <<>>
  BY DEF TypeOK, LoopOK, RequestCall, Repoint
<1>1. UNCHANGED roles /\ CallStep(Head(todo)) /\ todo' \in {Tail(todo), <<>>}
  BY DEF RequestCall, Repoint, CallStep
<1>2. Head(todo) \in CallSet /\ (Head(todo).op = "writable" => Head(todo).at = master)
  BY <1>0, TailOfCalls DEF WhileSaved, OnlyMasterOpened
<1>3. OneOpen' /\ (HasAll => HasAll') /\ master' = master /\ data' = data
  BY <1>1, <1>2, SavedCall DEF WhileSaved
<1>4. \A i \in 1..Len(Tail(todo)) : Tail(todo)[i].op = "writable" => Tail(todo)[i].at = master
  BY <1>0, TailOfCalls DEF WhileSaved, OnlyMasterOpened
<1>5. OnlyMasterOpened'
  <2>1. CASE todo' = Tail(todo)
    BY <1>3, <1>4, <2>1 DEF OnlyMasterOpened
  <2>2. CASE todo' = <<>>
    <3>1. 1..Len(todo') = {}
      BY <2>2
    <3> QED BY <3>1 DEF OnlyMasterOpened
  <2> QED BY <1>1, <2>1, <2>2
<1>6. pc' \in {"idle", "request", "repoint"}
  BY DEF RequestCall, Repoint
<1> QED BY <1>3, <1>5, <1>6
      DEF WhileSaved, WhileTrusted, MasterClosed, CandidateReady

\* What the steps other than calls leave alone.
LEMMA StillStep ==
  ASSUME TypeOK, WhileSaved, UNCHANGED <<readOnly, data, relay, master>>, OnlyMasterOpened'
  PROVE  /\ pc' \notin {"rekill", "check", "recheck", "reverse", "stop", "change"} =>
              WhileSaved' /\ (WhileTrusted => WhileTrusted')
         /\ MasterClosed' => WhileSaved'
         /\ WhileTrusted /\ CandidateReady' => WhileTrusted'
BY DEF WhileSaved, OneOpen, MasterClosed, WhileTrusted, HasAll, CandidateReady

LEMMA SavedStep ==
  IInv /\ [Next]_vars /\ ~interrupted /\ ~interrupted' =>
    /\ WhileSaved'
    /\ ~misread /\ ~misread' => WhileTrusted'
<1> SUFFICES ASSUME IInv, [Next]_vars, ~interrupted, ~interrupted'
             PROVE  /\ WhileSaved'
                    /\ ~misread /\ ~misread' => WhileTrusted'
  OBVIOUS
<1> DEFINE Goal == /\ WhileSaved'
                   /\ ~misread /\ ~misread' => WhileTrusted'
<1>0. /\ TypeOK /\ FetchedAll /\ ExecutedAll /\ CandidateKnown /\ RolesSaved /\ WhileSaved
      /\ ~misread => WhileTrusted
      /\ master \in Server /\ Operated \subseteq Server
  BY ServerAssumption DEF IInv, TypeOK, roles, RoleTable
<1> DEFINE Still == UNCHANGED <<readOnly, data, relay, master>>
<1>1. ASSUME NEW e \in Operated, Operate(e) PROVE Goal
  <2>1. Still /\ pc' \in {"request", "kill"}
    BY <1>1 DEF Operate, Active, Detach, Pause, Resume, Switch, Request, servers, slaves, roles
  <2>2. OnlyMasterOpened'
    <3>1. CASE Switch(e)
      BY <1>0, <2>1, <3>1 DEF Switch, WhileSaved, OnlyMasterOpened
    <3>2. CASE Active(e) \/ Detach(e) \/ Pause(e) \/ Resume(e)
      BY <1>0, <2>1, <3>2, RequestCalls DEF OnlyMasterOpened
    <3> QED BY <1>1, <3>1, <3>2 DEF Operate
  <2> QED BY <1>0, <2>1, <2>2, StillStep
<1>2. CASE RequestCall \/ Repoint
  BY <1>0, <1>2, TodoCalls
<1>3. CASE PreKill \/ EnableReadOnly \/ PostKill \/ StopOldMaster \/ RestartOldMaster \/ Reopen
  BY <1>0, <1>3, SwitchCalls
<1>4. CASE CheckCandidate
  <2>1. Still /\ UNCHANGED <<todo, cand>> /\ pc \in {"check", "recheck"}
    BY <1>4 DEF CheckCandidate, servers, slaves, loop, local, roles
  <2>2. master \in readOnly /\ cand \in Server
    BY <1>0, <2>1 DEF WhileSaved, MasterClosed, CandidateKnown
  <2>3. MasterClosed' /\ OnlyMasterOpened'
    BY <1>0, <2>1, <2>2 DEF WhileSaved, MasterClosed, OnlyMasterOpened
  <2>4. ASSUME ~misread' PROVE CandidateReady'
    <3>1. misread' = (misread \/ TakenForOk) /\ misread \in BOOLEAN
      BY <1>0, <1>4 DEF CheckCandidate, TypeOK, HistoryOK
    <3>2. ~TakenForOk
      BY <2>4, <3>1, Zenon
    <3>3. pc' = "reverse" => ReplicationStatus(cand, master) = "ok"
      BY <1>4 DEF CheckCandidate
    <3>4. pc' \in {"reverse", "recheck", "reopen"}
      BY <1>4 DEF CheckCandidate
    <3>5. pc' = "reverse" => data[master] \subseteq data[cand]
      BY <1>0, <2>2, <3>2, <3>3, OkMeansCaughtUp DEF TakenForOk
    <3> QED BY <2>1, <3>4, <3>5 DEF CandidateReady
  <2> QED BY <1>0, <2>1, <2>3, <2>4, StillStep
<1>5. CASE CheckReverse
  <2>1. Still /\ UNCHANGED <<todo, cand>> /\ pc = "reverse" /\ pc' = "stop"
    BY <1>5 DEF CheckReverse, servers, slaves, roles
  <2>2. MasterClosed' /\ OnlyMasterOpened'
    BY <1>0, <2>1 DEF WhileSaved, MasterClosed, OnlyMasterOpened
  <2>3. WhileTrusted => CandidateReady'
    BY <2>1 DEF WhileTrusted, CandidateReady
  <2> QED BY <1>0, <2>1, <2>2, <2>3, StillStep
<1>6. CASE ChangeOldMaster
  <2>1. CASE Succeeds(ChangeMasterTo(master, cand)) /\ ExchangeRoles /\ pc' = "repoint"
    BY <1>0, <1>6, <2>1, ExchangeKeeps DEF ChangeOldMaster
  <2>2. CASE Fails(ChangeMasterTo(master, cand)) /\ pc' = "restart" /\ UNCHANGED <<roles, todo>>
    <3>1. ChangeMasterTo(master, cand) \in CallSet /\ ChangeMasterTo(master, cand).op = "change"
      BY <1>0, CallTypes DEF TypeOK, LoopOK, ChangeMasterTo, Call
    <3>2. OneOpen' /\ (HasAll => HasAll') /\ master' = master
      BY <1>0, <2>2, <3>1, SavedCall DEF CallStep, WhileSaved
    <3> QED BY <1>0, <2>2, <3>2
          DEF WhileSaved, WhileTrusted, MasterClosed, CandidateReady, OnlyMasterOpened
  <2> QED BY <1>6, <2>1, <2>2 DEF ChangeOldMaster
<1>7. ASSUME NEW s \in Server, RepointSlave(s) PROVE Goal
  <2>1. Still /\ pc' = "repoint"
    BY <1>7 DEF RepointSlave, servers, slaves, roles
  <2>2. todo' = <<StopSlave(s), ChangeMasterTo(s, master), StartSlave(s)>>
    BY <1>7 DEF RepointSlave
  <2>3. OnlyMasterOpened'
    BY <2>2 DEF OnlyMasterOpened, StopSlave, ChangeMasterTo, StartSlave, Call
  <2> QED BY <1>0, <2>1, <2>3, StillStep
<1>8. CASE Repointed \/ SaveConfig
  <2>1. Still /\ todo' = todo /\ pc' \in {"reopen", "idle"}
    BY <1>8 DEF Repointed, SaveConfig, servers, slaves, quiet, roles
  <2>2. OnlyMasterOpened'
    BY <1>0, <2>1 DEF WhileSaved, OnlyMasterOpened
  <2> QED BY <1>0, <2>1, <2>2, StillStep
<1>9. CASE Inspect \/ Connect \/ UNCHANGED vars
  <2>1. Still /\ UNCHANGED <<todo, pc, cand>>
    BY <1>9 DEF Inspect, Connect, vars, servers, slaves, roles, loop, local, monitor
  <2>2. OnlyMasterOpened' /\ MasterClosed' /\ (WhileTrusted => CandidateReady')
    BY <1>0, <2>1 DEF WhileSaved, OnlyMasterOpened, MasterClosed, WhileTrusted, CandidateReady
  <2> QED BY <1>0, <2>1, <2>2, StillStep
<1>10. CASE MonitorRestart
  <2>1. roles = saved
    BY <1>10 DEF MonitorRestart
  <2>2. master' = master /\ UNCHANGED servers /\ pc' = "idle" /\ todo' = <<>>
    BY <1>10, <2>1 DEF MonitorRestart, roles
  <2>3. 1..Len(todo') = {}
    BY <2>2
  <2>4. Still /\ OnlyMasterOpened'
    BY <2>2, <2>3 DEF servers, slaves, OnlyMasterOpened
  <2> QED BY <1>0, <2>2, <2>4, StillStep
<1>11. ASSUME NEW s \in Server, Environment(s) PROVE Goal
  BY <1>0, <1>11, SavedEnvironment, TrustedEnvironment
<1> QED BY <1>1, <1>2, <1>3, <1>4, <1>5, <1>6, <1>7, <1>8, <1>9, <1>10, <1>11 DEF Next, Step

-----------------------------------------------------------------------------
(***************************************************************************)
(* The theorems.                                                           *)
(***************************************************************************)

LEMMA InitIInv == Init => IInv
<1> SUFFICES ASSUME Init PROVE IInv
  OBVIOUS
<1>1. TypeOK
  BY InitType
<1>2. FetchedAll /\ ExecutedAll /\ CandidateKnown /\ RolesSaved
  BY DEF Init, FetchedAll, ExecutedAll, CandidateKnown, RolesSaved
<1>3. WhileSaved /\ WhileTrusted
  <2>1. 1..Len(todo) = {}
    BY DEF Init
  <2> QED BY <2>1 DEF Init, WhileSaved, OneOpen, WhileTrusted, HasAll, MasterClosed,
                      CandidateReady, OnlyMasterOpened
<1> QED BY <1>1, <1>2, <1>3 DEF IInv

LEMMA NextIInv == IInv /\ [Next]_vars => IInv'
<1> SUFFICES ASSUME IInv, [Next]_vars PROVE IInv'
  OBVIOUS
<1>1. TypeOK' /\ FetchedAll' /\ ExecutedAll' /\ PlaceInv'
  BY NextType, LogsStep, PlaceStep DEF IInv, PlaceInv
<1>2. (~interrupted' => ~interrupted) /\ (~misread' => ~misread)
  BY InterruptedStep, MisreadStep DEF IInv, TypeOK, HistoryOK
<1>3. ~interrupted' => WhileSaved' /\ (~misread' => WhileTrusted')
  BY <1>2, SavedStep
<1> QED BY <1>1, <1>3 DEF IInv, PlaceInv

LEMMA Invariance == Spec => []IInv
BY InitIInv, NextIInv, PTL DEF Spec

\* Whatever fails and wherever the operations stand, no server but the master
\* accepts writes, unless the monitor died before it saved a switch.
THEOREM OneWritableServer == Spec => []OnlyMasterWritable
<1>1. IInv => OnlyMasterWritable
  BY DEF IInv, WhileSaved, OneOpen, OnlyMasterWritable
<1> QED BY <1>1, Invariance, PTL

\* A committed write is at the master at all times, across every switch, unless
\* the monitor died before it saved one, or the check of a candidate compared an
\* offset with the master's that was one in another file.
THEOREM NoSwitchLosesWrites == Spec => []NoWriteLost
<1>1. IInv => NoWriteLost
  BY DEF IInv, WhileTrusted, HasAll, NoWriteLost
<1> QED BY <1>1, Invariance, PTL

-----------------------------------------------------------------------------
(***************************************************************************)
(* The operations provide the service.                                     *)
(***************************************************************************)

\* While no switch is cut short or misled, a step commits at the master, or leaves
\* the writes at the master what they were, whichever server that is.
LEMMA MasterWrites ==
  ASSUME IInv, [Next]_vars, ~interrupted, ~interrupted', ~misread, ~misread'
  PROVE  \/ Commit(master)
         \/ data'[master'] = data[master]
<1>0. /\ TypeOK /\ WhileSaved /\ WhileTrusted /\ CandidateKnown /\ ServersOK
      /\ master \in Server
  BY DEF IInv, TypeOK, roles, RoleTable
<1>1. ASSUME NEW e \in Operated, Operate(e)
      PROVE  UNCHANGED <<data, master>>
  BY <1>1 DEF Operate, Active, Detach, Pause, Resume, Switch, Request, servers, roles
<1>2. CASE PreKill \/ EnableReadOnly \/ PostKill \/ StopOldMaster \/ RestartOldMaster \/ Reopen
  BY <1>0, <1>2, SwitchCalls
<1>3. CASE RequestCall \/ Repoint
  BY <1>0, <1>3, TodoCalls
<1>4. CASE ChangeOldMaster
  <2>1. CASE Succeeds(ChangeMasterTo(master, cand)) /\ ExchangeRoles /\ pc' = "repoint"
    BY <1>0, <1>4, <2>1, ExchangeKeeps DEF ChangeOldMaster
  <2>2. CASE Fails(ChangeMasterTo(master, cand)) /\ UNCHANGED roles
    <3>1. ChangeMasterTo(master, cand) \in CallSet /\ ChangeMasterTo(master, cand).op = "change"
      BY <1>0, CallTypes DEF TypeOK, LoopOK, ChangeMasterTo, Call
    <3> QED BY <1>0, <2>2, <3>1, SavedCall DEF CallStep
  <2> QED BY <1>4, <2>1, <2>2 DEF ChangeOldMaster
<1>5. \/ CheckCandidate \/ CheckReverse \/ Repointed \/ SaveConfig \/ Inspect
      \/ (\E s \in Server : RepointSlave(s)) \/ Connect \/ UNCHANGED vars
      => UNCHANGED <<data, master>>
  BY DEF CheckCandidate, CheckReverse, Repointed, SaveConfig, Inspect, RepointSlave,
     Connect, vars, servers, quiet, roles, monitor
<1>6. CASE MonitorRestart
  <2>1. roles = saved
    BY <1>6 DEF MonitorRestart
  <2> QED BY <1>6, <2>1 DEF MonitorRestart, roles, servers
<1>7. ASSUME NEW s \in Server, Environment(s)
      PROVE  Commit(master) \/ data'[master'] = data[master]
  <2>0. UNCHANGED master
    BY <1>0, <1>7, EnvironmentType DEF monitor, roles
  <2>1. CASE Commit(s)
    <3>1. s = master
      BY <1>0, <2>1 DEF Commit, WhileSaved, OneOpen
    <3> QED BY <2>1, <3>1
  <2>2. CASE Execute(s)
    <3>1. PICK w \in relay[s] : data' = [data EXCEPT ![s] = @ \cup {w}]
      BY <2>2 DEF Execute
    <3>2. w \in data[master]
      BY <3>1, <1>0 DEF WhileTrusted, HasAll
    <3> QED BY <1>0, <2>0, <3>1, <3>2 DEF ServersOK, WhileTrusted, HasAll
  <2>3. CASE Fetch(s) \/ Arrive(s) \/ ServerStop(s) \/ ServerStart(s)
    BY <2>0, <2>3 DEF Fetch, Arrive, ServerStop, ServerStart
  <2> QED BY <1>7, <2>1, <2>2, <2>3 DEF Environment
<1> QED BY <1>1, <1>2, <1>3, <1>4, <1>5, <1>6, <1>7 DEF Next, Step

LEMMA ServiceStep == IInv /\ IInv' /\ [Next]_vars => [Service!ANext]_(Service!avars)
<1> SUFFICES ASSUME IInv, IInv', [Next]_vars PROVE [Service!ANext]_(Service!avars)
  OBVIOUS
<1>0. /\ master \in Server /\ master' \in Server
      /\ data \in [Server -> SUBSET Write] /\ data' \in [Server -> SUBSET Write]
  BY DEF IInv, TypeOK, roles, RoleTable, ServersOK
<1>1. /\ interrupted \in BOOLEAN /\ interrupted' \in BOOLEAN
      /\ misread \in BOOLEAN /\ misread' \in BOOLEAN
  BY DEF IInv, TypeOK, HistoryOK
<1>2. CASE interrupted' \/ misread'
  <2>1. (interrupted' \/ misread') = TRUE
    BY <1>1, <1>2, Zenon
  <2>2. data'[master'] \in SUBSET Write
    BY <1>0
  <2>3. Service!Lapse
    BY <1>0, <2>1, <2>2, Zenon DEF Service!Lapse
  <2> QED BY <2>3 DEF Service!ANext
<1>3. CASE ~(interrupted' \/ misread')
  <2>1. ~interrupted /\ ~misread /\ ~interrupted' /\ ~misread'
    BY <1>1, <1>3, InterruptedStep, MisreadStep
  <2>2. UNCHANGED <<interrupted, misread>>
    BY <1>1, <2>1, Zenon
  <2>3. ~(interrupted \/ misread) /\ (interrupted' \/ misread') = (interrupted \/ misread)
    BY <2>1, <2>2, Zenon
  <2>4. CASE Commit(master)
    <3>1. UNCHANGED master
      BY <2>4 DEF Commit, monitor, roles
    <3>2. PICK w \in Write \ UNION {data[t] : t \in Server} :
                data' = [data EXCEPT ![master] = @ \cup {w}]
      BY <2>4 DEF Commit
    <3>3. w \in Write \ data[master] /\ data'[master'] = data[master] \cup {w}
      BY <1>0, <3>1, <3>2
    <3>4. Service!Accept
      BY <2>3, <3>1, <3>3, Zenon DEF Service!Accept
    <3> QED BY <3>4 DEF Service!ANext
  <2>5. CASE data'[master'] = data[master]
    <3>1. Service!Handover
      BY <1>0, <2>3, <2>5, Zenon DEF Service!Handover
    <3> QED BY <3>1 DEF Service!ANext
  <2> QED BY <2>1, <2>4, <2>5, MasterWrites
<1> QED BY <1>2, <1>3

\* The monitor's operations implement the abstract service: to its users a
\* switch is one handover that loses no acknowledged write, up to the first that
\* is cut short or that takes a candidate for ready by the offset in another file.
THEOREM ImplementsService == Spec => ServiceProvided
<1>1. Init => Service!AInit
  <2> SUFFICES ASSUME Init PROVE Service!AInit
    OBVIOUS
  <2>1. master \in Server /\ data[master] = {}
    BY ServerAssumption DEF Init
  <2>2. interrupted = FALSE /\ misread = FALSE
    BY Zenon DEF Init
  <2>3. (interrupted \/ misread) = FALSE
    BY <2>2, Zenon
  <2> QED BY <2>1, <2>3, Zenon DEF Service!AInit
<1> QED BY <1>1, ServiceStep, Invariance, PTL DEF Spec, ServiceProvided, Service!ASpec
=============================================================================
