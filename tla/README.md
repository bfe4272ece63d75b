# TLA+ models of MySQL-Service

MySQL-Service runs a replicated MySQL cluster on the LAIN platform: a *monitor* (`monitord.go`) that
keeps the roles of the instances and operates on them, *proxies* (`proxyd.go`) that pass client
connections to the right instance, *scripts* that boot, back up and restore an instance, and the *web
console* of the monitor with the scripts of its pages. This directory holds TLA+ modules translated from
that code, the TLC runs that check them on small instances, and proofs of the main results for every
value of the constants. Paths below are relative to the repository; line numbers refer to the same
commit as the modules.

## 1. Inventory

| component | state | operations | properties that make it correct |
|---|---|---|---|
| Monitor: table and role files (`monitor/monitor.go`, `monitor/model.go`) | `master`, `standby`, `slave`, `unregistered`; the connection pool of msops; three files under `role.conf` | lainlet list, register, unregister, switch, inspection tick, save, load | one role per endpoint; pool = endpoints with a role; files = memory when the loop waits; no running instance stays hidden; a restart finds the saved roles |
| Monitor: operations on the servers (`monitor/model.go:106-265`, vendored msops) | on each server: `read_only`, source, slave threads and the position of each, relay log, data, sessions | active, detach, pause, resume, switchToMaster | at most one writable server; no committed write lost by a switch; a replica called OK lacks nothing; a switch completes or undoes itself; every request is answered |
| Proxy (`proxy/mysql_proxy.go`) | target list, round-robin index, RWMutex, WaitGroup, sockets | take a list, listen, accept, look up, dial, pipe | rotation visits all targets; the index stays in range; no lookup waits for ever; a connection is given up when one end goes; the drain waits for all |
| Publishing (`monitor.go:119-158`, vendored eventsource, the loop of `mysql_proxy.go:34-68`) | `prevData`; the event source's consumers, one channel of ten messages each; the connections; the list of each proxy | init and update events, add, broadcast, write, drop, leave; connect, take, try again | no proxy goes back to an older list; each that stays connected ends with the last one; no channel is used after it is closed |
| Notifications (`etc/js/jquery.noty.js`) | `$.noty.queue`, `$.noty.available`; the bars and overlays in the page | call, show, click, timeout, close by id, close all, clear | one bar at a time in its turn, none left waiting; handlers speak of their own bar; no overlay stays behind |
| Switches (`etc/js/jquery.iphone.toggle.js`) | checkboxes and handles; four variables of the class that all switches share | press, move, release, animate, set, disable | handle = checkbox when at rest; a click toggles, a drag decides as shown; nothing is left of a press |
| Tables, boxes, menu (`etc/js/charisma.js`, DataTables) | rows, place and length of the page shown; what is folded and how it is marked | filter, sort, length, arrows, numbers, fold | rows that exist are shown under numbers of pages that exist; marks and arrows true; signs of folds true |
| Web console (`controllers/`, `monitor/view.go`) | unbuffered request channels, one response channel per request, rendered pages | show, act on a link | every request answered once; a link acts on what its page showed |
| Authorisation filter (`controllers/filters.go`) | session token | redirect, check | none to model: input and output |
| Instance scripts (`tools/`, `init_mysql_service.sh`) | data, backup and binlog directories | boot, full and incremental backup, download, recover | an interrupted boot or recovery is not taken for a finished one |
| `gen_mycnf.py`, graphite report, other page scripts, vendored code | none that the others read, but msops, eventsource and DataTables' page changes | | |

Interaction. A goroutine of the monitor (`listenLainletEvent`) turns lainlet's lists into messages
on the unbuffered `newEventChan`; HTTP goroutines of the console put requests on `getReqChan` and
`patchReqChan`; one goroutine (`run`) takes all of them, and the ticks, in a `select`, and is the
only one that changes the table. It calls the servers synchronously and publishes
`{master, slave}` to the proxies over server-sent events. In a proxy one goroutine stores the
lists, one accepts, and three per connection look up, dial and copy. The event source has a control
goroutine, which alone changes the list of consumers, and one goroutine per consumer. A page of the
console runs one handler at a time; its clicks, timers and animations interleave.

What is hard: the monitor may stop between any two SQL statements of a switch, or between the three
files of a save; a statement may fail, or succeed with its answer lost; clients commit and
replication proceeds between the statements; the listener and the run loop share a Go map; lookups
of a proxy write the index under the *read* lock; some handlers look at the state once and act on
it later; events are dropped when a consumer's channel is full, and lost while a proxy connects
again; the handlers of a page share variables across elements and see animations half done.
`PROJECT.json` lists each of these hazards at its line.

## 2. Modules

| module | models | proofs |
|---|---|---|
| `Registry` | the table of roles, the lainlet listener, the run loop, the three-file save, stops and restarts | `RegistryProofs` |
| `Failover` | the operations on the servers, statement by statement, with replication, clients, server restarts, monitor restarts | `FailoverProofs`, `SwitchProofs` |
| `MasterService` | what users of the service *mysql-master* are promised; implemented by `Failover` | (`ImplementsService` in `FailoverProofs`) |
| `Roster` | what the monitor promises about roles; implemented by `Registry` and by `Failover` | (`ImplementsRoster` in `RegistryProofs` and in `SwitchProofs`) |
| `Proxy` | one `proxyd` process: updater, listener, handlers, brokers, the death and restart of the process | `ProxyProofs` |
| `Feed` | what publishing promises the proxies; implemented by `Publish` | (`ImplementsFeed` in `PublishProofs`) |
| `Publish` | the run loop's events, the event source, the proxies' loops; broken links, timeouts, restarts of both ends | `PublishProofs` |
| `Noty` | the notifications of a page | `NotyProofs` |
| `Toggle` | the switches of a page | `ToggleProofs` |
| `Pager`, `Page` | a table with its page numbers; the page around it: a box and a menu entry that fold, composed with the table | `PageProofs` |
| `MCRegistry`, `MCFailover`, `MCProxy`, `MCPublish`, `MCNoty`, `MCToggle`, `MCPage` | instances for TLC | |

### Registry

`master`, `standby`, `slave`, `unregistered` are the fields of `MySQLMonitor`, `pool` the keys of
msops' `connectionPool`. `pc` is where the run loop is: `"select"`, or in the save of file number
`file` (`"truncate"` after the decision to save, `"write"` between `os.Create` and the flush), or
`"down"`. `conf` is what the files hold, `saved` the last undamaged save (history).
`lpc`, `tmpList`, `endpointList` belong to the listener.

Each handler is one action: the loop serves one input at a time, so that only the disk and the listener
can see its middle. The save is *not* one step: the process may stop between two files.
`UpdateServersList` keeps the order in which the code deletes from its argument. That argument is a Go
map, which the listener keeps as its `endpointList` after sending it; the deletions therefore change
what the next list is compared with (`monitor.go:257-260`), and the model makes them there too. The
listener's sleep of `CooldownTime` after each send lets the handler finish before the next comparison;
the model assumes so. `Patch` has the 404 condition of `handlePatch` exactly as written
(`monitor.go:371`): with two of its conditions inverted it never refuses, and a request about an unknown
endpoint adds it. Because of the shared map a departure can be missed: of the lists {a}, {a,b}, {b} the
last is taken for the one before, and a stays shown until the next change. `SwitchToMaster` is the
effect of a successful switch on the table; its steps are in `Failover`.

`Roster` says what both have in common: an endpoint that has no role takes one that is open, endpoints
lose their roles, and a promotion exchanges the places of one endpoint and the primary; nothing else
moves an endpoint from one role to another. Its `lapsed` is `torn` of `Registry`, a restart from files
that were not saved completely, and `interrupted` of `Failover`, a stop before the save of an exchange.
That the one step of `Registry` and the many steps of `Failover` implement the same module is what
justifies splitting the monitor into the two.

### Failover

The endpoints are fixed and registered. `todo` holds the calls an operation has still to make;
`Succeeds` and `Fails` give each call its three outcomes (done, not done, done with its answer
lost; the last two cost a fault, unless the server itself refuses). The positions `pc` takes in a
switch follow the statements of `switchToMaster` (`model.go:198-265`) in their order: kill,
`read_only = 1`, kill again, check the candidate (a second time three seconds later), look at the
reverse link, stop the old master's slave threads, point it at the candidate; from there on errors
are ignored and everything else is repointed. Every early return after `read_only = 1` goes through
`Reopen`, as in the code. `SaveConfig` follows when the roles have changed.

MySQL is modelled from what the code and `my.cnf.tmpl` use of it. A transaction is one of `Write`; a
server's log (`log-slave-updates` is on) is a row of files, and a commit, an executed transaction or a
start of the server may begin a new one. A replica has two threads: the I/O thread copies what the
server lacks to its relay log (`Fetch`), the SQL thread executes from there (`Execute`) and arrives where
the other is (`Arrive`). Only as much of the positions is kept as the code compares: of the I/O thread
whether its file is the one the source writes and whether it is at the end (`io`), of the SQL thread
also whether its offset is the source's own number though in an earlier file (`sql = "alike"`). A commit or
a new file of the source moves its replicas from "end" to "current" or "earlier" (`IoAfter`, `SqlAfter`).
CHANGE MASTER and RESET SLAVE ALL delete the relay log. Servers start with `read_only` on, their slave
threads running when a source is configured, and keep their relay log. Of the sessions a kill lists each
is killed by a statement of its own whose error is ignored (`operation.go:308-324`), so that some may be left.
The inspection tick is `Inspect`: what it publishes, whether the master answers, is written to
`target` directly; how it gets from there to the proxies is `Publish`.

`ReplicationStatus` compares what msops does (`instance.go:183-184`): `Master_Log_File`, the I/O thread's,
with the master's file, and `Exec_Master_Log_Pos`, the SQL thread's, with the master's offset. The file
that offset is in, `Relay_Master_Log_File`, is read and not compared. A replica that has fetched a new file and
not executed the one before is therefore "ok" when the two offsets happen to be equal, as offsets
soon after the heads of two files may well be. The run `failover_ok` shows it in
twelve states without any fault: a commit begins a new file, the replica fetches, and is OK by
`README.md:88` without having executed. A switch to it then loses the write with `RESET SLAVE ALL`
(`model.go:245`). `misread` remembers that a candidate was taken for "ok" so, and `NoWriteLost` and
`ServiceProvided` exempt what follows by name; without that exemption `NoWriteLost` fails in the instance of
`failover`, without a fault, twenty states long.

A switch looks at the reverse link once (`model.go:226`), while the old master may still be reading
back its own log; a pair that replicated mutually then comes out of the switch one-way, without an
error, although `README.md:79` says that it becomes a mutual pair with the roles exchanged. No write is
lost by it. `SwitchCompletes` promises the mutual link only to pairs found "ok" at that check. What
the README says is `MutualStaysMutual`; no run is spent on it, but put in the place of the invariant of
`MCFailoverPaused.cfg` it is violated after fifteen states.

### Proxy

`hpc[c]` is where `handleRequest` of connection `c` is. The lookup is split at each access of the
shared index (`Load`, `Store`, `Compare`, `Wrap`, `Index`), since readers run it at the same time.
The increment and comparison of `mysql_proxy.go:127-128` are a data race; `Compare` may use the
value just stored or read the variable again. An index out of range is the panic that ends the
process (`alive`), after which the platform restarts it. `RLock` is refused while a writer waits,
and the writer waits for `readers` to leave, which is what Go's `RWMutex` does. `pipe` and
its brokers are modelled on the states of the two sockets: a broker is either in a `Read` of its source or
(`writing`) in a `Write` to its sink, which returns when the peer has made room or the socket has
gone. In the one it does not notice what becomes of the other socket, and no deadline is set
(`mysql_proxy.go:165-170`): when the source of a broker goes while it writes to a peer that stays and
does not read, its connection, and with it `wg.Wait`, may hang for ever. `PipeEnds` names that case
(`Stuck`) and promises the end in all others. `Talking` are the connections over which anything is sent. Which endpoint a position of the list
names is left out: a list is its length.

### Publish and Feed

A list is its version, the number of changes of `prevData` before it. `sending` is the run loop
inside `SendEventMessage`, which blocks until the control goroutine has emptied `sink`. A connection
of a proxy goes through `handler` (added to the event source, then announced to the run loop, which
sends an init event to *all* consumers) and `writer` (its goroutine: it writes what comes through
`in`, and on an error or the idle timer sends itself to `staledCh`, upon which `Remove` takes it from
the list and closes `in`). Everything between a consumer's write and the proxy's handling of an event
is one queue, `wire`. `Broadcast` drops the event for a consumer whose channel is full, silently as
at `eventsource.go:133` (the comment at :81 says "send message to all consumers"); `dropped` remembers
it, and the properties that promise the last list except those proxies, which the next event serves.
`Dial` is `Watch` of the proxy, which it calls again whenever a connection has ended.

`Feed` is the promise: versions are published; a proxy takes one newer than what it has, up to the
current one; only its own restart makes it forget. It hides connections, channels and faults.

### Noty

Every call of `$.noty` makes an object with a variable `$noty` of its own. When a bar is gone the object
that showed it shows the next one of the queue and overwrites its `$noty`, to which the handlers of its
bars refer; hence `host` and `current`. `Render` is called by both and takes the place
(`$.noty.available`) if it is free. `CloseBars` is the event `noty.close` with all it does. `CloseId` is
`$.noty.close(id)` as the code has it: `splice(id, 1)` (`jquery.noty.js:188`) takes the id for an index,
which is not a number and so 0, and drops the head of the queue, once for each note of that id, though
the comment at :185 speaks of removing the note meant. `EachServed` and `QueueOK` hold for what is left.

### Toggle

The mouse is followed by handlers on the document; what is pressed, where, and whether it is being
dragged are variables of the class. `listening` are the switches whose handlers are on the document,
disabled ones too (`jquery.iphone.toggle.js:165`). A release can be lost: a touch is cancelled, which
nobody listens to; the release reaches a switch that has been disabled meanwhile; or `pageX` is 0, for
which `event.pageX || event.originalEvent.changedTouches[0].pageX` (:72, :220) ends in a TypeError. Then
`dragging` stays and makes a drag of the next click. The properties therefore speak of presses before
which no release was lost (`~lost`), and say in full what holds then; `HandleAgrees` holds whatever has been lost, but for the switches a
lost release leaves midway: the one whose handlers still wait for it, and those given up since for
another press (`stray`). These may disagree with their box until they are clicked or set anew, and its
second half says that there are no more of them than releases have been lost. `onDragEnd` decides by how far the
mouse has gone, without the place the handle began at (:112): from the left end that is what the drag
has shown, from the right end the switch goes off wherever it is let go. `DragDecides` states both
halves.

### Pager and Page

Each handler of DataTables ends in a drawing, so that what is drawn (`Page`, `Pages`, `Numbers`, the
arrows) is an operator on the state, from `fnPagingInfo` and `fnUpdate` of `charisma.js:351-432`. The
page number is computed from the place (`Ceiling(start, length)`), which a new length may have put
between two pages (`SetLength` fills the last page from above): of 57 rows on the second page of 50,
then 25, then 10, the place becomes 32, and when it gets to 42 the last page is marked and its arrow
disabled with rows still to come. `MarksTrue` is stated for places that are multiples of the length, and
`AlignmentKept` says that nothing else leaves them.

`Page` composes the table with two folds, the box around it and the menu entry "Details"
(`charisma.js:286-292`, and :114-127 with the menu of `frame.html`). A click sets the sign from what is
visible and asks for an animation the other way; animations of an element queue up. A click into the
closing animation leaves an open box marked closed; `SignTrue` says that this is the only way in which a
click leads to a wrong sign, that no click leaves something closed marked open, and that the one
thing that may be so before any click is the menu entry of a page of details. A fresh page has the menu
closed, but for a page of details reached by the address the menu itself has: `charisma.js:71-74` marks that entry and :123 opens
the menu around it (`FreshFold`). In a page of details reached by another form of the address "Details"
is marked with the menu closed, as the comparison in `frame.html:106` is of an address with an endpoint
and marks nothing.

## 3. Runs

| run | instance | shows |
|---|---|---|
| `registry` | 2 endpoints, 2 faults, fair | types; `TableConsistent`, `SavedWhenIdle`, `RestartKeepsRoles`, `ArrivalShownForGood` |
| `registry_restart` | 2 endpoints, 1 fault | **violated**: a stop inside the save leaves roles that never were |
| `failover` | master and standby, 1 write, 1 fault | types; `OnlyMasterWritable`, `NoWriteLost`, `SwitchReopens`, the refinement `ServiceProvided` |
| `failover_slave` | and a slave, no write, no fault, fair | `SwitchCompletes` with three roles, `NewMasterPublished` |
| `failover_paused` | 2 servers, no fault | **violated**: a refused switch opens a paused master |
| `failover_ok` | 2 servers, no fault | **violated**: a replica that is OK lacks what it has fetched and not executed |
| `proxy` | 2 connections, one of them with traffic, lists of up to 2, fair | types; `RoundRobin`, `IndexSettles`, `Drained`, `PipeEnds`, `UpdateStored` |
| `proxy_safe` | 2 connections, 1 target | **violated**: two lookups push the index out of the list |
| `publish` | 2 proxies, 2 connections, channels of 2, 2 changes, 1 fault, fair | types; `ClosedUnlisted`, `NothingMissed`, the refinement `FeedSpec`, `CatchesUp` |
| `noty` | a plain, a sticky, a forced modal note and a modal growl, fair | types; `TurnTaken`, `HandlersCurrent`, `OverlayOwned`, `ServedInOrder`, `EachServed` |
| `toggle` | 2 switches (symmetric), handles at 0..2, a page of 0..3, 1 lost release | types; `HandleAgrees`, `Rest`, `ClickToggles`, `DragDecides` |
| `page` | 13 rows, lengths 2, 5, 10, 20, 5 numbers, 2 folds | types; `RowsShown`, `NumbersExist`, `MarksTrue`, `SignTrue`, `AlignmentKept` |

The violated properties state sentences of `README.md` or of the code itself, quoted with each
finding in `PROJECT.json`; the comment over each definition names the line. Every property of a
passing run is also run against a mutant, a definition beside the original (`... Mutant: ...` in its
comment) with the mistake one would fear, and fails there.

Bounds, and why they are enough.

- *Endpoint, Server.* Two endpoints allow every handler, an exchange of roles, and one endpoint with
  two roles after a torn save; that three roles are held at a time matters in switches, which
  `failover_slave` has. Two servers have every step of a switch but the repointing of slaves;
  `failover_slave` adds that, and the promotion of a slave over a standby.
- *MaxFaults* counts stops and failures together. One is enough to reach each error branch once, and
  each window of a stop; the second in `registry` lets a restart be followed by another failure.
  The safety theorems hold for any number.
- *Write.* `NoWriteLost` is about single transactions, and one is enough to have a candidate that
  lacks it; what has been executed once is not executed anew.
- *Conn.* Two connections: two lookups race, or one of them while the other is in its dial or pipe. That a
  third adds nothing to the safety properties is what the theorems say, which hold for any set.
  *Talking* has one of them: what a connection without traffic can do, one with traffic can do too,
  and pipes do not touch each other; the theorems about them hold for any set again. *MaxTargets* is 2,
  the least with a rotation; one is the length the list of mysql-master has.
- *MaxIndex.* Racing lookups can push the index up without limit; no lookup starts from a value
  above the bound. `IndexSettles` says that the index is back in range when the lock is free.
- In `failover_slave` `Operated` leaves the first master out of the operator's requests, and no write and
  no fault is allowed, which keeps the run short: the standby is switched to while the slave replicates, which
  then has to be repointed, or the slave is promoted. Mutual pairs are among its switches: the first
  master, once demoted to standby, replicates from the new master, which `Active` then points at it.
  `SwitchCompletes` speaks of switches without faults only; for the others the theorems cover any number.
- `Publish`: *QueueSize* is 2 for the code's ten: full, empty and in between are all there is to tell
  apart. *WireSize* 1 makes the goroutine of a slow reader wait, so that its channel fills. Two
  connections are as many as two proxies have at a time, and one that has ended is used anew; more
  would let a proxy connect before its last goroutine has left, which the theorems cover. Two
  changes can overtake each other and the init event. One fault breaks, restarts or times out once.
- `Noty`: the four notes have every combination that the code tells apart of the bars that share a
  place. *MaxClock* 1 gives ids that are equal and ids that differ.
- `Toggle`: handles at both ends and between, which need *DragThreshold* 1 and a page of four places;
  two switches to be confused with each other; one lost release, from which anything may follow.
- `Page`: the lengths stand for the menu 10, 25, 50, 100; with 13 rows the smallest makes seven pages,
  two more than numbers, so that the window of numbers has all its four cases, and some lengths do not
  divide others. *MaxWaiting* 2 animations wait: each further pair repeats the last two.

`publish` switches the deadlock check off: when the list has changed as often as the bound allows and
everything has been delivered, nothing is left to do. All other models can always act.

## 4. Fairness

- `Registry`: the process manager restarts a monitor that stopped; the run loop goes on with its
  save; the watch delivers a change. A sender blocked on `newEventChan` competes with requests and
  ticks, among which Go's `select` chooses at random: strong fairness for `Deliver`. Nothing is
  assumed of the operator, of the platform's instances or of stops.
- `Failover`: weak fairness for the run loop's next step, which assumes that each call returns or
  fails (the connections have `timeout=1s` for connecting, but no read timeout: a server that
  accepts a statement and never answers would hold the loop, which no fairness can repair); strong
  fairness for the tick, again because of the `select`. None for servers, replication, clients or
  the operator.
- `Proxy`: weak fairness for each goroutine that can go on (the updater, the listener at its drain, each
  handler, each broker whose `Read` or `Write` fails) and for the restart of the process. A waiting writer
  keeps new readers out, so that it waits only for those inside, and nothing stronger is needed. Peers
  need never send, read or close (no fairness for `Read` and `Write`), lists need never arrive, dials may always fail.
- `Publish`: goroutines that can go on do (run loop, control, handlers, consumers), a consumer whose
  link is down gets to its write error or its idle timer, and a proxy that has lost its connection
  tries again, as its loop does. The idle timer and the write deadline of links that are up, and all
  faults, need not happen, nor need the list change. Weak fairness does: once an action of these is
  possible it stays so until it is taken, or a fault, of which there are finitely many, intervenes.
- `Noty`: the page's timers fire (the delay of a bar, the ends of animations). Nothing is assumed
  of who calls, clicks or closes.
- The other models have safety properties only, and no fairness.

## 5. Proofs

All of it is checked by TLAPS with no step left out. The constants are arbitrary: any set of endpoints,
servers, writes, connections, proxies, notes or switches, any number of faults, any capacity, any table,
no assumption but the named ones of each module, and, for `OperationsEnd` alone, that the set of
servers is finite.

`RegistryProofs` proves `TypeOK`, `TableConsistent`, `SavedWhenIdle`, `ArrivalsShown` and
`RestartKeepsRoles`. None is inductive alone: what a restart reads was written file by file, so the
invariant `IInv` adds `SavedPrefix` (during an undamaged save the files before the current one hold
what memory holds), `SavedWhenDown` (while the process is down the files hold what memory held), and
`ListsShown` (the listener's two lists are in the table whenever it waits). The proof of
`UpdateServersList` needs that the roles are disjoint, since it deletes each endpoint once.
`ImplementsRoster` shows that every step is one of `Roster` or a stutter: a request is `Enter`, `Depart` or
`Promote`, a list is `Depart`, a restart from an undisturbed save is a stutter (`LoadRestores`), and any
step with `torn` is `Lapse`. That a switch is `Promote` needs `TableConsistent`: the code tests only that
the endpoint has a connection and is not unregistered, not that it has a role.

`FailoverProofs` proves `TypeOK`, `OnlyMasterWritable`, `NoWriteLost` and `ServiceProvided`. The
argument for `NoWriteLost`: a replica whose I/O thread is at the end of the master's log has, executed or
in its relay log, all the master has (`FetchedAll`), and one whose SQL thread is there too has nothing
left in the relay log (`ExecutedAll`). From the second kill to the exchange of roles the master is read-only
(`MasterClosed`), so nothing is committed; a candidate found "ok", unless `misread`, has both threads at the end
and lacks nothing (`OkMeansCaughtUp`), and what it has it keeps (`CandidateReady`), so at the exchange it
has all writes, and the relay logs that are then deleted hold nothing that it lacks (`HasAll`).
`OnlyMasterWritable` needs `OnlyMasterOpened`, that no pending call makes a server
writable but the master, and that the roles in the files are those in memory outside the tail of a
switch (`RolesSaved`), which is what makes a restart harmless. All of this is conditional on
`~interrupted`: after a stop between the exchange of the roles and their save the monitor takes the
demoted server for master, and the guarantees do not hold. The no-loss part (`WhileTrusted`) is
conditional on `~misread` as well, the single-writer part (`WhileSaved`) is not. `ImplementsService` shows that
every step is a step of `MasterService` or a stutter: a commit is `Accept`, the exchange is `Handover`, such
a stop, and such a reading of a status, is `Lapse`.

`SwitchProofs` adds `RolesPartition`, `SwitchReopens`, `SwitchCompletes`, the refinement of `Roster`, and
that operations end. A restart takes the roles from the files, so
the files must hold a partition too, and the exchange needs a candidate that is not the master,
tested when the request came (`RolesInv`). `SwitchReopens` is about every early return of a switch, with any calls refused, lost or
done with their answers lost: a step that leaves the closed places of a switch (`Closed`) with the master
read-only is the failed call of the undo itself or the end of the monitor. For `SwitchCompletes`: from the exchange of the roles on no
error is looked at, so that what the servers replicate from has to follow from the calls made so far.
`CompletionInv` has a part for each stretch of them: the new master leaving its source (`Detaching`), the
standby being pointed at it (`PairUp`), it at the standby (`Returning`), one slave after the other
(`SlavesUp`); within a stretch, `Reattaching` says for each suffix of three calls what those before it have
done. Each call leads from one disjunct to the next, and the last gives what is promised when `todo` and `left`
are empty. `OperationsEnd` is the safety half of "every operation ends": `Remaining`, four for each
slave still to repoint and one for each call or place ahead, is zero exactly at the select, at most
18 and four per server when a request is accepted, never increased by anybody while one is under way,
and decreased by each of its steps, however its calls end. That the next step is in fact taken is
fairness, and assumed. In `ImplementsRoster` the exchange is `Promote`, a restart a stutter or `Lapse`,
and every other step a stutter.

`ProxyProofs` proves `TypeOK`, `RoundRobin`, `IndexSettles` and `Drained`. The set of connections may
be infinite. For `IndexSettles` the invariant says who repairs an index out of range: as long as it
is, some lookup that holds the lock has decided to wrap, or stored that very value and not yet
compared it (`Repaired`). For `Drained`, `wg` is the number of connections in use (`Counted`); that
it is never decremented below zero, which would panic, is part of `TypeOK`. For `RoundRobin`,
`Rotating` says for each place of the only lookup how the index and the positions used in this round
belong together. Two theorems are what `PipeEnds` and `UpdateStored` rest on apart from fairness.
`PipesComplete`: while `pipe` waits, each broker it waits for can end, as its `Read` fails or its `Write` does,
but for one that is in a `Write` to a peer that is there (`WaitsForWrite`), and that is one `Write` at most,
for none is begun while it waits (`LastWrite`); this needs that the closing of the other socket has taken away
what the remaining broker reads from (`SourceLost`). A broker ends only when an end of its connection has
gone (`EndsForCause`), and neither a socket nor a `Write` is left when the goroutine has returned
(`NothingOpen`). `UpdateNotOvertaken`: those who hold the lock when a list
waits are finitely many (`FewReaders`, by `Counted`), nobody joins them, and each of the at most five
steps of a lookup brings it nearer to giving up the lock (`UpdateNears`).

`PublishProofs` proves `TypeOK`, `ClosedUnlisted`, `NothingMissed` and `FeedSpec`. `ClosedUnlisted`
needs what a connection has gone through when it gets into the list (`Lifecycle`). For the others: from
what a proxy has, through `wire` and `in` and the `sink`, to `version` the numbers never decrease
(`Ordered`, with `SoleReader`: no two proxies take from one connection), so what a proxy takes is never
older than what it has; and the newest on its way is the current one, unless it was dropped, whenever
nothing is being sent (`NewestCurrent`, `SinkCurrent`). `ListOnItsWay` states from the same invariant what
`CatchesUp` rests on apart from fairness: a connected proxy has a goroutine that writes for it and is in
the list of consumers or about to be, and the last it will be given is current (`OnItsWay`).
Queues are spoken of only through lemmas about single queues. Steps that store what the proxy has already are stutters of `Feed`.

`NotyProofs` proves `TypeOK`, `TurnTaken`, `HandlersCurrent`, `OverlayOwned` and `ServedInOrder`, and
`NoneStranded`, that no note waits while the place is free. The invariant has that the queue is in
the order of the calls with the forced ones before (`InTurn`; what `close(id)` and `closeAll` take away
is always the head of it, which keeps that), that growls are shown by their own object and by no other
(`Kinds`), and that who waits has called (`Asked`). `CloseBars` and `Render`, which several handlers
share, have lemmas of their own.

`ToggleProofs` proves `TypeOK`, `HandleAgrees`, `Rest`, `ClickToggles`, `DragDecides`, and `PressedOnly`:
a release changes no switch but the one that was pressed last. `DragHasReason` says that without
a lost release `dragging` is of this press; `Costs` that each switch left midway has taken a lost release of its own; `Carried` that the handle of a switch that is dragged is
under the mouse, if nothing else has moved it; from both follows what a drag decides, for every width
of labels, margin and threshold.

`PageProofs` proves `PageTypeOK`, `RowsShown`, `NumbersExist`, `MarksTrue`, `SignTrue`, `AlignmentKept`
and `LengthFills` (a new length shows as many rows as it allows). The inductive invariant of a table is
short (`Sound`: the end is what `_fnCalculateEnd` gives, and the place is that of a row); the work is
in the arithmetic of pages (`CeilingFacts`, `Multiples`), which is not linear. For folds `FoldSound` says
that one whose last click found it at rest goes where its sign says, that a click on a moving one
marks it closed, and how each came with the page.

Only model-checked: liveness (`ArrivalShownForGood`, `NewMasterPublished`, `PipeEnds`, `UpdateStored`,
`CatchesUp`, `EachServed`), as fairness and ENABLED are out of the prover's reach. Only proved, without
a run of their own: `ArrivalsShown` of `Registry`, `RolesPartition` of `Failover`, the refinement
`RosterKept` of both, `Ends` and `Shortens` of `Failover`, `WaitsForWrite`, `LastWrite`, `EndsForCause`, `NothingOpen`,
`FewReaders` and `UpdateNears` of `Proxy`, `OnItsWay` of `Publish`, `NoneStranded` of `Noty`, `PressedOnly` of
`Toggle`, `LengthFills` of `Pager`. No recursive operator and no induction over data is used anywhere, as the prover would not take
them.

## 6. Not modelled, and why

- The web console (`controllers/`, `monitor/view.go`): its handlers turn a request into one message to
  the run loop and wait for the answer on a channel that the message brings. The requests are actions
  of `Registry` and `Failover`, which take them about any endpoint at any time, so also those that a
  page older than the last switch leads to; what that page promised is not modelled, nor requests
  before `Start` has made the channels, which block on a nil channel for ever.
- The instance scripts: almost every step is a call of `mysqld`, `xtrabackup` or a download, and what
  one of them leaves behind when the container stops is defined there and not in the scripts. What the
  scripts do with it can be read off their tests: `entrypoint.sh:35` takes a directory that exists for a
  finished initialisation, `full_recover.sh:11` one that is not empty for a finished recovery.
- Of the event source `Close` and `SendRetryMessage`, which nobody calls; the HTTP parsing of the client.
- Of the notifications `setText` and `setType`, which change what a bar says, custom containers, which
  use the same queue, and `consumeAlert`. Of `charisma.js` the choice of a theme (a cookie and a link
  element, with `jquery.cookie.js`), the AJAX menu (no page has its element), the button that closes a
  box for good, and the set-up of examples that no page of `views/` has: galleries, the tour, growing
  text areas, file managers. Notifications and switches are such examples too as far as the pages go;
  their plugins are loaded by every page, and modelled through what they offer.
- `init-chart.js`, which no page loads, and `jquery.history.js`, whose API no loaded script calls
  outside the AJAX menu.
- Filtering and sorting as to which rows they select: rows are counted. Labels and the picture of a
  switch during an animation.
- The replication status "error" (a slave thread that stopped on an SQL error): data conflicts are
  not modelled, and to the code every status that is neither "ok" nor "none" is the same.
- The Emergency Switch of `README.md:81-82`: no code does it.
- `README.md:92` says that a `LOST` node is recovered by Active; `active` (`model.go:111`) answers 403
  unless the node has no source at all. Read off the guard of `Active`; no run is spent on it.
- A client that connects between the second kill of a switch and the news of the new master keeps a
  session on the demoted server; the model has such sessions (`Connect`), and what protects the data
  from them is `OnlyMasterWritable`.
- When `net.Listen` fails the nil listener's `Close` panics (`mysql_proxy.go:111`): the process's death
  in `Proxy`.
- Authorisation, layout of pages, graphite report, `gen_mycnf.py`: no state that the rest reads.
- Instances that share a volume, clock skew, TLS: not in the code.

## 7. What could come next

1. Further composition: `Registry` and `Failover` share `Roster`, but a switch while instances come and
   go is in neither; and `Failover` with `Publish`, where `target` becomes the version of a list.
2. Boot, backup and recovery of an instance, from what the external programs document of their
   interruption.
3. Requests on unbuffered channels, and pages older than the last switch.
