------------------------------- MODULE Publish -------------------------------
(***************************************************************************)
(* How a list of instances gets from the monitor to the proxies: the run   *)
(* loop and the HTTP handlers (monitor/monitor.go), the event source with  *)
(* its goroutine per consumer (vendor/github.com/antage/eventsource), and  *)
(* the proxy's loop that connects and reads (proxy/mysql_proxy.go).        *)
(*                                                                         *)
(* A list is abstracted to its version, the number of changes of prevData  *)
(* before it.  What is between a consumer's write and the proxy's handling *)
(* of an event, the buffers of both sockets and the client's reader, is    *)
(* one bounded queue, wire.  A link that is down on either side is down;   *)
(* who has not found out yet finds out later.                              *)
(***************************************************************************)
EXTENDS Integers, Sequences

CONSTANTS
  Proxy,
  Consumer,    \* bound: the connections there may be at a time
  None,        \* no consumer
  QueueSize,   \* the capacity of a consumer's channel in
  WireSize,    \* bound: events between the consumer and the proxy
  MaxVersion,  \* bound: changes of the list
  MaxFaults    \* bound: broken links, restarts, timeouts of links that are up

ASSUME PublishAssumption ==
  /\ None \notin Consumer
  /\ QueueSize \in Nat \ {0} /\ WireSize \in Nat \ {0}
  /\ MaxVersion \in Nat /\ MaxFaults \in Nat

Empty == -1

VARIABLES
  \* --- the run loop
  version,     \* that of prevData
  sending,     \* it is in SendEventMessage
  \* --- the event source
  sink,        \* es.sink, a channel of capacity 1: a version or Empty
  staledCh,    \* es.staled, of capacity 1: a consumer or None
  consumers,   \* es.consumers
  \* --- per consumer
  handler,     \* ServeHTTP: at "add", at "announce", or "done"
  writer,      \* its goroutine: "running", "leaving" (sends to es.staled), "left";
               \*   "closed" when its channel has been closed
  in,          \* its channel
  link,        \* its connection: "up" or "down"
  wire,
  dropped,     \* history: the last event for it found the channel full
  \* --- per proxy
  at,          \* the connection it reads from
  got,         \* the version it has stored, -1 for none
  faults       \* history

monitor == <<version, sending>>
source  == <<sink, staledCh, consumers>>
lines   == <<handler, writer, in, link, wire, dropped>>
proxies == <<at, got>>
vars    == <<monitor, source, lines, proxies, faults>>

Init ==
  /\ version = 0 /\ sending = FALSE
  /\ sink = Empty /\ staledCh = None /\ consumers = {}
  /\ handler = [c \in Consumer |-> "done"] /\ writer = [c \in Consumer |-> "closed"]
  /\ in = [c \in Consumer |-> <<>>] /\ link = [c \in Consumer |-> "down"]
  /\ wire = [c \in Consumer |-> <<>>] /\ dropped = [c \in Consumer |-> FALSE]
  /\ at = [p \in Proxy |-> None] /\ got = [p \in Proxy |-> -1]
  /\ faults = 0

-----------------------------------------------------------------------------
(***************************************************************************)
(* The run loop.                                                           *)
(***************************************************************************)

\* Mutant: no init event is sent.
NewConnSilent(c) ==
  /\ ~sending /\ handler[c] = "announce"
  /\ handler' = [handler EXCEPT ![c] = "done"]
  /\ UNCHANGED <<monitor, source, writer, in, link, wire, dropped, proxies, faults>>

\* A connection is announced: everybody is sent an init event.
NewConn(c) ==
  /\ ~sending /\ handler[c] = "announce"
  /\ handler' = [handler EXCEPT ![c] = "done"] /\ sending' = TRUE
  /\ UNCHANGED <<version, source, writer, in, link, wire, dropped, proxies, faults>>

\* inspect, at a tick or for a new list of instances, finds something changed.
Change ==
  /\ ~sending /\ version < MaxVersion
  /\ version' = version + 1 /\ sending' = TRUE
  /\ UNCHANGED <<source, lines, proxies, faults>>

\* es.sink <- m
Send ==
  /\ sending /\ sink = Empty
  /\ sending' = FALSE /\ sink' = version
  /\ UNCHANGED <<version, staledCh, consumers, lines, proxies, faults>>

-----------------------------------------------------------------------------
(***************************************************************************)
(* The event source: controlProcess.                                       *)
(***************************************************************************)
Add(c) ==
  /\ handler[c] = "add" /\ handler' = [handler EXCEPT ![c] = "announce"]
  /\ consumers' = consumers \cup {c}
  /\ UNCHANGED <<monitor, sink, staledCh, writer, in, link, wire, dropped, proxies, faults>>

\* Mutant: one too many.
RoomAndOne(c) == Len(in[c]) <= QueueSize

Room(c) == Len(in[c]) < QueueSize

\* The consumers an event is for.  What goes to one that is leaving is never
\* written: whether control sees its flag `staled' in time makes no difference.
Receivers == {c \in consumers : writer[c] = "running"}

\* Mutant: the newest event is taken out first.
BroadcastFront ==
  /\ sink # Empty /\ sink' = Empty
  /\ in' = [c \in Consumer |-> IF c \in Receivers /\ Room(c) THEN <<sink>> \o in[c] ELSE in[c]]
  /\ dropped' = [c \in Consumer |-> IF c \in Receivers THEN ~Room(c) ELSE dropped[c]]
  /\ UNCHANGED <<monitor, staledCh, consumers, handler, writer, link, wire, proxies, faults>>

Broadcast ==
  /\ sink # Empty /\ sink' = Empty
  /\ in' = [c \in Consumer |-> IF c \in Receivers /\ Room(c) THEN Append(in[c], sink) ELSE in[c]]
  /\ dropped' = [c \in Consumer |-> IF c \in Receivers THEN ~Room(c) ELSE dropped[c]]
  /\ UNCHANGED <<monitor, staledCh, consumers, handler, writer, link, wire, proxies, faults>>

\* Mutant: the channel is closed, and the consumer stays in the list.
RemoveKept ==
  /\ staledCh # None /\ staledCh' = None
  /\ writer' = [writer EXCEPT ![staledCh] = "closed"] /\ in' = [in EXCEPT ![staledCh] = <<>>]
  /\ UNCHANGED <<monitor, sink, consumers, handler, link, wire, dropped, proxies, faults>>

Remove ==
  /\ staledCh # None /\ staledCh' = None /\ consumers' = consumers \ {staledCh}
  /\ writer' = [writer EXCEPT ![staledCh] = "closed"] /\ in' = [in EXCEPT ![staledCh] = <<>>]
  /\ UNCHANGED <<monitor, sink, handler, link, wire, dropped, proxies, faults>>

-----------------------------------------------------------------------------
(***************************************************************************)
(* The goroutine of a consumer.                                            *)
(***************************************************************************)
Write(c) ==
  /\ writer[c] = "running" /\ in[c] # <<>> /\ link[c] = "up" /\ Len(wire[c]) < WireSize
  /\ in' = [in EXCEPT ![c] = Tail(@)] /\ wire' = [wire EXCEPT ![c] = Append(@, Head(in[c]))]
  /\ UNCHANGED <<monitor, source, handler, writer, link, dropped, proxies, faults>>

\* The link is down, or the deadline has passed, a fault of who does not read:
\* it closes the connection.
WriteFails(c) ==
  /\ writer[c] = "running" /\ in[c] # <<>>
  /\ \/ link[c] = "down" /\ UNCHANGED faults
     \/ /\ link[c] = "up" /\ Len(wire[c]) >= WireSize
        /\ faults < MaxFaults /\ faults' = faults + 1
  /\ in' = [in EXCEPT ![c] = Tail(@)]
  /\ writer' = [writer EXCEPT ![c] = "leaving"] /\ link' = [link EXCEPT ![c] = "down"]
  /\ UNCHANGED <<monitor, source, handler, wire, dropped, proxies>>

\* idleTimer.C, hours after the consumer was added; that of a connection that
\* still serves counts as a fault.
Idle(c) ==
  /\ writer[c] = "running" /\ in[c] = <<>> /\ handler[c] # "add"
  /\ \/ link[c] = "up" /\ faults < MaxFaults /\ faults' = faults + 1
     \/ link[c] = "down" /\ UNCHANGED faults
  /\ writer' = [writer EXCEPT ![c] = "leaving"] /\ link' = [link EXCEPT ![c] = "down"]
  /\ UNCHANGED <<monitor, source, handler, in, wire, dropped, proxies>>

\* es.staled <- consumer
Leave(c) ==
  /\ writer[c] = "leaving" /\ staledCh = None
  /\ writer' = [writer EXCEPT ![c] = "left"] /\ staledCh' = c
  /\ UNCHANGED <<monitor, sink, consumers, handler, in, link, wire, dropped, proxies, faults>>

-----------------------------------------------------------------------------
(***************************************************************************)
(* The proxy: getInfoFromMonitor.                                          *)
(***************************************************************************)
Unused(c) ==
  /\ handler[c] = "done" /\ writer[c] = "closed"
  /\ \A p \in Proxy : at[p] # c

\* Mutant: a connection that has ended is not made again.
DialOnce(p, c) ==
  /\ at[p] = None /\ Unused(c) /\ got[p] = -1
  /\ at' = [at EXCEPT ![p] = c]
  /\ handler' = [handler EXCEPT ![c] = "add"] /\ writer' = [writer EXCEPT ![c] = "running"]
  /\ in' = [in EXCEPT ![c] = <<>>] /\ wire' = [wire EXCEPT ![c] = <<>>]
  /\ link' = [link EXCEPT ![c] = "up"] /\ dropped' = [dropped EXCEPT ![c] = FALSE]
  /\ UNCHANGED <<monitor, source, got, faults>>

\* Watch has returned: newConsumer has written the headers.
Dial(p, c) ==
  /\ at[p] = None /\ Unused(c)
  /\ at' = [at EXCEPT ![p] = c]
  /\ handler' = [handler EXCEPT ![c] = "add"] /\ writer' = [writer EXCEPT ![c] = "running"]
  /\ in' = [in EXCEPT ![c] = <<>>] /\ wire' = [wire EXCEPT ![c] = <<>>]
  /\ link' = [link EXCEPT ![c] = "up"] /\ dropped' = [dropped EXCEPT ![c] = FALSE]
  /\ UNCHANGED <<monitor, source, got, faults>>

\* An event is stored as the new targets.
Take(p) ==
  LET c == at[p] IN
  /\ c # None /\ wire[c] # <<>>
  /\ got' = [got EXCEPT ![p] = Head(wire[c])] /\ wire' = [wire EXCEPT ![c] = Tail(@)]
  /\ UNCHANGED <<monitor, source, handler, writer, in, link, dropped, at, faults>>

\* The channel of events is closed; what was still on the way is lost.
HangUp(p) ==
  /\ at[p] # None /\ link[at[p]] = "down"
  /\ at' = [at EXCEPT ![p] = None]
  /\ UNCHANGED <<monitor, source, lines, got, faults>>

-----------------------------------------------------------------------------
(***************************************************************************)
(* Faults.                                                                 *)
(***************************************************************************)
Fault == faults < MaxFaults /\ faults' = faults + 1

Break(c) ==
  /\ Fault /\ link[c] = "up" /\ link' = [link EXCEPT ![c] = "down"]
  /\ UNCHANGED <<monitor, source, handler, writer, in, wire, dropped, proxies>>

ProxyRestart(p) ==
  /\ Fault
  /\ at' = [at EXCEPT ![p] = None] /\ got' = [got EXCEPT ![p] = -1]
  /\ link' = [c \in Consumer |-> IF c = at[p] THEN "down" ELSE link[c]]
  /\ UNCHANGED <<monitor, source, handler, writer, in, wire, dropped>>

\* Start begins with an empty event source, and run with an inspection.
MonitorRestart ==
  /\ Fault
  /\ version' \in {version, version + 1} /\ version' <= MaxVersion
  /\ sending' = FALSE
  /\ sink' = Empty /\ staledCh' = None /\ consumers' = {}
  /\ handler' = [c \in Consumer |-> "done"] /\ writer' = [c \in Consumer |-> "closed"]
  /\ in' = [c \in Consumer |-> <<>>] /\ link' = [c \in Consumer |-> "down"]
  /\ UNCHANGED <<wire, dropped, proxies>>

-----------------------------------------------------------------------------
Next ==
  \/ Change \/ Send \/ Broadcast \/ Remove \/ MonitorRestart
  \/ \E c \in Consumer : \/ NewConn(c) \/ Add(c) \/ Write(c) \/ WriteFails(c)
                         \/ Idle(c) \/ Leave(c) \/ Break(c)
  \/ \E p \in Proxy : \/ Take(p) \/ HangUp(p) \/ ProxyRestart(p)
                      \/ \E c \in Consumer : Dial(p, c)

Spec == Init /\ [][Next]_vars

\* Goroutines run on, sockets and timers answer; a proxy always tries again.
\* Nothing makes the list change, and no fault need happen.
FairSpec ==
  /\ Spec
  /\ WF_vars(Send) /\ WF_vars(Broadcast) /\ WF_vars(Remove)
  /\ \A c \in Consumer : /\ WF_vars(NewConn(c)) /\ WF_vars(Add(c))
                         /\ WF_vars(Write(c))
                         /\ WF_vars(link[c] = "down" /\ (WriteFails(c) \/ Idle(c)))
                         /\ WF_vars(Leave(c))
  /\ \A p \in Proxy : /\ WF_vars(Take(p)) /\ WF_vars(HangUp(p))
                      /\ WF_vars(\E c \in Consumer : Dial(p, c))
-----------------------------------------------------------------------------
(***************************************************************************)
(* Properties.                                                             *)
(***************************************************************************)
Versions == 0..MaxVersion

MonitorOK ==
  /\ version \in Versions /\ sending \in BOOLEAN
  /\ sink \in Versions \cup {Empty} /\ staledCh \in Consumer \cup {None}
  /\ consumers \subseteq Consumer

ConsumersOK ==
  /\ handler \in [Consumer -> {"add", "announce", "done"}]
  /\ writer \in [Consumer -> {"running", "leaving", "left", "closed"}]
  /\ link \in [Consumer -> {"up", "down"}] /\ dropped \in [Consumer -> BOOLEAN]

QueuesOK ==
  /\ in \in [Consumer -> Seq(Versions)] /\ wire \in [Consumer -> Seq(Versions)]
  /\ \A c \in Consumer : Len(in[c]) <= QueueSize /\ Len(wire[c]) <= WireSize

ProxiesOK ==
  /\ at \in [Proxy -> Consumer \cup {None}]
  /\ got \in [Proxy -> Versions \cup {-1}] /\ faults \in 0..MaxFaults

\* Types; a consumer's channel holds no more than its capacity.
TypeOK == MonitorOK /\ ConsumersOK /\ QueuesOK /\ ProxiesOK

\* A send to a channel that has been closed would end the monitor: a consumer
\* whose channel is closed is not in the list, whatever made it leave, and is
\* closed once.
ClosedUnlisted ==
  /\ \A c \in consumers : writer[c] # "closed"
  /\ staledCh # None => writer[staledCh] = "left"

\* A proxy that serves from a connection, with nothing on its way to it, has
\* the current list, unless its channel was full for the last event: no order
\* of connecting, announcing and changing loses the one it needs.
NothingMissed ==
  \A p \in Proxy : LET c == at[p] IN
    /\ c # None /\ ~sending /\ sink = Empty
    /\ link[c] = "up" /\ handler[c] = "done" /\ ~dropped[c]
    /\ in[c] = <<>> /\ wire[c] = <<>>
    => got[p] = version

\* The promise of the feed: no proxy goes back to an older list.
Promise == INSTANCE Feed WITH published <- version
FeedSpec == Promise!Spec

\* When faults and changes end, every proxy comes to have the last list, be it
\* that the feed broke off and was resumed in between, unless its channel was
\* full for the last event.
CatchesUp ==
  \A p \in Proxy : <>[](got[p] = version \/ (at[p] # None /\ dropped[at[p]]))
=============================================================================
