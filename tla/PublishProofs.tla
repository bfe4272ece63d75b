---------------------------- MODULE PublishProofs ----------------------------
(***************************************************************************)
(* Theorems about Publish, for every set of proxies and connections, every *)
(* capacity and any number of changes and faults.  What is on the way to a *)
(* proxy is in two queues, then in got; the lemmas about single queues     *)
(* come first, and the invariant speaks of queues only in their terms.     *)
(***************************************************************************)
EXTENDS Publish, TLAPS

(***************************************************************************)
(* Queues of versions.                                                     *)
(***************************************************************************)

Sorted(s)      == \A i, j \in 1..Len(s) : i <= j => s[i] <= s[j]
AtMost(s, v)   == \A i \in 1..Len(s) : s[i] <= v
AtLeast(s, v)  == \A i \in 1..Len(s) : v <= s[i]
Before(s, t)   == \A i \in 1..Len(s) : \A j \in 1..Len(t) : s[i] <= t[j]

\* The newest of what a queue holds, or else v.
NewestOf(s, v) == IF s = <<>> THEN v ELSE s[Len(s)]

LEMMA EmptyQueue ==
  ASSUME NEW v, NEW s
  PROVE  /\ Sorted(<<>>) /\ AtMost(<<>>, v) /\ AtLeast(<<>>, v)
         /\ Before(<<>>, s) /\ Before(s, <<>>) /\ NewestOf(<<>>, v) = v
BY DEF Sorted, AtMost, AtLeast, Before, NewestOf

LEMMA Bounds ==
  ASSUME NEW s \in Seq(Versions), NEW v \in Int, NEW w \in Int, AtMost(s, v), v <= w
  PROVE  AtMost(s, w)
<1>1. \A i \in 1..Len(s) : s[i] \in Versions
  OBVIOUS
<1>2. \A i \in 1..Len(s) : s[i] \in Int
  BY <1>1 DEF Versions
<1> QED BY <1>2 DEF AtMost

\* What a queue is once its first has been taken.
LEMMA Taken ==
  ASSUME NEW s \in Seq(Versions), s # <<>>
  PROVE  /\ Head(s) \in Versions /\ Tail(s) \in Seq(Versions)
         /\ Len(Tail(s)) = Len(s) - 1 /\ Len(s) \in Nat \ {0}
         /\ Head(s) = s[1] /\ \A i \in 1..Len(Tail(s)) : Tail(s)[i] = s[i + 1]
OBVIOUS

LEMMA TakenOrder ==
  ASSUME NEW s \in Seq(Versions), s # <<>>
  PROVE  /\ Sorted(s) => Sorted(Tail(s)) /\ AtLeast(Tail(s), Head(s))
         /\ \A v \in Int : AtMost(s, v) => AtMost(Tail(s), v) /\ Head(s) <= v
         /\ \A v \in Int : AtLeast(s, v) => AtLeast(Tail(s), v) /\ v <= Head(s)
         /\ \A t : Before(s, t) => Before(Tail(s), t) /\ AtLeast(t, Head(s))
         /\ \A t : Before(t, s) => Before(t, Tail(s)) /\ AtMost(t, Head(s))
         /\ \A u, v : Tail(s) # <<>> => NewestOf(Tail(s), u) = NewestOf(s, v)
         /\ \A v : Tail(s) = <<>> => NewestOf(s, v) = Head(s)
<1>0. /\ Tail(s) \in Seq(Versions) /\ Len(Tail(s)) = Len(s) - 1 /\ Len(s) \in Nat \ {0}
      /\ Head(s) = s[1] /\ \A i \in 1..Len(Tail(s)) : Tail(s)[i] = s[i + 1]
  BY Taken
<1>1. Sorted(s) => Sorted(Tail(s)) /\ AtLeast(Tail(s), Head(s))
  BY <1>0 DEF Sorted, AtLeast
<1>2. \A v \in Int : AtMost(s, v) => AtMost(Tail(s), v) /\ Head(s) <= v
  BY <1>0 DEF AtMost
<1>3. \A v \in Int : AtLeast(s, v) => AtLeast(Tail(s), v) /\ v <= Head(s)
  BY <1>0 DEF AtLeast
<1>4. \A t : Before(s, t) => Before(Tail(s), t) /\ AtLeast(t, Head(s))
  BY <1>0 DEF Before, AtLeast
<1>5. \A t : Before(t, s) => Before(t, Tail(s)) /\ AtMost(t, Head(s))
  BY <1>0 DEF Before, AtMost
<1>6. \A u, v : Tail(s) # <<>> => NewestOf(Tail(s), u) = NewestOf(s, v)
  <2>1. Tail(s) # <<>> => Len(Tail(s)) \in 1..Len(Tail(s))
    BY <1>0
  <2> QED BY <1>0, <2>1 DEF NewestOf
<1>7. \A v : Tail(s) = <<>> => NewestOf(s, v) = Head(s)
  BY <1>0 DEF NewestOf
<1> QED BY <1>1, <1>2, <1>3, <1>4, <1>5, <1>6, <1>7

\* What a queue is once v has been put behind it.
LEMMA PutOrder ==
  ASSUME NEW s \in Seq(Versions), NEW v \in Versions
  PROVE  /\ Append(s, v) \in Seq(Versions) /\ Len(Append(s, v)) = Len(s) + 1
         /\ Append(s, v) # <<>>
         /\ Sorted(s) /\ AtMost(s, v) => Sorted(Append(s, v))
         /\ \A w \in Int : AtMost(s, w) /\ v <= w => AtMost(Append(s, v), w)
         /\ \A w \in Int : AtLeast(s, w) /\ w <= v => AtLeast(Append(s, v), w)
         /\ \A t : Before(s, t) /\ AtLeast(t, v) => Before(Append(s, v), t)
         /\ \A t : Before(t, s) /\ AtMost(t, v) => Before(t, Append(s, v))
         /\ \A w : NewestOf(Append(s, v), w) = v
<1>0. /\ Append(s, v) \in Seq(Versions) /\ Len(Append(s, v)) = Len(s) + 1
      /\ Append(s, v) # <<>> /\ Len(s) \in Nat
      /\ \A i \in 1..Len(s) : Append(s, v)[i] = s[i]
      /\ Append(s, v)[Len(s) + 1] = v
  OBVIOUS
<1>1. \A i \in 1..Len(Append(s, v)) : i \in 1..Len(s) \/ i = Len(s) + 1
  BY <1>0
<1>2. Sorted(s) /\ AtMost(s, v) => Sorted(Append(s, v))
  <2>1. \A i \in 1..Len(s) : s[i] \in Versions
    OBVIOUS
  <2> QED BY <1>0, <1>1, <2>1 DEF Sorted, AtMost, Versions
<1>3. \A w \in Int : AtMost(s, w) /\ v <= w => AtMost(Append(s, v), w)
  BY <1>0, <1>1 DEF AtMost
<1>4. \A w \in Int : AtLeast(s, w) /\ w <= v => AtLeast(Append(s, v), w)
  BY <1>0, <1>1 DEF AtLeast
<1>5. \A t : Before(s, t) /\ AtLeast(t, v) => Before(Append(s, v), t)
  BY <1>0, <1>1 DEF Before, AtLeast
<1>6. \A t : Before(t, s) /\ AtMost(t, v) => Before(t, Append(s, v))
  BY <1>0, <1>1 DEF Before, AtMost
<1>7. \A w : NewestOf(Append(s, v), w) = v
  BY <1>0 DEF NewestOf
<1> QED BY <1>0, <1>2, <1>3, <1>4, <1>5, <1>6, <1>7

-----------------------------------------------------------------------------
(***************************************************************************)
(* The inductive invariant.                                                *)
(***************************************************************************)

\* What a connection has gone through before it is in the list, and after.
Lifecycle ==
  \A c \in Consumer :
    /\ handler[c] = "add" => writer[c] = "running" /\ in[c] = <<>> /\ c \notin consumers
    /\ link[c] = "up" => writer[c] = "running"
    /\ link[c] = "up" /\ handler[c] # "add" => c \in consumers

\* No two proxies read from one connection.
SoleReader == \A p, q \in Proxy : at[p] = at[q] /\ at[p] # None => p = q

\* Outside a send, what waits in the sink is the current list.
SinkCurrent == ~sending /\ sink # Empty => sink = version

\* From the version a proxy has, through its connection, to the current one
\* the versions never decrease.
QueueOrder(c) ==
  /\ Sorted(in[c]) /\ Sorted(wire[c]) /\ Before(wire[c], in[c])
  /\ AtMost(in[c], version) /\ AtMost(wire[c], version)
  /\ sink # Empty => AtMost(in[c], sink) /\ AtMost(wire[c], sink)

ReaderOrder(p) ==
  /\ got[p] <= version
  /\ sink # Empty => got[p] <= sink
  /\ at[p] # None => AtLeast(in[at[p]], got[p]) /\ AtLeast(wire[at[p]], got[p])

Ordered ==
  /\ sink <= version
  /\ \A c \in Consumer : QueueOrder(c)
  /\ \A p \in Proxy : ReaderOrder(p)

\* The last a proxy will have of its connection, if nothing more is sent.
Newest(p, c) == NewestOf(in[c], NewestOf(wire[c], got[p]))

Served(p, c) == at[p] = c /\ link[c] = "up" /\ handler[c] = "done" /\ ~dropped[c]

NewestCurrent ==
  ~sending /\ sink = Empty =>
    \A p \in Proxy, c \in Consumer : Served(p, c) => Newest(p, c) = version

IInv ==
  /\ TypeOK /\ ClosedUnlisted /\ Lifecycle
  /\ SoleReader /\ SinkCurrent
  /\ Ordered /\ NewestCurrent

-----------------------------------------------------------------------------

LEMMA Initially == Init => IInv
<1> SUFFICES ASSUME Init PROVE IInv
  OBVIOUS
<1> USE PublishAssumption
<1>1. TypeOK
  <2>1. MonitorOK
    <3>1. sending \in BOOLEAN
      BY Zenon DEF Init
    <3> QED BY <3>1 DEF Init, MonitorOK, Versions
  <2>3. ConsumersOK
    <3>1. dropped \in [Consumer -> BOOLEAN]
      BY Zenon DEF Init
    <3> QED BY <3>1 DEF Init, ConsumersOK
  <2>2. QueuesOK /\ ProxiesOK
    BY DEF Init, QueuesOK, ProxiesOK, Versions
  <2> QED BY <2>1, <2>2, <2>3 DEF TypeOK
<1>2. ClosedUnlisted /\ Lifecycle /\ SoleReader /\ SinkCurrent
  BY DEF Init, ClosedUnlisted, Lifecycle, SoleReader, SinkCurrent
<1>3. Ordered
  <2>1. ASSUME NEW c \in Consumer PROVE QueueOrder(c)
    <3>1. in[c] = <<>> /\ wire[c] = <<>> /\ sink = Empty
      BY DEF Init
    <3> QED BY <3>1, EmptyQueue DEF QueueOrder
  <2>2. ASSUME NEW p \in Proxy PROVE ReaderOrder(p)
    BY DEF Init, ReaderOrder
  <2>3. sink <= version
    BY DEF Init, Empty
  <2> QED BY <2>1, <2>2, <2>3 DEF Ordered
<1>4. NewestCurrent
  BY DEF Init, NewestCurrent, Served
<1> QED BY <1>1, <1>2, <1>3, <1>4 DEF IInv

\* The types, spelt out where a step's argument is known.
LEMMA Types ==
  ASSUME TypeOK
  PROVE  /\ version \in Int /\ sink \in Int /\ \A p \in Proxy : got[p] \in Int
         /\ sink # Empty => sink \in Versions
         /\ \A c \in Consumer : in[c] \in Seq(Versions) /\ wire[c] \in Seq(Versions)
         /\ \A p \in Proxy : at[p] # None => at[p] \in Consumer
BY PublishAssumption DEF TypeOK, MonitorOK, QueuesOK, ProxiesOK, Versions, Empty

-----------------------------------------------------------------------------
(***************************************************************************)
(* Types.                                                                  *)
(***************************************************************************)

LEMMA MonitorTyped == TypeOK /\ [Next]_vars => MonitorOK'
<1> SUFFICES ASSUME TypeOK, [Next]_vars PROVE MonitorOK'
  OBVIOUS
<1> USE PublishAssumption DEF TypeOK, MonitorOK, Versions
<1>1. CASE UNCHANGED <<version, sending, sink, staledCh, consumers>>
  BY <1>1
<1>2. CASE Change \/ Send \/ Broadcast \/ Remove \/ MonitorRestart
  <2>1. sending' \in BOOLEAN
    BY <1>2, Zenon DEF Change, Send, Broadcast, Remove, MonitorRestart, monitor
  <2>2. version' \in Versions
    BY <1>2 DEF Change, Send, Broadcast, Remove, MonitorRestart, monitor
  <2>3. sink' \in Versions \cup {Empty} /\ staledCh' \in Consumer \cup {None}
    BY <1>2 DEF Change, Send, Broadcast, Remove, MonitorRestart, source
  <2>4. consumers' \subseteq Consumer
    BY <1>2 DEF Change, Send, Broadcast, Remove, MonitorRestart, source
  <2> QED BY <2>1, <2>2, <2>3, <2>4
<1>3. ASSUME NEW c \in Consumer, NewConn(c) \/ Add(c) \/ Leave(c)
      PROVE  MonitorOK'
  BY <1>3 DEF NewConn, Add, Leave, monitor, source
<1> QED
  BY <1>1, <1>2, <1>3 DEF Next, vars, monitor, source, Write, WriteFails, Idle, Break,
     Dial, Take, HangUp, ProxyRestart

LEMMA ConsumersTyped == TypeOK /\ [Next]_vars => ConsumersOK'
<1> SUFFICES ASSUME TypeOK, [Next]_vars PROVE ConsumersOK'
  OBVIOUS
<1> USE DEF TypeOK, ConsumersOK
<1>1. CASE UNCHANGED <<handler, writer, link, dropped>>
  BY <1>1
<1>2. CASE Broadcast \/ Remove \/ MonitorRestart
  BY <1>2 DEF Broadcast, Remove, MonitorRestart
<1>3. ASSUME NEW c \in Consumer,
             NewConn(c) \/ Add(c) \/ WriteFails(c) \/ Idle(c) \/ Leave(c) \/ Break(c)
      PROVE  ConsumersOK'
  BY <1>3 DEF NewConn, Add, WriteFails, Idle, Leave, Break
<1>4. ASSUME NEW p \in Proxy, NEW c \in Consumer, Dial(p, c)
      PROVE  ConsumersOK'
  BY <1>4 DEF Dial
<1>5. ASSUME NEW p \in Proxy, ProxyRestart(p)
      PROVE  ConsumersOK'
  BY <1>5 DEF ProxyRestart
<1> QED
  BY <1>1, <1>2, <1>3, <1>4, <1>5 DEF Next, vars, lines, Change, Send, Write, Take, HangUp

LEMMA QueuesTyped == TypeOK /\ [Next]_vars => QueuesOK'
<1> SUFFICES ASSUME TypeOK, [Next]_vars PROVE QueuesOK'
  OBVIOUS
<1> USE PublishAssumption
<1>0. QueuesOK /\ MonitorOK
  BY DEF TypeOK
<1>1. CASE UNCHANGED <<in, wire>>
  BY <1>0, <1>1 DEF QueuesOK
<1>2. CASE Broadcast
  <2>1. sink \in Versions /\ UNCHANGED wire
    BY <1>0, <1>2 DEF Broadcast, MonitorOK
  <2>2. ASSUME NEW c \in Consumer
        PROVE  in'[c] \in Seq(Versions) /\ Len(in'[c]) <= QueueSize
    BY <1>0, <1>2, <2>1, PutOrder DEF Broadcast, QueuesOK, Room
  <2> QED BY <1>0, <1>2, <2>1, <2>2 DEF Broadcast, QueuesOK
<1>3. CASE Remove \/ MonitorRestart
  <2>1. UNCHANGED wire /\ <<>> \in Seq(Versions) /\ Len(<<>>) <= QueueSize
    BY <1>3 DEF Remove, MonitorRestart
  <2>2. \/ in' = [in EXCEPT ![staledCh] = <<>>]
        \/ in' = [c \in Consumer |-> <<>>]
    BY <1>3 DEF Remove, MonitorRestart
  <2> QED BY <1>0, <2>1, <2>2 DEF QueuesOK
<1>4. ASSUME NEW c \in Consumer, Write(c)
      PROVE  QueuesOK'
  <2>1. /\ in[c] \in Seq(Versions) /\ in[c] # <<>> /\ Len(in[c]) <= QueueSize
        /\ wire[c] \in Seq(Versions) /\ Len(wire[c]) < WireSize
    BY <1>0, <1>4 DEF Write, QueuesOK
  <2>2. /\ Tail(in[c]) \in Seq(Versions) /\ Len(Tail(in[c])) <= QueueSize
        /\ Append(wire[c], Head(in[c])) \in Seq(Versions)
        /\ Len(Append(wire[c], Head(in[c]))) <= WireSize
    BY <2>1, Taken, PutOrder
  <2> QED BY <1>0, <1>4, <2>2 DEF Write, QueuesOK
<1>5. ASSUME NEW c \in Consumer, WriteFails(c)
      PROVE  QueuesOK'
  <2>1. Tail(in[c]) \in Seq(Versions) /\ Len(Tail(in[c])) <= QueueSize
    BY <1>0, <1>5, Taken DEF WriteFails, QueuesOK
  <2> QED BY <1>0, <1>5, <2>1 DEF WriteFails, QueuesOK
<1>6. ASSUME NEW p \in Proxy, NEW c \in Consumer, Dial(p, c)
      PROVE  QueuesOK'
  BY <1>0, <1>6 DEF Dial, QueuesOK
<1>7. ASSUME NEW p \in Proxy, Take(p)
      PROVE  QueuesOK'
  <2>1. at[p] \in Consumer /\ wire[at[p]] # <<>> /\ UNCHANGED in
        /\ wire' = [wire EXCEPT ![at[p]] = Tail(@)]
    BY <1>7 DEF Take, TypeOK, ProxiesOK
  <2>2. Tail(wire[at[p]]) \in Seq(Versions) /\ Len(Tail(wire[at[p]])) <= WireSize
    BY <1>0, <2>1, Taken DEF QueuesOK
  <2> QED BY <1>0, <2>1, <2>2 DEF QueuesOK
<1> QED
  BY <1>1, <1>2, <1>3, <1>4, <1>5, <1>6, <1>7 DEF Next, vars, lines, Change, Send, NewConn,
     Add, Idle, Leave, Break, HangUp, ProxyRestart

LEMMA ProxiesTyped == TypeOK /\ [Next]_vars => ProxiesOK'
<1> SUFFICES ASSUME TypeOK, [Next]_vars PROVE ProxiesOK'
  OBVIOUS
<1> USE PublishAssumption
<1>0. ProxiesOK /\ QueuesOK
  BY DEF TypeOK
<1>1. UNCHANGED faults \/ (faults < MaxFaults /\ faults' = faults + 1)
  BY DEF Next, vars, Change, Send, Broadcast, Remove, MonitorRestart, NewConn, Add, Write,
     WriteFails, Idle, Leave, Break, Dial, Take, HangUp, ProxyRestart, Fault
<1>2. faults' \in 0..MaxFaults
  BY <1>0, <1>1 DEF ProxiesOK
<1>3. CASE UNCHANGED proxies
  BY <1>0, <1>2, <1>3 DEF ProxiesOK, proxies
<1>4. ASSUME NEW p \in Proxy, NEW c \in Consumer, Dial(p, c)
      PROVE  ProxiesOK'
  BY <1>0, <1>2, <1>4 DEF ProxiesOK, Dial
<1>5. ASSUME NEW p \in Proxy, Take(p)
      PROVE  ProxiesOK'
  <2>1. Head(wire[at[p]]) \in Versions
    BY <1>0, <1>5, Taken DEF ProxiesOK, QueuesOK, Take
  <2> QED BY <1>0, <1>2, <1>5, <2>1 DEF ProxiesOK, Take
<1>6. ASSUME NEW p \in Proxy, HangUp(p) \/ ProxyRestart(p)
      PROVE  ProxiesOK'
  BY <1>0, <1>2, <1>6 DEF ProxiesOK, HangUp, ProxyRestart
<1> QED
  BY <1>3, <1>4, <1>5, <1>6 DEF Next, vars, Change, Send, Broadcast, Remove, MonitorRestart,
     NewConn, Add, Write, WriteFails, Idle, Leave, Break

LEMMA TypeStep == TypeOK /\ [Next]_vars => TypeOK'
BY MonitorTyped, ConsumersTyped, QueuesTyped, ProxiesTyped DEF TypeOK

-----------------------------------------------------------------------------
(***************************************************************************)
(* The list of consumers.                                                  *)
(***************************************************************************)

LEMMA LifecycleStep ==
  TypeOK /\ Lifecycle /\ ClosedUnlisted /\ [Next]_vars => Lifecycle' /\ ClosedUnlisted'
<1> SUFFICES ASSUME TypeOK, Lifecycle, ClosedUnlisted, [Next]_vars
             PROVE  Lifecycle' /\ ClosedUnlisted'
  OBVIOUS
<1> USE PublishAssumption DEF Lifecycle, ClosedUnlisted
<1>0. ConsumersOK /\ QueuesOK /\ MonitorOK /\ ProxiesOK
  BY DEF TypeOK
<1>1. CASE UNCHANGED <<handler, writer, in, consumers, link, staledCh>>
  BY <1>1
<1>2. CASE Broadcast
  <2>1. UNCHANGED <<handler, writer, consumers, link, staledCh>>
    BY <1>2 DEF Broadcast
  <2>2. \A c \in Consumer : c \notin consumers => in'[c] = in[c]
    BY <1>2 DEF Broadcast, Receivers
  <2> QED BY <2>1, <2>2
<1>3. CASE Remove
  <2>1. staledCh \in Consumer /\ writer[staledCh] = "left"
    BY <1>0, <1>3 DEF Remove, MonitorOK
  <2>2. /\ writer' = [writer EXCEPT ![staledCh] = "closed"]
        /\ in' = [in EXCEPT ![staledCh] = <<>>]
        /\ consumers' = consumers \ {staledCh} /\ staledCh' = None
        /\ UNCHANGED <<handler, link>>
    BY <1>3 DEF Remove
  <2> QED BY <1>0, <2>1, <2>2 DEF ConsumersOK, QueuesOK
<1>4. CASE MonitorRestart
  BY <1>4 DEF MonitorRestart
<1>5. ASSUME NEW c \in Consumer, NewConn(c) \/ Add(c) \/ Break(c)
      PROVE  Lifecycle' /\ ClosedUnlisted'
  BY <1>0, <1>5 DEF NewConn, Add, Break, ConsumersOK, source, monitor
<1>6. ASSUME NEW c \in Consumer, Write(c) \/ WriteFails(c)
      PROVE  Lifecycle' /\ ClosedUnlisted'
  <2>1. /\ UNCHANGED <<handler, consumers, staledCh>>
        /\ writer[c] = "running" /\ in[c] # <<>>
        /\ in' = [in EXCEPT ![c] = Tail(@)]
    BY <1>6 DEF Write, WriteFails, source
  <2>2. \/ UNCHANGED <<writer, link>>
        \/ /\ writer' = [writer EXCEPT ![c] = "leaving"]
           /\ link' = [link EXCEPT ![c] = "down"]
    BY <1>6 DEF Write, WriteFails
  <2>3. handler[c] # "add" /\ \A d \in Consumer : d # c => in'[d] = in[d]
    BY <1>0, <2>1 DEF QueuesOK
  <2>4. \A d \in Consumer :
          /\ handler[d] = "add" => in'[d] = <<>> /\ writer'[d] = "running"
          /\ link'[d] = "up" => writer'[d] = "running" /\ link[d] = "up"
          /\ writer'[d] = "closed" => writer[d] = "closed"
          /\ writer[d] = "left" => writer'[d] = "left"
    BY <1>0, <2>1, <2>2, <2>3 DEF ConsumersOK
  <2> QED BY <1>0, <2>1, <2>4 DEF MonitorOK
<1>7. ASSUME NEW c \in Consumer, Idle(c) \/ Leave(c)
      PROVE  Lifecycle' /\ ClosedUnlisted'
  <2>1. CASE Idle(c)
    <3>1. /\ UNCHANGED <<handler, in, consumers, staledCh>> /\ writer[c] = "running"
          /\ handler[c] # "add"
          /\ writer' = [writer EXCEPT ![c] = "leaving"] /\ link' = [link EXCEPT ![c] = "down"]
      BY <2>1 DEF Idle, source
    <3> QED BY <1>0, <3>1 DEF ConsumersOK, MonitorOK
  <2>2. CASE Leave(c)
    <3>1. /\ UNCHANGED <<handler, in, consumers, link>> /\ writer[c] = "leaving"
          /\ staledCh' = c /\ writer' = [writer EXCEPT ![c] = "left"]
      BY <2>2 DEF Leave
    <3> QED BY <1>0, <3>1 DEF ConsumersOK, MonitorOK
  <2> QED BY <1>7, <2>1, <2>2
<1>8. ASSUME NEW p \in Proxy, NEW c \in Consumer, Dial(p, c)
      PROVE  Lifecycle' /\ ClosedUnlisted'
  BY <1>0, <1>8 DEF Dial, Unused, ConsumersOK, QueuesOK, MonitorOK, source
<1>9. ASSUME NEW p \in Proxy, ProxyRestart(p)
      PROVE  Lifecycle' /\ ClosedUnlisted'
  BY <1>0, <1>9 DEF ProxyRestart, ConsumersOK, source
<1> QED
  BY <1>1, <1>2, <1>3, <1>4, <1>5, <1>6, <1>7, <1>8, <1>9 DEF Next, vars, lines, source,
     Change, Send, Take, HangUp

LEMMA SoleReaderStep == TypeOK /\ SoleReader /\ [Next]_vars => SoleReader'
<1> SUFFICES ASSUME TypeOK, SoleReader, [Next]_vars PROVE SoleReader'
  OBVIOUS
<1>0. at \in [Proxy -> Consumer \cup {None}]
  BY DEF TypeOK, ProxiesOK
<1>1. CASE UNCHANGED at
  BY <1>1 DEF SoleReader
<1>2. ASSUME NEW p \in Proxy, NEW c \in Consumer, Dial(p, c)
      PROVE  SoleReader'
  BY <1>0, <1>2 DEF SoleReader, Dial, Unused
<1>3. ASSUME NEW p \in Proxy, HangUp(p) \/ ProxyRestart(p)
      PROVE  SoleReader'
  BY <1>0, <1>3 DEF SoleReader, HangUp, ProxyRestart
<1> QED
  BY <1>1, <1>2, <1>3 DEF Next, vars, proxies, Change, Send, Broadcast, Remove,
     MonitorRestart, NewConn, Add, Write, WriteFails, Idle, Leave, Break, Take

LEMMA SinkStep == TypeOK /\ SinkCurrent /\ [Next]_vars => SinkCurrent'
<1> SUFFICES ASSUME TypeOK, SinkCurrent, [Next]_vars PROVE SinkCurrent'
  OBVIOUS
<1> USE DEF SinkCurrent
<1>1. CASE UNCHANGED <<sending, sink, version>>
  BY <1>1
<1>2. CASE Change \/ Send \/ Broadcast \/ MonitorRestart
  BY <1>2 DEF Change, Send, Broadcast, MonitorRestart, monitor
<1>3. ASSUME NEW c \in Consumer, NewConn(c)
      PROVE  SinkCurrent'
  BY <1>3 DEF NewConn
<1> QED
  BY <1>1, <1>2, <1>3 DEF Next, vars, monitor, source, Remove, Add, Write, WriteFails, Idle,
     Leave, Break, Dial, Take, HangUp, ProxyRestart

-----------------------------------------------------------------------------
(***************************************************************************)
(* The order of versions.                                                  *)
(***************************************************************************)

\* What keeps the order of one queue: nothing but the current version grows,
\* and the sink is emptied or filled with it.
LEMMA QueueKept ==
  ASSUME TypeOK, NEW c \in Consumer, QueueOrder(c),
         in'[c] = in[c], wire'[c] = wire[c],
         version' \in Int, version <= version',
         sink' \in {sink, Empty, version'}
  PROVE  QueueOrder(c)'
<1>1. version \in Int /\ in[c] \in Seq(Versions) /\ wire[c] \in Seq(Versions)
  BY Types
<1>2. AtMost(in[c], version') /\ AtMost(wire[c], version')
  BY <1>1, Bounds DEF QueueOrder
<1>3. sink' # Empty => AtMost(in[c], sink') /\ AtMost(wire[c], sink')
  BY <1>2 DEF QueueOrder
<1> QED BY <1>2, <1>3 DEF QueueOrder, Sorted, AtMost, Before

LEMMA QueueStep ==
  ASSUME TypeOK, TypeOK', Ordered, [Next]_vars, NEW c \in Consumer
  PROVE  QueueOrder(c)'
<1>0. /\ ConsumersOK /\ QueuesOK /\ ProxiesOK /\ QueueOrder(c)
      /\ version \in Int /\ version' \in Int /\ sink \in Int /\ sink <= version
      /\ in[c] \in Seq(Versions) /\ wire[c] \in Seq(Versions)
  BY Types DEF TypeOK, Ordered, MonitorOK, Versions
<1>v. version <= version' /\ sink' \in {sink, Empty, version'}
  BY <1>0 DEF Next, vars, monitor, source, Change, Send, Broadcast, Remove, MonitorRestart,
     NewConn, Add, Write, WriteFails, Idle, Leave, Break, Dial, Take, HangUp, ProxyRestart
<1>1. CASE in'[c] = in[c] /\ wire'[c] = wire[c]
  BY <1>0, <1>v, <1>1, QueueKept
<1>2. CASE Broadcast
  <2>1. /\ sink # Empty /\ sink' = Empty /\ UNCHANGED <<version, wire>> /\ sink \in Versions
        /\ in'[c] \in {in[c], Append(in[c], sink)}
    BY <1>2, Types DEF Broadcast, monitor
  <2>2. CASE in'[c] = in[c]
    BY <1>0, <2>1, <2>2 DEF QueueOrder
  <2>3. CASE in'[c] = Append(in[c], sink)
    <3>1. /\ Sorted(Append(in[c], sink)) /\ AtMost(Append(in[c], sink), version)
          /\ Before(wire[c], Append(in[c], sink))
      BY <1>0, <2>1, PutOrder DEF QueueOrder
    <3> QED BY <1>0, <2>1, <2>3, <3>1 DEF QueueOrder
  <2> QED BY <2>1, <2>2, <2>3
<1>3. CASE in'[c] = <<>> /\ wire'[c] \in {wire[c], <<>>}
  <2>1. AtMost(wire[c], version')
    BY <1>0, <1>v, Bounds DEF QueueOrder
  <2>2. sink' # Empty => AtMost(wire[c], sink')
    BY <1>0, <1>v, <2>1 DEF QueueOrder
  <2> QED BY <1>0, <1>3, <2>1, <2>2, EmptyQueue DEF QueueOrder
<1>4. CASE Write(c)
  <2>1. /\ in[c] # <<>> /\ UNCHANGED <<version, sink>>
        /\ in'[c] = Tail(in[c]) /\ wire'[c] = Append(wire[c], Head(in[c]))
    BY <1>0, <1>4 DEF Write, QueuesOK, monitor, source
  <2>2. /\ Head(in[c]) \in Versions /\ Head(in[c]) \in Int
        /\ Sorted(Tail(in[c])) /\ AtLeast(Tail(in[c]), Head(in[c]))
        /\ AtMost(Tail(in[c]), version) /\ Head(in[c]) <= version
        /\ Before(wire[c], Tail(in[c])) /\ AtMost(wire[c], Head(in[c]))
    BY <1>0, <2>1, Taken, TakenOrder DEF QueueOrder, Versions
  <2>3. sink # Empty => AtMost(Tail(in[c]), sink) /\ Head(in[c]) <= sink
    BY <1>0, <2>1, TakenOrder DEF QueueOrder
  <2>4. /\ Sorted(wire'[c]) /\ AtMost(wire'[c], version) /\ Before(wire'[c], Tail(in[c]))
        /\ sink # Empty => AtMost(wire'[c], sink)
    BY <1>0, <2>1, <2>2, <2>3, PutOrder DEF QueueOrder
  <2> QED BY <2>1, <2>2, <2>3, <2>4 DEF QueueOrder
<1>5. CASE WriteFails(c)
  <2>1. /\ in[c] # <<>> /\ UNCHANGED <<version, sink, wire>> /\ in'[c] = Tail(in[c])
    BY <1>0, <1>5 DEF WriteFails, QueuesOK, monitor, source
  <2>2. /\ Sorted(Tail(in[c])) /\ AtMost(Tail(in[c]), version) /\ Before(wire[c], Tail(in[c]))
        /\ sink # Empty => AtMost(Tail(in[c]), sink)
    BY <1>0, <2>1, TakenOrder DEF QueueOrder
  <2> QED BY <1>0, <2>1, <2>2 DEF QueueOrder
<1>6. ASSUME NEW p \in Proxy, Take(p), at[p] = c
      PROVE  QueueOrder(c)'
  <2>1. /\ wire[c] # <<>> /\ UNCHANGED <<version, sink, in>> /\ wire'[c] = Tail(wire[c])
    BY <1>0, <1>6 DEF Take, QueuesOK, monitor, source
  <2>2. /\ Sorted(Tail(wire[c])) /\ AtMost(Tail(wire[c]), version)
        /\ Before(Tail(wire[c]), in[c])
        /\ sink # Empty => AtMost(Tail(wire[c]), sink)
    BY <1>0, <2>1, TakenOrder DEF QueueOrder
  <2> QED BY <1>0, <2>1, <2>2 DEF QueueOrder
<1>7. CASE Remove \/ MonitorRestart
  <2>1. wire'[c] = wire[c] /\ (in'[c] = in[c] \/ in'[c] = <<>>)
    BY <1>0, <1>7 DEF Remove, MonitorRestart, QueuesOK
  <2> QED BY <1>1, <1>3, <2>1
<1>8. ASSUME NEW d \in Consumer, Write(d) \/ WriteFails(d)
      PROVE  QueueOrder(c)'
  <2>1. c # d => in'[c] = in[c] /\ wire'[c] = wire[c]
    BY <1>0, <1>8 DEF Write, WriteFails, QueuesOK
  <2> QED BY <1>1, <1>4, <1>5, <1>8, <2>1
<1>9. ASSUME NEW p \in Proxy, Take(p)
      PROVE  QueueOrder(c)'
  <2>1. at[p] # c => in'[c] = in[c] /\ wire'[c] = wire[c]
    BY <1>0, <1>9 DEF Take, QueuesOK, ProxiesOK
  <2> QED BY <1>1, <1>6, <1>9, <2>1
<1>10. ASSUME NEW p \in Proxy, NEW d \in Consumer, Dial(p, d)
       PROVE  QueueOrder(c)'
  <2>1. \/ in'[c] = in[c] /\ wire'[c] = wire[c]
        \/ in'[c] = <<>> /\ wire'[c] = <<>>
    BY <1>0, <1>10 DEF Dial, QueuesOK
  <2> QED BY <1>1, <1>3, <2>1
<1> QED
  BY <1>1, <1>2, <1>7, <1>8, <1>9, <1>10 DEF Next, vars, lines, Change, Send, NewConn, Add,
     Idle, Leave, Break, HangUp, ProxyRestart

\* A step of the connection at[p] leaves what p has behind what it will have.
LEMMA ReaderStep ==
  ASSUME TypeOK, TypeOK', SoleReader, Ordered, [Next]_vars, NEW p \in Proxy
  PROVE  ReaderOrder(p)'
<1>0. /\ ConsumersOK /\ QueuesOK /\ ProxiesOK /\ ReaderOrder(p)
      /\ version \in Int /\ version' \in Int /\ sink \in Int /\ sink <= version
      /\ got[p] \in Int /\ got'[p] \in Int
      /\ \A c \in Consumer : QueueOrder(c) /\ in[c] \in Seq(Versions) /\ wire[c] \in Seq(Versions)
      /\ at[p] # None => at[p] \in Consumer
  <2>1. version' \in Int /\ got'[p] \in Int
    BY DEF TypeOK, MonitorOK, ProxiesOK, Versions
  <2> QED BY <2>1, Types DEF TypeOK, Ordered
<1>v. version <= version' /\ sink' \in {sink, Empty, version'}
  BY <1>0 DEF Next, vars, monitor, source, Change, Send, Broadcast, Remove, MonitorRestart,
     NewConn, Add, Write, WriteFails, Idle, Leave, Break, Dial, Take, HangUp, ProxyRestart
<1> DEFINE c == at[p]
<1>1. CASE /\ at'[p] = at[p] /\ got'[p] = got[p]
           /\ at[p] # None => in'[c] = in[c] /\ wire'[c] = wire[c]
  BY <1>0, <1>v, <1>1 DEF ReaderOrder
<1>2. CASE at'[p] = None /\ got'[p] \in {got[p], -1}
  <2>1. 0 <= version' /\ (sink' # Empty => 0 <= sink')
    BY DEF TypeOK, MonitorOK, Versions
  <2> QED BY <1>0, <1>v, <1>2, <2>1 DEF ReaderOrder
<1>3. CASE Broadcast
  <2>1. /\ sink # Empty /\ sink' = Empty /\ UNCHANGED <<version, wire, at, got>>
        /\ sink \in Versions
        /\ c # None => in'[c] \in {in[c], Append(in[c], sink)}
    BY <1>0, <1>3, Types DEF Broadcast, monitor, proxies
  <2>2. ASSUME c # None PROVE AtLeast(in'[c], got[p])
    <3>1. c \in Consumer /\ AtLeast(in[c], got[p]) /\ got[p] <= sink /\ in[c] \in Seq(Versions)
      BY <1>0, <2>1, <2>2 DEF ReaderOrder
    <3>2. AtLeast(Append(in[c], sink), got[p])
      BY <1>0, <2>1, <3>1, PutOrder
    <3> QED BY <2>1, <2>2, <3>1, <3>2
  <2> QED BY <1>0, <2>1, <2>2 DEF ReaderOrder
<1>4. CASE Remove \/ MonitorRestart
  <2>1. /\ UNCHANGED <<wire, at, got>>
        /\ c # None => in'[c] \in {in[c], <<>>}
    BY <1>0, <1>4 DEF Remove, MonitorRestart, proxies, QueuesOK
  <2> QED BY <1>0, <1>v, <2>1, EmptyQueue DEF ReaderOrder
<1>5. ASSUME NEW d \in Consumer, Write(d) \/ WriteFails(d)
      PROVE  ReaderOrder(p)'
  <2>0. UNCHANGED <<version, sink, at, got>>
    BY <1>5 DEF Write, WriteFails, monitor, source, proxies
  <2>1. CASE c # d
    BY <1>0, <1>1, <1>5, <2>0, <2>1 DEF Write, WriteFails, QueuesOK
  <2>2. CASE c = d
    <3>0. /\ in[c] # <<>> /\ in'[c] = Tail(in[c]) /\ c \in Consumer /\ c # None
          /\ wire'[c] \in {wire[c], Append(wire[c], Head(in[c]))}
          /\ in[c] \in Seq(Versions) /\ wire[c] \in Seq(Versions)
      BY <1>0, <1>5, <2>2, PublishAssumption DEF Write, WriteFails, QueuesOK
    <3>1. AtLeast(in[c], got[p]) /\ AtLeast(wire[c], got[p])
      BY <1>0, <3>0 DEF ReaderOrder
    <3>2. /\ AtLeast(Tail(in[c]), got[p]) /\ got[p] <= Head(in[c])
          /\ Head(in[c]) \in Versions
      BY <1>0, <3>0, <3>1, Taken, TakenOrder
    <3>3. AtLeast(Append(wire[c], Head(in[c])), got[p])
      BY <1>0, <3>0, <3>1, <3>2, PutOrder
    <3> QED BY <1>0, <2>0, <3>0, <3>1, <3>2, <3>3 DEF ReaderOrder
  <2> QED BY <2>1, <2>2
<1>6. ASSUME NEW q \in Proxy, NEW d \in Consumer, Dial(q, d)
      PROVE  ReaderOrder(p)'
  <2>0. /\ UNCHANGED <<version, sink, got>> /\ at' = [at EXCEPT ![q] = d]
        /\ in' = [in EXCEPT ![d] = <<>>] /\ wire' = [wire EXCEPT ![d] = <<>>]
    BY <1>6 DEF Dial, monitor, source
  <2>1. CASE p # q
    <3>1. at[p] # d
      BY <1>6 DEF Dial, Unused
    <3> QED BY <1>0, <1>1, <2>0, <2>1, <3>1 DEF QueuesOK, ProxiesOK
  <2>2. CASE p = q
    <3>1. at'[p] = d /\ in'[d] = <<>> /\ wire'[d] = <<>>
      BY <1>0, <2>0, <2>2 DEF QueuesOK, ProxiesOK
    <3>2. sink # Empty => got[p] <= sink
      BY <1>0 DEF ReaderOrder
    <3> QED BY <1>0, <2>0, <3>1, <3>2, EmptyQueue DEF ReaderOrder
  <2> QED BY <2>1, <2>2
<1>7. ASSUME NEW q \in Proxy, Take(q)
      PROVE  ReaderOrder(p)'
  <2>0. /\ UNCHANGED <<version, sink, at, in>> /\ at[q] # None
        /\ got' = [got EXCEPT ![q] = Head(wire[at[q]])]
        /\ wire' = [wire EXCEPT ![at[q]] = Tail(@)] /\ wire[at[q]] # <<>>
    BY <1>7 DEF Take, monitor, source
  <2>1. CASE p # q
    <3>1. at[p] # None => at[p] # at[q]
      BY <2>0, <2>1 DEF SoleReader
    <3> QED BY <1>0, <1>1, <2>0, <2>1, <3>1 DEF QueuesOK, ProxiesOK
  <2>2. CASE p = q
    <3>1. /\ c \in Consumer /\ wire[c] \in Seq(Versions) /\ wire[c] # <<>> /\ c # None
          /\ wire'[c] = Tail(wire[c]) /\ got'[p] = Head(wire[c])
      BY <1>0, <2>0, <2>2 DEF QueuesOK, ProxiesOK
    <3>2. /\ AtLeast(Tail(wire[c]), Head(wire[c])) /\ AtLeast(in[c], Head(wire[c]))
          /\ Head(wire[c]) <= version
      BY <1>0, <3>1, TakenOrder DEF QueueOrder
    <3>3. sink # Empty => Head(wire[c]) <= sink
      BY <1>0, <3>1, TakenOrder DEF QueueOrder
    <3> QED BY <1>0, <2>0, <3>1, <3>2, <3>3 DEF ReaderOrder
  <2> QED BY <2>1, <2>2
<1>8. ASSUME NEW q \in Proxy, HangUp(q) \/ ProxyRestart(q)
      PROVE  ReaderOrder(p)'
  <2>1. UNCHANGED <<in, wire>>
    BY <1>8 DEF HangUp, ProxyRestart, lines
  <2>2. \/ at'[p] = at[p] /\ got'[p] = got[p]
        \/ at'[p] = None /\ got'[p] \in {got[p], -1}
    BY <1>0, <1>8 DEF HangUp, ProxyRestart, ProxiesOK
  <2> QED BY <1>1, <1>2, <2>1, <2>2
<1> QED
  BY <1>1, <1>3, <1>4, <1>5, <1>6, <1>7, <1>8 DEF Next, vars, lines, proxies, Change, Send,
     NewConn, Add, Idle, Leave, Break

LEMMA OrderStep == TypeOK /\ TypeOK' /\ SoleReader /\ Ordered /\ [Next]_vars => Ordered'
<1> SUFFICES ASSUME TypeOK, TypeOK', SoleReader, Ordered, [Next]_vars PROVE Ordered'
  OBVIOUS
<1>1. sink' <= version'
  <2>1. version \in Int /\ version' \in Int /\ 0 <= version' /\ sink \in Int /\ sink <= version
    BY Types DEF Ordered, TypeOK, MonitorOK, Versions
  <2>2. version <= version' /\ sink' \in {sink, Empty, version'}
    BY <2>1 DEF Next, vars, monitor, source, Change, Send, Broadcast, Remove, MonitorRestart,
       NewConn, Add, Write, WriteFails, Idle, Leave, Break, Dial, Take, HangUp, ProxyRestart
  <2> QED BY <2>1, <2>2 DEF Empty
<1> QED BY <1>1, QueueStep, ReaderStep DEF Ordered

-----------------------------------------------------------------------------
(***************************************************************************)
(* The newest version on the way.                                          *)
(***************************************************************************)

LEMMA NewestStep == IInv /\ TypeOK' /\ [Next]_vars => NewestCurrent'
<1> SUFFICES ASSUME IInv, TypeOK', [Next]_vars, NEW p \in Proxy, NEW c \in Consumer,
                    ~sending', sink' = Empty, Served(p, c)'
             PROVE  Newest(p, c)' = version'
  BY DEF NewestCurrent
<1>0. /\ TypeOK /\ ConsumersOK /\ QueuesOK /\ ProxiesOK /\ Lifecycle
      /\ in[c] \in Seq(Versions) /\ wire[c] \in Seq(Versions) /\ c # None
  BY Types, PublishAssumption DEF IInv, TypeOK
<1>s. at'[p] = c /\ link'[c] = "up" /\ handler'[c] = "done" /\ ~dropped'[c]
  BY DEF Served
<1>1. ASSUME ~sending, sink = Empty, version' = version, Served(p, c),
             Newest(p, c)' = Newest(p, c)
      PROVE  Newest(p, c)' = version'
  BY <1>1 DEF IInv, NewestCurrent
<1>2. ASSUME UNCHANGED <<version, sending, sink, handler>>,
             at'[p] = at[p], link[c] = "up", dropped'[c] = dropped[c],
             Newest(p, c)' = Newest(p, c)
      PROVE  Newest(p, c)' = version'
  BY <1>s, <1>1, <1>2 DEF Served
<1>3. CASE UNCHANGED <<version, sending, sink, handler, at, link, dropped, in, wire, got>>
  BY <1>s, <1>2, <1>3 DEF Newest
<1>4. CASE Broadcast
  <2>0. /\ sink # Empty /\ sink \in Versions
        /\ UNCHANGED <<version, sending, handler, at, link, wire, got>>
    BY <1>0, <1>4, Types DEF Broadcast, monitor, proxies
  <2>1. sink = version
    BY <2>0 DEF IInv, SinkCurrent
  <2>2. c \in Receivers
    BY <1>0, <1>s, <2>0 DEF Lifecycle, Receivers
  <2>3. in'[c] = Append(in[c], sink)
    <3>1. Room(c)
      BY <1>0, <1>4, <1>s, <2>2, Zenon DEF Broadcast
    <3> QED BY <1>4, <2>2, <3>1 DEF Broadcast
  <2>4. Newest(p, c)' = sink
    BY <1>0, <2>0, <2>3, PutOrder DEF Newest
  <2> QED BY <2>0, <2>1, <2>4
<1>5. CASE Change \/ Send \/ MonitorRestart
  <2>1. CASE Change
    BY <2>1 DEF Change
  <2>2. CASE Send
    <3>1. sink' \in Versions
      BY <1>0, <2>2 DEF Send, TypeOK, MonitorOK
    <3> QED BY <3>1 DEF Versions, Empty
  <2>3. CASE MonitorRestart
    BY <1>s, <2>3 DEF MonitorRestart
  <2> QED BY <1>5, <2>1, <2>2, <2>3
<1>6. CASE Remove
  <2>0. /\ UNCHANGED <<version, sending, sink, handler, at, link, dropped, wire, got>>
        /\ writer[staledCh] = "left"
    BY <1>6 DEF Remove, monitor, proxies, IInv, ClosedUnlisted
  <2>1. c # staledCh
    BY <1>0, <1>s, <2>0 DEF Lifecycle
  <2>2. in'[c] = in[c]
    BY <1>0, <1>6, <2>1 DEF Remove, QueuesOK
  <2> QED BY <1>s, <1>2, <2>0, <2>2 DEF Newest
<1>7. ASSUME NEW d \in Consumer, NewConn(d) \/ Add(d) \/ Leave(d) \/ Idle(d) \/ Break(d)
      PROVE  Newest(p, c)' = version'
  <2>0. UNCHANGED <<version, at, dropped, in, wire, got>>
    BY <1>7 DEF NewConn, Add, Leave, Idle, Break, monitor, source, proxies
  <2>1. CASE NewConn(d)
    BY <2>1 DEF NewConn
  <2>2. CASE Add(d)
    <3>1. UNCHANGED <<sending, sink, link>> /\ handler[c] = "done"
      BY <1>0, <1>s, <2>2 DEF Add, ConsumersOK, monitor
    <3> QED BY <1>s, <1>1, <2>0, <3>1 DEF Newest, Served
  <2>3. CASE Leave(d) \/ Idle(d) \/ Break(d)
    <3>1. UNCHANGED <<sending, sink, handler>> /\ link[c] = "up"
      BY <1>0, <1>s, <2>3 DEF Leave, Idle, Break, ConsumersOK, monitor, source
    <3> QED BY <1>s, <1>2, <2>0, <3>1 DEF Newest
  <2> QED BY <1>7, <2>1, <2>2, <2>3
<1>8. ASSUME NEW d \in Consumer, Write(d) \/ WriteFails(d)
      PROVE  Newest(p, c)' = version'
  <2>0. UNCHANGED <<version, sending, sink, handler, at, dropped, got>>
    BY <1>8 DEF Write, WriteFails, monitor, source, proxies
  <2>1. link[c] = "up" /\ at'[p] = at[p] /\ dropped'[c] = dropped[c]
    BY <1>0, <1>s, <1>8, <2>0 DEF Write, WriteFails, ConsumersOK
  <2>2. CASE c # d
    <3>1. in'[c] = in[c] /\ wire'[c] = wire[c]
      BY <1>0, <1>8, <2>2 DEF Write, WriteFails, QueuesOK
    <3> QED BY <1>2, <2>0, <2>1, <3>1 DEF Newest
  <2>3. CASE c = d
    <3>1. Write(c)
      BY <1>0, <1>s, <1>8, <2>3 DEF WriteFails, ConsumersOK
    <3>2. /\ in[c] # <<>> /\ in'[c] = Tail(in[c]) /\ wire'[c] = Append(wire[c], Head(in[c]))
      BY <1>0, <3>1 DEF Write, QueuesOK
    <3>3. /\ Head(in[c]) \in Versions
          /\ NewestOf(wire'[c], got[p]) = Head(in[c])
      BY <1>0, <3>2, Taken, PutOrder
    <3>4. NewestOf(Tail(in[c]), Head(in[c])) = NewestOf(in[c], NewestOf(wire[c], got[p]))
      <4>1. CASE Tail(in[c]) = <<>>
        BY <1>0, <3>2, <4>1, TakenOrder, EmptyQueue
      <4>2. CASE Tail(in[c]) # <<>>
        BY <1>0, <3>2, <4>2, TakenOrder
      <4> QED BY <4>1, <4>2
    <3> QED BY <1>2, <2>0, <2>1, <3>2, <3>3, <3>4 DEF Newest
  <2> QED BY <2>2, <2>3
<1>9. ASSUME NEW q \in Proxy, NEW d \in Consumer, Dial(q, d)
      PROVE  Newest(p, c)' = version'
  <2>0. /\ UNCHANGED <<version, sending, sink, got>>
        /\ at' = [at EXCEPT ![q] = d] /\ handler' = [handler EXCEPT ![d] = "add"]
        /\ at[p] # d
    BY <1>9 DEF Dial, Unused, monitor, source
  <2>1. c # d
    BY <1>0, <1>s, <2>0 DEF ConsumersOK
  <2>2. at[p] = c /\ p # q
    BY <1>0, <1>s, <2>0, <2>1 DEF ProxiesOK
  <2>3. /\ in'[c] = in[c] /\ wire'[c] = wire[c] /\ link'[c] = link[c]
        /\ dropped'[c] = dropped[c] /\ handler'[c] = handler[c]
    BY <1>0, <1>9, <2>1 DEF Dial, QueuesOK, ConsumersOK
  <2> QED BY <1>s, <1>1, <2>0, <2>2, <2>3 DEF Newest, Served
<1>10. ASSUME NEW q \in Proxy, Take(q)
       PROVE  Newest(p, c)' = version'
  <2>0. /\ UNCHANGED <<version, sending, sink, handler, at, link, dropped, in>>
        /\ at[q] # None /\ wire[at[q]] # <<>>
        /\ got' = [got EXCEPT ![q] = Head(wire[at[q]])]
        /\ wire' = [wire EXCEPT ![at[q]] = Tail(@)]
    BY <1>10 DEF Take, monitor, source
  <2>1. CASE p # q
    <3>1. at[q] # c
      BY <1>0, <1>s, <2>0, <2>1 DEF IInv, SoleReader
    <3>2. got'[p] = got[p] /\ wire'[c] = wire[c]
      BY <1>0, <2>0, <2>1, <3>1 DEF QueuesOK, ProxiesOK
    <3> QED BY <1>s, <1>2, <2>0, <3>2 DEF Newest
  <2>2. CASE p = q
    <3>1. wire[c] # <<>> /\ got'[p] = Head(wire[c]) /\ wire'[c] = Tail(wire[c])
      BY <1>0, <1>s, <2>0, <2>2 DEF QueuesOK, ProxiesOK
    <3>2. NewestOf(Tail(wire[c]), Head(wire[c])) = NewestOf(wire[c], got[p])
      <4>1. CASE Tail(wire[c]) = <<>>
        BY <1>0, <3>1, <4>1, TakenOrder, EmptyQueue
      <4>2. CASE Tail(wire[c]) # <<>>
        BY <1>0, <3>1, <4>2, TakenOrder
      <4> QED BY <4>1, <4>2
    <3> QED BY <1>s, <1>2, <2>0, <3>1, <3>2 DEF Newest
  <2> QED BY <2>1, <2>2
<1>11. ASSUME NEW q \in Proxy, HangUp(q) \/ ProxyRestart(q)
       PROVE  Newest(p, c)' = version'
  <2>0. UNCHANGED <<version, sending, sink, handler, dropped, in, wire>>
    BY <1>11 DEF HangUp, ProxyRestart, monitor, source, lines
  <2>1. p # q
    BY <1>0, <1>s, <1>11 DEF HangUp, ProxyRestart, ProxiesOK
  <2>2. at'[p] = at[p] /\ got'[p] = got[p] /\ link[c] = "up"
    BY <1>0, <1>s, <1>11, <2>1 DEF HangUp, ProxyRestart, ProxiesOK, ConsumersOK, lines
  <2> QED BY <1>2, <2>0, <2>2 DEF Newest
<1> QED
  BY <1>3, <1>4, <1>5, <1>6, <1>7, <1>8, <1>9, <1>10, <1>11 DEF Next, vars, monitor, source,
     lines, proxies

-----------------------------------------------------------------------------
(***************************************************************************)
(* The theorems.                                                           *)
(***************************************************************************)

LEMMA Invariance == Spec => []IInv
<1>1. IInv /\ [Next]_vars => IInv'
  BY TypeStep, LifecycleStep, SoleReaderStep, SinkStep, OrderStep, NewestStep DEF IInv
<1> QED BY <1>1, Initially, PTL DEF Spec

\* The variables keep their types; no channel exceeds its capacity.
THEOREM TypeCorrect == Spec => []TypeOK
<1>1. IInv => TypeOK
  BY DEF IInv
<1> QED BY <1>1, Invariance, PTL

\* The control process never sends to a channel it has closed, and closes
\* none twice.
THEOREM ClosedAreUnlisted == Spec => []ClosedUnlisted
<1>1. IInv => ClosedUnlisted
  BY DEF IInv
<1> QED BY <1>1, Invariance, PTL

\* Whatever the order of connecting, announcing and changing, a proxy whose
\* connection has nothing on its way has the current list, or its channel was
\* full for it.
THEOREM NothingIsMissed == Spec => []NothingMissed
<1>1. IInv => NothingMissed
  <2> SUFFICES ASSUME IInv, NEW p \in Proxy, at[p] # None, ~sending, sink = Empty,
                      link[at[p]] = "up", handler[at[p]] = "done", ~dropped[at[p]],
                      in[at[p]] = <<>>, wire[at[p]] = <<>>
               PROVE  got[p] = version
    BY DEF NothingMissed
  <2>1. at[p] \in Consumer
    BY Types DEF IInv
  <2>2. Newest(p, at[p]) = version
    BY <2>1 DEF IInv, NewestCurrent, Served
  <2> QED BY <2>2, EmptyQueue DEF Newest
<1> QED BY <1>1, Invariance, PTL

\* Publishing implements the feed: a proxy that has a list never takes an
\* older one, through whatever connections it comes.
THEOREM ImplementsFeed == Spec => FeedSpec
<1>1. Init => Promise!Init
  BY DEF Init, Promise!Init
<1>2. IInv /\ IInv' /\ [Next]_vars => [Promise!Next]_(Promise!vars)
  <2> SUFFICES ASSUME IInv, IInv', [Next]_vars PROVE [Promise!Next]_(Promise!vars)
    OBVIOUS
  <2>0. /\ TypeOK /\ QueuesOK /\ ProxiesOK /\ version \in Int
        /\ \A p \in Proxy : got[p] \in Int
    BY Types DEF IInv, TypeOK
  <2>1. CASE UNCHANGED <<version, got>>
    BY <2>1 DEF Promise!vars
  <2>2. CASE Change \/ MonitorRestart
    <3>1. UNCHANGED got /\ version' \in {version, version + 1}
      BY <2>2 DEF Change, MonitorRestart, proxies
    <3> QED BY <3>1 DEF Promise!Next, Promise!Publish, Promise!vars
  <2>3. ASSUME NEW p \in Proxy, Take(p)
        PROVE  [Promise!Next]_(Promise!vars)
    <3> DEFINE w == wire[at[p]]
    <3>0. /\ at[p] # None /\ at[p] \in Consumer /\ w # <<>> /\ w \in Seq(Versions)
          /\ got' = [got EXCEPT ![p] = Head(w)] /\ UNCHANGED version
      BY <2>0, <2>3, Types DEF Take, monitor
    <3>1. /\ AtLeast(w, got[p]) /\ AtMost(w, version)
      BY <3>0 DEF IInv, Ordered, QueueOrder, ReaderOrder
    <3>2. Head(w) \in Versions /\ got[p] <= Head(w) /\ Head(w) <= version
      BY <2>0, <3>0, <3>1, Taken, TakenOrder
    <3>3. CASE Head(w) = got[p]
      <4>1. got' = got
        BY <2>0, <3>0, <3>3 DEF ProxiesOK
      <4> QED BY <3>0, <4>1 DEF Promise!vars
    <3>4. CASE Head(w) # got[p]
      <4>1. Head(w) \in (got[p] + 1)..version
        BY <2>0, <3>2, <3>4 DEF Versions
      <4>2. Promise!Take(p)
        BY <3>0, <4>1 DEF Promise!Take
      <4> QED BY <4>2 DEF Promise!Next
    <3> QED BY <3>3, <3>4
  <2>4. ASSUME NEW p \in Proxy, ProxyRestart(p)
        PROVE  [Promise!Next]_(Promise!vars)
    <3>1. Promise!Forget(p)
      BY <2>4 DEF ProxyRestart, Promise!Forget, monitor
    <3> QED BY <3>1 DEF Promise!Next
  <2> QED
    BY <2>1, <2>2, <2>3, <2>4 DEF Next, vars, monitor, proxies, Send, Broadcast, Remove,
       NewConn, Add, Write, WriteFails, Idle, Leave, Break, Dial, HangUp
<1> QED BY <1>1, <1>2, Invariance, PTL DEF Spec, FeedSpec, Promise!Spec

\* The part of CatchesUp that is not liveness: a proxy whose connection is open is in
\* the list of consumers, or about to be, with a goroutine that writes for it, so that
\* the next event is for it as well; and when no event is under way the last it will
\* be given is the current list, unless its channel was full for it.
OnItsWay ==
  \A p \in Proxy : at[p] # None /\ link[at[p]] = "up" =>
    LET c == at[p] IN
    /\ writer[c] = "running" /\ (handler[c] = "add" \/ c \in consumers)
    /\ ~sending /\ sink = Empty /\ handler[c] = "done" /\ ~dropped[c] => Newest(p, c) = version

\* What a proxy needs is on its way to it as long as it is connected, whatever was
\* added, removed and broken off meanwhile.
THEOREM ListOnItsWay == Spec => []OnItsWay
<1>1. IInv => OnItsWay
  <2> SUFFICES ASSUME IInv, NEW p \in Proxy, at[p] # None, link[at[p]] = "up"
               PROVE  LET c == at[p] IN
                      /\ writer[c] = "running" /\ (handler[c] = "add" \/ c \in consumers)
                      /\ ~sending /\ sink = Empty /\ handler[c] = "done" /\ ~dropped[c]
                           => Newest(p, c) = version
    BY DEF OnItsWay
  <2>1. at[p] \in Consumer
    BY Types DEF IInv
  <2>2. writer[at[p]] = "running" /\ (handler[at[p]] = "add" \/ at[p] \in consumers)
    BY <2>1 DEF IInv, Lifecycle
  <2>3. ~sending /\ sink = Empty /\ handler[at[p]] = "done" /\ ~dropped[at[p]]
          => Newest(p, at[p]) = version
    BY <2>1 DEF IInv, NewestCurrent, Served
  <2> QED BY <2>2, <2>3
<1> QED BY <1>1, Invariance, PTL
=============================================================================
