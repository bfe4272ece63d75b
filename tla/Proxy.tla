------------------------------- MODULE Proxy -------------------------------
(***************************************************************************)
(* One proxyd process: the goroutine that takes target lists from the      *)
(* monitor, the one that accepts clients, and two levels of goroutines per *)
(* connection (handleRequest, and the two brokers of pipe).  They share    *)
(* the target list and the round-robin index, under an RWMutex of which    *)
(* handleRequest takes the read lock although it writes the index.         *)
(*                                                                         *)
(* A target list is abstracted to its length: which endpoint a position    *)
(* names is no matter here.  A connection that has ended is free again for *)
(* the next client.                                                        *)
(***************************************************************************)
EXTENDS Integers, FiniteSets

CONSTANTS
  Conn,        \* bound: the connections that may be open at a time
  Talking,     \* bound: those of them over which anything is sent
  MaxTargets,  \* bound: the longest target list
  MaxIndex     \* bound: the index is not read while overlapping lookups, which
               \* can push it up without limit, have it beyond this value

ASSUME ProxyAssumption == Talking \subseteq Conn /\ MaxTargets \in Nat /\ MaxIndex \in Nat

VARIABLES
  alive,          \* "up", or why the process died: "index" or "listener"
  targets,        \* len(rp.targets)
  roundrobinIdx,
  upc,            \* updater: "watch", or "lock" (waiting for the write lock)
  incoming,       \* the list the updater wants to store
  lpc,            \* listener: "listen", "check", "accept", "drain", "close"
  wg,             \* the WaitGroup's counter
  readers,        \* handlers that hold the read lock
  hpc,            \* per connection: where handleRequest is, "free" if unused
  loaded,         \* per connection: the index it has read, -1 when of no use
  client, server, \* per connection: the two sockets, "none", "open",
                  \*   "gone" (closed by the peer) or "closed" (by proxyd)
  ended,          \* per connection: the brokers that have ended
  writing,        \* per connection: the brokers that are in a Write; the others read
  \* --- history, since the list was last stored
  overlapped,     \* two lookups held the lock at the same time
  visited,        \* positions used in this round
  repeated        \* a position was used twice in one round

shared  == <<targets, roundrobinIdx>>
updater == <<upc, incoming>>
sockets == <<client, server, ended, writing>>
rounds  == <<overlapped, visited, repeated>>
vars    == <<alive, shared, updater, lpc, wg, readers, hpc, loaded, sockets, rounds>>

Init ==
  /\ alive = "up" /\ targets = 0 /\ roundrobinIdx = -1
  /\ upc = "watch" /\ incoming = 0
  /\ lpc = "listen" /\ wg = 0 /\ readers = {}
  /\ hpc = [c \in Conn |-> "free"] /\ loaded = [c \in Conn |-> -1]
  /\ client = [c \in Conn |-> "none"] /\ server = [c \in Conn |-> "none"]
  /\ ended = [c \in Conn |-> {}] /\ writing = [c \in Conn |-> {}]
  /\ overlapped = FALSE /\ visited = {} /\ repeated = FALSE

-----------------------------------------------------------------------------
(***************************************************************************)
(* getInfoFromMonitor.  Lock waits for the readers there are and keeps new *)
(* ones out.                                                               *)
(***************************************************************************)

Event ==
  /\ upc = "watch" /\ upc' = "lock"
  /\ incoming' \in 0..MaxTargets
  /\ UNCHANGED <<alive, shared, lpc, wg, readers, hpc, loaded, sockets, rounds>>

\* Mutant: the index is kept across lists.
UpdateKeeping ==
  /\ upc = "lock" /\ readers = {} /\ upc' = "watch"
  /\ targets' = incoming /\ incoming' = 0
  /\ overlapped' = FALSE /\ visited' = {} /\ repeated' = FALSE
  /\ UNCHANGED <<alive, roundrobinIdx, lpc, wg, readers, hpc, loaded, sockets>>

Update ==
  /\ upc = "lock" /\ readers = {} /\ upc' = "watch"
  /\ targets' = incoming /\ roundrobinIdx' = -1 /\ incoming' = 0
  /\ overlapped' = FALSE /\ visited' = {} /\ repeated' = FALSE
  /\ UNCHANGED <<alive, lpc, wg, readers, hpc, loaded, sockets>>

-----------------------------------------------------------------------------
(***************************************************************************)
(* listenConnectRequest.                                                   *)
(***************************************************************************)

listening == <<shared, updater, readers, loaded, rounds>>

\* When Listen fails the listener is nil and Close, below the branch, panics.
Listen ==
  /\ lpc = "listen"
  /\ \/ lpc' = "check" /\ alive' = alive
     \/ lpc' = lpc /\ alive' = "listener"
  /\ UNCHANGED <<listening, wg, hpc, sockets>>

CheckTargets ==
  /\ lpc = "check" /\ upc # "lock" /\ targets > 0
  /\ lpc' = "accept"
  /\ UNCHANGED <<alive, listening, wg, hpc, sockets>>

\* Mutant: no wg.Add.
AcceptUncounted(c) ==
  /\ lpc = "accept" /\ lpc' = "check"
  /\ hpc[c] = "free" /\ hpc' = [hpc EXCEPT ![c] = "rlock"]
  /\ client' = [client EXCEPT ![c] = "open"]
  /\ UNCHANGED <<alive, listening, wg, server, ended, writing>>

Accept(c) ==
  /\ lpc = "accept" /\ lpc' = "check"
  /\ hpc[c] = "free" /\ hpc' = [hpc EXCEPT ![c] = "rlock"]
  /\ wg' = wg + 1
  /\ client' = [client EXCEPT ![c] = "open"]
  /\ UNCHANGED <<alive, listening, server, ended, writing>>

AcceptError ==
  /\ lpc = "accept" /\ lpc' = "drain"
  /\ UNCHANGED <<alive, listening, wg, hpc, sockets>>

\* Mutant: no wg.Wait.
DrainAtOnce ==
  /\ lpc = "drain"
  /\ lpc' = "close"
  /\ UNCHANGED <<alive, listening, wg, hpc, sockets>>

Drain ==
  /\ lpc = "drain" /\ wg = 0
  /\ lpc' = "close"
  /\ UNCHANGED <<alive, listening, wg, hpc, sockets>>

Close ==
  /\ lpc = "close" /\ lpc' = "listen"
  /\ UNCHANGED <<alive, listening, wg, hpc, sockets>>

-----------------------------------------------------------------------------
(***************************************************************************)
(* handleRequest: the lookup.  Between two accesses to the index other     *)
(* readers may make theirs; the comparison uses the value just stored or   *)
(* reads it again, whichever the compiler chose.                           *)
(***************************************************************************)

Goto(c, here, there) == hpc[c] = here /\ hpc' = [hpc EXCEPT ![c] = there]

looking == <<alive, targets, updater, lpc, wg, sockets>>

RLock(c) ==
  /\ Goto(c, "rlock", "len") /\ upc # "lock"
  /\ readers' = readers \cup {c}
  /\ overlapped' = (overlapped \/ readers # {})
  /\ UNCHANGED <<looking, roundrobinIdx, loaded, visited, repeated>>

\* Mutant: the early return keeps the read lock (mysql_proxy.go:124 is gone).
NoTargetsLocked(c) ==
  /\ Goto(c, "len", "end") /\ targets = 0
  /\ UNCHANGED <<looking, roundrobinIdx, readers, loaded, rounds>>

NoTargets(c) ==
  /\ Goto(c, "len", "end") /\ targets = 0
  /\ readers' = readers \ {c}
  /\ UNCHANGED <<looking, roundrobinIdx, loaded, rounds>>

Load(c) ==
  /\ Goto(c, "len", "store") /\ targets > 0
  /\ roundrobinIdx <= MaxIndex
  /\ loaded' = [loaded EXCEPT ![c] = roundrobinIdx]
  /\ UNCHANGED <<looking, roundrobinIdx, readers, rounds>>

Store(c) ==
  /\ Goto(c, "store", "compare")
  /\ roundrobinIdx' = loaded[c] + 1
  /\ UNCHANGED <<looking, loaded, readers, rounds>>

\* Mutant: > for >=.
CompareBeyond(c) ==
  /\ \E v \in {loaded[c] + 1, roundrobinIdx} :
       Goto(c, "compare", IF v > targets THEN "wrap" ELSE "index")
  /\ loaded' = [loaded EXCEPT ![c] = -1]
  /\ UNCHANGED <<looking, roundrobinIdx, readers, rounds>>

Compare(c) ==
  /\ \E v \in {loaded[c] + 1, roundrobinIdx} :
       Goto(c, "compare", IF v >= targets THEN "wrap" ELSE "index")
  /\ loaded' = [loaded EXCEPT ![c] = -1]
  /\ UNCHANGED <<looking, roundrobinIdx, readers, rounds>>

Wrap(c) ==
  /\ Goto(c, "wrap", "index")
  /\ roundrobinIdx' = 0
  /\ UNCHANGED <<looking, loaded, readers, rounds>>

\* rp.targets[rp.roundrobinIdx] and RUnlock; out of range, the process dies.
Index(c) ==
  IF roundrobinIdx \in 0..(targets - 1)
  THEN /\ Goto(c, "index", "dial")
       /\ readers' = readers \ {c}
       /\ repeated' = (repeated \/ roundrobinIdx \in visited)
       /\ LET now == visited \cup {roundrobinIdx}
          IN  visited' = IF Cardinality(now) = targets THEN {} ELSE now
       /\ UNCHANGED <<looking, roundrobinIdx, loaded, overlapped>>
  ELSE /\ hpc[c] = "index" /\ alive' = "index"
       /\ UNCHANGED <<shared, updater, lpc, wg, readers, hpc, loaded, sockets, rounds>>

-----------------------------------------------------------------------------
(***************************************************************************)
(* handleRequest: the connection.  Broker "up" copies from the client to   *)
(* the server, broker "down" the other way.  io.Copy is either in a Read   *)
(* of its source or in a Write to its sink, and while it is in the one it  *)
(* does not notice what becomes of the other socket: a Write to a peer     *)
(* that stays but does not read goes on for ever, no deadline being set.   *)
(***************************************************************************)

piping == <<alive, shared, updater, lpc, readers, loaded, rounds>>

Dial(c) ==
  /\ \/ Goto(c, "dial", "pipe") /\ server' = [server EXCEPT ![c] = "open"]
     \/ Goto(c, "dial", "end") /\ server' = server
  /\ UNCHANGED <<piping, wg, client, ended, writing>>

\* (A peer that leaves earlier is only noticed by pipe.)
PeerCloses(c) ==
  /\ hpc[c] \in {"pipe", "wait"}
  /\ \/ client[c] = "open" /\ client' = [client EXCEPT ![c] = "gone"] /\ server' = server
     \/ server[c] = "open" /\ server' = [server EXCEPT ![c] = "gone"] /\ client' = client
  /\ UNCHANGED <<piping, wg, hpc, ended, writing>>

Source(b, c) == IF b = "up" THEN client[c] ELSE server[c]
Sink(b, c)   == IF b = "up" THEN server[c] ELSE client[c]

Copying(b, c) == hpc[c] \in {"pipe", "wait"} /\ b \notin ended[c]
BrokerEnds(b, c) ==
  /\ ended' = [ended EXCEPT ![c] = @ \cup {b}]
  /\ writing' = [writing EXCEPT ![c] = @ \ {b}]

\* A Read returns data.  All that a peer sends before it goes counts as one piece.
Read(b, c) ==
  /\ Copying(b, c) /\ b \notin writing[c] /\ Source(b, c) = "open" /\ c \in Talking
  /\ writing' = [writing EXCEPT ![c] = @ \cup {b}]
  /\ UNCHANGED <<piping, wg, hpc, client, server, ended>>

\* The peer has made room for what is to be written.
Write(b, c) ==
  /\ Copying(b, c) /\ b \in writing[c] /\ Sink(b, c) = "open"
  /\ writing' = [writing EXCEPT ![c] = @ \ {b}]
  /\ UNCHANGED <<piping, wg, hpc, client, server, ended>>

ReadFails(b, c) ==
  /\ Copying(b, c) /\ b \notin writing[c]
  /\ Source(b, c) # "open" /\ BrokerEnds(b, c)
  /\ UNCHANGED <<piping, wg, hpc, client, server>>

WriteFails(b, c) ==
  /\ Copying(b, c) /\ b \in writing[c]
  /\ Sink(b, c) # "open" /\ BrokerEnds(b, c)
  /\ UNCHANGED <<piping, wg, hpc, client, server>>

\* Mutant: the two sockets are confused, the one that is gone already is closed.
CloseSame(c) ==
  /\ Goto(c, "pipe", "wait")
  /\ \/ /\ "up" \in ended[c]
        /\ client' = [client EXCEPT ![c] = "closed"] /\ server' = server
     \/ /\ "down" \in ended[c]
        /\ server' = [server EXCEPT ![c] = "closed"] /\ client' = client
  /\ UNCHANGED <<piping, wg, ended, writing>>

\* The select of pipe: whichever broker ended, the socket it wrote to is closed.
CloseOther(c) ==
  /\ Goto(c, "pipe", "wait")
  /\ \/ /\ "down" \in ended[c]
        /\ client' = [client EXCEPT ![c] = "closed"] /\ server' = server
     \/ /\ "up" \in ended[c]
        /\ server' = [server EXCEPT ![c] = "closed"] /\ client' = client
  /\ UNCHANGED <<piping, wg, ended, writing>>

BothEnded(c) ==
  /\ Goto(c, "wait", "end") /\ ended[c] = {"up", "down"}
  /\ UNCHANGED <<piping, wg, sockets>>

\* The deferred calls: target.Close, conn.Close and wg.Done.
Return(c) ==
  /\ Goto(c, "end", "free")
  /\ wg' = wg - 1
  /\ client' = [client EXCEPT ![c] = "none"]
  /\ server' = [server EXCEPT ![c] = "none"]
  /\ ended' = [ended EXCEPT ![c] = {}]
  /\ UNCHANGED <<piping, writing>>

-----------------------------------------------------------------------------

\* The platform starts the process again, with what Init says.
Restart ==
  /\ alive # "up" /\ alive' = "up"
  /\ targets' = 0 /\ roundrobinIdx' = -1
  /\ upc' = "watch" /\ incoming' = 0
  /\ lpc' = "listen" /\ wg' = 0 /\ readers' = {}
  /\ hpc' = [c \in Conn |-> "free"] /\ loaded' = [c \in Conn |-> -1]
  /\ client' = [c \in Conn |-> "none"] /\ server' = [c \in Conn |-> "none"]
  /\ ended' = [c \in Conn |-> {}] /\ writing' = [c \in Conn |-> {}]
  /\ overlapped' = FALSE /\ visited' = {} /\ repeated' = FALSE

Listener == Listen \/ CheckTargets \/ (\E c \in Conn : Accept(c)) \/ AcceptError \/ Drain \/ Close

Lookup(c) ==
  \/ RLock(c)
  \/ NoTargets(c)
  \/ Load(c)
  \/ Store(c)
  \/ Compare(c)
  \/ Wrap(c)
  \/ Index(c)

Broker(b, c) == ReadFails(b, c) \/ WriteFails(b, c)

Serve(c) ==
  \/ Dial(c)
  \/ CloseOther(c)
  \/ BothEnded(c)
  \/ Return(c)

Peer(c) == PeerCloses(c) \/ \E b \in {"up", "down"} : Read(b, c) \/ Write(b, c)

Handle(c) == alive = "up" /\ (Lookup(c) \/ Serve(c))

Next ==
  \/ alive = "up" /\ (Event \/ Update \/ Listener)
  \/ \E c \in Conn : Handle(c)
  \/ \E c \in Conn, b \in {"up", "down"} : alive = "up" /\ Broker(b, c)
  \/ \E c \in Conn : alive = "up" /\ Peer(c)
  \/ Restart

Spec == Init /\ [][Next]_vars

(***************************************************************************)
(* The Go scheduler runs every goroutine that can go on, and the platform  *)
(* restarts the process.  A waiting writer keeps new readers out, so that  *)
(* those who hold the lock are the only ones it has to wait for.  Peers    *)
(* need not ever send, read or close, nor lists arrive.                    *)
(***************************************************************************)
FairSpec ==
  /\ Spec
  /\ WF_vars(alive = "up" /\ Update)
  /\ WF_vars(alive = "up" /\ (Drain \/ Close \/ Listen))
  /\ \A c \in Conn : WF_vars(Handle(c))
  /\ \A c \in Conn : WF_vars(alive = "up" /\ Broker("up", c))
  /\ \A c \in Conn : WF_vars(alive = "up" /\ Broker("down", c))
  /\ WF_vars(Restart)

-----------------------------------------------------------------------------
(***************************************************************************)
(* PROPERTIES                                                              *)
(***************************************************************************)

\* The types of the variables.
FlagsOK == overlapped \in BOOLEAN /\ repeated \in BOOLEAN

ListOK ==
  /\ targets \in 0..MaxTargets /\ incoming \in 0..MaxTargets
  /\ roundrobinIdx \in Int /\ roundrobinIdx >= -1
  /\ visited \in SUBSET Nat

PlacesOK ==
  /\ alive \in {"up", "index", "listener"}
  /\ upc \in {"watch", "lock"}
  /\ lpc \in {"listen", "check", "accept", "drain", "close"}
  /\ wg \in Nat
  /\ hpc \in [Conn -> {"free", "rlock", "len", "store", "compare", "wrap", "index",
                       "dial", "pipe", "wait", "end"}]

LookupsOK == readers \in SUBSET Conn /\ loaded \in [Conn -> Int]

Socket == {"none", "open", "gone", "closed"}
SocketsOK ==
  /\ client \in [Conn -> Socket] /\ server \in [Conn -> Socket]
  /\ ended \in [Conn -> SUBSET {"up", "down"}]
  /\ writing \in [Conn -> SUBSET {"up", "down"}]

TypeOK == FlagsOK /\ ListOK /\ PlacesOK /\ LookupsOK /\ SocketsOK

\* As long as no two lookups overlapped since the list was stored, every target
\* gets a connection before any gets a second, and no lookup leaves the list.
RoundRobin == ~overlapped => ~repeated /\ alive # "index"

\* However lookups overlap, the index they leave behind is one of the list:
\* the one that stored the value last has also brought it back into range.
IndexSettles == readers = {} => roundrobinIdx \in -1..(targets - 1)

\* The port is listened on anew only after all connections taken before have
\* ended: wg.Wait never returns early.  (mysql_proxy.go:96-98 and 109)
Drained == lpc \in {"listen", "close"} => \A c \in Conn : hpc[c] = "free"

\* When one end of a connection goes, proxyd gives up the other end too, whichever
\* broker notices first and whatever is still to be copied, with one exception: for
\* as long as a broker is in a Write to a peer that is there and does not read.
\* (mysql_proxy.go:146-171; no deadline is set on that Write.  The other connections
\* do what these may do too, when nothing is sent.)
Blocked(b, c) == b \in writing[c] /\ Sink(b, c) = "open"
Stuck(c)      == \E b \in {"up", "down"} : Blocked(b, c)
PipeEnds ==
  \A c \in Talking :
    (hpc[c] = "pipe" /\ (client[c] # "open" \/ server[c] # "open"))
      ~> (hpc[c] = "free" \/ []Stuck(c))

\* A list that has arrived is stored, however many clients connect meanwhile.
UpdateStored == upc = "lock" ~> upc = "watch"

-----------------------------------------------------------------------------
(***************************************************************************)
(* Claims of the documentation that the code does not meet.                *)
(***************************************************************************)

\* mysql_proxy.go:26, "The targets are thread-safe", and README.md:126: lookups
\* take the read lock.  They do not make each other fail.
ThreadSafe == alive # "index"

=============================================================================
