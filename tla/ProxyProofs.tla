---------------------------- MODULE ProxyProofs ----------------------------
(***************************************************************************)
(* Theorems about Proxy, for every set of connections, every length of the *)
(* target list and every bound of the index.  The set of connections may   *)
(* even be infinite: those in use are finitely many, since each was taken  *)
(* by one Accept, and the WaitGroup counts them.                           *)
(***************************************************************************)
EXTENDS Proxy, FiniteSetTheorems, TLAPS

Using   == {c \in Conn : hpc[c] # "free"}
Looking == {"len", "store", "compare", "wrap", "index"}

(***************************************************************************)
(* The inductive invariant.                                                *)
(***************************************************************************)

LoadedOK == \A c \in Conn : loaded[c] >= -1

Counted  == IsFiniteSet(Using) /\ wg = Cardinality(Using)

LockHeld == readers = {c \in Conn : hpc[c] \in Looking}

TargetsKnown == \A c \in Conn : hpc[c] \in Looking \ {"len"} => targets > 0

\* An index out of range has a lookup that will wrap it: one that has decided to,
\* or the one that stored this very value.
Repairs(c) == hpc[c] = "wrap" \/ (hpc[c] = "compare" /\ loaded[c] + 1 = roundrobinIdx)
Repaired   == roundrobinIdx >= targets => \E c \in Conn : Repairs(c)

\* As long as lookups have not overlapped: where the rotation is.
Before(i)  == IF i = targets THEN {} ELSE 0..(i - 1)
Settled    == roundrobinIdx \in -1..(targets - 1) /\ visited = Before(roundrobinIdx + 1)
InRound(c) ==
  /\ hpc[c] = "store" => loaded[c] = roundrobinIdx /\ Settled
  /\ hpc[c] = "compare" =>
       loaded[c] + 1 = roundrobinIdx /\ roundrobinIdx \in 0..targets
         /\ visited = Before(roundrobinIdx)
  /\ hpc[c] = "wrap" => roundrobinIdx = targets /\ visited = {}
  /\ hpc[c] = "index" => roundrobinIdx \in 0..(targets - 1) /\ visited = Before(roundrobinIdx)

Alone    == ~overlapped => \A c, d \in readers : c = d
Rotating ==
  ~overlapped =>
    /\ ~repeated /\ alive # "index"
    /\ \A c \in Conn : InRound(c)
    /\ (\A c \in Conn : hpc[c] \notin Looking \ {"len"}) => Settled

IInv ==
  /\ TypeOK /\ LoadedOK
  /\ Counted /\ Drained
  /\ LockHeld /\ TargetsKnown /\ Repaired
  /\ Alone /\ Rotating

-----------------------------------------------------------------------------

\* What the two brokers and the peers do touches nothing but the sockets.
Copies(c) == Peer(c) \/ \E b \in {"up", "down"} : Broker(b, c)

LEMMA CopiesOnly == \A c \in Conn : Copies(c) => UNCHANGED <<piping, wg, hpc>>
BY DEF Copies, Peer, Broker, PeerCloses, Read, Write, ReadFails, WriteFails

LEMMA Initially == Init => IInv
<1> SUFFICES ASSUME Init PROVE IInv
  OBVIOUS
<1> USE ProxyAssumption
<1>1. TypeOK /\ LoadedOK
  <2>1. FlagsOK
    BY DEF Init, FlagsOK
  <2>2. ListOK /\ PlacesOK /\ LookupsOK
    BY DEF Init, ListOK, PlacesOK, LookupsOK
  <2>3. SocketsOK /\ LoadedOK
    BY DEF Init, SocketsOK, Socket, LoadedOK
  <2> QED BY <2>1, <2>2, <2>3 DEF TypeOK
<1>2. Counted
  <2>1. Using = {}
    BY DEF Init, Using
  <2> QED BY <2>1, FS_EmptySet DEF Init, Counted
<1>3. Drained /\ LockHeld /\ TargetsKnown /\ Repaired /\ Alone
  BY DEF Init, Drained, LockHeld, Looking, TargetsKnown, Repaired, Alone
<1>4. Rotating
  BY DEF Init, Rotating, InRound, Settled, Before, Looking
<1> QED BY <1>1, <1>2, <1>3, <1>4 DEF IInv

\* A restart of the process begins where Init does.
LEMMA RestartStep == Restart => IInv'
<1> SUFFICES ASSUME Restart PROVE IInv'
  OBVIOUS
<1> USE ProxyAssumption
<1>1. TypeOK' /\ LoadedOK'
  <2>1. FlagsOK'
    BY DEF Restart, FlagsOK
  <2>2. ListOK' /\ PlacesOK' /\ LookupsOK'
    BY DEF Restart, ListOK, PlacesOK, LookupsOK
  <2>3. SocketsOK' /\ LoadedOK'
    BY DEF Restart, SocketsOK, Socket, LoadedOK
  <2> QED BY <2>1, <2>2, <2>3 DEF TypeOK
<1>2. Counted'
  <2>1. Using' = {}
    BY DEF Restart, Using
  <2> QED BY <2>1, FS_EmptySet DEF Restart, Counted
<1>3. Drained' /\ LockHeld' /\ TargetsKnown' /\ Repaired' /\ Alone'
  BY DEF Restart, Drained, LockHeld, Looking, TargetsKnown, Repaired, Alone
<1>4. Rotating'
  BY DEF Restart, Rotating, InRound, Settled, Before, Looking
<1> QED BY <1>1, <1>2, <1>3, <1>4 DEF IInv

-----------------------------------------------------------------------------
(***************************************************************************)
(* The WaitGroup.                                                          *)
(***************************************************************************)

LEMMA AcceptCounts ==
  ASSUME TypeOK, Counted, NEW c \in Conn, Accept(c)
  PROVE  wg' \in Nat /\ Counted'
<1>1. c \notin Using /\ Using' = Using \cup {c} /\ wg' = wg + 1
  BY DEF TypeOK, PlacesOK, Accept, Using
<1>2. IsFiniteSet(Using') /\ Cardinality(Using') = Cardinality(Using) + 1
  BY <1>1, FS_AddElement DEF Counted
<1> QED BY <1>1, <1>2 DEF Counted, TypeOK, PlacesOK

LEMMA ReturnCounts ==
  ASSUME TypeOK, Counted, NEW c \in Conn, Return(c)
  PROVE  wg' \in Nat /\ Counted'
<1>1. c \in Using /\ Using' = Using \ {c} /\ wg' = wg - 1
  BY DEF TypeOK, PlacesOK, Return, Goto, Using
<1>2. IsFiniteSet(Using') /\ Cardinality(Using') = Cardinality(Using) - 1
  BY <1>1, FS_RemoveElement DEF Counted
<1>3. Cardinality(Using') \in Nat
  BY <1>2, FS_CardinalityType
<1> QED BY <1>1, <1>2, <1>3 DEF Counted

\* No other step takes a connection into use or out of it.
LEMMA OthersKeepUsing ==
  ASSUME TypeOK, NEW c \in Conn, (Lookup(c) \/ Serve(c)), ~Return(c)
  PROVE  Using' = Using /\ wg' = wg /\ lpc' = lpc
<1> USE DEF TypeOK, PlacesOK, Using, Goto
<1>1. CASE Lookup(c)
  BY <1>1 DEF Lookup, RLock, NoTargets, Load, Store, Compare, Wrap, Index, looking
<1>2. CASE Serve(c)
  BY <1>2 DEF Serve, Dial, CloseOther, BothEnded, piping
<1> QED BY <1>1, <1>2

\* The listener waits for all: no connection is in use at its Close.
LEMMA DrainedStep == TypeOK /\ Counted /\ Drained /\ Next /\ ~Restart => Counted' /\ Drained'
<1> SUFFICES ASSUME TypeOK, Counted, Drained, Next, ~Restart PROVE Counted' /\ Drained'
  OBVIOUS
<1>1. CASE Event \/ Update \/ Listen \/ CheckTargets \/ AcceptError \/ Close
           \/ \E c \in Conn : Copies(c)
  <2>1. UNCHANGED <<hpc, wg>> /\ (lpc' \in {"listen", "close"} => lpc \in {"listen", "close"})
    BY <1>1, CopiesOnly DEF Event, Update, Listen, CheckTargets, AcceptError, Close, listening, piping
  <2> QED BY <2>1 DEF Counted, Drained, Using
<1>2. CASE Drain
  <2>1. Using = {} /\ UNCHANGED <<hpc, wg>>
    BY <1>2, FS_EmptySet DEF Drain, Counted
  <2> QED BY <2>1 DEF Counted, Drained, Using
<1>3. ASSUME NEW c \in Conn, Accept(c)
      PROVE  Counted' /\ Drained'
  BY <1>3, AcceptCounts DEF Accept, Drained
<1>4. ASSUME NEW c \in Conn, Handle(c)
      PROVE  Counted' /\ Drained'
  <2>1. CASE Return(c)
    BY <2>1, ReturnCounts DEF Return, Goto, piping, Drained, TypeOK, PlacesOK
  <2>2. CASE ~Return(c)
    <3>1. Using' = Using /\ wg' = wg /\ lpc' = lpc
      BY <1>4, <2>2, OthersKeepUsing DEF Handle
    <3> QED BY <3>1 DEF Counted, Drained, Using
  <2> QED BY <2>1, <2>2
<1> QED BY <1>1, <1>2, <1>3, <1>4 DEF Next, Listener, Copies

-----------------------------------------------------------------------------
(***************************************************************************)
(* Types, and the state of a lookup.                                       *)
(***************************************************************************)

LEMMA FlagsStep ==
  ASSUME TypeOK, Next, ~Restart
  PROVE  FlagsOK'
<1>1. overlapped \in BOOLEAN /\ repeated \in BOOLEAN
  BY DEF TypeOK, FlagsOK
<1>2. CASE UNCHANGED <<overlapped, repeated>>
  BY <1>1, <1>2 DEF FlagsOK
<1>3. CASE Event \/ Update \/ Listener
  BY <1>1, <1>3 DEF Event, Update, Listener, Listen, CheckTargets, Accept, AcceptError, Drain,
     Close, listening, rounds, FlagsOK
<1>4. ASSUME NEW c \in Conn, Copies(c)
      PROVE  FlagsOK'
  BY <1>2, <1>4, CopiesOnly DEF piping, rounds
<1>5. ASSUME NEW c \in Conn, Lookup(c)
      PROVE  FlagsOK'
  <2>1. CASE RLock(c)
    <3>1. overlapped' \in BOOLEAN
      BY <1>1, <2>1, Zenon DEF RLock
    <3> QED BY <1>1, <2>1, <3>1 DEF RLock, FlagsOK
  <2>2. CASE Index(c)
    <3>1. repeated' = repeated \/ repeated' = (repeated \/ roundrobinIdx \in visited)
      BY <2>2 DEF Index, rounds
    <3>2. repeated' \in BOOLEAN
      BY <1>1, <3>1, Zenon
    <3> QED BY <1>1, <2>2, <3>2 DEF Index, rounds, FlagsOK
  <2>3. CASE NoTargets(c) \/ Load(c) \/ Store(c) \/ Compare(c) \/ Wrap(c)
    BY <1>2, <2>3 DEF NoTargets, Load, Store, Compare, Wrap, rounds
  <2> QED BY <1>5, <2>1, <2>2, <2>3 DEF Lookup
<1>6. ASSUME NEW c \in Conn, Serve(c)
      PROVE  FlagsOK'
  BY <1>2, <1>6 DEF Serve, Dial, CloseOther, BothEnded, Return, piping, rounds
<1> QED BY <1>3, <1>4, <1>5, <1>6 DEF Next, Handle, Copies

\* What a lookup that stays in range does to the round.
LEMMA IndexVisits ==
  ASSUME NEW c \in Conn, Index(c), roundrobinIdx \in 0..(targets - 1)
  PROVE  /\ Goto(c, "index", "dial")
         /\ readers' = readers \ {c}
         /\ repeated' = (repeated \/ roundrobinIdx \in visited)
         /\ \/ /\ Cardinality(visited \cup {roundrobinIdx}) = targets
               /\ visited' = {}
            \/ /\ Cardinality(visited \cup {roundrobinIdx}) # targets
               /\ visited' = visited \cup {roundrobinIdx}
         /\ UNCHANGED <<alive, targets, roundrobinIdx, loaded, overlapped>>
BY Zenon DEF Index, looking

\* The list, and the positions used.
LEMMA ListStep ==
  ASSUME TypeOK, LoadedOK, Next, ~Restart
  PROVE  ListOK'
<1> USE ProxyAssumption DEF ListOK
<1>0. ListOK /\ loaded \in [Conn -> Int]
  BY DEF TypeOK, LookupsOK
<1>1. CASE UNCHANGED <<targets, incoming, roundrobinIdx, visited>>
  BY <1>0, <1>1
<1>2. CASE Event \/ Update
  <2>1. /\ targets' \in {targets, incoming} /\ roundrobinIdx' \in {roundrobinIdx, -1}
        /\ incoming' \in 0..MaxTargets /\ visited' \in {visited, {}}
    BY <1>2 DEF Event, Update, shared, rounds
  <2> QED BY <1>0, <2>1
<1>3. CASE Listener \/ \E c \in Conn : Copies(c) \/ Serve(c)
  BY <1>1, <1>3, CopiesOnly DEF Listener, Listen, CheckTargets, Accept, AcceptError, Drain, Close,
     Serve, Dial, CloseOther, BothEnded, Return, listening, piping, shared, updater, rounds
<1>4. ASSUME NEW c \in Conn, Lookup(c)
      PROVE  ListOK'
  <2>1. CASE RLock(c) \/ NoTargets(c) \/ Load(c) \/ Compare(c)
    BY <1>1, <2>1 DEF RLock, NoTargets, Load, Compare, looking, updater, rounds
  <2>2. CASE Store(c) \/ Wrap(c)
    <3>1. /\ roundrobinIdx' \in {loaded[c] + 1, 0}
          /\ UNCHANGED <<targets, incoming, visited>>
      BY <2>2 DEF Store, Wrap, looking, updater, rounds
    <3>2. loaded[c] \in Int /\ loaded[c] >= -1
      BY <1>0 DEF LoadedOK
    <3> QED BY <1>0, <3>1, <3>2
  <2>3. CASE Index(c)
    <3>1. UNCHANGED <<targets, incoming, roundrobinIdx>>
      BY <2>3 DEF Index, looking, shared, updater
    <3>2. CASE roundrobinIdx \in 0..(targets - 1)
      <4>1. visited' = {} \/ visited' = visited \cup {roundrobinIdx}
        BY <2>3, <3>2, IndexVisits
      <4>2. roundrobinIdx \in Nat
        BY <1>0, <3>2
      <4>3. visited' \in SUBSET Nat
        BY <1>0, <4>1, <4>2
      <4> QED BY <1>0, <3>1, <4>3
    <3>3. CASE roundrobinIdx \notin 0..(targets - 1)
      BY <1>0, <2>3, <3>1, <3>3 DEF Index, rounds
    <3> QED BY <3>2, <3>3
  <2> QED BY <1>4, <2>1, <2>2, <2>3 DEF Lookup
<1> QED BY <1>2, <1>3, <1>4 DEF Next, Handle, Copies

\* Where the goroutines are.
LEMMA PlacesStep ==
  ASSUME TypeOK, Counted, Next, ~Restart
  PROVE  PlacesOK'
<1>0. PlacesOK
  BY DEF TypeOK
<1>1. wg' \in Nat
  <2>1. ASSUME NEW c \in Conn, Accept(c) \/ Return(c)
        PROVE  wg' \in Nat
    BY <2>1, AcceptCounts, ReturnCounts
  <2>2. ASSUME NEW c \in Conn, Handle(c), ~Return(c)
        PROVE  wg' = wg
    BY <2>2, OthersKeepUsing DEF Handle
  <2>3. CASE Event \/ Update \/ Listen \/ CheckTargets \/ AcceptError \/ Drain \/ Close
             \/ \E c \in Conn : Copies(c)
    BY <1>0, <2>3, CopiesOnly DEF Event, Update, Listen, CheckTargets, AcceptError, Drain, Close,
       PlacesOK
  <2> QED BY <1>0, <2>1, <2>2, <2>3 DEF Next, Listener, PlacesOK, Copies
<1>2. CASE Event \/ Update
  BY <1>0, <1>1, <1>2 DEF Event, Update, PlacesOK
<1>3. CASE Listen \/ CheckTargets \/ AcceptError \/ Drain \/ Close
  BY <1>0, <1>1, <1>3 DEF Listen, CheckTargets, AcceptError, Drain, Close, listening, updater, PlacesOK
<1>4. ASSUME NEW c \in Conn, Accept(c) \/ Copies(c)
      PROVE  PlacesOK'
  BY <1>0, <1>1, <1>4, CopiesOnly DEF Accept, listening, piping, updater, PlacesOK
<1>5. ASSUME NEW c \in Conn, Lookup(c)
      PROVE  PlacesOK'
  BY <1>0, <1>1, <1>5 DEF Lookup, RLock, NoTargets, Load, Store, Compare, Wrap, Index, Goto,
     looking, updater, PlacesOK
<1>6. ASSUME NEW c \in Conn, Serve(c)
      PROVE  PlacesOK'
  BY <1>0, <1>1, <1>6 DEF Serve, Dial, CloseOther, BothEnded, Return, Goto, piping,
     updater, PlacesOK
<1> QED BY <1>2, <1>3, <1>4, <1>5, <1>6 DEF Next, Handle, Listener, Copies

LEMMA LookupsStep ==
  ASSUME TypeOK, LoadedOK, Next, ~Restart
  PROVE  LookupsOK' /\ LoadedOK'
<1> USE DEF LookupsOK, LoadedOK
<1>0. LookupsOK /\ roundrobinIdx \in Int /\ roundrobinIdx >= -1
  BY DEF TypeOK, ListOK
<1>1. CASE UNCHANGED <<readers, loaded>>
  BY <1>0, <1>1
<1>2. CASE Event \/ Update \/ Listener
           \/ \E c \in Conn : Copies(c) \/ Serve(c)
  BY <1>1, <1>2, CopiesOnly DEF Event, Update, Listener, Listen, CheckTargets, Accept, AcceptError,
     Drain, Close, Serve, Dial, CloseOther, BothEnded, Return, listening, piping
<1>3. ASSUME NEW c \in Conn, Lookup(c)
      PROVE  LookupsOK' /\ LoadedOK'
  BY <1>0, <1>3 DEF Lookup, RLock, NoTargets, Load, Store, Compare, Wrap, Index
<1> QED BY <1>2, <1>3 DEF Next, Handle, Copies

LEMMA SocketsStep ==
  ASSUME TypeOK, Next, ~Restart
  PROVE  SocketsOK'
<1> USE DEF SocketsOK, Socket
<1>0. SocketsOK
  BY DEF TypeOK
<1>1. CASE UNCHANGED <<client, server, ended, writing>>
  BY <1>0, <1>1
<1>2. CASE Event \/ Update \/ Listen \/ CheckTargets \/ AcceptError \/ Drain \/ Close
           \/ \E c \in Conn : Lookup(c)
  BY <1>1, <1>2 DEF Event, Update, Listen, CheckTargets, AcceptError, Drain, Close, Lookup, RLock,
     NoTargets, Load, Store, Compare, Wrap, Index, looking, sockets
<1>3. ASSUME NEW c \in Conn, Accept(c) \/ PeerCloses(c) \/ Dial(c) \/ CloseOther(c) \/ BothEnded(c)
      PROVE  SocketsOK'
  BY <1>0, <1>3 DEF Accept, PeerCloses, Dial, CloseOther, BothEnded, sockets
<1>4. ASSUME NEW c \in Conn, NEW b \in {"up", "down"}, Broker(b, c) \/ Read(b, c) \/ Write(b, c)
      PROVE  SocketsOK'
  BY <1>0, <1>4 DEF Broker, ReadFails, WriteFails, BrokerEnds, Read, Write
<1>5. ASSUME NEW c \in Conn, Return(c)
      PROVE  SocketsOK'
  BY <1>0, <1>5 DEF Return
<1> QED BY <1>2, <1>3, <1>4, <1>5 DEF Next, Handle, Serve, Listener, Peer

LEMMA TypeStep ==
  ASSUME TypeOK, LoadedOK, Counted, Next, ~Restart
  PROVE  TypeOK' /\ LoadedOK'
BY FlagsStep, ListStep, PlacesStep, LookupsStep, SocketsStep DEF TypeOK

-----------------------------------------------------------------------------
(***************************************************************************)
(* The index and the rotation.                                             *)
(***************************************************************************)

LockInv == LockHeld /\ TargetsKnown /\ Repaired /\ Alone /\ Rotating

\* What the lookups look at.
lookedAt == <<targets, roundrobinIdx, readers, loaded, rounds>>

\* A step outside the lookups, by a connection that is not in one.
LEMMA OutsideStep ==
  ASSUME LockInv, UNCHANGED lookedAt, alive' = "index" => alive = "index",
         \A c \in Conn : hpc'[c] = hpc[c] \/ {hpc[c], hpc'[c]} \cap Looking = {}
  PROVE  LockInv'
<1> USE DEF lookedAt, rounds
<1>1. \A c \in Conn : hpc[c] \in Looking \/ hpc'[c] \in Looking => hpc'[c] = hpc[c]
  OBVIOUS
<1>2. LockHeld' /\ TargetsKnown' /\ Alone'
  BY <1>1 DEF LockInv, LockHeld, TargetsKnown, Alone
<1>3. Repaired'
  BY <1>1 DEF LockInv, Repaired, Repairs, Looking
<1>4. Rotating'
  <2>1. \A c \in Conn : InRound(c) => InRound(c)'
    BY <1>1 DEF InRound, Settled, Before, Looking
  <2>2. Settled' <=> Settled
    BY DEF Settled, Before
  <2> QED BY <1>1, <2>1, <2>2 DEF LockInv, Rotating
<1> QED BY <1>2, <1>3, <1>4 DEF LockInv

\* The steps of the updater, the listener and the second half of a connection.
LEMMA EventStep == LockInv /\ Event => LockInv'
  BY OutsideStep DEF Event, shared, lookedAt

LEMMA ListenerStep == LockInv /\ TypeOK /\ Listener => LockInv'
<1> SUFFICES ASSUME LockInv, TypeOK, Listener PROVE LockInv'
  OBVIOUS
<1>1. UNCHANGED <<targets, roundrobinIdx, readers, loaded, rounds>>
  BY DEF Listener, Listen, CheckTargets, Accept, AcceptError, Drain, Close, listening, shared
<1>2. \A c \in Conn : hpc'[c] = hpc[c] \/ {hpc[c], hpc'[c]} \cap Looking = {}
  BY DEF Listener, Listen, CheckTargets, Accept, AcceptError, Drain, Close, TypeOK, PlacesOK, Looking
<1>3. alive' = alive \/ alive' = "listener"
  BY DEF Listener, Listen, CheckTargets, Accept, AcceptError, Drain, Close
<1> QED BY <1>1, <1>2, <1>3, OutsideStep DEF lookedAt

LEMMA ServeStep ==
  ASSUME LockInv, TypeOK, NEW c \in Conn,
         Serve(c) \/ Copies(c)
  PROVE  LockInv'
<1>1. UNCHANGED lookedAt
  BY CopiesOnly DEF Serve, Dial, CloseOther, BothEnded, Return, piping, shared, lookedAt
<1>2. \A d \in Conn : hpc'[d] = hpc[d] \/ {hpc[d], hpc'[d]} \cap Looking = {}
  BY CopiesOnly DEF Serve, Dial, CloseOther, BothEnded, Return, Goto, TypeOK, PlacesOK, Looking
<1>3. alive' = alive
  BY CopiesOnly DEF Serve, Dial, CloseOther, BothEnded, Return, piping
<1> QED BY <1>1, <1>2, <1>3, OutsideStep

\* A list is stored when nobody looks.
LEMMA UpdateStep == LockInv /\ TypeOK /\ alive = "up" /\ Update => LockInv'
<1> SUFFICES ASSUME LockInv, TypeOK, alive = "up", Update PROVE LockInv'
  OBVIOUS
<1> USE ProxyAssumption DEF Update
<1>1. \A c \in Conn : hpc'[c] \notin Looking
  BY DEF LockInv, LockHeld
<1>2. targets' \in Nat
  BY DEF TypeOK, ListOK
<1>3. LockHeld' /\ TargetsKnown' /\ Repaired' /\ Alone'
  BY <1>1, <1>2 DEF LockInv, LockHeld, TargetsKnown, Repaired, Alone
<1>4. Settled'
  BY <1>2 DEF Settled, Before
<1>5. \A c \in Conn : InRound(c)'
  BY <1>1 DEF InRound, Looking
<1> QED BY <1>3, <1>4, <1>5 DEF LockInv, Rotating

-----------------------------------------------------------------------------
(***************************************************************************)
(* The steps of a lookup.  As long as lookups have not overlapped, nobody  *)
(* else is in one.                                                         *)
(***************************************************************************)

LEMMA NobodyElse ==
  ASSUME LockInv, ~overlapped, NEW c \in Conn, hpc[c] \in Looking,
         NEW d \in Conn, hpc[d] \in Looking
  PROVE  c = d
BY DEF LockInv, LockHeld, Alone

LEMMA RLockStep ==
  ASSUME LockInv, TypeOK, NEW c \in Conn, RLock(c)
  PROVE  LockInv'
<1> USE DEF RLock, Goto, looking, TypeOK, PlacesOK, LookupsOK
<1>1. LockHeld' /\ TargetsKnown' /\ Repaired'
  BY DEF LockInv, LockHeld, TargetsKnown, Repaired, Repairs, Looking
<1>2. ~overlapped' => ~overlapped /\ readers = {}
  BY Zenon
<1>3. Alone'
  BY <1>2 DEF Alone
<1>4. Rotating'
  <2> SUFFICES ASSUME ~overlapped'
               PROVE  /\ ~repeated' /\ alive' # "index"
                      /\ \A d \in Conn : InRound(d)'
                      /\ Settled'
    BY DEF Rotating
  <2>1. \A d \in Conn : hpc[d] \notin Looking
    BY <1>2 DEF LockInv, LockHeld
  <2>2. Settled /\ ~repeated /\ alive # "index"
    BY <1>2, <2>1 DEF LockInv, Rotating
  <2>3. \A d \in Conn : hpc'[d] \notin Looking \ {"len"}
    BY <2>1 DEF Looking
  <2> QED BY <2>2, <2>3 DEF Settled, Before, InRound, Looking
<1> QED BY <1>1, <1>3, <1>4 DEF LockInv

LEMMA NoTargetsStep ==
  ASSUME LockInv, TypeOK, NEW c \in Conn, NoTargets(c)
  PROVE  LockInv'
<1> USE DEF NoTargets, Goto, looking, rounds, TypeOK, PlacesOK, LookupsOK
<1>1. LockHeld' /\ TargetsKnown' /\ Repaired' /\ Alone'
  BY DEF LockInv, LockHeld, TargetsKnown, Repaired, Repairs, Alone, Looking
<1>2. Rotating'
  <2>1. \A d \in Conn : InRound(d) => InRound(d)'
    BY DEF InRound, Settled, Before
  <2>2. \A d \in Conn : hpc'[d] \notin Looking \ {"len"} => hpc[d] \notin Looking \ {"len"}
    BY DEF Looking
  <2>3. Settled' <=> Settled
    BY DEF Settled, Before
  <2> QED BY <2>1, <2>2, <2>3 DEF LockInv, Rotating
<1> QED BY <1>1, <1>2 DEF LockInv

\* What the four steps between have in common.
LEMMA WithinStep ==
  ASSUME LockInv, TypeOK, NEW c \in Conn, NEW here \in Looking, NEW there \in Looking \ {"len"},
         Goto(c, here, there), targets > 0, UNCHANGED <<targets, readers, overlapped>>
  PROVE  LockHeld' /\ TargetsKnown' /\ Alone'
BY DEF Goto, LockInv, LockHeld, TargetsKnown, Alone, TypeOK, PlacesOK

\* What remains to be shown of the rotation when it is c that looks.
LEMMA RotatingWith ==
  ASSUME LockInv, TypeOK, NEW c \in Conn, NEW here \in Looking, NEW there \in Looking \ {"len"},
         Goto(c, here, there), UNCHANGED <<overlapped, repeated, alive>>,
         ~overlapped => InRound(c)'
  PROVE  Rotating'
<1> SUFFICES ASSUME ~overlapped PROVE Rotating'
  BY DEF Rotating
<1>1. hpc[c] \in Looking /\ hpc'[c] \in Looking \ {"len"}
  BY DEF Goto, TypeOK, PlacesOK
<1>2. \A d \in Conn : d # c => hpc'[d] \notin Looking
  BY <1>1, NobodyElse DEF Goto, TypeOK, PlacesOK
<1>3. \A d \in Conn : InRound(d)'
  BY <1>2 DEF InRound, Looking
<1> QED BY <1>1, <1>3 DEF LockInv, Rotating

LEMMA LoadStep ==
  ASSUME LockInv, TypeOK, NEW c \in Conn, Load(c)
  PROVE  LockInv'
<1> USE DEF Load, looking, rounds
<1>1. "len" \in Looking /\ "store" \in Looking \ {"len"} /\ Goto(c, "len", "store") /\ hpc[c] = "len"
  BY DEF Looking, Goto
<1>2. LockHeld' /\ TargetsKnown' /\ Alone'
  BY <1>1, WithinStep
<1>3. Repaired'
  BY <1>1 DEF Goto, LockInv, Repaired, Repairs, TypeOK, PlacesOK, LookupsOK
<1>4. ASSUME ~overlapped PROVE InRound(c)'
  <2>1. \A d \in Conn : hpc[d] \notin Looking \ {"len"}
    BY <1>1, <1>4, NobodyElse DEF Looking
  <2>2. Settled'
    BY <1>4, <2>1 DEF LockInv, Rotating, Settled, Before
  <2>3. loaded'[c] = roundrobinIdx' /\ hpc'[c] = "store"
    BY <1>1 DEF Goto, TypeOK, LookupsOK, PlacesOK
  <2> QED BY <2>2, <2>3 DEF InRound
<1>5. Rotating'
  BY <1>1, <1>4, RotatingWith
<1> QED BY <1>2, <1>3, <1>5 DEF LockInv

LEMMA StoreStep ==
  ASSUME LockInv, TypeOK, NEW c \in Conn, Store(c)
  PROVE  LockInv'
<1> USE DEF Store, looking, rounds
<1>1. /\ "store" \in Looking /\ "compare" \in Looking \ {"len"}
      /\ Goto(c, "store", "compare") /\ hpc[c] = "store" /\ hpc'[c] = "compare"
  BY DEF Looking, Goto, TypeOK, PlacesOK
<1>2. targets > 0
  BY <1>1 DEF LockInv, TargetsKnown, Looking
<1>3. LockHeld' /\ TargetsKnown' /\ Alone'
  BY <1>1, <1>2, WithinStep
<1>4. Repairs(c)'
  BY <1>1 DEF Repairs
<1>5. ASSUME ~overlapped PROVE InRound(c)'
  <2>1. InRound(c)
    BY <1>5 DEF LockInv, Rotating
  <2>2. /\ roundrobinIdx \in -1..(targets - 1) /\ roundrobinIdx' = roundrobinIdx + 1
        /\ visited' = Before(roundrobinIdx')
    BY <1>1, <2>1 DEF InRound, Settled
  <2>3. targets \in Int
    BY DEF TypeOK, ListOK
  <2>4. loaded'[c] + 1 = roundrobinIdx' /\ roundrobinIdx' \in 0..targets'
    BY <2>2, <2>3
  <2>5. visited' = IF roundrobinIdx' = targets' THEN {} ELSE 0..(roundrobinIdx' - 1)
    BY <2>2 DEF Before
  <2> QED BY <1>1, <2>4, <2>5 DEF InRound, Before
<1>6. Rotating'
  BY <1>1, <1>5, RotatingWith
<1> QED BY <1>3, <1>4, <1>6 DEF LockInv, Repaired

\* The one that stored a value out of range reads no other than that.
LEMMA CompareStep ==
  ASSUME LockInv, TypeOK, NEW c \in Conn, Compare(c)
  PROVE  LockInv'
<1> USE DEF looking, rounds
<1>0. PICK v \in {loaded[c] + 1, roundrobinIdx} :
        Goto(c, "compare", IF v >= targets THEN "wrap" ELSE "index")
  BY DEF Compare
<1> DEFINE there == IF v >= targets THEN "wrap" ELSE "index"
<1>1. /\ "compare" \in Looking /\ there \in Looking \ {"len"}
      /\ Goto(c, "compare", there) /\ hpc[c] = "compare" /\ hpc'[c] = there
  BY <1>0 DEF Looking, Goto, TypeOK, PlacesOK
<1>2. targets > 0
  BY <1>1 DEF LockInv, TargetsKnown, Looking
<1>3. LockHeld' /\ TargetsKnown' /\ Alone'
  BY <1>1, <1>2, WithinStep DEF Compare
<1>4. Repaired'
  <2> SUFFICES ASSUME roundrobinIdx >= targets PROVE \E d \in Conn : Repairs(d)'
    BY DEF Repaired, Compare
  <2>1. PICK d \in Conn : Repairs(d)
    BY DEF LockInv, Repaired
  <2>2. CASE d = c
    <3>1. v = roundrobinIdx
      BY <1>0, <1>1, <2>1, <2>2 DEF Repairs
    <3> QED BY <1>1, <3>1 DEF Repairs
  <2>3. CASE d # c
    BY <1>1, <2>1, <2>3 DEF Repairs, Compare, Goto, TypeOK, PlacesOK, LookupsOK
  <2> QED BY <2>2, <2>3
<1>5. ASSUME ~overlapped PROVE InRound(c)'
  <2>1. /\ loaded[c] + 1 = roundrobinIdx /\ roundrobinIdx \in 0..targets
        /\ visited = Before(roundrobinIdx)
    BY <1>1, <1>5 DEF LockInv, Rotating, InRound
  <2>2. v = roundrobinIdx /\ targets \in Int
    BY <1>0, <2>1 DEF TypeOK, ListOK
  <2>3. UNCHANGED <<targets, roundrobinIdx, visited>>
    BY DEF Compare
  <2>4. CASE roundrobinIdx = targets
    BY <1>1, <2>1, <2>2, <2>3, <2>4 DEF InRound, Before
  <2>5. CASE roundrobinIdx \in 0..(targets - 1)
    <3>1. hpc'[c] = "index"
      BY <1>1, <2>2, <2>5
    <3> QED BY <2>1, <2>3, <2>5, <3>1 DEF InRound, Before
  <2> QED BY <2>1, <2>2, <2>4, <2>5
<1>6. Rotating'
  BY <1>1, <1>5, RotatingWith DEF Compare
<1> QED BY <1>3, <1>4, <1>6 DEF LockInv

LEMMA WrapStep ==
  ASSUME LockInv, TypeOK, NEW c \in Conn, Wrap(c)
  PROVE  LockInv'
<1> USE DEF Wrap, looking, rounds
<1>1. /\ "wrap" \in Looking /\ "index" \in Looking \ {"len"}
      /\ Goto(c, "wrap", "index") /\ hpc[c] = "wrap" /\ hpc'[c] = "index"
  BY DEF Looking, Goto, TypeOK, PlacesOK
<1>2. targets > 0 /\ targets \in Int
  BY <1>1 DEF LockInv, TargetsKnown, Looking, TypeOK, ListOK
<1>3. LockHeld' /\ TargetsKnown' /\ Alone'
  BY <1>1, <1>2, WithinStep
<1>4. Repaired'
  BY <1>2 DEF Repaired
<1>5. ASSUME ~overlapped PROVE InRound(c)'
  <2>1. visited = {}
    BY <1>1, <1>5 DEF LockInv, Rotating, InRound
  <2>2. roundrobinIdx' \in 0..(targets' - 1) /\ Before(roundrobinIdx)' = {}
    BY <1>2 DEF Before
  <2> QED BY <1>1, <2>1, <2>2 DEF InRound
<1>6. Rotating'
  BY <1>1, <1>5, RotatingWith
<1> QED BY <1>3, <1>4, <1>6 DEF LockInv

\* Positions 0..i fill the round when i is the last.
LEMMA RoundFills ==
  ASSUME NEW n \in Nat, NEW i \in 0..(n - 1)
  PROVE  /\ 0..(i - 1) \cup {i} = 0..i
         /\ Cardinality(0..i) = i + 1
<1>1. i \in Int /\ 0 \in Int /\ ~(0 > i)
  OBVIOUS
<1>2. Cardinality(0..i) = i - 0 + 1
  BY <1>1, FS_Interval
<1> QED BY <1>1, <1>2

LEMMA IndexStep ==
  ASSUME LockInv, TypeOK, NEW c \in Conn, Index(c)
  PROVE  LockInv'
<1>1. CASE roundrobinIdx \notin 0..(targets - 1)
  <2>1. hpc[c] = "index" /\ UNCHANGED <<lookedAt, hpc>>
    BY <1>1 DEF Index, lookedAt, shared
  <2>2. overlapped
    BY <1>1, <2>1 DEF LockInv, Rotating, InRound
  <2>3. LockHeld' /\ TargetsKnown' /\ Repaired' /\ Alone'
    BY <2>1 DEF lookedAt, rounds, LockInv, LockHeld, TargetsKnown, Repaired, Repairs, Alone
  <2>4. Rotating'
    BY <2>1, <2>2 DEF lookedAt, rounds, Rotating
  <2> QED BY <2>3, <2>4 DEF LockInv
<1>2. CASE roundrobinIdx \in 0..(targets - 1)
  <2>0. /\ Goto(c, "index", "dial") /\ readers' = readers \ {c}
        /\ UNCHANGED <<alive, targets, roundrobinIdx, loaded, overlapped>>
    BY <1>2, IndexVisits
  <2>1. hpc[c] = "index" /\ targets \in Nat /\ \A d \in Conn : hpc'[d] = IF d = c THEN "dial" ELSE hpc[d]
    BY <2>0 DEF Goto, TypeOK, PlacesOK, ListOK
  <2>2. LockHeld' /\ TargetsKnown' /\ Alone' /\ Repaired'
    BY <2>0, <2>1 DEF LockInv, LockHeld, TargetsKnown, Alone, Repaired, Repairs, Looking
  <2>3. Rotating'
    <3> SUFFICES ASSUME ~overlapped PROVE Rotating'
      BY <2>0 DEF Rotating
    <3>1. ~repeated /\ alive # "index" /\ visited = Before(roundrobinIdx)
      BY <2>1 DEF LockInv, Rotating, InRound
    <3>2. visited = 0..(roundrobinIdx - 1)
      BY <1>2, <2>1, <3>1 DEF Before
    <3>3. visited \cup {roundrobinIdx} = 0..roundrobinIdx
          /\ Cardinality(visited \cup {roundrobinIdx}) = roundrobinIdx + 1
      BY <1>2, <2>1, <3>2, RoundFills
    <3>4. ~repeated'
      <4>1. roundrobinIdx \notin visited
        BY <1>2, <2>1, <3>2
      <4>2. repeated' = (repeated \/ roundrobinIdx \in visited)
        BY <1>2, IndexVisits
      <4> QED BY <3>1, <4>1, <4>2, Zenon
    <3>5. visited' = Before(roundrobinIdx + 1)
      <4>1. CASE roundrobinIdx + 1 = targets
        BY <1>2, <3>3, <4>1, IndexVisits DEF Before
      <4>2. CASE roundrobinIdx + 1 # targets
        <5>1. visited' = 0..roundrobinIdx
          BY <1>2, <3>3, <4>2, IndexVisits
        <5>2. (roundrobinIdx + 1) - 1 = roundrobinIdx
          BY <1>2, <2>1
        <5> QED BY <4>2, <5>1, <5>2 DEF Before
      <4> QED BY <4>1, <4>2
    <3>6. Settled'
      BY <1>2, <2>0, <2>1, <3>5 DEF Settled, Before
    <3>7. \A d \in Conn : hpc'[d] \notin Looking
      BY <2>1, NobodyElse DEF Looking
    <3>8. \A d \in Conn : InRound(d)'
      BY <3>7 DEF InRound, Looking
    <3> QED BY <2>0, <3>1, <3>4, <3>6, <3>8 DEF Rotating
  <2> QED BY <2>2, <2>3 DEF LockInv
<1> QED BY <1>1, <1>2

LEMMA LockStep == LockInv /\ TypeOK /\ Next /\ ~Restart => LockInv'
  BY EventStep, UpdateStep, ListenerStep, ServeStep, RLockStep, NoTargetsStep, LoadStep,
     StoreStep, CompareStep, WrapStep, IndexStep DEF Next, Handle, Lookup, Copies

-----------------------------------------------------------------------------
(***************************************************************************)
(* The theorems.                                                           *)
(***************************************************************************)

LEMMA Inductive == IInv /\ [Next]_vars => IInv'
<1> SUFFICES ASSUME IInv, [Next]_vars PROVE IInv'
  OBVIOUS
<1>1. CASE Restart
  BY <1>1, RestartStep
<1>2. CASE Next /\ ~Restart
  BY <1>2, TypeStep, DrainedStep, LockStep DEF IInv, LockInv
<1>3. CASE UNCHANGED vars
  <2>1. TypeOK' /\ LoadedOK' /\ Counted' /\ Drained'
    BY <1>3 DEF vars, shared, updater, sockets, rounds, IInv, TypeOK, FlagsOK, ListOK, PlacesOK,
       LookupsOK, SocketsOK, LoadedOK, Counted, Drained, Using
  <2>2. LockInv'
    BY <1>3, OutsideStep DEF vars, shared, lookedAt, IInv, LockInv
  <2> QED BY <2>1, <2>2 DEF IInv, LockInv
<1> QED BY <1>1, <1>2, <1>3

LEMMA Invariance == Spec => []IInv
<1>1. Init => IInv
  BY Initially
<1>2. IInv /\ [Next]_vars => IInv'
  BY Inductive
<1> QED BY <1>1, <1>2, PTL DEF Spec

\* The variables of Proxy keep their types; the WaitGroup's counter, above
\* all, is never decremented below zero, which would be a panic.
THEOREM TypeCorrect == Spec => []TypeOK
<1>1. IInv => TypeOK
  BY DEF IInv
<1> QED BY <1>1, Invariance, PTL

\* As long as no two lookups of a list overlapped, each target gets a
\* connection before any gets a second, and no lookup leaves the list.
THEOREM RotationIsFair == Spec => []RoundRobin
<1>1. IInv => RoundRobin
  BY DEF IInv, Rotating, RoundRobin
<1> QED BY <1>1, Invariance, PTL

\* Whatever lookups overlapped, when none is left the index is in range.
THEOREM IndexIsRepaired == Spec => []IndexSettles
<1>1. IInv => IndexSettles
  <2> SUFFICES ASSUME IInv, readers = {} PROVE roundrobinIdx \in -1..(targets - 1)
    BY DEF IndexSettles
  <2>1. \A c \in Conn : ~Repairs(c)
    BY DEF IInv, LockHeld, Looking, Repairs
  <2>2. ~(roundrobinIdx >= targets)
    BY <2>1 DEF IInv, Repaired
  <2> QED BY <2>2 DEF IInv, TypeOK, ListOK
<1> QED BY <1>1, Invariance, PTL

\* The port is listened on anew only when no connection is left.
THEOREM ListensWhenDrained == Spec => []Drained
<1>1. IInv => Drained
  BY DEF IInv
<1> QED BY <1>1, Invariance, PTL

-----------------------------------------------------------------------------
(***************************************************************************)
(* The two ends of a connection.  What follows is the part of PipeEnds     *)
(* that is not liveness: what a broker that pipe still waits for can be    *)
(* waiting for itself.                                                     *)
(***************************************************************************)

\* What lets a broker end: that its Read fails, or its Write if it is in one.
Ending(b, c) == IF b \in writing[c] THEN Sink(b, c) # "open" ELSE Source(b, c) # "open"

\* When pipe waits, every broker it waits for can end, but for one that is in a Write to
\* a peer that is there.  It never waits for a peer to send or to close, whichever
\* broker ended first and whoever went meanwhile.  (mysql_proxy.go:154-162)
WaitsForWrite ==
  \A c \in Conn : hpc[c] = "wait" =>
    \A b \in {"up", "down"} \ ended[c] : Ending(b, c) \/ Blocked(b, c)

\* And that is one Write at most: while pipe waits, no broker begins another.
LastWrite ==
  [][\A c \in Conn : hpc[c] = "wait" => writing'[c] \subseteq writing[c]]_vars

\* A connection is given up only when one of its ends has gone: as long as both are
\* open no broker ends.
EndsForCause ==
  \A c \in Conn : ended[c] # {} => client[c] # "open" \/ server[c] # "open"

\* Nothing of a connection is left when its goroutine has returned: no socket, and no
\* broker that still writes to one.
NothingOpen ==
  \A c \in Conn : hpc[c] = "free" =>
    client[c] = "none" /\ server[c] = "none" /\ ended[c] = {} /\ writing[c] = {}

\* (Brokers run in pipe only, so those of the last connection have ended.)
NotPiping ==
  \A c \in Conn :
    /\ writing[c] \cap ended[c] = {}
    /\ hpc[c] \notin {"pipe", "wait", "end"} => ended[c] = {}
    /\ hpc[c] \notin {"pipe", "wait"} => writing[c] = {}

\* (pipe has closed what the broker it waits for reads from.)
SourceLost ==
  \A c \in Conn : hpc[c] = "wait" =>
    \A b \in {"up", "down"} \ ended[c] : Source(b, c) # "open"

PipeInv == SourceLost /\ EndsForCause /\ NothingOpen /\ NotPiping

LEMMA PipeBegins == (Init => PipeInv) /\ (Restart => PipeInv')
BY DEF Init, Restart, PipeInv, SourceLost, EndsForCause, NothingOpen, NotPiping

\* A step of the goroutines of one connection leaves the sockets of others alone.
LEMMA PipeStep ==
  ASSUME TypeOK, PipeInv, Next, ~Restart
  PROVE  PipeInv'
<1> USE DEF PipeInv, SourceLost, EndsForCause, NothingOpen, NotPiping, Source
<1>0. SocketsOK /\ PlacesOK
  BY DEF TypeOK
<1> USE <1>0 DEF SocketsOK, Socket, PlacesOK
<1>1. CASE Event \/ Update \/ Listen \/ CheckTargets \/ AcceptError \/ Drain \/ Close
  BY <1>1 DEF Event, Update, Listen, CheckTargets, AcceptError, Drain, Close, listening, sockets
<1>2. ASSUME NEW c \in Conn, Accept(c)
      PROVE  PipeInv'
  BY <1>2 DEF Accept
<1>3. ASSUME NEW c \in Conn, PeerCloses(c)
      PROVE  PipeInv'
  BY <1>3 DEF PeerCloses
<1>4. ASSUME NEW c \in Conn, NEW b \in {"up", "down"}, Broker(b, c)
      PROVE  PipeInv'
  BY <1>4 DEF Broker, ReadFails, WriteFails, BrokerEnds, Copying, Sink
<1>10. ASSUME NEW c \in Conn, NEW b \in {"up", "down"}, Read(b, c) \/ Write(b, c)
      PROVE  PipeInv'
  BY <1>10 DEF Read, Write, Copying
<1>5. ASSUME NEW c \in Conn, Lookup(c)
      PROVE  PipeInv'
  <2>1. /\ UNCHANGED <<client, server, ended, writing>>
        /\ \A d \in Conn : hpc'[d] # hpc[d] =>
             hpc[d] \notin {"free", "pipe", "wait", "end"} /\ hpc'[d] \notin {"free", "pipe", "wait"}
    BY <1>5 DEF Lookup, RLock, NoTargets, Load, Store, Compare, Wrap, Index, Goto, looking, sockets
  <2> QED BY <2>1
<1>6. ASSUME NEW c \in Conn, Dial(c)
      PROVE  PipeInv'
  BY <1>6 DEF Dial, Goto
<1>7. ASSUME NEW c \in Conn, CloseOther(c)
      PROVE  PipeInv'
  BY <1>7 DEF CloseOther, Goto
<1>8. ASSUME NEW c \in Conn, BothEnded(c)
      PROVE  PipeInv'
  BY <1>8 DEF BothEnded, Goto, sockets
<1>9. ASSUME NEW c \in Conn, Return(c)
      PROVE  PipeInv'
  BY <1>9 DEF Return, Goto
<1> QED BY <1>1, <1>2, <1>3, <1>4, <1>5, <1>6, <1>7, <1>8, <1>9, <1>10 DEF Next, Handle, Serve, Peer, Listener

\* While pipe waits, the source of the broker it waits for stays lost.
LEMMA NoOtherWrite ==
  ASSUME TypeOK, PipeInv, Next, NEW c \in Conn, hpc[c] = "wait"
  PROVE  writing'[c] \subseteq writing[c]
<1>0. writing \in [Conn -> SUBSET {"up", "down"}]
  BY DEF TypeOK, SocketsOK
<1>1. CASE writing' = writing
  BY <1>1
<1>2. CASE Restart
  BY <1>2 DEF Restart
<1>3. ASSUME NEW d \in Conn, NEW b \in {"up", "down"}, Broker(b, d) \/ Read(b, d) \/ Write(b, d)
      PROVE  writing'[c] \subseteq writing[c]
  <2>1. Read(b, d) => d # c
    BY DEF Read, Copying, PipeInv, SourceLost
  <2> QED BY <1>0, <1>3, <2>1 DEF Broker, ReadFails, WriteFails, BrokerEnds, Read, Write
<1>4. ASSUME NEW d \in Conn, Lookup(d)
      PROVE  writing' = writing
  BY <1>4 DEF Lookup, RLock, NoTargets, Load, Store, Compare, Wrap, Index, looking, sockets
<1>5. ASSUME NEW d \in Conn, Serve(d) \/ PeerCloses(d)
      PROVE  writing' = writing
  BY <1>5 DEF Serve, Dial, CloseOther, BothEnded, Return, PeerCloses, sockets
<1>6. CASE Event \/ Update \/ Listener
  BY <1>1, <1>6 DEF Event, Update, Listener, Listen, CheckTargets, Accept, AcceptError, Drain, Close,
     sockets
<1> QED BY <1>1, <1>2, <1>3, <1>4, <1>5, <1>6 DEF Next, Handle, Peer

\* When an end of a connection has gone, pipe is held up by one Write at most, to a peer
\* that is there and does not read; it waits for nothing else, cuts no connection whose
\* ends are both there, and leaves neither a socket nor a Write behind: for any number
\* of connections, in any order of closings, reads, writes and restarts.
THEOREM PipesComplete == Spec => [](WaitsForWrite /\ EndsForCause /\ NothingOpen) /\ LastWrite
<1> DEFINE Last == \A c \in Conn : hpc[c] = "wait" => writing'[c] \subseteq writing[c]
<1>1. Init => PipeInv
  BY PipeBegins
<1>2. TypeOK /\ PipeInv /\ [Next]_vars => PipeInv'
  <2> SUFFICES ASSUME TypeOK, PipeInv, [Next]_vars PROVE PipeInv'
    OBVIOUS
  <2>1. CASE Restart
    BY <2>1, PipeBegins
  <2>2. CASE Next /\ ~Restart
    BY <2>2, PipeStep
  <2>3. CASE UNCHANGED vars
    BY <2>3 DEF vars, sockets, PipeInv, SourceLost, EndsForCause, NothingOpen, NotPiping, Source
  <2> QED BY <2>1, <2>2, <2>3
<1>3. PipeInv => WaitsForWrite /\ EndsForCause /\ NothingOpen
  BY DEF PipeInv, SourceLost, WaitsForWrite, Ending, Blocked
<1>4. TypeOK /\ PipeInv /\ [Next]_vars => [Last]_vars
  BY NoOtherWrite
<1> QED BY <1>1, <1>2, <1>3, <1>4, TypeCorrect, PTL DEF Spec, LastWrite

-----------------------------------------------------------------------------
(***************************************************************************)
(* The list that waits for the write lock.  What follows is the part of    *)
(* UpdateStored that is not liveness.                                      *)
(***************************************************************************)

\* The steps a lookup has ahead of it, at most, before it gives up the read lock.
Ahead(c) ==
  IF hpc[c] = "len" THEN 5
  ELSE IF hpc[c] = "store" THEN 4
  ELSE IF hpc[c] = "compare" THEN 3
  ELSE IF hpc[c] = "wrap" THEN 2
  ELSE IF hpc[c] = "index" THEN 1
  ELSE 0

\* While a list waits nobody overtakes it: those who hold the lock are finitely many,
\* no lookup joins them, and each of their steps, but for one that ends the process,
\* brings its lookup nearer to the end.  (mysql_proxy.go:62-65, 119-132)
FewReaders  == IsFiniteSet(readers)
UpdateNears ==
  [][upc = "lock" /\ upc' = "lock" =>
       /\ readers' \subseteq readers
       /\ \A c \in Conn : Ahead(c)' <= Ahead(c)
       /\ \A c \in Conn : Lookup(c) => Ahead(c)' < Ahead(c) \/ alive' # "up"]_vars

\* A step of a lookup that has the lock.
LEMMA LookupNears ==
  ASSUME TypeOK, LockHeld, NEW c \in Conn, Lookup(c), upc = "lock"
  PROVE  /\ readers' \subseteq readers
         /\ \A d \in Conn \ {c} : hpc'[d] = hpc[d]
         /\ Ahead(c)' <= Ahead(c)
         /\ Ahead(c)' < Ahead(c) \/ alive' # "up"
<1>0. hpc \in [Conn -> {"free", "rlock", "len", "store", "compare", "wrap", "index",
                       "dial", "pipe", "wait", "end"}]
  BY DEF TypeOK, PlacesOK
<1>1. CASE NoTargets(c) \/ Load(c) \/ Store(c) \/ Compare(c) \/ Wrap(c)
  BY <1>0, <1>1 DEF NoTargets, Load, Store, Compare, Wrap, Goto, Ahead
<1>2. CASE Index(c)
  BY <1>0, <1>2 DEF Index, Goto, Ahead
<1>3. ~RLock(c)
  BY DEF RLock
<1> QED BY <1>1, <1>2, <1>3 DEF Lookup

LEMMA NearsStep ==
  ASSUME IInv, Next, upc = "lock", upc' = "lock"
  PROVE  /\ readers' \subseteq readers
         /\ \A c \in Conn : Ahead(c)' <= Ahead(c)
         /\ \A c \in Conn : Lookup(c) => Ahead(c)' < Ahead(c) \/ alive' # "up"
<1>0. /\ hpc \in [Conn -> {"free", "rlock", "len", "store", "compare", "wrap", "index",
                          "dial", "pipe", "wait", "end"}]
      /\ TypeOK /\ LockHeld
  BY DEF IInv, TypeOK, PlacesOK
<1>1. \A c \in Conn : Lookup(c) => Ahead(c)' < Ahead(c) \/ alive' # "up"
  <2> SUFFICES ASSUME NEW c \in Conn, Lookup(c) PROVE Ahead(c)' < Ahead(c) \/ alive' # "up"
    OBVIOUS
  <2> QED BY <1>0, LookupNears
<1>2. CASE \E c \in Conn : Lookup(c)
  <2>1. PICK c \in Conn : Lookup(c)
    BY <1>2
  <2>2. \A d \in Conn \ {c} : Ahead(d)' <= Ahead(d)
    <3> SUFFICES ASSUME NEW d \in Conn \ {c} PROVE Ahead(d)' <= Ahead(d)
      OBVIOUS
    <3>1. hpc'[d] = hpc[d]
      BY <1>0, <2>1, LookupNears
    <3> QED BY <3>1 DEF Ahead
  <2>3. readers' \subseteq readers /\ Ahead(c)' <= Ahead(c)
    BY <1>0, <2>1, LookupNears
  <2> QED BY <1>1, <2>2, <2>3
<1>3. CASE Event \/ Update \/ Listener \/ Restart \/ (\E c \in Conn : Copies(c) \/ Serve(c))
  <2>1. /\ readers' = readers
        /\ \A d \in Conn : hpc'[d] = hpc[d] \/ (hpc[d] \notin Looking /\ hpc'[d] \notin Looking)
    BY <1>0, <1>3, CopiesOnly DEF Event, Update, Listener, Listen, CheckTargets, Accept, AcceptError,
       Drain, Close, Restart, Serve, Dial, CloseOther, BothEnded, Return, Goto, listening, piping, Looking
  <2>2. ASSUME NEW d \in Conn PROVE Ahead(d)' <= Ahead(d)
    <3>1. CASE hpc'[d] = hpc[d]
      BY <3>1 DEF Ahead
    <3>2. CASE hpc[d] \notin Looking /\ hpc'[d] \notin Looking
      BY <3>2 DEF Ahead, Looking
    <3> QED BY <2>1, <3>1, <3>2
  <2> QED BY <1>1, <2>1, <2>2
<1> QED BY <1>2, <1>3 DEF Next, Handle, Copies

\* A list that has arrived is at a bounded distance from being stored, five steps for
\* each of the lookups under way when it came, and no new client adds to it: for any
\* number of connections and any length of the lists.
THEOREM UpdateNotOvertaken == Spec => []FewReaders /\ UpdateNears
<1> DEFINE Nears == upc = "lock" /\ upc' = "lock" =>
                      /\ readers' \subseteq readers
                      /\ \A c \in Conn : Ahead(c)' <= Ahead(c)
                      /\ \A c \in Conn : Lookup(c) => Ahead(c)' < Ahead(c) \/ alive' # "up"
<1>1. IInv => FewReaders
  <2> SUFFICES ASSUME IInv PROVE FewReaders
    OBVIOUS
  <2>1. readers \subseteq Using /\ IsFiniteSet(Using)
    BY DEF IInv, LockHeld, Looking, Using, Counted
  <2> QED BY <2>1, FS_Subset DEF FewReaders
<1>2. IInv /\ [Next]_vars => [Nears]_vars
  BY NearsStep
<1> QED BY <1>1, <1>2, Invariance, PTL DEF Spec, UpdateNears
=============================================================================
