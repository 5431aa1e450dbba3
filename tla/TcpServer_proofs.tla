-------------------------- MODULE TcpServer_proofs --------------------------
(***************************************************************************)
(* Proofs about TcpServer, for any number of io loops and connections.     *)
(* Its types, the order in which connections are dealt and the lifecycle   *)
(* of a connection hold whatever any number of users' threads call.        *)
(*                                                                         *)
(* What a loop still has to run is kept abstract: In says which functors,  *)
(* EstablishedFirst and Late the only things their order is needed for.    *)
(* The lemmas on queues say how a step changes the three; the lemmas on    *)
(* actions use nothing else of queues.                                     *)
(***************************************************************************)
EXTENDS TcpServer, FiniteSetTheorems, FunctionTheorems, TLAPS

----------------------------------------------------------------------------
(* Types, and who is mentioned.  Nothing speaks of a connection before it  *)
(* is accepted.                                                            *)

KnownOK ==
  /\ \A l \in Loops :
       /\ \A i \in 1 .. Len(pending[l]) : state[pending[l][i].conn] # "none"
       /\ \A i \in 1 .. Len(batch[l]) : state[batch[l][i].conn] # "none"
       /\ \A c \in active[l] \ {Acceptor} : state[c] # "none"
  /\ \A c \in Conns : c \in connections \/ c \in userRefs \/ chan[c] # "new" => state[c] # "none"
  /\ \A u \in Users : userCall[u] # Idle => state[userCall[u].conn] # "none"

TInv == TypeOK /\ KnownOK

LEMMA QueuedTyped ==
  ASSUME TypeOK, NEW l \in Loops
  PROVE  /\ \A i \in 1 .. Len(pending[l]) : pending[l][i] \in Functor /\ pending[l][i].conn \in Conns
         /\ \A i \in 1 .. Len(batch[l]) : batch[l][i] \in Functor /\ batch[l][i].conn \in Conns
<1>1. pending[l] \in Seq(Functor) /\ batch[l] \in Seq(Functor)
  BY DEF TypeOK
<1>2. \A f \in Functor : f.conn \in Conns
  BY DEF Functor
<1> QED
  BY <1>1, <1>2

(* A step that touches the connection c alone, which is accepted by then.  *)
Touches(c) ==
  /\ state' \in [Conns -> ConnState] /\ chan' \in [Conns -> ChanState]
  /\ ups' \in [Conns -> Nat] /\ downs' \in [Conns -> Nat]
  /\ state'[c] # "none" /\ \A d \in Conns : d # c => state'[d] = state[d] /\ chan'[d] = chan[d]
  /\ resumed' \subseteq resumed \cup {c} /\ userRefs' \subseteq userRefs \cup {c}
  /\ userCall' = userCall \/ \E u \in Users : userCall' = [userCall EXCEPT ![u] = Idle]
  /\ connections' \subseteq connections \cup {c}
  /\ \/ pending' = pending
     \/ \E k \in Loops, op \in Owning \cup Bare : Push(k, op, c)

LEMMA TouchesInv ==
  ASSUME TInv, NEW c \in Conns, Touches(c), UNCHANGED <<phase, quit, batch>>,
         ranTo' \in [Loops -> Nat], \A l \in Loops : ranTo'[l] <= Len(batch[l]),
         active' \in [Loops -> SUBSET (Conns \cup {Acceptor})],
         \A l \in Loops : active'[l] \subseteq active[l],
         ioLoop' \in [Conns -> Loops], server' \in {"up", "destroying", "destroyed"},
         next' \in 1..(IF IoSeq = <<>> THEN 1 ELSE Len(IoSeq))
  PROVE  TInv'
<1>1. TypeOK /\ KnownOK /\ (\A d \in Conns : state[d] # "none" => state'[d] # "none") /\ state'[c] # "none"
  BY DEF TInv, Touches
<1>2. /\ pending' \in [Loops -> Seq(Functor)]
      /\ \A l \in Loops : \A i \in 1 .. Len(pending'[l]) : state'[pending'[l][i].conn] # "none"
  <2>1. CASE pending' = pending
    BY <1>1, <2>1, QueuedTyped DEF TypeOK, KnownOK
  <2>2. ASSUME NEW k \in Loops, NEW op \in Owning \cup Bare, Push(k, op, c)
        PROVE  /\ pending' \in [Loops -> Seq(Functor)]
               /\ \A l \in Loops : \A i \in 1 .. Len(pending'[l]) : state'[pending'[l][i].conn] # "none"
    <3> DEFINE g == [op |-> op, conn |-> c]
    <3>1. g \in Functor /\ g.conn = c
      BY DEF Functor
    <3>2. pending' = [pending EXCEPT ![k] = Append(@, g)]
      BY <2>2 DEF Push
    <3> HIDE DEF g
    <3>3. /\ pending' \in [Loops -> Seq(Functor)] /\ pending'[k] = Append(pending[k], g)
          /\ \A l \in Loops : l # k => pending'[l] = pending[l]
          /\ \A l \in Loops : pending[l] \in Seq(Functor)
      <4>1. pending \in [Loops -> Seq(Functor)]
        BY <1>1 DEF TypeOK
      <4> QED
        BY <4>1, <3>1, <3>2
    <3>4. \A l \in Loops : \A i \in 1 .. Len(pending[l]) : state'[pending[l][i].conn] # "none"
      BY <1>1, <3>3, QueuedTyped DEF KnownOK
    <3>5. \A i \in 1 .. Len(pending'[k]) : state'[pending'[k][i].conn] # "none"
      <4> SUFFICES ASSUME NEW i \in 1 .. Len(Append(pending[k], g))
                   PROVE  state'[Append(pending[k], g)[i].conn] # "none"
        BY <3>3
      <4>1. CASE i \in 1 .. Len(pending[k])
        <5>1. Append(pending[k], g)[i] = pending[k][i]
          BY <4>1, <3>3
        <5> QED
          BY <5>1, <4>1, <3>4
      <4>2. CASE i \notin 1 .. Len(pending[k])
        <5>1. Append(pending[k], g)[i] = g
          BY <4>2, <3>1, <3>3
        <5> QED
          BY <5>1, <3>1, <1>1
      <4> QED
        BY <4>1, <4>2
    <3>6. ASSUME NEW l \in Loops, l # k
          PROVE  \A i \in 1 .. Len(pending'[l]) : state'[pending'[l][i].conn] # "none"
      <4>1. pending'[l] = pending[l]
        BY <3>3, <3>6
      <4> QED
        BY <4>1, <3>4
    <3> QED
      BY <3>3, <3>5, <3>6
  <2> QED
    BY <2>1, <2>2 DEF Touches
<1>3. TypeOK'
  BY <1>1, <1>2 DEF TypeOK, Touches
<1>4. KnownOK'
  <2>1. \A l \in Loops : \A i \in 1 .. Len(batch'[l]) : state'[batch'[l][i].conn] # "none"
    BY <1>1, QueuedTyped DEF KnownOK
  <2>2. \A l \in Loops : \A d \in active'[l] \ {Acceptor} : state'[d] # "none"
    BY <1>1 DEF TypeOK, KnownOK
  <2>3. \A d \in Conns : d \in connections' \/ d \in userRefs' \/ chan'[d] # "new" => state'[d] # "none"
    BY <1>1 DEF KnownOK, Touches
  <2>4. \A u \in Users : userCall'[u] # Idle => state'[userCall'[u].conn] # "none"
    <3>1. \A u \in Users : userCall'[u] = userCall[u] \/ userCall'[u] = Idle
      BY <1>1 DEF TypeOK, Touches
    <3>2. \A u \in Users : userCall[u] # Idle => userCall[u].conn \in Conns
      BY <1>1 DEF TypeOK, Call
    <3> QED
      BY <3>1, <3>2, <1>1 DEF KnownOK
  <2> QED
    BY <1>2, <2>1, <2>2, <2>3, <2>4 DEF KnownOK
<1> QED
  BY <1>3, <1>4 DEF TInv

(* A step that touches no connection.                                      *)
LEMMA TouchesNone ==
  ASSUME TInv, UNCHANGED <<connVars, connections>>, TypeOK',
         \A l \in Loops : \/ pending'[l] = pending[l] /\ batch'[l] = batch[l]
                          \/ pending'[l] = <<>> /\ batch'[l] \in {batch[l], pending[l], <<>>}
                          \/ pending'[l] = pending[l] /\ batch'[l] = <<>>,
         \A l \in Loops : \A c \in active'[l] \ {Acceptor} : c \in active[l] \/ chan[c] # "new",
         userRefs' \subseteq userRefs,
         \A u \in Users : userCall'[u].conn \in userRefs \/ userCall'[u] = userCall[u]
  PROVE  TInv'
<1>1. TypeOK /\ KnownOK /\ state' = state /\ chan' = chan
  BY DEF TInv, connVars, history
<1>2. \A l \in Loops : /\ \A i \in 1 .. Len(pending'[l]) : state[pending'[l][i].conn] # "none"
                       /\ \A i \in 1 .. Len(batch'[l]) : state[batch'[l][i].conn] # "none"
  BY <1>1 DEF KnownOK
<1>3. \A l \in Loops : \A d \in active'[l] \ {Acceptor} : state[d] # "none"
  BY <1>1 DEF KnownOK, TypeOK
<1>4. \A u \in Users : userCall'[u] # Idle => state[userCall'[u].conn] # "none"
  BY <1>1 DEF KnownOK, TypeOK
<1> QED
  BY <1>1, <1>2, <1>3, <1>4 DEF TInv, KnownOK

LEMMA CallbackKnown ==
  ASSUME TypeOK, NEW c \in Conns, NEW s \in ConnState \ {"none"}, UserCallback(c, s)
  PROVE  /\ state' \in [Conns -> ConnState] /\ state'[c] # "none"
         /\ \A d \in Conns : d # c => state'[d] = state[d]
         /\ userRefs' \subseteq userRefs \cup {c}
BY DEF TypeOK, UserCallback, SetState, ConnState

(* connectEstablished, handleClose and connectDestroyed.                   *)
LEMMA HandlersTouch ==
  ASSUME TypeOK, NEW c \in Conns, state[c] # "none",
         ConnectEstablished(c) \/ ConnectDestroyed(c) \/ (DisableAll(c) /\ ReportClosed(c) /\ UNCHANGED <<ups, resumed>>)
  PROVE  /\ state' \in [Conns -> ConnState] /\ chan' \in [Conns -> ChanState]
         /\ ups' \in [Conns -> Nat] /\ downs' \in [Conns -> Nat]
         /\ state'[c] # "none" /\ \A d \in Conns : d # c => state'[d] = state[d] /\ chan'[d] = chan[d]
         /\ userRefs' \subseteq userRefs \cup {c} /\ resumed' = resumed
<1>1. /\ chan' \in [Conns -> ChanState] /\ \A d \in Conns : d # c => chan'[d] = chan[d]
  BY DEF ConnectEstablished, ConnectDestroyed, EnableReading, Remove, DisableAll, TypeOK, ChanState
<1>2. ups' \in [Conns -> Nat] /\ downs' \in [Conns -> Nat]
  <2>1. ups' = ups \/ ups' = [ups EXCEPT ![c] = @ + 1]
    BY DEF ConnectEstablished, ConnectDestroyed
  <2>2. downs' = downs \/ downs' = [downs EXCEPT ![c] = @ + 1]
    BY DEF ConnectEstablished, ConnectDestroyed, ReportClosed
  <2>3. ups \in [Conns -> Nat] /\ downs \in [Conns -> Nat]
    BY DEF TypeOK
  <2>4. ups' \in [Conns -> Nat]
    BY <2>1, <2>3
  <2>5. downs' \in [Conns -> Nat]
    BY <2>2, <2>3
  <2> QED
    BY <2>4, <2>5
<1>3. \/ UserCallback(c, "kConnected") \/ UserCallback(c, "kDisconnected")
      \/ UNCHANGED <<state, userRefs>>
  BY DEF ConnectEstablished, ConnectDestroyed, ReportClosed
<1>4. /\ state' \in [Conns -> ConnState] /\ state'[c] # "none"
      /\ \A d \in Conns : d # c => state'[d] = state[d]
      /\ userRefs' \subseteq userRefs \cup {c}
  <2>1. "kConnected" \in ConnState \ {"none"} /\ "kDisconnected" \in ConnState \ {"none"}
    BY DEF ConnState
  <2>2. CASE UNCHANGED <<state, userRefs>>
    BY <2>2 DEF TypeOK
  <2> QED
    BY <1>3, <2>1, <2>2, CallbackKnown
<1>5. resumed' = resumed
  BY DEF ConnectEstablished, ConnectDestroyed
<1> QED
  BY <1>1, <1>2, <1>4, <1>5

----------------------------------------------------------------------------
(* Which steps accept a connection.                                        *)

AllKnownStay == /\ \A d \in Conns : state'[d] = "none" <=> state[d] = "none"
                /\ UNCHANGED <<ioLoop, next>>

Deals(c) == /\ state[c] = "none" /\ state'[c] # "none"
            /\ \A d \in Conns : d # c => state'[d] = state[d]
            /\ ioLoop' = [ioLoop EXCEPT ![c] = NextLoop]
            /\ Advance

LEMMA HandleEventKnown ==
  ASSUME TInv, NEW l \in Loops, NEW c \in Conns, HandleEvent(l, c)
  PROVE  TInv' /\ AllKnownStay
<1> USE DEF HandleEvent
<1>1. /\ TypeOK /\ KnownOK /\ state[c] # "none"
      /\ active' \in [Loops -> SUBSET (Conns \cup {Acceptor})]
      /\ \A k \in Loops : active'[k] \subseteq active[k]
      /\ ranTo' \in [Loops -> Nat] /\ \A k \in Loops : ranTo'[k] <= Len(batch[k])
      /\ UNCHANGED <<phase, quit, batch>>
  BY AcceptorAssumption DEF TInv, TypeOK, KnownOK
<1>2. CASE HandleClose(l, c)
  <2>1. /\ DisableAll(c) /\ ReportClosed(c) /\ UNCHANGED <<ups, resumed, userCall>>
        /\ ioLoop' = ioLoop /\ next' = next /\ server' = server
        /\ connections' \subseteq connections
        /\ \E k \in Loops, op \in Owning \cup Bare : Push(k, op, c)
    <3>1. Base \in Loops /\ ioLoop[c] \in Loops /\ {"destroyed", "remove"} \subseteq Owning
      BY <1>1 DEF TypeOK, Loops, Owning
    <3> QED
      BY <1>2, <3>1 DEF HandleClose, RemoveConnection, RemoveConnectionInLoop, serverVars
  <2>2. Touches(c)
    BY <1>1, <2>1, HandlersTouch DEF Touches
  <2> QED
    BY <1>1, <2>1, <2>2, TouchesInv DEF AllKnownStay, Touches, TypeOK
<1>3. CASE HandleMessage(c)
  <2>1. state[c] \in ConnState \ {"none"} /\ UserCallback(c, state[c])
        /\ UNCHANGED <<chan, ups, downs, resumed, serverVars, pending, userCall>>
    BY <1>1, <1>3 DEF HandleMessage, TypeOK, history
  <2>2. Touches(c)
    <3>1. UNCHANGED <<chan, ups, downs, resumed, connections, pending, userCall>>
      BY <2>1 DEF serverVars
    <3> QED
      BY <1>1, <2>1, <3>1, CallbackKnown DEF Touches, TypeOK
  <2> QED
    BY <1>1, <2>1, <2>2, TouchesInv DEF AllKnownStay, Touches, TypeOK, serverVars
<1>4. CASE UNCHANGED <<connVars, serverVars, pending, userVars>>
  <2>1. TypeOK'
    BY <1>1, <1>4 DEF TypeOK, connVars, history, serverVars, userVars
  <2> QED
    BY <1>1, <1>4, <2>1, TouchesNone DEF AllKnownStay, connVars, history, serverVars, userVars
<1> QED
  BY <1>2, <1>3, <1>4

LEMMA AcceptKnown ==
  ASSUME TInv, Accept
  PROVE  TInv' /\ (AllKnownStay \/ \E c \in Conns : Deals(c))
<1> USE DEF Accept
<1>1. /\ TypeOK /\ KnownOK
      /\ active' \in [Loops -> SUBSET (Conns \cup {Acceptor})]
      /\ \A k \in Loops : active'[k] \subseteq active[k]
      /\ ranTo' \in [Loops -> Nat] /\ \A k \in Loops : ranTo'[k] <= Len(batch[k])
      /\ UNCHANGED <<phase, quit, batch>>
  BY DEF TInv, TypeOK
<1>2. ASSUME NEW c \in Conns, NewConnection(c) PROVE TInv' /\ Deals(c)
  <2>1. NextLoop \in Loops /\ next' \in 1..(IF IoSeq = <<>> THEN 1 ELSE Len(IoSeq))
    <3>1. next' \in 1..(IF IoSeq = <<>> THEN 1 ELSE Len(IoSeq))
      BY <1>1, <1>2, LoopAssumption DEF NewConnection, Advance, TypeOK
    <3>2. NextLoop \in Loops
      BY <1>1, LoopAssumption DEF NextLoop, Loops, IoLoops, TypeOK
    <3> QED
      BY <3>1, <3>2
  <2>2. /\ ioLoop' = [ioLoop EXCEPT ![c] = NextLoop] /\ Advance /\ state[c] = "none"
        /\ connections' = connections \cup {c} /\ server' = server
    BY <1>2 DEF NewConnection
  <2>3. ASSUME NextLoop = Base PROVE Touches(c)
    <3>1. /\ EnableReading(c) /\ ups' = [ups EXCEPT ![c] = @ + 1] /\ UserCallback(c, "kConnected")
          /\ UNCHANGED <<downs, resumed, pending, userCall>>
      BY <1>2, <2>3 DEF NewConnection, ConnectEstablished
    <3>2. "kConnected" \in ConnState \ {"none"}
      BY DEF ConnState
    <3>3. /\ chan' \in [Conns -> ChanState] /\ \A d \in Conns : d # c => chan'[d] = chan[d]
          /\ ups' \in [Conns -> Nat] /\ downs' \in [Conns -> Nat]
      BY <1>1, <3>1 DEF EnableReading, TypeOK, ChanState
    <3> QED
      BY <1>1, <2>2, <3>1, <3>2, <3>3, CallbackKnown DEF Touches
  <2>4. ASSUME NextLoop # Base PROVE Touches(c)
    <3>1. /\ state' = [state EXCEPT ![c] = "kConnecting"] /\ Push(NextLoop, "established", c)
          /\ UNCHANGED <<chan, ups, downs, resumed, userRefs, userCall>>
      BY <1>2, <2>4 DEF NewConnection, SetState, userVars, history
    <3>2. /\ state' \in [Conns -> ConnState] /\ state'[c] # "none"
          /\ \A d \in Conns : d # c => state'[d] = state[d]
      BY <1>1, <3>1 DEF TypeOK, ConnState
    <3>3. \E k \in Loops, op \in Owning \cup Bare : Push(k, op, c)
      BY <2>1, <3>1 DEF Owning
    <3> QED
      BY <1>1, <2>2, <3>1, <3>2, <3>3 DEF Touches, TypeOK
  <2>5. Touches(c)
    BY <2>3, <2>4
  <2>6. ioLoop' \in [Conns -> Loops]
    BY <1>1, <2>1, <2>2 DEF TypeOK
  <2>7. TInv'
    BY <1>1, <2>1, <2>2, <2>5, <2>6, TouchesInv DEF TypeOK
  <2> QED
    BY <2>2, <2>5, <2>7 DEF Deals, Touches
<1>3. CASE UNCHANGED <<connVars, serverVars, pending, userVars>>
  <2>1. TypeOK'
    BY <1>1, <1>3 DEF TypeOK, connVars, history, serverVars, userVars
  <2> QED
    BY <1>1, <1>3, <2>1, TouchesNone DEF AllKnownStay, connVars, history, serverVars, userVars
<1> QED
  BY <1>2, <1>3

LEMMA LoopKnown ==
  ASSUME TInv, NEW l \in Loops, Poll(l) \/ SwapPending(l) \/ EndPending(l)
  PROVE  TInv' /\ AllKnownStay
<1>1. /\ TypeOK /\ KnownOK /\ UNCHANGED <<connVars, serverVars, quit, userVars>>
      /\ pending \in [Loops -> Seq(Functor)] /\ batch \in [Loops -> Seq(Functor)]
      /\ <<>> \in Seq(Functor) /\ Len(<<>>) = 0
  BY DEF TInv, Poll, SwapPending, EndPending, TypeOK
<1> SUFFICES TInv'
  BY <1>1 DEF AllKnownStay, connVars, history, serverVars
<1> USE <1>1 DEF connVars, history, serverVars, userVars
<1>2. CASE Poll(l)
  <2> USE <1>2 DEF Poll
  <2>1. TypeOK'
    BY DEF TypeOK
  <2>2. \A k \in Loops : \A c \in active'[k] \ {Acceptor} : c \in active[k] \/ chan[c] # "new"
    <3>1. PICK ready \in SUBSET {c \in Conns : ioLoop[c] = l /\ chan[c] \in Registered} :
            active' = [active EXCEPT ![l] = ready \cup IF l = Base THEN {Acceptor} ELSE {}]
      OBVIOUS
    <3>2. active'[l] \ {Acceptor} \subseteq ready /\ \A k \in Loops : k # l => active'[k] = active[k]
      BY <3>1 DEF TypeOK
    <3> QED
      BY <3>2 DEF Registered
  <2> QED
    BY <2>1, <2>2, TouchesNone
<1>3. CASE SwapPending(l)
  <2> USE <1>3 DEF SwapPending
  <2>1. pending' \in [Loops -> Seq(Functor)] /\ batch' \in [Loops -> Seq(Functor)]
    OBVIOUS
  <2>2. TypeOK'
    BY <2>1 DEF TypeOK
  <2>3. \A k \in Loops : \/ pending'[k] = pending[k] /\ batch'[k] = batch[k]
                         \/ pending'[k] = <<>> /\ batch'[k] = pending[k]
    OBVIOUS
  <2> QED
    BY <2>2, <2>3, TouchesNone
<1>4. CASE EndPending(l)
  <2> USE <1>4 DEF EndPending
  <2>1. pending' \in [Loops -> Seq(Functor)] /\ batch' \in [Loops -> Seq(Functor)]
    OBVIOUS
  <2>2. TypeOK'
    BY <2>1 DEF TypeOK
  <2>3. \A k \in Loops : \/ pending'[k] = pending[k] /\ batch'[k] = batch[k]
                         \/ pending'[k] = <<>> /\ batch'[k] = <<>>
                         \/ pending'[k] = pending[k] /\ batch'[k] = <<>>
    OBVIOUS
  <2> QED
    BY <2>2, <2>3, TouchesNone
<1> QED
  BY <1>2, <1>3, <1>4

LEMMA RunKnown ==
  ASSUME TInv, NEW l \in Loops, RunFunctor(l)
  PROVE  TInv' /\ AllKnownStay
<1> DEFINE f == batch[l][ranTo[l] + 1]
           c == f.conn
<1>1. /\ UNCHANGED <<phase, quit, active, batch>> /\ Run(l, f)
      /\ ranTo[l] < Len(batch[l]) /\ ranTo' = [ranTo EXCEPT ![l] = @ + 1]
      /\ TypeOK /\ KnownOK
  BY DEF RunFunctor, TInv
<1>2. ranTo' \in [Loops -> Nat] /\ \A k \in Loops : ranTo'[k] <= Len(batch[k])
  BY <1>1 DEF TypeOK
<1>3. f \in Functor /\ c \in Conns /\ state[c] # "none"
  <2>1. ranTo[l] + 1 \in 1 .. Len(batch[l])
    BY <1>1 DEF TypeOK
  <2> QED
    BY <1>1, <2>1, QueuedTyped DEF KnownOK
<1> HIDE DEF f
<1>4. Touches(c) /\ ioLoop' = ioLoop /\ next' = next /\ server' = server
  <2>1. CASE \/ ConnectEstablished(c) /\ UNCHANGED <<serverVars, pending, userCall>>
             \/ ConnectDestroyed(c) /\ UNCHANGED <<serverVars, pending, userCall>>
    BY <1>1, <1>3, <2>1, HandlersTouch DEF Touches, serverVars
  <2>2. CASE RemoveConnectionInLoop(c) /\ UNCHANGED <<connVars, userVars>>
    <3>1. ioLoop[c] \in Loops /\ "destroyed" \in Owning
      BY <1>1, <1>3 DEF TypeOK, Owning
    <3> QED
      BY <1>1, <1>3, <2>2, <3>1 DEF RemoveConnectionInLoop, Touches, connVars, history, userVars, TypeOK
  <2>3. CASE /\ UNCHANGED <<state, ups, downs, serverVars, pending, userVars>>
             /\ EnableReading(c) \/ UNCHANGED chan
             /\ resumed' \subseteq resumed \cup {c}
    <3>1. chan' \in [Conns -> ChanState] /\ \A d \in Conns : d # c => chan'[d] = chan[d]
      BY <1>1, <2>3 DEF EnableReading, TypeOK, ChanState
    <3> QED
      BY <1>1, <1>3, <2>3, <3>1 DEF Touches, serverVars, userVars, TypeOK
  <2> QED
    BY <1>1, <2>1, <2>2, <2>3 DEF Run, SendInLoop, KeepOutput, ResumeOutput, connVars, history
<1>5. AllKnownStay
  BY <1>3, <1>4 DEF AllKnownStay, Touches
<1>6. TInv'
  BY <1>1, <1>2, <1>3, <1>4, TouchesInv DEF TypeOK
<1> QED
  BY <1>5, <1>6

LEMMA UserKnown ==
  ASSUME TInv, UserStep
  PROVE  TInv' /\ AllKnownStay
<1>1. TypeOK /\ KnownOK
  BY DEF TInv
<1>2. ASSUME NEW u \in Users, NEW c \in Conns, NEW op \in ForeignOps, UserCheck(u, c, op)
      PROVE  TInv' /\ AllKnownStay
  <2>1. /\ UNCHANGED <<connVars, serverVars, loopVars, pending, userRefs>> /\ c \in userRefs
        /\ userCall' = [userCall EXCEPT ![u] = [op |-> op, conn |-> c]]
    BY <1>2 DEF UserCheck
  <2>2. /\ userCall' \in [Users -> Call \cup {Idle}]
        /\ \A v \in Users : userCall'[v].conn = c \/ userCall'[v] = userCall[v]
    <3>1. [op |-> op, conn |-> c] \in Call
      BY OpAssumption DEF Call, Bare
    <3> QED
      BY <1>1, <2>1, <3>1 DEF TypeOK
  <2>3. TypeOK'
    BY <1>1, <2>1, <2>2 DEF TypeOK, connVars, history, serverVars, loopVars
  <2>4. TInv'
    BY <1>1, <2>1, <2>2, <2>3, TouchesNone DEF serverVars, loopVars
  <2> QED
    BY <2>1, <2>4 DEF AllKnownStay, connVars, history, serverVars
<1>3. ASSUME NEW c \in Conns, UserDrop(c) PROVE TInv' /\ AllKnownStay
  <2>1. UNCHANGED <<connVars, serverVars, loopVars, pending, userCall>> /\ userRefs' \subseteq userRefs
    BY <1>3 DEF UserDrop
  <2>2. TypeOK'
    BY <1>1, <2>1 DEF TypeOK, connVars, history, serverVars, loopVars
  <2>3. TInv'
    BY <1>1, <2>1, <2>2, TouchesNone DEF serverVars, loopVars
  <2> QED
    BY <2>1, <2>3 DEF AllKnownStay, connVars, history, serverVars
<1>4. ASSUME NEW u \in Users, UserAct(u) PROVE TInv' /\ AllKnownStay
  <2>1. PICK c \in Conns, op \in Bare :
          c = userCall[u].conn /\ op = userCall[u].op /\ state[c] # "none"
    BY <1>1, <1>4 DEF UserAct, TypeOK, KnownOK, Call
  <2>2. /\ Push(ioLoop[c], op, c) /\ ioLoop[c] \in Loops
        /\ userCall' = [userCall EXCEPT ![u] = Idle]
        /\ state' = [state EXCEPT ![c] = "kDisconnecting"] \/ state' = state
        /\ UNCHANGED <<chan, ups, downs, resumed, serverVars, loopVars, userRefs>>
    BY <1>1, <1>4, <2>1 DEF UserAct, SetState, TypeOK, history
  <2>3. /\ state' \in [Conns -> ConnState] /\ state'[c] # "none"
        /\ \A d \in Conns : d # c => state'[d] = state[d]
    BY <1>1, <2>1, <2>2 DEF TypeOK, ConnState
  <2>4. Touches(c)
    BY <1>1, <2>1, <2>2, <2>3 DEF Touches, TypeOK, serverVars
  <2>5. TInv'
    BY <1>1, <2>2, <2>4, TouchesInv DEF TypeOK, serverVars, loopVars
  <2> QED
    BY <2>1, <2>2, <2>3, <2>5 DEF AllKnownStay, serverVars
<1> QED
  BY <1>2, <1>3, <1>4 DEF UserStep

LEMMA StopKnown ==
  ASSUME TInv, StopStep \/ QuitBase
  PROVE  TInv' /\ AllKnownStay
<1>1. TypeOK /\ KnownOK
  BY DEF TInv
<1>2. CASE QuitBase \/ QuitIoLoop \/ DestroyBaseLoop
  <2>1. /\ UNCHANGED <<connVars, ioLoop, connections, next, phase, active, batch, ranTo, userVars>>
        /\ pending' = pending \/ pending' = [pending EXCEPT ![Base] = <<>>]
    BY <1>2 DEF QuitBase, QuitIoLoop, DestroyBaseLoop, serverVars, loopVars
  <2>2. TypeOK'
    <3>1. quit' \in [Loops -> BOOLEAN] /\ server' \in {"up", "destroying", "destroyed"}
      BY <1>1, <1>2 DEF QuitBase, QuitIoLoop, DestroyBaseLoop, serverVars, loopVars, TypeOK
    <3>2. pending' \in [Loops -> Seq(Functor)]
      <4>1. pending \in [Loops -> Seq(Functor)] /\ <<>> \in Seq(Functor)
        BY <1>1 DEF TypeOK
      <4> QED
        BY <2>1, <4>1
    <3> QED
      BY <1>1, <2>1, <3>1, <3>2 DEF TypeOK, connVars, history, userVars
  <2>3. \A k \in Loops : pending'[k] = pending[k] \/ pending'[k] = <<>>
    BY <1>1, <2>1 DEF TypeOK
  <2>4. TInv'
    BY <1>1, <2>1, <2>2, <2>3, TouchesNone DEF userVars
  <2> QED
    BY <2>1, <2>4 DEF AllKnownStay, connVars, history
<1>3. ASSUME NEW c \in Conns, DestroyConnection(c) PROVE TInv' /\ AllKnownStay
  <2>1. /\ c \in connections /\ state[c] # "none" /\ server' = "destroying"
        /\ connections' = connections \ {c} /\ UNCHANGED <<ioLoop, next, loopVars>>
    BY <1>1, <1>3 DEF DestroyConnection, KnownOK
  <2>2. Touches(c)
    <3>1. CASE ConnectDestroyed(c) /\ UNCHANGED <<pending, userCall>>
      BY <1>1, <2>1, <3>1, HandlersTouch DEF Touches
    <3>2. CASE Push(ioLoop[c], "destroyed", c) /\ UNCHANGED <<connVars, userVars>>
      <4>1. ioLoop[c] \in Loops /\ "destroyed" \in Owning
        BY <1>1 DEF TypeOK, Owning
      <4> QED
        BY <1>1, <2>1, <3>2, <4>1 DEF Touches, connVars, history, userVars, TypeOK
    <3> QED
      BY <1>3, <3>1, <3>2 DEF DestroyConnection
  <2>3. TInv'
    BY <1>1, <2>1, <2>2, TouchesInv DEF TypeOK, loopVars
  <2> QED
    BY <2>1, <2>2, <2>3 DEF AllKnownStay, Touches
<1> QED
  BY <1>2, <1>3 DEF StopStep

LEMMA StepKnown ==
  ASSUME TInv, [Next]_vars
  PROVE  TInv' /\ (AllKnownStay \/ \E c \in Conns : Deals(c))
<1>1. CASE UNCHANGED vars
  <2>1. TypeOK' /\ KnownOK' /\ AllKnownStay
    BY <1>1 DEF vars, connVars, history, serverVars, loopVars, userVars, TInv, TypeOK, KnownOK, AllKnownStay
  <2> QED
    BY <2>1 DEF TInv
<1>2. ASSUME NEW l \in Loops, LoopStep(l)
      PROVE  TInv' /\ (AllKnownStay \/ \E c \in Conns : Deals(c))
  BY <1>2, LoopKnown, RunKnown, HandleEventKnown, AcceptKnown DEF LoopStep, Dispatch
<1> QED
  BY <1>1, <1>2, UserKnown, StopKnown DEF Next

LEMMA KnownInvariant == Safe => []TInv
<1>1. Init => TInv
  <2> SUFFICES ASSUME Init PROVE TInv
    OBVIOUS
  <2>1. TypeOK
    BY DEF Init, TypeOK, ConnState, ChanState, Loops
  <2>2. KnownOK
    BY DEF Init, KnownOK
  <2> QED
    BY <2>1, <2>2 DEF TInv
<1> QED
  BY <1>1, StepKnown, PTL DEF Safe

(* The server and its connections are type-correct; the round-robin index  *)
(* of the pool stays among the loops (EventLoopThreadPool.cc:45).          *)
THEOREM TypeCorrect == Safe => []TypeOK
BY KnownInvariant, PTL DEF TInv

----------------------------------------------------------------------------
(* Round robin.                                                            *)

Accepted == {c \in Conns : state[c] # "none"}
GivenTo(l) == {c \in Conns : state[c] # "none" /\ ioLoop[c] = l}

(* Every loop has been given n connections, those the index has passed in  *)
(* this round one more.                                                    *)
Rounds(n) == \A i \in 1 .. Len(IoSeq) :
               Cardinality(GivenTo(IoSeq[i])) = IF i < next THEN n + 1 ELSE n

DealtEvenly == IsFiniteSet(Accepted) /\ \E n \in Nat : Rounds(n)

(* A loop has one place in the pool.                                       *)
LEMMA OnePlace == \A i, j \in 1 .. Len(IoSeq) : IoSeq[i] = IoSeq[j] => i = j
<1> DEFINE D == 1 .. Len(IoSeq)
<1>1. /\ Len(IoSeq) \in Nat /\ IoSeq \in [D -> IoLoops]
      /\ \A l \in IoLoops : \E i \in D : IoSeq[i] = l
  <2>1. Len(IoSeq) \in Nat /\ IoSeq \in [D -> IoLoops]
    BY LoopAssumption
  <2> QED
    BY <2>1 DEF IoLoops
<1>2. IoSeq \in Surjection(D, IoLoops)
  BY <1>1 DEF Surjection
<1>3. IsFiniteSet(D) /\ Cardinality(D) = Len(IoSeq)
  <2>1. ASSUME NEW n \in Nat PROVE IsFiniteSet(1 .. n) /\ Cardinality(1 .. n) = n
    BY FS_Interval
  <2> QED
    BY ONLY <1>1, <2>1
<1> HIDE DEF D
<1>4. IoSeq \in Injection(D, IoLoops)
  BY <1>2, <1>3, LoopAssumption, FS_Surjection
<1> QED
  BY <1>4 DEF Injection, IsInjective, D

LEMMA DealtInit == Init => DealtEvenly
<1> SUFFICES ASSUME Init PROVE DealtEvenly
  OBVIOUS
<1>1. Accepted = {} /\ \A l : GivenTo(l) = {}
  BY DEF Init, Accepted, GivenTo
<1>2. Rounds(0)
  <2> SUFFICES ASSUME NEW i \in 1 .. Len(IoSeq)
               PROVE  Cardinality(GivenTo(IoSeq[i])) = 0 /\ ~(i < next)
    BY DEF Rounds
  <2>1. next = 1 /\ Len(IoSeq) \in Nat
    BY LoopAssumption DEF Init
  <2> QED
    BY <1>1, <2>1, FS_EmptySet
<1> QED
  BY <1>1, <1>2, FS_EmptySet DEF DealtEvenly

LEMMA DealtStep == TInv /\ DealtEvenly /\ [Next]_vars => DealtEvenly'
<1> SUFFICES ASSUME TInv, DealtEvenly, [Next]_vars PROVE DealtEvenly'
  OBVIOUS
<1>1. CASE AllKnownStay
  <2>1. Accepted' = Accepted /\ (\A l : GivenTo(l)' = GivenTo(l)) /\ next' = next
    BY <1>1 DEF AllKnownStay, Accepted, GivenTo
  <2> QED
    BY <2>1 DEF DealtEvenly, Rounds
<1>2. ASSUME NEW c \in Conns, Deals(c) PROVE DealtEvenly'
  <2>1. /\ state[c] = "none" /\ state'[c] # "none"
        /\ \A d \in Conns : d # c => state'[d] = state[d]
        /\ ioLoop' = [ioLoop EXCEPT ![c] = NextLoop] /\ ioLoop \in [Conns -> Loops]
        /\ next' = (IF next >= Len(IoSeq) THEN 1 ELSE next + 1)
    BY <1>2 DEF Deals, Advance, TInv, TypeOK
  <2>2. Accepted' = Accepted \cup {c}
    BY <2>1 DEF Accepted
  <2>3. IsFiniteSet(Accepted')
    BY <2>2, FS_AddElement DEF DealtEvenly
  <2>4. ASSUME IoSeq # <<>> PROVE \E n \in Nat : Rounds(n)'
    <3>1. Len(IoSeq) \in Nat /\ next \in 1 .. Len(IoSeq) /\ NextLoop = IoSeq[next]
      BY <2>4, LoopAssumption DEF TInv, TypeOK, NextLoop
    <3>2. PICK n \in Nat : Rounds(n)
      BY DEF DealtEvenly
    <3>3. \A l : IsFiniteSet(GivenTo(l)) /\ c \notin GivenTo(l)
      <4>1. \A l : GivenTo(l) \in SUBSET Accepted /\ c \notin GivenTo(l)
        BY <2>1 DEF GivenTo, Accepted
      <4> QED
        BY <4>1, FS_Subset DEF DealtEvenly
    <3>4. \A i \in 1 .. Len(IoSeq) :
            GivenTo(IoSeq[i])' = IF i = next THEN GivenTo(IoSeq[i]) \cup {c} ELSE GivenTo(IoSeq[i])
      <4> TAKE i \in 1 .. Len(IoSeq)
      <4>1. \A d \in Conns : ioLoop'[d] = IF d = c THEN IoSeq[next] ELSE ioLoop[d]
        BY <2>1, <3>1
      <4>2. IoSeq[i] = IoSeq[next] <=> i = next
        BY <3>1, OnePlace
      <4> QED
        BY <2>1, <4>1, <4>2 DEF GivenTo
    <3>5. \A i \in 1 .. Len(IoSeq) :
            Cardinality(GivenTo(IoSeq[i])') = IF i <= next THEN n + 1 ELSE n
      <4> TAKE i \in 1 .. Len(IoSeq)
      <4>1. Cardinality(GivenTo(IoSeq[i])) = IF i < next THEN n + 1 ELSE n
        BY <3>2 DEF Rounds
      <4>2. Cardinality(GivenTo(IoSeq[i]) \cup {c}) = Cardinality(GivenTo(IoSeq[i])) + 1
        BY <3>3, FS_AddElement
      <4>3. CASE i = next
        <5>1. Cardinality(GivenTo(IoSeq[i])') = Cardinality(GivenTo(IoSeq[i]) \cup {c})
          BY <3>4, <4>3, Zenon
        <5> QED
          BY <3>1, <4>1, <4>2, <4>3, <5>1
      <4>4. CASE i # next
        <5>1. Cardinality(GivenTo(IoSeq[i])') = Cardinality(GivenTo(IoSeq[i]))
          BY <3>4, <4>4, Zenon
        <5> QED
          BY <3>1, <4>1, <4>4, <5>1
      <4> QED
        BY <4>3, <4>4
    <3>6. CASE next < Len(IoSeq)
      <4>1. next' = next + 1
        BY <2>1, <3>1, <3>6
      <4>2. Rounds(n)'
        BY <3>1, <3>5, <4>1 DEF Rounds
      <4> QED
        BY <4>2
    <3>7. CASE next = Len(IoSeq)
      <4>1. next' = 1
        BY <2>1, <3>1, <3>7
      <4>2. Rounds(n + 1)'
        BY <3>1, <3>5, <3>7, <4>1 DEF Rounds
      <4> QED
        BY <4>2
    <3> QED
      BY <3>1, <3>6, <3>7
  <2>5. ASSUME IoSeq = <<>> PROVE Rounds(0)'
    BY <2>5 DEF Rounds
  <2> QED
    BY <2>3, <2>4, <2>5 DEF DealtEvenly
<1> QED
  BY <1>1, <1>2, StepKnown

(* The pool deals connections in turn (EventLoopThreadPool getNextLoop):    *)
(* no io loop is ever given two more than another.                         *)
THEOREM DealtInTurn == Safe => []RoundRobin
<1>1. DealtEvenly => RoundRobin
  <2> SUFFICES ASSUME DealtEvenly, NEW k \in IoLoops, NEW l \in IoLoops
               PROVE  Cardinality(GivenTo(k)) <= Cardinality(GivenTo(l)) + 1
    BY DEF RoundRobin, GivenTo
  <2>1. PICK n \in Nat : Rounds(n)
    BY DEF DealtEvenly
  <2>2. PICK i \in 1 .. Len(IoSeq) : k = IoSeq[i]
    BY DEF IoLoops
  <2>3. PICK j \in 1 .. Len(IoSeq) : l = IoSeq[j]
    BY DEF IoLoops
  <2> QED
    BY <2>1, <2>2, <2>3 DEF Rounds
<1> QED
  BY <1>1, DealtInit, DealtStep, KnownInvariant, PTL DEF Safe

----------------------------------------------------------------------------
(* The lifecycle.                                                          *)

F(op, c) == [op |-> op, conn |-> c]

(* With batch b, of which r have run, and queue p: the functor f is yet to *)
(* run; no functor of a connection runs before its connectEstablished.     *)
Waits(b, r, p, f) == \/ \E i \in r + 1 .. Len(b) : b[i] = f
                     \/ \E i \in 1 .. Len(p) : p[i] = f

First(b, r, p) ==
  /\ \A i, j \in r + 1 .. Len(b) : i < j /\ b[j].op = "established" => b[i].conn # b[j].conn
  /\ \A i, j \in 1 .. Len(p) : i < j /\ p[j].op = "established" => p[i].conn # p[j].conn
  /\ \A i \in r + 1 .. Len(b), j \in 1 .. Len(p) : p[j].op = "established" => b[i].conn # p[j].conn

In(l, f) == Waits(batch[l], ranTo[l], pending[l], f)
EstablishedFirst(l) == First(batch[l], ranTo[l], pending[l])

(* A send() of c is to run behind the connectDestroyed of c.               *)
Behind(b, r, p, c) ==
  LET first == F("destroyed", c)
      last == F("send", c)
  IN \/ \E i, j \in r + 1 .. Len(b) : i < j /\ b[i] = first /\ b[j] = last
     \/ \E i, j \in 1 .. Len(p) : i < j /\ p[i] = first /\ p[j] = last
     \/ \E i \in r + 1 .. Len(b), j \in 1 .. Len(p) : b[i] = first /\ p[j] = last

LoopsOK == \A l \in Loops : /\ phase[l] \in {"poll", "events"} => batch[l] = <<>>
                            /\ phase[l] # "events" => active[l] = {}

ActiveOK == \A l \in Loops : \A c \in Conns :
              c \in active[l] => ioLoop[c] = l /\ chan[c] = "reading"

ConnOK(c) ==
  /\ state[c] = "none" => c \notin connections /\ chan[c] = "new"
  /\ ups[c] = IF state[c] \in {"none", "kConnecting"} THEN 0 ELSE 1
  /\ downs[c] > 0 => state[c] \in {"kDisconnecting", "kDisconnected"}
  /\ state[c] = "kDisconnected" \/ chan[c] = "deleted" \/ c \in resumed => downs[c] > 0
  /\ chan[c] # "idle"
  /\ chan[c] = "reading" => state[c] \in {"kConnected", "kDisconnecting"}
  /\ c \notin resumed => downs[c] <= 1 /\ (chan[c] = "reading" => downs[c] = 0)

UserOK == \A u \in Users : userCall[u] # Idle => server = "up" /\ ups[userCall[u].conn] = 1

FunctorOK(l, f) ==
  /\ state[f.conn] # "none"
  /\ f.op = "established" => l = ioLoop[f.conn] /\ state[f.conn] = "kConnecting"
  /\ f.op = "destroyed" => l = ioLoop[f.conn]
  /\ f.op \in {"remove", "destroyed"} /\ server = "up" => downs[f.conn] > 0
  /\ f.op = "send" => /\ l = ioLoop[f.conn]
                      /\ chan[f.conn] = "reading" \/ downs[f.conn] > 0 \/ phase[l] = "exited"

QueuesOK == \A l \in Loops : EstablishedFirst(l) /\ \A f : In(l, f) => FunctorOK(l, f)

(* A connection its poller knows, or is about to know, is in the server's  *)
(* map, or connectDestroyed is yet to run: someone keeps it.  A send() may *)
(* have brought back a channel after that, of a connection then resumed.   *)
KeptOK ==
  \A c \in Conns \ resumed :
    /\ chan[c] # "new" \/ In(ioLoop[c], F("established", c))
    /\ phase[ioLoop[c]] # "exited"
    => c \in connections \/ In(ioLoop[c], F("destroyed", c))

(* A send() that finds its connection destroyed finds it reported closed.  *)
Late(l, c) == Behind(batch[l], ranTo[l], pending[l], c)
SendsOK == \A l \in Loops, c \in Conns : Late(l, c) => downs[c] > 0

JInv == /\ TypeOK /\ LoopsOK /\ ActiveOK
        /\ \A c \in Conns : ConnOK(c)
        /\ UserOK /\ QueuesOK /\ KeptOK /\ GoneWasReported

IInv == JInv /\ SendsOK

----------------------------------------------------------------------------
(* How queues change.                                                      *)

LEMMA WaitsTyped ==
  ASSUME NEW b \in Seq(Functor), NEW r \in Nat, NEW p \in Seq(Functor), NEW f, Waits(b, r, p, f)
  PROVE  f \in Functor
<1>1. CASE \E i \in r + 1 .. Len(b) : b[i] = f
  BY <1>1
<1>2. CASE \E i \in 1 .. Len(p) : p[i] = f
  BY <1>2
<1> QED
  BY <1>1, <1>2 DEF Waits

(* A functor g is queued.                                                  *)
LEMMA PushWaits ==
  ASSUME NEW b \in Seq(Functor), NEW r \in Nat, NEW p \in Seq(Functor), NEW g \in Functor
  PROVE  /\ \A f : Waits(b, r, Append(p, g), f) <=> Waits(b, r, p, f) \/ f = g
         /\ First(b, r, p) /\ (\A f : Waits(b, r, p, f) => g.op # "established" \/ f.conn # g.conn)
            => First(b, r, Append(p, g))
<1> DEFINE q == Append(p, g)
<1>1. /\ Len(q) = Len(p) + 1 /\ q[Len(p) + 1] = g /\ Len(p) \in Nat
      /\ \A i \in 1 .. Len(p) : q[i] = p[i]
  OBVIOUS
<1>2. \A i \in 1 .. Len(q) : \/ i \in 1 .. Len(p) /\ q[i] = p[i]
                             \/ i = Len(p) + 1 /\ q[i] = g
  BY <1>1
<1> HIDE DEF q
<1>3. \A f : Waits(b, r, q, f) <=> Waits(b, r, p, f) \/ f = g
  <2>1. \A f : Waits(b, r, q, f) => Waits(b, r, p, f) \/ f = g
    BY <1>2 DEF Waits
  <2>2. \A f : Waits(b, r, p, f) => Waits(b, r, q, f)
    BY <1>1 DEF Waits
  <2>3. Waits(b, r, q, g)
    BY <1>1 DEF Waits
  <2> QED
    BY <2>1, <2>2, <2>3
<1>4. ASSUME First(b, r, p), \A f : Waits(b, r, p, f) => g.op # "established" \/ f.conn # g.conn
      PROVE  First(b, r, q)
  <2>1. /\ \A i \in r + 1 .. Len(b) : g.op # "established" \/ b[i].conn # g.conn
        /\ \A i \in 1 .. Len(p) : g.op # "established" \/ p[i].conn # g.conn
    BY <1>4 DEF Waits
  <2>2. ASSUME NEW i \in 1 .. Len(q), NEW j \in 1 .. Len(q), i < j, q[j].op = "established"
        PROVE  q[i].conn # q[j].conn
    <3>1. i \in 1 .. Len(p) /\ q[i] = p[i]
      BY <1>1, <2>2
    <3>2. CASE j \in 1 .. Len(p)
      BY <3>1, <3>2, <2>2, <1>1, <1>4 DEF First
    <3>3. CASE j = Len(p) + 1
      BY <3>1, <3>3, <2>1, <2>2, <1>1
    <3> QED
      BY <3>2, <3>3, <1>2
  <2>3. ASSUME NEW i \in r + 1 .. Len(b), NEW j \in 1 .. Len(q), q[j].op = "established"
        PROVE  b[i].conn # q[j].conn
    <3>1. CASE j \in 1 .. Len(p)
      BY <3>1, <2>3, <1>1, <1>4 DEF First
    <3>2. CASE j = Len(p) + 1
      BY <3>2, <2>1, <2>3, <1>1
    <3> QED
      BY <3>1, <3>2, <1>2
  <2> QED
    BY <2>2, <2>3, <1>4 DEF First
<1> QED
  BY <1>3, <1>4 DEF q

(* The queue becomes the batch.                                            *)
LEMMA SwapWaits ==
  ASSUME NEW p \in Seq(Functor)
  PROVE  /\ \A f : Waits(p, 0, <<>>, f) <=> Waits(<<>>, 0, p, f)
         /\ First(p, 0, <<>>) <=> First(<<>>, 0, p)
BY DEF Waits, First

(* A batch that has run is dropped, and perhaps the queue.                 *)
LEMMA EndWaits ==
  ASSUME NEW b \in Seq(Functor), NEW p \in Seq(Functor)
  PROVE  /\ \A f : Waits(b, Len(b), p, f) <=> Waits(<<>>, 0, p, f)
         /\ \A f : ~Waits(<<>>, 0, <<>>, f)
         /\ First(b, Len(b), p) <=> First(<<>>, 0, p)
         /\ First(<<>>, 0, <<>>)
BY DEF Waits, First

(* The next functor of the batch is taken: no connectEstablished of its    *)
(* connection is left.                                                     *)
LEMMA PopWaits ==
  ASSUME NEW b \in Seq(Functor), NEW r \in Nat, NEW p \in Seq(Functor), r < Len(b)
  PROVE  /\ b[r + 1] \in Functor
         /\ \A f : Waits(b, r, p, f) <=> Waits(b, r + 1, p, f) \/ f = b[r + 1]
         /\ First(b, r, p) => /\ First(b, r + 1, p)
                              /\ ~Waits(b, r + 1, p, F("established", b[r + 1].conn))
<1>1. r + 1 \in 1 .. Len(b)
  OBVIOUS
<1>2. \A i \in r + 1 .. Len(b) : i = r + 1 \/ i \in r + 2 .. Len(b)
  OBVIOUS
<1>3. \A f : Waits(b, r, p, f) <=> Waits(b, r + 1, p, f) \/ f = b[r + 1]
  BY <1>1, <1>2 DEF Waits
<1>4. ASSUME First(b, r, p) PROVE First(b, r + 1, p)
  BY <1>4 DEF First
<1>5. ASSUME First(b, r, p), Waits(b, r + 1, p, F("established", b[r + 1].conn)) PROVE FALSE
  BY <1>1, <1>5 DEF First, Waits, F
<1> QED
  BY <1>1, <1>3, <1>4, <1>5

----------------------------------------------------------------------------
(* The same of the loops' queues.                                          *)

LEMMA Same ==
  ASSUME UNCHANGED <<batch, ranTo, pending>>
  PROVE  \A l \in Loops : /\ \A f : In(l, f)' <=> In(l, f)
                          /\ EstablishedFirst(l)' <=> EstablishedFirst(l)
BY DEF In, EstablishedFirst

LEMMA InTyped == ASSUME TypeOK, NEW l \in Loops, NEW f, In(l, f) PROVE f \in Functor
BY WaitsTyped DEF In, TypeOK

LEMMA Pushed ==
  ASSUME TypeOK, NEW k \in Loops, NEW op \in Owning \cup Bare, NEW c \in Conns, Push(k, op, c),
         UNCHANGED <<batch, ranTo>>
  PROVE  /\ pending' \in [Loops -> Seq(Functor)]
         /\ \A l \in Loops : \A f : In(l, f)' <=> In(l, f) \/ (l = k /\ f = F(op, c))
         /\ \A l \in Loops : EstablishedFirst(l) /\ (\A f : In(l, f) => op # "established" \/ f.conn # c)
                             => EstablishedFirst(l)'
<1> DEFINE g == F(op, c)
<1>1. g \in Functor /\ g.op = op /\ g.conn = c
  BY DEF F, Functor
<1>2. pending' = [pending EXCEPT ![k] = Append(@, g)]
  BY DEF Push, F
<1> HIDE DEF g
<1>3. /\ pending'[k] = Append(pending[k], g)
      /\ \A l \in Loops : l # k => pending'[l] = pending[l]
      /\ \A l \in Loops : pending[l] \in Seq(Functor) /\ batch[l] \in Seq(Functor) /\ ranTo[l] \in Nat
  BY <1>2 DEF TypeOK
<1>4. pending' \in [Loops -> Seq(Functor)]
  BY <1>1, <1>2 DEF TypeOK
<1>5. \A f : In(k, f)' <=> In(k, f) \/ f = g
  BY <1>1, <1>3, PushWaits DEF In
<1>6. EstablishedFirst(k) /\ (\A f : In(k, f) => op # "established" \/ f.conn # c)
      => EstablishedFirst(k)'
  BY <1>1, <1>3, PushWaits DEF In, EstablishedFirst
<1>7. \A l \in Loops : l # k => /\ \A f : In(l, f)' <=> In(l, f)
                                /\ EstablishedFirst(l)' <=> EstablishedFirst(l)
  BY <1>3 DEF In, EstablishedFirst
<1> QED
  BY <1>4, <1>5, <1>6, <1>7 DEF g

LEMMA Swapped ==
  ASSUME TypeOK, LoopsOK, NEW k \in Loops, SwapPending(k)
  PROVE  \A l \in Loops : /\ \A f : In(l, f)' <=> In(l, f)
                          /\ EstablishedFirst(l) => EstablishedFirst(l)'
<1>1. /\ batch[k] = <<>> /\ ranTo[k] = 0
      /\ batch'[k] = pending[k] /\ pending'[k] = <<>> /\ ranTo'[k] = 0
      /\ pending[k] \in Seq(Functor)
  BY DEF SwapPending, LoopsOK, TypeOK
<1>2. \A l \in Loops : l # k => batch'[l] = batch[l] /\ pending'[l] = pending[l] /\ ranTo'[l] = ranTo[l]
  BY DEF SwapPending, TypeOK
<1>3. (\A f : In(k, f)' <=> In(k, f)) /\ (EstablishedFirst(k) => EstablishedFirst(k)')
  BY <1>1, SwapWaits DEF In, EstablishedFirst
<1> QED
  BY <1>2, <1>3 DEF In, EstablishedFirst

LEMMA Ended ==
  ASSUME TypeOK, NEW k \in Loops, EndPending(k)
  PROVE  \A l \in Loops : /\ \A f : In(l, f)' => In(l, f)
                          /\ \A f : In(l, f) => In(l, f)' \/ phase'[l] = "exited"
                          /\ EstablishedFirst(l) => EstablishedFirst(l)'
<1>1. /\ ranTo[k] = Len(batch[k]) /\ batch'[k] = <<>> /\ ranTo'[k] = 0
      /\ pending'[k] = pending[k] \/ (pending'[k] = <<>> /\ phase'[k] = "exited")
      /\ batch[k] \in Seq(Functor) /\ pending[k] \in Seq(Functor)
  BY DEF EndPending, TypeOK
<1>2. \A l \in Loops : l # k => batch'[l] = batch[l] /\ pending'[l] = pending[l] /\ ranTo'[l] = ranTo[l]
  BY DEF EndPending, TypeOK
<1>3. /\ \A f : In(k, f)' => In(k, f)
      /\ \A f : In(k, f) => In(k, f)' \/ phase'[k] = "exited"
      /\ EstablishedFirst(k) => EstablishedFirst(k)'
  BY <1>1, EndWaits DEF In, EstablishedFirst
<1> QED
  BY <1>2, <1>3 DEF In, EstablishedFirst

LEMMA Popped ==
  ASSUME TypeOK, NEW k \in Loops, ranTo[k] < Len(batch[k]),
         ranTo' = [ranTo EXCEPT ![k] = @ + 1], UNCHANGED <<batch, pending>>
  PROVE  /\ In(k, batch[k][ranTo[k] + 1])
         /\ \A l \in Loops : \A g : In(l, g) <=> In(l, g)' \/ (l = k /\ g = batch[k][ranTo[k] + 1])
         /\ \A l \in Loops : EstablishedFirst(l) => EstablishedFirst(l)'
         /\ \A f : f = batch[k][ranTo[k] + 1] /\ EstablishedFirst(k)
                   => ~In(k, F("established", f.conn))'
<1>1. /\ ranTo'[k] = ranTo[k] + 1 /\ ranTo[k] \in Nat
      /\ batch[k] \in Seq(Functor) /\ pending[k] \in Seq(Functor)
      /\ \A l \in Loops : l # k => ranTo'[l] = ranTo[l]
  BY DEF TypeOK
<1>2. \A g : In(k, g) <=> In(k, g)' \/ g = batch[k][ranTo[k] + 1]
  BY <1>1, PopWaits DEF In
<1>3. EstablishedFirst(k) => EstablishedFirst(k)'
  BY <1>1, PopWaits DEF EstablishedFirst
<1>4. ASSUME NEW f, f = batch[k][ranTo[k] + 1], EstablishedFirst(k)
      PROVE  ~In(k, F("established", f.conn))'
  BY <1>1, <1>4, PopWaits DEF In, EstablishedFirst
<1>5. \A l \in Loops : l # k => /\ \A g : In(l, g) <=> In(l, g)'
                                /\ EstablishedFirst(l) <=> EstablishedFirst(l)'
  BY <1>1 DEF In, EstablishedFirst
<1> QED
  BY <1>2, <1>3, <1>4, <1>5

(* A functor that queues another as it runs.                               *)
LEMMA PoppedPushed ==
  ASSUME TypeOK, NEW k \in Loops, ranTo[k] < Len(batch[k]),
         ranTo' = [ranTo EXCEPT ![k] = @ + 1], UNCHANGED batch,
         NEW m \in Loops, NEW c \in Conns, Push(m, "destroyed", c)
  PROVE  /\ pending' \in [Loops -> Seq(Functor)]
         /\ In(k, batch[k][ranTo[k] + 1])
         /\ \A l \in Loops : \A g : In(l, g)' => In(l, g) \/ (l = m /\ g = F("destroyed", c))
         /\ \A l \in Loops : \A g : In(l, g) => In(l, g)' \/ (l = k /\ g = batch[k][ranTo[k] + 1])
         /\ In(m, F("destroyed", c))'
         /\ \A l \in Loops : EstablishedFirst(l) => EstablishedFirst(l)'
<1> DEFINE h == F("destroyed", c)
           f == batch[k][ranTo[k] + 1]
<1>1. h \in Functor /\ h.op = "destroyed"
  BY DEF F, Functor, Owning
<1>2. pending' = [pending EXCEPT ![m] = Append(@, h)]
  BY DEF Push, F
<1> HIDE DEF h
<1>3. /\ ranTo'[k] = ranTo[k] + 1 /\ ranTo' \in [Loops -> Nat]
      /\ \A l \in Loops : l # k => ranTo'[l] = ranTo[l]
      /\ \A l \in Loops : batch[l] \in Seq(Functor) /\ pending[l] \in Seq(Functor) /\ ranTo[l] \in Nat
      /\ pending' \in [Loops -> Seq(Functor)]
      /\ pending'[m] = Append(pending[m], h)
      /\ \A l \in Loops : l # m => pending'[l] = pending[l]
  BY <1>1, <1>2, SMTT(20) DEF TypeOK
<1> DEFINE W(l, g) == Waits(batch[l], ranTo'[l], pending[l], g)
           E(l) == First(batch[l], ranTo'[l], pending[l])
<1>4. /\ In(k, f)
      /\ \A l \in Loops : \A g : In(l, g) <=> W(l, g) \/ (l = k /\ g = f)
      /\ \A l \in Loops : EstablishedFirst(l) => E(l)
  <2>1. (\A g : In(k, g) <=> W(k, g) \/ g = f) /\ (EstablishedFirst(k) => E(k))
    BY <1>3, PopWaits DEF In, EstablishedFirst
  <2> QED
    BY <2>1, <1>3 DEF In, EstablishedFirst
<1>5. /\ \A l \in Loops : \A g : In(l, g)' <=> W(l, g) \/ (l = m /\ g = h)
      /\ \A l \in Loops : E(l) => EstablishedFirst(l)'
  <2>1. batch'[m] = batch[m] /\ ranTo'[m] \in Nat
    BY <1>3
  <2>2. \A g : In(m, g)' <=> W(m, g) \/ g = h
    BY <2>1, <1>1, <1>3, PushWaits, SMTT(20) DEF In
  <2>3. E(m) => EstablishedFirst(m)'
    BY <2>1, <1>1, <1>3, PushWaits DEF EstablishedFirst
  <2> QED
    BY <2>2, <2>3, <1>3 DEF In, EstablishedFirst
<1> HIDE DEF W, E
<1> QED
  BY <1>3, <1>4, <1>5 DEF h

----------------------------------------------------------------------------
(* How a send() gets behind a connectDestroyed: only as it is queued.      *)

LEMMA PushBehind ==
  ASSUME NEW b \in Seq(Functor), NEW r \in Nat, NEW p \in Seq(Functor), NEW g \in Functor, NEW c,
         Behind(b, r, Append(p, g), c)
  PROVE  Behind(b, r, p, c) \/ (g = F("send", c) /\ Waits(b, r, p, F("destroyed", c)))
<1> DEFINE q == Append(p, g)
<1>1. /\ Len(q) = Len(p) + 1 /\ q[Len(p) + 1] = g /\ Len(p) \in Nat
      /\ \A i \in 1 .. Len(p) : q[i] = p[i]
  OBVIOUS
<1>2. \A i \in 1 .. Len(q) : \/ i \in 1 .. Len(p) /\ q[i] = p[i]
                             \/ i = Len(p) + 1 /\ q[i] = g
  BY <1>1
<1>3. Behind(b, r, q, c)
  OBVIOUS
<1> HIDE DEF q
<1> QED
  BY <1>1, <1>2, <1>3 DEF Behind, Waits

LEMMA SwapBehind ==
  ASSUME NEW p \in Seq(Functor), NEW c, Behind(p, 0, <<>>, c)
  PROVE  Behind(<<>>, 0, p, c)
BY DEF Behind

LEMMA EndBehind ==
  ASSUME NEW b \in Seq(Functor), NEW p \in Seq(Functor), NEW c
  PROVE  /\ Behind(<<>>, 0, p, c) => Behind(b, Len(b), p, c)
         /\ ~Behind(<<>>, 0, <<>>, c)
BY DEF Behind

LEMMA PopBehind ==
  ASSUME NEW b \in Seq(Functor), NEW r \in Nat, NEW p \in Seq(Functor), r < Len(b), NEW c
  PROVE  /\ Behind(b, r + 1, p, c) => Behind(b, r, p, c)
         /\ b[r + 1] = F("destroyed", c) /\ Waits(b, r + 1, p, F("send", c)) => Behind(b, r, p, c)
<1>1. r + 1 \in r + 1 .. Len(b) /\ \A i \in r + 2 .. Len(b) : i \in r + 1 .. Len(b) /\ r + 1 < i
  OBVIOUS
<1> QED
  BY <1>1 DEF Behind, Waits

----------------------------------------------------------------------------
(* The steps.                                                              *)

LEMMA InitInv == Init => IInv
<1> SUFFICES ASSUME Init PROVE IInv
  OBVIOUS
<1>1. TypeOK
  BY DEF Init, TypeOK, ConnState, ChanState, Loops
<1>2. \A l \in Loops : \A f : ~In(l, f)
  BY DEF Init, In, Waits
<1>3. \A l \in Loops : EstablishedFirst(l)
  BY DEF Init, EstablishedFirst, First
<1>4. LoopsOK /\ ActiveOK /\ UserOK /\ GoneWasReported /\ \A c \in Conns : ConnOK(c)
  BY DEF Init, LoopsOK, ActiveOK, UserOK, GoneWasReported, ConnOK
<1>5. QueuesOK
  BY <1>2, <1>3 DEF QueuesOK
<1>6. KeptOK
  BY <1>1, <1>2 DEF Init, KeptOK, TypeOK
<1>7. SendsOK
  BY DEF Init, SendsOK, Late, Behind
<1> QED
  BY <1>1, <1>4, <1>5, <1>6, <1>7 DEF IInv, JInv

(* A step that leaves the connections and what is to run alone.            *)
LEMMA Quiet ==
  ASSUME JInv, UNCHANGED <<connVars, ioLoop, connections, batch, ranTo, pending>>,
         \A l \in Loops : phase'[l] # "exited" => phase[l] # "exited",
         server' = "up" => server = "up"
  PROVE  (\A c \in Conns : ConnOK(c)') /\ QueuesOK' /\ KeptOK' /\ GoneWasReported'
<1> USE DEF JInv, connVars, history
<1>1. \A c \in Conns : ConnOK(c)'
  BY DEF ConnOK
<1>2. QueuesOK'
  BY Same DEF QueuesOK, FunctorOK
<1>3. KeptOK'
  BY Same DEF KeptOK, TypeOK
<1>4. GoneWasReported'
  BY DEF GoneWasReported
<1> QED
  BY <1>1, <1>2, <1>3, <1>4

LEMMA PollInv == ASSUME JInv, NEW l \in Loops, Poll(l) PROVE JInv'
<1> USE DEF JInv, Poll, connVars, history, serverVars, userVars
<1>1. TypeOK'
  BY DEF TypeOK
<1>2. LoopsOK' /\ UserOK'
  BY DEF LoopsOK, UserOK, TypeOK
<1>3. ActiveOK'
  BY AcceptorAssumption DEF ActiveOK, ConnOK, Registered, TypeOK
<1>4. \A k \in Loops : phase'[k] # "exited" => phase[k] # "exited"
  BY DEF TypeOK
<1> QED
  BY <1>1, <1>2, <1>3, <1>4, Quiet

LEMMA SwapPendingInv == ASSUME JInv, NEW l \in Loops, SwapPending(l) PROVE JInv'
<1> USE DEF JInv, SwapPending, connVars, history, serverVars, userVars
<1>1. TypeOK'
  <2>1. batch' \in [Loops -> Seq(Functor)] /\ pending' \in [Loops -> Seq(Functor)]
    BY DEF TypeOK
  <2>2. \A k \in Loops : ranTo'[k] <= Len(batch'[k])
    BY DEF TypeOK
  <2> QED
    BY <2>1, <2>2 DEF TypeOK
<1>2. LoopsOK' /\ UserOK' /\ ActiveOK' /\ GoneWasReported'
  BY DEF LoopsOK, UserOK, ActiveOK, GoneWasReported, TypeOK
<1>3. \A c \in Conns : ConnOK(c)'
  BY DEF ConnOK
<1>4. QueuesOK'
  <2>1. \A k \in Loops : phase[k] = "exited" => phase'[k] = "exited"
    BY DEF TypeOK
  <2>2. \A k \in Loops : EstablishedFirst(k)' /\ \A f : In(k, f)' => FunctorOK(k, f)
    BY Swapped DEF QueuesOK
  <2> QED
    BY <2>1, <2>2 DEF QueuesOK, FunctorOK
<1>5. KeptOK'
  BY Swapped DEF KeptOK, TypeOK
<1> QED
  BY <1>1, <1>2, <1>3, <1>4, <1>5

LEMMA EndPendingInv == ASSUME JInv, NEW l \in Loops, EndPending(l) PROVE JInv'
<1> USE DEF JInv, EndPending, connVars, history, serverVars, userVars
<1>1. TypeOK'
  <2>1. batch' \in [Loops -> Seq(Functor)] /\ pending' \in [Loops -> Seq(Functor)]
    BY DEF TypeOK
  <2>2. \A k \in Loops : ranTo'[k] <= Len(batch'[k])
    BY DEF TypeOK
  <2> QED
    BY <2>1, <2>2 DEF TypeOK
<1>2. LoopsOK' /\ UserOK' /\ ActiveOK' /\ GoneWasReported'
  BY DEF LoopsOK, UserOK, ActiveOK, GoneWasReported, TypeOK
<1>3. \A c \in Conns : ConnOK(c)'
  BY DEF ConnOK
<1>4. QueuesOK'
  <2>1. \A k \in Loops : EstablishedFirst(k)' /\ \A f : In(k, f)' => FunctorOK(k, f)
    BY Ended DEF QueuesOK
  <2> QED
    BY <2>1 DEF QueuesOK, FunctorOK
<1>5. KeptOK'
  <2>1. \A k \in Loops : phase'[k] # "exited" => phase[k] # "exited"
    BY DEF TypeOK
  <2> QED
    BY <2>1, Ended DEF KeptOK, TypeOK
<1> QED
  BY <1>1, <1>2, <1>3, <1>4, <1>5

LEMMA Callback ==
  ASSUME TypeOK, NEW c \in Conns, NEW s \in ConnState, UserCallback(c, s)
  PROVE  /\ state' \in [Conns -> ConnState]
         /\ state'[c] = s \/ (s = "kConnected" /\ state'[c] = "kDisconnecting")
         /\ \A d \in Conns : d # c => state'[d] = state[d]
         /\ userRefs' \subseteq Conns
<1>1. state' \in [Conns -> ConnState] /\ userRefs' \subseteq Conns
  BY DEF TypeOK, UserCallback, SetState, ConnState
<1>2. state'[c] = s \/ (s = "kConnected" /\ state'[c] = "kDisconnecting")
  BY DEF TypeOK, UserCallback, SetState
<1>3. \A d \in Conns : d # c => state'[d] = state[d]
  BY DEF TypeOK, UserCallback, SetState
<1> QED
  BY <1>1, <1>2, <1>3

LEMMA HandleMessageInv ==
  ASSUME JInv, NEW l \in Loops, NEW c \in Conns, HandleEvent(l, c), HandleMessage(c)
  PROVE  JInv'
<1> USE DEF JInv, HandleEvent, HandleMessage, serverVars
<1>1. /\ chan[c] = "reading" /\ state[c] \in ConnState
      /\ state[c] \in {"kConnected", "kDisconnecting"}
      /\ UNCHANGED <<chan, ups, downs, resumed>>
  BY DEF ActiveOK, ConnOK, TypeOK, history
<1>2. /\ state' \in [Conns -> ConnState]
      /\ state'[c] \in {"kConnected", "kDisconnecting"}
      /\ state[c] = "kDisconnecting" => state'[c] = "kDisconnecting"
      /\ \A d \in Conns : d # c => state'[d] = state[d]
      /\ userRefs' \subseteq Conns
  BY <1>1, Callback
<1>3. TypeOK'
  BY <1>1, <1>2 DEF TypeOK
<1>4. LoopsOK' /\ UserOK' /\ ActiveOK'
  BY <1>1 DEF LoopsOK, UserOK, ActiveOK, TypeOK
<1>5. \A d \in Conns : ConnOK(d)'
  BY <1>1, <1>2 DEF ConnOK
<1>6. QueuesOK'
  BY <1>1, <1>2, Same, InTyped DEF QueuesOK, FunctorOK, Functor
<1>7. KeptOK'
  BY <1>1, Same DEF KeptOK, TypeOK
<1>8. GoneWasReported'
  BY <1>1, <1>2 DEF GoneWasReported
<1> QED
  BY <1>3, <1>4, <1>5, <1>6, <1>7, <1>8

LEMMA HandleCloseInv ==
  ASSUME JInv, NEW l \in Loops, NEW c \in Conns, HandleEvent(l, c), HandleClose(l, c)
  PROVE  JInv'
<1> USE DEF JInv
<1>0. /\ phase' = phase /\ quit' = quit /\ batch' = batch /\ ranTo' = ranTo
      /\ active' = [active EXCEPT ![l] = @ \ {c}] /\ c \in active[l] /\ phase[l] = "events"
  BY DEF HandleEvent
<1>1. /\ chan[c] = "reading" /\ ioLoop[c] = l
      /\ state[c] \in {"kConnected", "kDisconnecting"} /\ ups[c] = 1
      /\ downs[c] \in Nat /\ (c \notin resumed => downs[c] = 0)
  <2>1. ConnOK(c) /\ chan[c] = "reading" /\ ioLoop[c] = l /\ downs[c] \in Nat
    BY <1>0 DEF ActiveOK, TypeOK
  <2> QED
    BY <2>1 DEF ConnOK
<1>2. /\ chan' = [chan EXCEPT ![c] = "deleted"]
      /\ downs' = [downs EXCEPT ![c] = @ + 1]
      /\ ups' = ups /\ resumed' = resumed /\ userCall' = userCall
  BY <1>1 DEF HandleClose, DisableAll, Registered, ReportClosed
<1>3. /\ state' \in [Conns -> ConnState] /\ userRefs' \subseteq Conns
      /\ state'[c] = "kDisconnected"
      /\ \A d \in Conns : d # c => state'[d] = state[d]
  BY Callback DEF HandleClose, ReportClosed, ConnState
<1>4. PICK k \in Loops, op \in {"remove", "destroyed"} :
        /\ op = "destroyed" => k = ioLoop[c]
        /\ Push(k, op, c)
        /\ ioLoop' = ioLoop /\ next' = next /\ server' = server
        /\ connections' = connections \/ (connections' = connections \ {c} /\ op = "destroyed")
  BY <1>1 DEF HandleClose, RemoveConnection, RemoveConnectionInLoop, serverVars, Loops
<1>5. /\ pending' \in [Loops -> Seq(Functor)]
      /\ \A m \in Loops : \A f : In(m, f)' <=> In(m, f) \/ (m = k /\ f = F(op, c))
      /\ \A m \in Loops : EstablishedFirst(m) => EstablishedFirst(m)'
  <2>1. op \in Owning \cup Bare /\ op # "established"
    BY <1>4 DEF Owning
  <2> QED
    BY <2>1, <1>0, <1>4, Pushed
<1>6. downs'[c] = downs[c] + 1 /\ chan'[c] = "deleted"
      /\ \A d \in Conns : d # c => downs'[d] = downs[d] /\ chan'[d] = chan[d]
  BY <1>1, <1>2 DEF TypeOK
<1>7. TypeOK'
  <2>1. /\ chan' \in [Conns -> ChanState] /\ downs' \in [Conns -> Nat]
        /\ connections' \subseteq Conns /\ active' \in [Loops -> SUBSET (Conns \cup {Acceptor})]
    BY <1>0, <1>2, <1>4 DEF TypeOK, ChanState
  <2> QED
    BY <2>1, <1>0, <1>2, <1>3, <1>4, <1>5 DEF TypeOK
<1>8. LoopsOK' /\ UserOK'
  BY <1>0, <1>2, <1>4 DEF LoopsOK, UserOK, TypeOK
<1>9. ActiveOK'
  <2>1. \A m \in Loops : active'[m] \subseteq active[m]
    BY <1>0 DEF TypeOK
  <2>2. \A m \in Loops : c \notin active'[m]
    BY <1>0, <1>1 DEF ActiveOK, TypeOK
  <2> SUFFICES ASSUME NEW m \in Loops, NEW d \in Conns, d \in active'[m]
               PROVE  ioLoop'[d] = m /\ chan'[d] = "reading"
    BY DEF ActiveOK
  <2>3. d # c /\ ioLoop[d] = m /\ chan[d] = "reading"
    BY <2>1, <2>2 DEF ActiveOK
  <2> QED
    BY <2>3, <1>4, <1>6 DEF TypeOK
<1>10. \A d \in Conns : ConnOK(d)'
  BY <1>1, <1>2, <1>3, <1>4, <1>6 DEF ConnOK
<1>11. QueuesOK'
  <2>1. ASSUME NEW m \in Loops, NEW f, In(m, f) PROVE FunctorOK(m, f)'
    <3>1. FunctorOK(m, f) /\ f.conn \in Conns
      BY <2>1, InTyped DEF QueuesOK, Functor
    <3>2. CASE f.conn = c
      BY <3>1, <3>2, <1>0, <1>1, <1>2, <1>3, <1>4, <1>6 DEF FunctorOK
    <3>3. CASE f.conn # c
      BY <3>1, <3>3, <1>0, <1>2, <1>3, <1>4, <1>6 DEF FunctorOK
    <3> QED
      BY <3>2, <3>3
  <2>2. FunctorOK(k, F(op, c))'
    BY <1>1, <1>3, <1>4, <1>6 DEF FunctorOK, F, Bare
  <2> QED
    BY <2>1, <2>2, <1>5 DEF QueuesOK
<1>12. KeptOK'
  <2>1. ASSUME NEW d \in Conns, In(ioLoop[d], F("established", d))' PROVE In(ioLoop[d], F("established", d))
    BY <2>1, <1>4, <1>5 DEF TypeOK, F
  <2>2. op = "destroyed" => In(ioLoop[c], F("destroyed", c))'
    BY <1>1, <1>4, <1>5
  <2>3. \A d \in Conns : In(ioLoop[d], F("destroyed", d)) => In(ioLoop[d], F("destroyed", d))'
    BY <1>4, <1>5 DEF TypeOK
  <2> QED
    BY <2>1, <2>2, <2>3, <1>0, <1>1, <1>2, <1>4, <1>6 DEF KeptOK
<1>13. GoneWasReported'
  BY <1>2, <1>3, <1>4, <1>6 DEF GoneWasReported
<1> QED
  BY <1>7, <1>8, <1>9, <1>10, <1>11, <1>12, <1>13

LEMMA HandleEventInv ==
  ASSUME JInv, NEW l \in Loops, NEW c \in Conns, HandleEvent(l, c)
  PROVE  JInv'
<1>1. CASE HandleClose(l, c)
  BY <1>1, HandleCloseInv
<1>2. CASE HandleMessage(c)
  BY <1>2, HandleMessageInv
<1>3. CASE UNCHANGED <<connVars, serverVars, pending, userVars>>
  <2> USE <1>3 DEF JInv, HandleEvent, connVars, history, serverVars, userVars
  <2>1. TypeOK'
    BY DEF TypeOK
  <2>2. LoopsOK' /\ UserOK' /\ ActiveOK'
    BY DEF LoopsOK, UserOK, ActiveOK, TypeOK
  <2> QED
    BY <2>1, <2>2, Quiet
<1> QED
  BY <1>1, <1>2, <1>3 DEF HandleEvent

LEMMA NewConnectionInv ==
  ASSUME JInv, Accept, NEW c \in Conns, NewConnection(c)
  PROVE  JInv'
<1> USE DEF JInv
<1>0. /\ phase' = phase /\ quit' = quit /\ batch' = batch /\ ranTo' = ranTo
      /\ active' = [active EXCEPT ![Base] = @ \ {Acceptor}]
  BY DEF Accept
<1>1. /\ state[c] = "none" /\ chan[c] = "new" /\ c \notin connections /\ ups[c] = 0
      /\ downs[c] = 0 /\ c \notin resumed /\ \A l \in Loops : c \notin active[l]
      /\ \A u \in Users : userCall[u] # Idle => userCall[u].conn # c
  BY DEF NewConnection, ConnOK, ActiveOK, UserOK, TypeOK
<1>2. \A l \in Loops : \A f : In(l, f) => f.conn # c /\ f.conn \in Conns
  BY <1>1, InTyped DEF QueuesOK, FunctorOK, Functor
<1>3. PICK k \in Loops : k = NextLoop
  <2>1. CASE IoSeq = <<>>
    BY <2>1 DEF NextLoop, Loops
  <2>2. CASE IoSeq # <<>>
    BY <2>2, LoopAssumption DEF NextLoop, Loops, IoLoops, TypeOK
  <2> QED
    BY <2>1, <2>2
<1>4. /\ ioLoop' = [ioLoop EXCEPT ![c] = k] /\ connections' = connections \cup {c}
      /\ server' = server /\ userCall' = userCall /\ downs' = downs /\ resumed' = resumed
      /\ next' \in 1..(IF IoSeq = <<>> THEN 1 ELSE Len(IoSeq))
  <2>1. next' \in 1..(IF IoSeq = <<>> THEN 1 ELSE Len(IoSeq))
    BY LoopAssumption DEF NewConnection, Advance, TypeOK
  <2> QED
    BY <2>1, <1>3 DEF NewConnection, ConnectEstablished, userVars, history
<1>5. /\ pending' \in [Loops -> Seq(Functor)]
      /\ \A l \in Loops : EstablishedFirst(l)'
      /\ \/ /\ k = Base
            /\ chan' = [chan EXCEPT ![c] = "reading"] /\ ups' = [ups EXCEPT ![c] = @ + 1]
            /\ UserCallback(c, "kConnected")
            /\ \A l \in Loops : \A f : In(l, f)' <=> In(l, f)
         \/ /\ chan' = chan /\ ups' = ups /\ userRefs' = userRefs
            /\ state' = [state EXCEPT ![c] = "kConnecting"]
            /\ \A l \in Loops : \A f : In(l, f)' <=> In(l, f) \/ (l = k /\ f = F("established", c))
  <2>1. CASE k = Base
    <3>1. /\ chan' = [chan EXCEPT ![c] = "reading"] /\ ups' = [ups EXCEPT ![c] = @ + 1]
          /\ UserCallback(c, "kConnected") /\ pending' = pending
      BY <2>1, <1>3 DEF NewConnection, ConnectEstablished, EnableReading
    <3> QED
      BY <2>1, <3>1, <1>0, Same DEF QueuesOK, TypeOK
  <2>2. CASE k # Base
    <3>1. /\ chan' = chan /\ ups' = ups /\ userRefs' = userRefs
          /\ state' = [state EXCEPT ![c] = "kConnecting"]
          /\ Push(k, "established", c)
      BY <2>2, <1>3 DEF NewConnection, SetState, userVars, history
    <3>2. "established" \in Owning \cup Bare
      BY DEF Owning
    <3> QED
      BY <3>1, <3>2, <1>0, <1>2, Pushed DEF QueuesOK
  <2> QED
    BY <2>1, <2>2
<1>6. /\ state' \in [Conns -> ConnState] /\ userRefs' \subseteq Conns
      /\ chan' \in [Conns -> ChanState] /\ ups' \in [Conns -> Nat]
      /\ \A d \in Conns : d # c => state'[d] = state[d] /\ chan'[d] = chan[d] /\ ups'[d] = ups[d]
      /\ \/ state'[c] \in {"kConnected", "kDisconnecting"} /\ ups'[c] = 1 /\ chan'[c] = "reading"
         \/ state'[c] = "kConnecting" /\ ups'[c] = 0 /\ chan'[c] = "new"
  <2>1. CASE UserCallback(c, "kConnected") /\ chan' = [chan EXCEPT ![c] = "reading"]
             /\ ups' = [ups EXCEPT ![c] = @ + 1]
    <3>1. /\ chan' \in [Conns -> ChanState] /\ ups' \in [Conns -> Nat]
          /\ ups'[c] = 1 /\ chan'[c] = "reading"
          /\ \A d \in Conns : d # c => chan'[d] = chan[d] /\ ups'[d] = ups[d]
      BY <2>1, <1>1 DEF ChanState, TypeOK
    <3> QED
      BY <2>1, <3>1, Callback DEF ConnState
  <2>2. CASE /\ chan' = chan /\ ups' = ups /\ userRefs' = userRefs
             /\ state' = [state EXCEPT ![c] = "kConnecting"]
    BY <2>2, <1>1 DEF ConnState, TypeOK
  <2> QED
    BY <2>1, <2>2, <1>5
<1>7. TypeOK'
  <2>1. active' \in [Loops -> SUBSET (Conns \cup {Acceptor})] /\ ioLoop' \in [Conns -> Loops]
    BY <1>0, <1>4 DEF TypeOK
  <2> QED
    BY <2>1, <1>0, <1>4, <1>5, <1>6 DEF TypeOK
<1>8. LoopsOK' /\ UserOK'
  <2>1. LoopsOK'
    BY <1>0 DEF LoopsOK, TypeOK
  <2>2. UserOK'
    BY <1>1, <1>4, <1>6 DEF UserOK, TypeOK, Call, Idle
  <2> QED
    BY <2>1, <2>2
<1>9. ActiveOK'
  <2>1. \A m \in Loops : active'[m] \subseteq active[m]
    BY <1>0 DEF TypeOK
  <2>2. \A m \in Loops : c \notin active'[m]
    BY <1>0, <1>1 DEF ActiveOK, TypeOK
  <2> SUFFICES ASSUME NEW m \in Loops, NEW d \in Conns, d \in active'[m]
               PROVE  ioLoop'[d] = m /\ chan'[d] = "reading"
    BY DEF ActiveOK
  <2>3. d # c /\ ioLoop[d] = m /\ chan[d] = "reading"
    BY <2>1, <2>2 DEF ActiveOK
  <2> QED
    BY <2>3, <1>4, <1>6 DEF TypeOK
<1>10. \A d \in Conns : ConnOK(d)'
  BY <1>1, <1>4, <1>6 DEF ConnOK
<1>11. QueuesOK'
  <2>1. ASSUME NEW l \in Loops, NEW f, In(l, f) PROVE FunctorOK(l, f)'
    <3>1. FunctorOK(l, f) /\ f.conn \in Conns /\ f.conn # c
      BY <2>1, <1>2 DEF QueuesOK
    <3> QED
      BY <3>1, <1>0, <1>4, <1>6 DEF FunctorOK, TypeOK
  <2>2. state'[c] = "kConnecting" => FunctorOK(k, F("established", c))'
    BY <1>4, <1>6 DEF FunctorOK, F, TypeOK, Bare
  <2> QED
    BY <2>1, <2>2, <1>5, <1>6 DEF QueuesOK, TypeOK
<1>12. KeptOK'
  <2> SUFFICES ASSUME NEW d \in Conns \ resumed, d # c,
                      chan'[d] # "new" \/ In(ioLoop[d], F("established", d))',
                      phase'[ioLoop'[d]] # "exited"
               PROVE  d \in connections' \/ In(ioLoop[d], F("destroyed", d))'
    BY <1>4 DEF KeptOK
  <2>1. ioLoop'[d] = ioLoop[d] /\ ioLoop[d] \in Loops
    BY <1>4 DEF TypeOK
  <2>2. \A op : In(ioLoop[d], F(op, d))' <=> In(ioLoop[d], F(op, d))
    BY <2>1, <1>5 DEF F
  <2> QED
    BY <2>1, <2>2, <1>0, <1>4, <1>6 DEF KeptOK
<1>13. GoneWasReported'
  BY <1>4, <1>6 DEF GoneWasReported
<1> QED
  BY <1>7, <1>8, <1>9, <1>10, <1>11, <1>12, <1>13

LEMMA AcceptInv == ASSUME JInv, Accept PROVE JInv'
<1>1. ASSUME NEW c \in Conns, NewConnection(c) PROVE JInv'
  BY <1>1, NewConnectionInv
<1>2. CASE UNCHANGED <<connVars, serverVars, pending, userVars>>
  <2> USE <1>2 DEF JInv, Accept, connVars, history, serverVars, userVars
  <2>1. TypeOK'
    BY DEF TypeOK
  <2>2. LoopsOK' /\ UserOK' /\ ActiveOK'
    BY DEF LoopsOK, UserOK, ActiveOK, TypeOK
  <2> QED
    BY <2>1, <2>2, Quiet
<1> QED
  BY <1>1, <1>2 DEF Accept

(* What running a functor does to the loop.                                *)
LEMMA RunTyped ==
  ASSUME JInv, NEW l \in Loops, RunFunctor(l)
  PROVE  /\ phase' = phase /\ quit' = quit /\ active' = active /\ batch' = batch
         /\ phase[l] = "run" /\ active[l] = {}
         /\ ranTo[l] < Len(batch[l]) /\ ranTo' = [ranTo EXCEPT ![l] = @ + 1]
         /\ ranTo' \in [Loops -> Nat] /\ \A k \in Loops : ranTo'[k] <= Len(batch[k])
         /\ LoopsOK'
<1>1. /\ phase' = phase /\ quit' = quit /\ active' = active /\ batch' = batch
      /\ phase[l] = "run" /\ ranTo[l] < Len(batch[l]) /\ ranTo' = [ranTo EXCEPT ![l] = @ + 1]
  BY DEF RunFunctor
<1>2. active[l] = {} /\ LoopsOK'
  BY <1>1 DEF JInv, LoopsOK
<1>3. ranTo' \in [Loops -> Nat] /\ \A k \in Loops : ranTo'[k] <= Len(batch[k])
  BY <1>1 DEF JInv, TypeOK
<1> QED
  BY <1>1, <1>2, <1>3

(* connectEstablished and connectDestroyed: no queue but loses f.          *)
LEMMA RunEstablishedInv ==
  ASSUME JInv, NEW l \in Loops, RunFunctor(l), NEW f, f = batch[l][ranTo[l] + 1],
         f.op = "established", ConnectEstablished(f.conn),
         UNCHANGED <<serverVars, pending, userCall>>
  PROVE  JInv'
<1> DEFINE c == f.conn
<1> USE DEF JInv, serverVars
<1>0. /\ phase' = phase /\ quit' = quit /\ active' = active /\ batch' = batch
      /\ phase[l] = "run" /\ active[l] = {}
      /\ ranTo[l] < Len(batch[l]) /\ ranTo' = [ranTo EXCEPT ![l] = @ + 1]
      /\ ranTo' \in [Loops -> Nat] /\ \A k \in Loops : ranTo'[k] <= Len(batch[k])
      /\ LoopsOK'
  BY RunTyped
<1>1. /\ In(l, f) /\ \A k \in Loops : \A g : In(k, g) <=> In(k, g)' \/ (k = l /\ g = f)
      /\ \A k \in Loops : EstablishedFirst(k)'
      /\ ~In(l, F("established", c))'
  <2>1. /\ TypeOK /\ \A k \in Loops : EstablishedFirst(k)
        /\ ranTo[l] < Len(batch[l]) /\ ranTo' = [ranTo EXCEPT ![l] = @ + 1]
        /\ UNCHANGED <<batch, pending>>
    BY <1>0 DEF QueuesOK
  <2> HIDE DEF JInv
  <2>2. In(l, f) /\ \A k \in Loops : EstablishedFirst(k)'
    BY <2>1, Popped
  <2>3. \A k \in Loops : \A g : In(k, g) <=> In(k, g)' \/ (k = l /\ g = f)
    BY <2>1, Popped
  <2>4. ~In(l, F("established", c))'
    BY <2>1, Popped
  <2> QED
    BY <2>2, <2>3, <2>4
<1>2. /\ f \in Functor /\ c \in Conns /\ ioLoop[c] = l /\ state[c] = "kConnecting"
      /\ f = F("established", c)
  BY <1>1, InTyped DEF QueuesOK, FunctorOK, Functor, F
<1>3. ups[c] = 0 /\ downs[c] = 0
  <2>1. ConnOK(c) /\ downs[c] \in Nat
    BY <1>2 DEF TypeOK
  <2> QED
    BY <2>1, <1>2 DEF ConnOK
<1>4. /\ state' \in [Conns -> ConnState] /\ userRefs' \subseteq Conns
      /\ state'[c] \in {"kConnected", "kDisconnecting"}
      /\ \A d \in Conns : d # c => state'[d] = state[d]
  BY <1>2, Callback DEF ConnectEstablished, ConnState
<1>5. /\ chan' \in [Conns -> ChanState] /\ ups' \in [Conns -> Nat]
      /\ downs' = downs /\ resumed' = resumed
      /\ chan'[c] = "reading" /\ ups'[c] = 1
      /\ \A d \in Conns : d # c => chan'[d] = chan[d] /\ ups'[d] = ups[d]
  BY <1>2, <1>3 DEF ConnectEstablished, EnableReading, TypeOK, ChanState
<1>6. TypeOK'
  BY <1>4, <1>5, <1>0 DEF TypeOK
<1>7. UserOK' /\ ActiveOK'
  <2>1. UserOK'
    BY <1>3, <1>5 DEF UserOK, TypeOK, Call, Idle
  <2>2. ActiveOK'
    BY <1>5, <1>0 DEF ActiveOK
  <2> QED
    BY <2>1, <2>2
<1>8. \A d \in Conns : ConnOK(d)'
  BY <1>2, <1>3, <1>4, <1>5 DEF ConnOK
<1>9. QueuesOK'
  <2> SUFFICES ASSUME NEW k \in Loops, NEW g, In(k, g)' PROVE FunctorOK(k, g)'
    BY <1>1 DEF QueuesOK
  <2>1. FunctorOK(k, g) /\ g.conn \in Conns /\ (g.op = "established" => g = F("established", g.conn))
    BY <1>1, InTyped DEF QueuesOK, Functor, F
  <2>2. g.op = "established" => g.conn # c
    BY <2>1, <1>1, <1>2 DEF FunctorOK
  <2>3. CASE g.conn = c
    BY <2>1, <2>2, <2>3, <1>0, <1>2, <1>3, <1>4, <1>5 DEF FunctorOK
  <2>4. CASE g.conn # c
    BY <2>1, <2>4, <1>0, <1>4, <1>5 DEF FunctorOK
  <2> QED
    BY <2>3, <2>4
<1>10. KeptOK'
  <2>1. \A d \in Conns : \A op : op # "established" => (In(ioLoop[d], F(op, d))' <=> In(ioLoop[d], F(op, d)))
    BY <1>1, <1>2 DEF F, TypeOK
  <2>2. \A d \in Conns : In(ioLoop[d], F("established", d))' => In(ioLoop[d], F("established", d))
    BY <1>1 DEF TypeOK
  <2> QED
    BY <2>1, <2>2, <1>1, <1>2, <1>5, <1>0 DEF KeptOK
<1>11. GoneWasReported'
  BY <1>4, <1>5 DEF GoneWasReported
<1> QED
  BY <1>6, <1>7, <1>8, <1>9, <1>10, <1>11, <1>0

(* What connectDestroyed does to a connection.                             *)
LEMMA Destroyed ==
  ASSUME TypeOK, NEW c \in Conns, ConnOK(c), ConnectDestroyed(c)
  PROVE  /\ state' \in [Conns -> ConnState] /\ userRefs' \subseteq Conns
         /\ chan' \in [Conns -> ChanState] /\ downs' \in [Conns -> Nat]
         /\ ups' = ups /\ resumed' = resumed
         /\ \A d \in Conns : d # c => state'[d] = state[d] /\ chan'[d] = chan[d] /\ downs'[d] = downs[d]
         /\ chan'[c] = "new"
         /\ IF state[c] = "kConnected"
            THEN state'[c] = "kDisconnected" /\ downs[c] = 0 /\ downs'[c] = 1
            ELSE state'[c] = state[c] /\ downs'[c] = downs[c]
<1>1. /\ chan' \in [Conns -> ChanState] /\ chan'[c] = "new" /\ ups' = ups /\ resumed' = resumed
      /\ \A d \in Conns : d # c => chan'[d] = chan[d]
  BY DEF ConnectDestroyed, Remove, TypeOK, ChanState
<1>2. CASE state[c] = "kConnected"
  <2>1. ReportClosed(c) /\ downs[c] = 0
    BY <1>2 DEF ConnectDestroyed, ConnOK, TypeOK
  <2>2. downs' \in [Conns -> Nat] /\ downs'[c] = 1 /\ \A d \in Conns : d # c => downs'[d] = downs[d]
    BY <2>1 DEF ReportClosed, TypeOK
  <2>3. /\ state' \in [Conns -> ConnState] /\ userRefs' \subseteq Conns
        /\ state'[c] = "kDisconnected"
        /\ \A d \in Conns : d # c => state'[d] = state[d]
    BY <2>1, Callback DEF ReportClosed, ConnState
  <2> QED
    BY <1>1, <1>2, <2>1, <2>2, <2>3
<1>3. CASE state[c] # "kConnected"
  BY <1>1, <1>3 DEF ConnectDestroyed, TypeOK
<1> QED
  BY <1>2, <1>3

LEMMA RunDestroyedInv ==
  ASSUME IInv, NEW l \in Loops, RunFunctor(l), NEW f, f = batch[l][ranTo[l] + 1],
         f.op = "destroyed", ConnectDestroyed(f.conn),
         UNCHANGED <<serverVars, pending, userCall>>
  PROVE  JInv'
<1> DEFINE c == f.conn
<1> USE DEF IInv, JInv, serverVars
<1>0. /\ phase' = phase /\ quit' = quit /\ active' = active /\ batch' = batch
      /\ phase[l] = "run" /\ active[l] = {}
      /\ ranTo[l] < Len(batch[l]) /\ ranTo' = [ranTo EXCEPT ![l] = @ + 1]
      /\ ranTo' \in [Loops -> Nat] /\ \A k \in Loops : ranTo'[k] <= Len(batch[k])
      /\ LoopsOK'
  BY RunTyped
<1>1. /\ In(l, f) /\ \A k \in Loops : \A g : In(k, g) <=> In(k, g)' \/ (k = l /\ g = f)
      /\ \A k \in Loops : EstablishedFirst(k)'
      /\ ~In(l, F("established", c))'
  <2>1. /\ TypeOK /\ \A k \in Loops : EstablishedFirst(k)
        /\ ranTo[l] < Len(batch[l]) /\ ranTo' = [ranTo EXCEPT ![l] = @ + 1]
        /\ UNCHANGED <<batch, pending>>
    BY <1>0 DEF QueuesOK
  <2> HIDE DEF IInv, JInv
  <2>2. In(l, f) /\ \A k \in Loops : EstablishedFirst(k)'
    BY <2>1, Popped
  <2>3. \A k \in Loops : \A g : In(k, g) <=> In(k, g)' \/ (k = l /\ g = f)
    BY <2>1, Popped
  <2>4. ~In(l, F("established", c))'
    BY <2>1, Popped
  <2> QED
    BY <2>2, <2>3, <2>4
<1>2. /\ f \in Functor /\ c \in Conns /\ ioLoop[c] = l /\ state[c] # "none"
      /\ (server = "up" => downs[c] > 0) /\ f = F("destroyed", c)
  BY <1>1, InTyped DEF QueuesOK, FunctorOK, Functor, F
<1>3. /\ state' \in [Conns -> ConnState] /\ userRefs' \subseteq Conns
      /\ chan' \in [Conns -> ChanState] /\ downs' \in [Conns -> Nat]
      /\ ups' = ups /\ resumed' = resumed
      /\ \A d \in Conns : d # c => state'[d] = state[d] /\ chan'[d] = chan[d] /\ downs'[d] = downs[d]
      /\ chan'[c] = "new"
      /\ IF state[c] = "kConnected"
         THEN state'[c] = "kDisconnected" /\ downs[c] = 0 /\ downs'[c] = 1
         ELSE state'[c] = state[c] /\ downs'[c] = downs[c]
  BY <1>2, Destroyed DEF ConnOK
<1>4. TypeOK'
  BY <1>3, <1>0 DEF TypeOK
<1>5. UserOK' /\ ActiveOK'
  <2>1. UserOK'
    BY <1>3 DEF UserOK
  <2>2. ActiveOK'
    BY <1>2, <1>3, <1>0 DEF ActiveOK
  <2> QED
    BY <2>1, <2>2
<1>6. \A d \in Conns : ConnOK(d)'
  <2>1. ASSUME NEW d \in Conns, d # c PROVE ConnOK(d)'
    BY <2>1, <1>3 DEF ConnOK
  <2>2. ConnOK(c)'
    <3>1. ConnOK(c) /\ connections' = connections /\ downs[c] \in Nat
      BY <1>2 DEF TypeOK
    <3> HIDE DEF IInv, JInv
    <3>2. CASE state[c] = "kConnected"
      <4>1. /\ ups[c] = 1 /\ c \notin resumed /\ UNCHANGED <<ups, resumed>>
            /\ state'[c] = "kDisconnected" /\ chan'[c] = "new" /\ downs'[c] = 1
        BY <3>1, <3>2, <1>3 DEF ConnOK
      <4> QED
        BY <4>1 DEF ConnOK
    <3>3. CASE state[c] # "kConnected"
      BY <3>1, <3>3, <1>2, <1>3 DEF ConnOK
    <3> QED
      BY <3>2, <3>3
  <2> QED
    BY <2>1, <2>2
<1>7. QueuesOK'
  <2> SUFFICES ASSUME NEW k \in Loops, NEW g, In(k, g)' PROVE FunctorOK(k, g)'
    BY <1>1 DEF QueuesOK
  <2>1. FunctorOK(k, g) /\ g.conn \in Conns
    BY <1>1, InTyped DEF QueuesOK, Functor
  <2>2. g.op = "send" /\ g.conn = c => downs[c] > 0
    <3> SUFFICES ASSUME g.op = "send", g.conn = c PROVE downs[c] > 0
      OBVIOUS
    <3>1. k = l /\ g = F("send", c)
      <4>1. k = l /\ In(k, g)
        BY <2>1, <1>1, <1>2 DEF FunctorOK
      <4>2. g \in Functor
        BY <4>1, InTyped
      <4> QED
        BY <4>1, <4>2 DEF Functor, F
    <3>2. Behind(batch[l], ranTo[l], pending[l], c)
      BY <3>1, <1>0, <1>2, PopBehind DEF In, TypeOK
    <3> QED
      BY <3>2, <1>2 DEF SendsOK, Late
  <2> QED
    BY <2>1, <2>2, <1>0, <1>2, <1>3 DEF FunctorOK
<1>8. KeptOK'
  <2> SUFFICES ASSUME NEW d \in Conns \ resumed, d # c,
                      chan'[d] # "new" \/ In(ioLoop[d], F("established", d))',
                      phase'[ioLoop'[d]] # "exited"
               PROVE  d \in connections' \/ In(ioLoop[d], F("destroyed", d))'
    <3>1. chan'[c] = "new" /\ ~In(ioLoop[c], F("established", c))'
      BY <1>1, <1>2, <1>3
    <3> QED
      BY <3>1, <1>3 DEF KeptOK
  <2>1. ioLoop[d] \in Loops /\ ioLoop' = ioLoop
    BY DEF TypeOK
  <2>2. \A op : In(ioLoop[d], F(op, d))' <=> In(ioLoop[d], F(op, d))
    BY <2>1, <1>1, <1>2 DEF F
  <2> QED
    BY <2>1, <2>2, <1>0, <1>3 DEF KeptOK
<1>9. GoneWasReported'
  <2>1. ASSUME NEW d \in Conns, d # c, ups'[d] = 1, chan'[d] = "new"
        PROVE  downs'[d] > 0 \/ (state'[d] = "kDisconnecting" /\ server # "up")
    BY <2>1, <1>3 DEF GoneWasReported
  <2>2. ASSUME ups'[c] = 1
        PROVE  downs'[c] > 0 \/ (state'[c] = "kDisconnecting" /\ server # "up")
    BY <2>2, <1>2, <1>3 DEF ConnOK, TypeOK, ConnState
  <2> QED
    BY <2>1, <2>2 DEF GoneWasReported
<1> QED
  BY <1>4, <1>5, <1>6, <1>7, <1>8, <1>9, <1>0

LEMMA RunRemoveInv ==
  ASSUME JInv, NEW l \in Loops, RunFunctor(l), NEW f, f = batch[l][ranTo[l] + 1],
         f.op = "remove", RemoveConnectionInLoop(f.conn), UNCHANGED <<connVars, userVars>>
  PROVE  JInv'
<1> DEFINE c == f.conn
<1> USE DEF JInv, connVars, history, userVars
<1>0. f \in Functor /\ c \in Conns /\ ioLoop[c] \in Loops
  BY RunTyped, PopWaits DEF TypeOK, Functor
<1>1. PICK m \in Loops : m = ioLoop[c]
  BY <1>0
<1>2. /\ connections' = connections \ {c} /\ Push(m, "destroyed", c)
      /\ ioLoop' = ioLoop /\ next' = next /\ server' = server
  BY <1>1 DEF RemoveConnectionInLoop
<1>3. /\ pending' \in [Loops -> Seq(Functor)]
      /\ In(l, f)
      /\ \A k \in Loops : \A g : In(k, g)' => In(k, g) \/ (k = m /\ g = F("destroyed", c))
      /\ \A k \in Loops : \A g : In(k, g) => In(k, g)' \/ (k = l /\ g = f)
      /\ In(m, F("destroyed", c))'
      /\ \A k \in Loops : EstablishedFirst(k)'
  <2>1. /\ ranTo[l] < Len(batch[l]) /\ ranTo' = [ranTo EXCEPT ![l] = @ + 1] /\ UNCHANGED batch
        /\ \A k \in Loops : EstablishedFirst(k)
    BY RunTyped DEF QueuesOK
  <2>2. TypeOK /\ m \in Loops /\ c \in Conns /\ Push(m, "destroyed", c)
    BY <1>0, <1>1, <1>2
  <2> HIDE DEF JInv, c
  <2> QED
    BY <2>1, <2>2, PoppedPushed
<1>4. state[c] # "none" /\ (server = "up" => downs[c] > 0)
  BY <1>3 DEF QueuesOK, FunctorOK
<1>5. TypeOK'
  BY <1>2, <1>3, RunTyped DEF TypeOK
<1>6. UserOK' /\ ActiveOK' /\ GoneWasReported'
  BY <1>2, RunTyped DEF UserOK, ActiveOK, GoneWasReported
<1>7. \A d \in Conns : ConnOK(d)'
  BY <1>2 DEF ConnOK
<1>8. QueuesOK'
  <2>1. ASSUME NEW k \in Loops, NEW g, In(k, g) PROVE FunctorOK(k, g)'
    <3>1. FunctorOK(k, g) /\ phase' = phase
      BY <2>1, RunTyped DEF QueuesOK
    <3> QED
      BY <3>1, <1>2 DEF FunctorOK
  <2>2. FunctorOK(m, F("destroyed", c))'
    BY <1>1, <1>2, <1>4 DEF FunctorOK, F, Bare
  <2> QED
    BY <2>1, <2>2, <1>3 DEF QueuesOK
<1>9. KeptOK'
  <2>1. \A d \in Conns : In(ioLoop[d], F("established", d))' => In(ioLoop[d], F("established", d))
    BY <1>2, <1>3 DEF F, TypeOK
  <2>2. \A d \in Conns : In(ioLoop[d], F("destroyed", d)) => In(ioLoop[d], F("destroyed", d))'
    BY <1>2, <1>3 DEF F, TypeOK
  <2>3. In(ioLoop[c], F("destroyed", c))'
    BY <1>1, <1>2, <1>3
  <2> QED
    BY <2>1, <2>2, <2>3, <1>2, RunTyped DEF KeptOK
<1> QED
  BY <1>5, <1>6, <1>7, <1>8, <1>9, RunTyped

(* shutdownInLoop and sendInLoop find nothing to do to the channel.        *)
LEMMA RunBareInv ==
  ASSUME JInv, NEW l \in Loops, RunFunctor(l), NEW f, f = batch[l][ranTo[l] + 1],
         f.op \in Bare, UNCHANGED <<connVars, serverVars, pending, userVars>>
  PROVE  JInv'
<1> USE DEF JInv, connVars, history, serverVars, userVars
<1>0. /\ phase' = phase /\ quit' = quit /\ active' = active /\ batch' = batch
      /\ phase[l] = "run" /\ active[l] = {}
      /\ ranTo[l] < Len(batch[l]) /\ ranTo' = [ranTo EXCEPT ![l] = @ + 1]
      /\ ranTo' \in [Loops -> Nat] /\ \A k \in Loops : ranTo'[k] <= Len(batch[k])
      /\ LoopsOK'
  BY RunTyped
<1>1. /\ \A k \in Loops : \A g : In(k, g) <=> In(k, g)' \/ (k = l /\ g = f)
      /\ \A k \in Loops : EstablishedFirst(k)'
  <2>1. TypeOK /\ \A k \in Loops : EstablishedFirst(k)
    BY DEF QueuesOK
  <2> HIDE DEF JInv
  <2> QED
    BY <2>1, <1>0, Popped
<1>2. TypeOK'
  BY <1>0 DEF TypeOK
<1>3. UserOK' /\ ActiveOK' /\ GoneWasReported'
  BY <1>0 DEF UserOK, ActiveOK, GoneWasReported
<1>4. \A d \in Conns : ConnOK(d)'
  BY DEF ConnOK
<1>5. QueuesOK'
  BY <1>0, <1>1 DEF QueuesOK, FunctorOK
<1>6. KeptOK'
  <2>1. \A d \in Conns : \A op : op \in {"established", "destroyed"}
          => (In(ioLoop[d], F(op, d))' <=> In(ioLoop[d], F(op, d)))
    BY <1>1 DEF F, TypeOK, Bare
  <2> QED
    BY <2>1, <1>0 DEF KeptOK
<1> QED
  BY <1>2, <1>3, <1>4, <1>5, <1>6, <1>0

(* sendInLoop brings back the channel of a connection that was closed.     *)
LEMMA RunResumeInv ==
  ASSUME JInv, NEW l \in Loops, RunFunctor(l), NEW f, f = batch[l][ranTo[l] + 1],
         f.op = "send", state[f.conn] # "kDisconnected", ResumeOutput(f.conn),
         UNCHANGED <<state, ups, downs, serverVars, pending, userVars>>
  PROVE  JInv'
<1> DEFINE c == f.conn
<1> USE DEF JInv, serverVars, userVars
<1>0. /\ phase' = phase /\ quit' = quit /\ active' = active /\ batch' = batch
      /\ phase[l] = "run" /\ active[l] = {}
      /\ ranTo[l] < Len(batch[l]) /\ ranTo' = [ranTo EXCEPT ![l] = @ + 1]
      /\ ranTo' \in [Loops -> Nat] /\ \A k \in Loops : ranTo'[k] <= Len(batch[k])
      /\ LoopsOK'
  BY RunTyped
<1>1. /\ f \in Functor
      /\ \A k \in Loops : \A g : In(k, g) <=> In(k, g)' \/ (k = l /\ g = f)
      /\ \A k \in Loops : EstablishedFirst(k)'
  <2>1. TypeOK /\ \A k \in Loops : EstablishedFirst(k)
    BY DEF QueuesOK
  <2> HIDE DEF JInv
  <2>2. f \in Functor
    <3>1. In(l, f)
      BY <2>1, <1>0, Popped
    <3> QED
      BY <2>1, <3>1, InTyped
  <2>3. \A k \in Loops : \A g : In(k, g) <=> In(k, g)' \/ (k = l /\ g = f)
    BY <2>1, <1>0, Popped
  <2>4. \A k \in Loops : EstablishedFirst(k)'
    BY <2>1, <1>0, Popped
  <2> QED
    BY <2>2, <2>3, <2>4
<1>2. /\ c \in Conns /\ downs[c] > 0 /\ state[c] = "kDisconnecting"
      /\ chan' \in [Conns -> ChanState] /\ chan'[c] = "reading"
      /\ \A d \in Conns : d # c => chan'[d] = chan[d]
      /\ resumed' = resumed \cup {c} /\ resumed' \subseteq Conns
  BY <1>1 DEF ResumeOutput, EnableReading, Functor, ConnOK, TypeOK, ChanState
<1>3. TypeOK'
  BY <1>0, <1>2 DEF TypeOK
<1>4. UserOK' /\ ActiveOK' /\ GoneWasReported'
  <2>1. UserOK'
    BY DEF UserOK
  <2>2. ActiveOK'
    BY <1>0, <1>2 DEF ActiveOK
  <2>3. GoneWasReported'
    BY <1>2 DEF GoneWasReported
  <2> QED
    BY <2>1, <2>2, <2>3
<1>5. \A d \in Conns : ConnOK(d)'
  BY <1>2 DEF ConnOK
<1>6. QueuesOK'
  <2> SUFFICES ASSUME NEW k \in Loops, NEW g, In(k, g)' PROVE FunctorOK(k, g)'
    BY <1>1 DEF QueuesOK
  <2>1. FunctorOK(k, g) /\ g.conn \in Conns
    BY <1>1, InTyped DEF QueuesOK, Functor
  <2> QED
    BY <2>1, <1>0, <1>2 DEF FunctorOK
<1>7. KeptOK'
  <2>1. \A d \in Conns : \A op : op \in {"established", "destroyed"}
          => (In(ioLoop[d], F(op, d))' <=> In(ioLoop[d], F(op, d)))
    BY <1>1 DEF F, TypeOK
  <2> QED
    BY <2>1, <1>0, <1>2 DEF KeptOK
<1> QED
  BY <1>3, <1>4, <1>5, <1>6, <1>7, <1>0

LEMMA RunFunctorInv == ASSUME IInv, NEW l \in Loops, RunFunctor(l) PROVE JInv'
<1>1. JInv /\ TypeOK
  BY DEF IInv, JInv
<1>2. PICK f \in Functor : f = batch[l][ranTo[l] + 1]
  BY <1>1, RunTyped, PopWaits DEF TypeOK
<1>3. Run(l, f)
  BY <1>2 DEF RunFunctor
<1>4. CASE f.op = "send" /\ SendInLoop(f.conn)
  <2>1. /\ In(l, f) /\ phase[l] = "run"
        /\ UNCHANGED <<state, ups, downs, serverVars, pending, userVars>>
    BY <1>1, <1>2, <1>4, RunTyped, PopWaits DEF SendInLoop, In, TypeOK
  <2>2. chan[f.conn] = "reading" \/ downs[f.conn] > 0
    BY <1>1, <1>4, <2>1 DEF JInv, QueuesOK, FunctorOK
  <2>3. CASE KeepOutput(f.conn)
    <3>1. chan' = chan /\ resumed' = resumed
      BY <1>1, <2>2, <2>3 DEF KeepOutput, EnableReading, TypeOK
    <3> QED
      BY <1>1, <1>2, <1>4, <2>1, <3>1, RunBareInv DEF Bare, connVars, history
  <2>4. CASE state[f.conn] # "kDisconnected" /\ ResumeOutput(f.conn)
    BY <1>1, <1>2, <1>4, <2>1, <2>4, RunResumeInv
  <2>5. CASE UNCHANGED <<chan, resumed>>
    BY <1>1, <1>2, <1>4, <2>1, <2>5, RunBareInv DEF Bare, connVars, history
  <2> QED
    BY <1>4, <2>3, <2>4, <2>5 DEF SendInLoop
<1>5. CASE f.op = "shutdown" /\ UNCHANGED <<connVars, serverVars, pending, userVars>>
  BY <1>1, <1>2, <1>5, RunBareInv DEF Bare
<1> QED
  BY <1>1, <1>2, <1>3, <1>4, <1>5, RunEstablishedInv, RunDestroyedInv, RunRemoveInv DEF Run

LEMMA UserInv == ASSUME JInv, UserStep PROVE JInv'
<1> USE DEF JInv, connVars, history, serverVars, loopVars, userVars
<1>1. ASSUME NEW u \in Users, NEW c \in Conns, NEW op \in ForeignOps, UserCheck(u, c, op)
      PROVE  JInv'
  <2> USE <1>1 DEF UserCheck
  <2>1. [op |-> op, conn |-> c] \in Call /\ ups[c] = 1
    BY OpAssumption DEF Call, Bare, ConnOK
  <2>2. /\ userCall' \in [Users -> Call \cup {Idle}]
        /\ \A v \in Users : userCall'[v].conn = c \/ userCall'[v] = userCall[v]
    BY <2>1 DEF TypeOK
  <2>3. TypeOK' /\ UserOK'
    BY <2>1, <2>2 DEF TypeOK, UserOK
  <2>4. LoopsOK' /\ ActiveOK'
    BY DEF LoopsOK, ActiveOK
  <2> QED
    BY <2>3, <2>4, Quiet
<1>2. ASSUME NEW c \in Conns, UserDrop(c) PROVE JInv'
  <2> USE <1>2 DEF UserDrop
  <2>1. TypeOK'
    BY DEF TypeOK
  <2>2. LoopsOK' /\ UserOK' /\ ActiveOK'
    BY DEF LoopsOK, UserOK, ActiveOK
  <2> QED
    BY <2>1, <2>2, Quiet
<1>3. ASSUME NEW u \in Users, UserAct(u) PROVE JInv'
  <2>1. PICK c \in Conns, op \in Bare :
          /\ userCall[u].op = op /\ userCall[u].conn = c
          /\ server = "up" /\ ups[c] = 1
    BY <1>3 DEF UserAct, UserOK, TypeOK, Call
  <2>2. PICK k \in Loops : k = ioLoop[c]
    BY DEF TypeOK
  <2>3. /\ Push(k, op, c) /\ userCall' = [userCall EXCEPT ![u] = Idle]
        /\ UNCHANGED <<chan, ups, downs, resumed, serverVars, loopVars, userRefs>>
        /\ state' = IF op = "shutdown" THEN [state EXCEPT ![c] = "kDisconnecting"] ELSE state
    BY <1>3, <2>1, <2>2 DEF UserAct, SetState
  <2>4. /\ state[c] \notin {"none", "kConnecting"}
        /\ \A d \in Conns : state'[d] = IF d = c /\ op = "shutdown" THEN "kDisconnecting" ELSE state[d]
        /\ state' \in [Conns -> ConnState]
    BY <2>1, <2>3 DEF ConnOK, TypeOK, ConnState
  <2>5. /\ pending' \in [Loops -> Seq(Functor)]
        /\ \A l \in Loops : \A f : In(l, f)' <=> In(l, f) \/ (l = k /\ f = F(op, c))
        /\ \A l \in Loops : EstablishedFirst(l)'
    <3>1. TypeOK /\ UNCHANGED <<batch, ranTo>> /\ op \in Owning \cup Bare /\ op # "established"
          /\ \A l \in Loops : EstablishedFirst(l)
      BY <2>1, <2>3 DEF Bare, QueuesOK
    <3> HIDE DEF JInv
    <3> QED
      BY <2>1, <2>2, <2>3, <3>1, Pushed
  <2>6. TypeOK'
    BY <2>3, <2>4, <2>5 DEF TypeOK
  <2>7. LoopsOK' /\ UserOK' /\ ActiveOK'
    BY <2>3 DEF LoopsOK, UserOK, ActiveOK, TypeOK
  <2>8. (\A d \in Conns : ConnOK(d)') /\ GoneWasReported'
    BY <2>1, <2>3, <2>4 DEF ConnOK, GoneWasReported
  <2>9. QueuesOK'
    <3>1. ASSUME NEW l \in Loops, NEW f, In(l, f) PROVE FunctorOK(l, f)'
      <4>1. FunctorOK(l, f) /\ f.conn \in Conns
        BY <3>1, InTyped DEF QueuesOK, Functor
      <4> QED
        BY <4>1, <2>1, <2>3, <2>4 DEF FunctorOK
    <3>2. chan[c] = "reading" \/ downs[c] > 0
      BY <2>1 DEF ConnOK, TypeOK, ChanState, GoneWasReported
    <3>3. FunctorOK(k, F(op, c))'
      BY <3>2, <2>1, <2>2, <2>3, <2>4 DEF FunctorOK, F, Bare
    <3> QED
      BY <3>1, <3>3, <2>5 DEF QueuesOK
  <2>10. KeptOK'
    <3>1. \A d \in Conns : \A o : o \in {"established", "destroyed"}
            => (In(ioLoop[d], F(o, d))' <=> In(ioLoop[d], F(o, d)))
      BY <2>1, <2>3, <2>5, SMTT(20) DEF F, TypeOK, Bare
    <3> QED
      BY <3>1, <2>3 DEF KeptOK
  <2> QED
    BY <2>6, <2>7, <2>8, <2>9, <2>10
<1> QED
  BY <1>1, <1>2, <1>3 DEF UserStep

LEMMA QuitBaseInv == ASSUME JInv, QuitBase PROVE JInv'
<1> USE DEF JInv, QuitBase, connVars, history, serverVars, userVars
<1>1. TypeOK'
  BY DEF TypeOK
<1>2. LoopsOK' /\ UserOK' /\ ActiveOK'
  BY DEF LoopsOK, UserOK, ActiveOK
<1> QED
  BY <1>1, <1>2, Quiet

LEMMA QuitIoLoopInv == ASSUME JInv, QuitIoLoop PROVE JInv'
<1> USE DEF JInv, QuitIoLoop, connVars, history, userVars
<1>1. TypeOK'
  BY DEF TypeOK
<1>2. LoopsOK' /\ UserOK' /\ ActiveOK'
  BY DEF LoopsOK, UserOK, ActiveOK, AllIdle
<1> QED
  BY <1>1, <1>2, Quiet

(* What the base loop leaves unrun goes with it.                           *)
LEMMA DestroyBaseLoopInv == ASSUME JInv, DestroyBaseLoop PROVE JInv'
<1> USE DEF JInv, DestroyBaseLoop, connVars, history, loopVars, userVars
<1>1. TypeOK'
  BY DEF TypeOK, Loops
<1>2. LoopsOK' /\ UserOK' /\ ActiveOK' /\ GoneWasReported' /\ \A d \in Conns : ConnOK(d)'
  BY DEF LoopsOK, UserOK, ActiveOK, GoneWasReported, ConnOK, AllIdle
<1>3. Base \in Loops /\ pending'[Base] = <<>>
  BY DEF Loops, TypeOK
<1>4. \A l \in Loops : l # Base => /\ \A f : In(l, f)' <=> In(l, f)
                                   /\ EstablishedFirst(l)' <=> EstablishedFirst(l)
  BY DEF In, EstablishedFirst, TypeOK
<1>5. \A f : In(Base, f)' => In(Base, f)
  BY <1>3 DEF In, Waits
<1>6. EstablishedFirst(Base)'
  BY <1>3 DEF QueuesOK, EstablishedFirst, First
<1>7. QueuesOK'
  <2> SUFFICES ASSUME NEW l \in Loops PROVE EstablishedFirst(l)' /\ \A f : In(l, f)' => FunctorOK(l, f)'
    BY DEF QueuesOK
  <2>1. \A f : In(l, f)' => In(l, f)
    BY <1>4, <1>5
  <2> QED
    BY <2>1, <1>4, <1>6 DEF QueuesOK, FunctorOK
<1>8. KeptOK'
  BY <1>4 DEF KeptOK, TypeOK
<1> QED
  BY <1>1, <1>2, <1>7, <1>8

LEMMA DestroyConnectionInv == ASSUME JInv, NEW c \in Conns, DestroyConnection(c) PROVE JInv'
<1> USE DEF JInv
<1>0. /\ phase[Base] = "exited" /\ server' = "destroying" /\ c \in connections
      /\ connections' = connections \ {c} /\ ioLoop' = ioLoop /\ next' = next
      /\ UNCHANGED loopVars /\ state[c] # "none" /\ AllIdle
  BY DEF DestroyConnection, ConnOK
<1>1. CASE ioLoop[c] = Base
  <2>1. ConnectDestroyed(c) /\ UNCHANGED <<pending, userCall>>
    BY <1>1 DEF DestroyConnection
  <2>2. /\ state' \in [Conns -> ConnState] /\ userRefs' \subseteq Conns
        /\ chan' \in [Conns -> ChanState] /\ downs' \in [Conns -> Nat]
        /\ ups' = ups /\ resumed' = resumed
        /\ \A d \in Conns : d # c => state'[d] = state[d] /\ chan'[d] = chan[d] /\ downs'[d] = downs[d]
        /\ chan'[c] = "new"
        /\ IF state[c] = "kConnected"
           THEN state'[c] = "kDisconnected" /\ downs[c] = 0 /\ downs'[c] = 1
           ELSE state'[c] = state[c] /\ downs'[c] = downs[c]
    BY <2>1, Destroyed DEF ConnOK
  <2>3. TypeOK'
    BY <1>0, <2>1, <2>2 DEF TypeOK, loopVars
  <2>4. LoopsOK' /\ UserOK' /\ ActiveOK'
    <3>1. LoopsOK' /\ UserOK'
      BY <1>0, <2>1, <2>2 DEF LoopsOK, UserOK, loopVars, AllIdle
    <3>2. ActiveOK'
      BY <1>0, <1>1, <2>2 DEF LoopsOK, ActiveOK, loopVars, TypeOK
    <3> QED
      BY <3>1, <3>2
  <2>5. \A d \in Conns : ConnOK(d)'
    BY <1>0, <2>2 DEF ConnOK
  <2>6. GoneWasReported'
    <3>1. ASSUME NEW d \in Conns, d # c, ups'[d] = 1, chan'[d] = "new"
          PROVE  downs'[d] > 0 \/ state'[d] = "kDisconnecting"
      BY <3>1, <2>2 DEF GoneWasReported
    <3>2. ASSUME ups'[c] = 1
          PROVE  downs'[c] > 0 \/ state'[c] = "kDisconnecting"
      BY <3>2, <1>0, <2>2 DEF ConnOK, TypeOK, ConnState
    <3> QED
      BY <3>1, <3>2, <1>0 DEF GoneWasReported
  <2>7. QueuesOK'
    <3> SUFFICES ASSUME NEW l \in Loops, NEW f, In(l, f) PROVE FunctorOK(l, f)'
      BY <1>0, <2>1, Same DEF QueuesOK, loopVars
    <3>1. FunctorOK(l, f) /\ f.conn \in Conns
      BY InTyped DEF QueuesOK, Functor
    <3>2. CASE f.conn = c
      BY <3>1, <3>2, <1>0, <1>1, <2>2 DEF FunctorOK, loopVars
    <3>3. CASE f.conn # c
      BY <3>1, <3>3, <1>0, <2>2 DEF FunctorOK, loopVars
    <3> QED
      BY <3>2, <3>3
  <2>8. KeptOK'
    BY <1>0, <1>1, <2>1, <2>2, Same DEF KeptOK, loopVars, TypeOK
  <2> QED
    BY <2>3, <2>4, <2>5, <2>6, <2>7, <2>8
<1>2. CASE ioLoop[c] # Base
  <2>1. PICK k \in Loops : k = ioLoop[c]
    BY DEF TypeOK
  <2>2. Push(k, "destroyed", c) /\ UNCHANGED <<connVars, userVars>>
    BY <1>2, <2>1 DEF DestroyConnection
  <2>3. /\ pending' \in [Loops -> Seq(Functor)]
        /\ \A l \in Loops : \A f : In(l, f)' <=> In(l, f) \/ (l = k /\ f = F("destroyed", c))
        /\ \A l \in Loops : EstablishedFirst(l)'
    BY <1>0, <2>1, <2>2, Pushed DEF Owning, QueuesOK, loopVars
  <2> USE <1>0, <2>2 DEF connVars, history, userVars, loopVars
  <2>4. TypeOK'
    BY <2>3 DEF TypeOK
  <2>5. LoopsOK' /\ UserOK' /\ ActiveOK' /\ GoneWasReported' /\ \A d \in Conns : ConnOK(d)'
    BY DEF LoopsOK, UserOK, ActiveOK, GoneWasReported, ConnOK, AllIdle
  <2>6. QueuesOK'
    <3>1. ASSUME NEW l \in Loops, NEW f, In(l, f) PROVE FunctorOK(l, f)'
      BY <3>1 DEF QueuesOK, FunctorOK
    <3>2. FunctorOK(k, F("destroyed", c))'
      BY <2>1 DEF FunctorOK, F, Bare
    <3> QED
      BY <3>1, <3>2, <2>3 DEF QueuesOK
  <2>7. KeptOK'
    <3>1. \A d \in Conns : In(ioLoop[d], F("established", d))' => In(ioLoop[d], F("established", d))
      BY <2>3 DEF F, TypeOK
    <3>3. \A d \in Conns : In(ioLoop[d], F("destroyed", d)) => In(ioLoop[d], F("destroyed", d))'
      BY <2>3 DEF TypeOK
    <3>2. In(ioLoop[c], F("destroyed", c))'
      BY <2>1, <2>3
    <3> QED
      BY <3>1, <3>2, <3>3 DEF KeptOK
  <2> QED
    BY <2>4, <2>5, <2>6, <2>7
<1> QED
  BY <1>1, <1>2

LEMMA NextParts == IInv /\ [Next]_vars => JInv'
<1> SUFFICES ASSUME IInv, [Next]_vars PROVE JInv'
  OBVIOUS
<1>0. JInv
  BY DEF IInv
<1>1. CASE UNCHANGED vars
  <2> USE <1>0, <1>1 DEF vars, connVars, history, serverVars, loopVars, userVars, JInv
  <2>1. TypeOK' /\ LoopsOK' /\ UserOK' /\ ActiveOK'
    BY DEF TypeOK, LoopsOK, UserOK, ActiveOK
  <2> QED
    BY <2>1, Quiet
<1>2. ASSUME NEW l \in Loops, LoopStep(l) PROVE JInv'
  BY <1>0, <1>2, PollInv, HandleEventInv, AcceptInv, SwapPendingInv, RunFunctorInv, EndPendingInv
     DEF LoopStep, Dispatch
<1>3. CASE UserStep
  BY <1>0, <1>3, UserInv
<1>4. CASE StopStep
  BY <1>0, <1>4, DestroyConnectionInv, QuitIoLoopInv, DestroyBaseLoopInv DEF StopStep
<1> QED
  BY <1>0, <1>1, <1>2, <1>3, <1>4, QuitBaseInv DEF Next

(* No step takes a report of a close back.                                 *)
LEMMA DownsGrow ==
  ASSUME TypeOK, [Next]_vars, NEW c \in Conns
  PROVE  downs'[c] >= downs[c]
<1>0. downs \in [Conns -> Nat]
  BY DEF TypeOK
<1> DEFINE Counted == downs' = downs \/ \E d : downs' = [downs EXCEPT ![d] = @ + 1]
<1>1. ASSUME NEW l \in Loops, LoopStep(l) PROVE Counted
  <2>1. CASE Poll(l) \/ SwapPending(l) \/ EndPending(l)
    BY <2>1 DEF Poll, SwapPending, EndPending, connVars, history
  <2>2. ASSUME NEW d \in Conns, HandleEvent(l, d) PROVE Counted
    BY <2>2 DEF HandleEvent, HandleClose, HandleMessage, ReportClosed, connVars, history
  <2>3. CASE Accept
    BY <2>3 DEF Accept, NewConnection, ConnectEstablished, connVars, history
  <2>4. CASE RunFunctor(l)
    BY <2>4 DEF RunFunctor, Run, ConnectEstablished, ConnectDestroyed, ReportClosed, SendInLoop,
                connVars, history
  <2> QED
    BY <1>1, <2>1, <2>2, <2>3, <2>4 DEF LoopStep, Dispatch
<1>2. ASSUME UserStep PROVE Counted
  <2>1. ASSUME NEW u \in Users, UserAct(u) PROVE Counted
    BY <2>1 DEF UserAct, history
  <2>2. ASSUME NEW u \in Users, NEW d \in Conns, NEW op \in ForeignOps, UserCheck(u, d, op)
        PROVE  Counted
    BY <2>2 DEF UserCheck, connVars, history
  <2>3. ASSUME NEW d \in Conns, UserDrop(d) PROVE Counted
    BY <2>3 DEF UserDrop, connVars, history
  <2> QED
    BY <1>2, <2>1, <2>2, <2>3 DEF UserStep
<1>3. ASSUME StopStep PROVE Counted
  <2>1. CASE QuitIoLoop \/ DestroyBaseLoop
    BY <2>1 DEF QuitIoLoop, DestroyBaseLoop, connVars, history
  <2>2. ASSUME NEW d \in Conns, DestroyConnection(d) PROVE Counted
    BY <2>2 DEF DestroyConnection, ConnectDestroyed, ReportClosed, connVars, history
  <2> QED
    BY <1>3, <2>1, <2>2 DEF StopStep
<1>4. ASSUME QuitBase \/ UNCHANGED vars PROVE Counted
  BY <1>4 DEF QuitBase, vars, connVars, history
<1>5. Counted
  <2> HIDE DEF Counted
  <2> QED
    BY <1>1, <1>2, <1>3, <1>4 DEF Next
<1> QED
  BY <1>0, <1>5

(* Queueing anything but a send() puts none behind a connectDestroyed.     *)
LEMMA PushedLate ==
  ASSUME TypeOK, NEW k \in Loops, NEW op \in Owning \cup Bare, NEW d \in Conns, Push(k, op, d),
         UNCHANGED <<batch, ranTo>>, NEW l \in Loops, NEW c \in Conns, Late(l, c)'
  PROVE  Late(l, c) \/ (op = "send" /\ d = c /\ l = k /\ In(l, F("destroyed", c)))
<1> DEFINE g == F(op, d)
<1>1. /\ g \in Functor /\ g.op = op /\ g.conn = d
      /\ F("send", c).op = "send" /\ F("send", c).conn = c
  BY DEF F, Functor
<1>2. pending' = [pending EXCEPT ![k] = Append(@, g)]
  BY DEF Push, F
<1> HIDE DEF g
<1>3. /\ pending'[k] = Append(pending[k], g) /\ (l # k => pending'[l] = pending[l])
      /\ batch[k] \in Seq(Functor) /\ ranTo[k] \in Nat /\ pending[k] \in Seq(Functor)
  BY <1>2 DEF TypeOK
<1>4. CASE l # k
  BY <1>3, <1>4 DEF Late
<1>5. CASE l = k
  <2>1. Behind(batch[k], ranTo[k], Append(pending[k], g), c)
    BY <1>3, <1>5 DEF Late
  <2>2. \/ Behind(batch[k], ranTo[k], pending[k], c)
        \/ g = F("send", c) /\ Waits(batch[k], ranTo[k], pending[k], F("destroyed", c))
    BY <1>1, <1>3, <2>1, PushBehind
  <2> QED
    BY <1>1, <1>5, <2>2 DEF Late, In
<1> QED
  BY <1>4, <1>5

LEMMA RunLate ==
  ASSUME TypeOK, NEW k \in Loops, RunFunctor(k), NEW l \in Loops, NEW c \in Conns, Late(l, c)'
  PROVE  Late(l, c)
<1> DEFINE f == batch[k][ranTo[k] + 1]
<1>1. /\ batch' = batch /\ ranTo[k] < Len(batch[k])
      /\ ranTo'[k] = ranTo[k] + 1 /\ (l # k => ranTo'[l] = ranTo[l])
      /\ \A m \in Loops : batch[m] \in Seq(Functor) /\ ranTo[m] \in Nat /\ pending[m] \in Seq(Functor)
      /\ f \in Functor /\ Run(k, f)
  BY PopWaits DEF RunFunctor, TypeOK
<1>2. Behind(batch[l], ranTo'[l], pending[l], c)
  <2>1. CASE pending' = pending
    BY <1>1, <2>1 DEF Late
  <2>2. CASE RemoveConnectionInLoop(f.conn)
    <3>1. PICK m \in Loops : m = ioLoop[f.conn]
      BY <1>1 DEF TypeOK, Functor
    <3> DEFINE g == F("destroyed", f.conn)
    <3>2. pending' = [pending EXCEPT ![m] = Append(@, g)]
      BY <2>2, <3>1 DEF RemoveConnectionInLoop, Push, F
    <3>3. g \in Functor /\ g.op # F("send", c).op
      BY <1>1 DEF F, Functor, Owning
    <3> HIDE DEF g
    <3>4. /\ pending'[m] = Append(pending[m], g) /\ (l # m => pending'[l] = pending[l])
          /\ ranTo'[l] \in Nat
      <4>1. pending'[m] = Append(pending[m], g) /\ (l # m => pending'[l] = pending[l])
        BY <3>2 DEF TypeOK
      <4>2. ranTo[k] + 1 \in Nat /\ ranTo[l] \in Nat
        BY <1>1
      <4> QED
        BY <1>1, <4>1, <4>2
    <3>5. CASE l # m
      BY <1>1, <3>4, <3>5 DEF Late
    <3>6. CASE l = m
      <4>1. Behind(batch[l], ranTo'[l], Append(pending[l], g), c)
        BY <1>1, <3>4, <3>6 DEF Late
      <4> QED
        BY <1>1, <3>3, <3>4, <4>1, PushBehind
    <3> QED
      BY <3>5, <3>6
  <2>3. pending' = pending \/ RemoveConnectionInLoop(f.conn)
    BY <1>1 DEF Run, SendInLoop
  <2> QED
    BY <2>1, <2>2, <2>3
<1> QED
  BY <1>1, <1>2, PopBehind DEF Late

LEMMA StepLate ==
  ASSUME TypeOK, LoopsOK, [Next]_vars, NEW l \in Loops, NEW c \in Conns, Late(l, c)', ~Late(l, c)
  PROVE  (\E u \in Users : UserAct(u)) /\ In(l, F("destroyed", c))
<1>1. ASSUME UNCHANGED <<batch, ranTo, pending>> PROVE FALSE
  BY <1>1 DEF Late
<1>2. ASSUME NEW k \in Loops, SwapPending(k) PROVE FALSE
  <2>1. /\ batch[k] = <<>> /\ ranTo[k] = 0
        /\ batch'[k] = pending[k] /\ pending'[k] = <<>> /\ ranTo'[k] = 0
        /\ pending[k] \in Seq(Functor)
        /\ l # k => batch'[l] = batch[l] /\ pending'[l] = pending[l] /\ ranTo'[l] = ranTo[l]
    BY <1>2 DEF SwapPending, LoopsOK, TypeOK
  <2> QED
    BY <2>1, SwapBehind DEF Late
<1>3. ASSUME NEW k \in Loops, EndPending(k) PROVE FALSE
  <2>1. /\ ranTo[k] = Len(batch[k]) /\ batch'[k] = <<>> /\ ranTo'[k] = 0
        /\ pending'[k] = pending[k] \/ pending'[k] = <<>>
        /\ batch[k] \in Seq(Functor) /\ pending[k] \in Seq(Functor)
        /\ l # k => batch'[l] = batch[l] /\ pending'[l] = pending[l] /\ ranTo'[l] = ranTo[l]
    BY <1>3 DEF EndPending, TypeOK
  <2> QED
    BY <2>1, EndBehind DEF Late
<1>4. ASSUME NEW k \in Loops, NEW d \in Conns, HandleClose(k, d), HandleEvent(k, d) PROVE FALSE
  <2>1. PICK m \in Loops, op \in Owning : Push(m, op, d) /\ op # "send"
    BY <1>4 DEF HandleClose, RemoveConnection, RemoveConnectionInLoop, Loops, Owning, TypeOK
  <2> QED
    BY <1>4, <2>1, PushedLate DEF HandleEvent
<1>5. ASSUME NEW d \in Conns, NewConnection(d), Accept PROVE FALSE
  <2>1. NextLoop \in Loops
    BY LoopAssumption DEF NextLoop, Loops, IoLoops, TypeOK
  <2>2. pending' = pending \/ Push(NextLoop, "established", d)
    BY <1>5 DEF NewConnection
  <2>3. batch' = batch /\ ranTo' = ranTo /\ "established" \in Owning
    BY <1>5 DEF Accept, Owning
  <2> QED
    BY <1>1, <2>1, <2>2, <2>3, PushedLate
<1>6. ASSUME NEW d \in Conns, DestroyConnection(d) PROVE FALSE
  <2>1. ioLoop[d] \in Loops /\ "destroyed" \in Owning /\ batch' = batch /\ ranTo' = ranTo
    BY <1>6 DEF TypeOK, Owning, DestroyConnection, loopVars
  <2>2. pending' = pending \/ Push(ioLoop[d], "destroyed", d)
    BY <1>6 DEF DestroyConnection
  <2> QED
    BY <1>1, <2>1, <2>2, PushedLate
<1>7. CASE DestroyBaseLoop
  <2>1. /\ batch' = batch /\ ranTo' = ranTo
        /\ pending'[l] = pending[l] \/ pending'[l] = <<>>
    BY <1>7 DEF DestroyBaseLoop, loopVars, TypeOK
  <2> QED
    BY <2>1 DEF Late, Behind
<1>8. ASSUME NEW u \in Users, UserAct(u) PROVE In(l, F("destroyed", c))
  <2>1. userCall[u] \in Call
    BY <1>8 DEF UserAct, TypeOK
  <2>2. /\ ioLoop[userCall[u].conn] \in Loops /\ userCall[u].op \in Bare /\ userCall[u].conn \in Conns
        /\ Push(ioLoop[userCall[u].conn], userCall[u].op, userCall[u].conn)
        /\ batch' = batch /\ ranTo' = ranTo
    BY <1>8, <2>1 DEF UserAct, TypeOK, loopVars, Call
  <2> QED
    BY <2>2, PushedLate
<1>9. ASSUME NEW k \in Loops, LoopStep(k) PROVE FALSE
  <2>1. CASE RunFunctor(k)
    BY <2>1, RunLate
  <2>2. CASE Poll(k)
    BY <2>2, <1>1 DEF Poll
  <2>3. ASSUME NEW d \in Conns, HandleEvent(k, d) PROVE FALSE
    BY <2>3, <1>1, <1>4 DEF HandleEvent, HandleMessage
  <2>4. CASE Accept
    BY <2>4, <1>1, <1>5 DEF Accept
  <2> QED
    BY <1>2, <1>3, <1>9, <2>1, <2>2, <2>3, <2>4 DEF LoopStep, Dispatch
<1>10. CASE \/ QuitBase \/ QuitIoLoop \/ UNCHANGED vars
            \/ \E d \in Conns : UserDrop(d)
            \/ \E u \in Users, d \in Conns, op \in ForeignOps : UserCheck(u, d, op)
  BY <1>10, <1>1 DEF QuitBase, QuitIoLoop, vars, UserDrop, UserCheck, loopVars
<1> QED
  BY <1>6, <1>7, <1>8, <1>9, <1>10 DEF Next, UserStep, StopStep

(* While the server is up, a connectDestroyed waits only for a connection  *)
(* whose close was reported, and reports last.                             *)
LEMMA NextSends == IInv /\ [Next]_vars => SendsOK'
<1> SUFFICES ASSUME IInv, [Next]_vars, NEW l \in Loops, NEW c \in Conns, Late(l, c)'
             PROVE  downs'[c] > 0
  BY DEF SendsOK
<1>1. JInv /\ JInv' /\ TypeOK /\ LoopsOK
  BY NextParts DEF IInv, JInv
<1>2. downs[c] > 0
  <2>1. CASE Late(l, c)
    BY <2>1 DEF IInv, SendsOK
  <2>2. CASE ~Late(l, c)
    <3>1. (\E u \in Users : UserAct(u)) /\ In(l, F("destroyed", c))
      BY <1>1, <2>2, StepLate
    <3>2. server = "up"
      BY <1>1, <3>1 DEF JInv, UserOK, UserAct
    <3>3. FunctorOK(l, F("destroyed", c))
      BY <1>1, <3>1 DEF JInv, QueuesOK
    <3> QED
      BY <3>2, <3>3 DEF FunctorOK, F
  <2> QED
    BY <2>1, <2>2
<1>3. downs[c] \in Nat /\ downs'[c] \in Nat /\ downs'[c] >= downs[c]
  BY <1>1, DownsGrow DEF JInv, TypeOK
<1> QED
  BY <1>2, <1>3

LEMMA NextInv == IInv /\ [Next]_vars => IInv'
BY NextParts, NextSends DEF IInv

LEMMA Invariant == Safe => []IInv
BY InitInv, NextInv, PTL DEF Safe

----------------------------------------------------------------------------
LEMMA KeptAlive ==
  ASSUME IInv, NEW c \in Conns \ resumed, chan[c] # "new", phase[ioLoop[c]] # "exited"
  PROVE  Alive(c)
<1>1. CASE c \in connections
  BY <1>1 DEF Alive
<1>2. CASE In(ioLoop[c], F("destroyed", c))
  <2> DEFINE l == ioLoop[c]
  <2>1. l \in Loops /\ ranTo[l] \in Nat
    BY DEF IInv, JInv, TypeOK
  <2>2. CASE \E i \in ranTo[l] + 1 .. Len(batch[l]) : batch[l][i] = F("destroyed", c)
    <3>1. Holds(batch[l], c)
      BY <2>1, <2>2 DEF Holds, F, Owning
    <3> QED
      BY <2>1, <3>1 DEF Alive
  <2>3. CASE \E i \in 1 .. Len(pending[l]) : pending[l][i] = F("destroyed", c)
    <3>1. Holds(pending[l], c)
      BY <2>3 DEF Holds, F, Owning
    <3> QED
      BY <2>1, <3>1 DEF Alive
  <2> QED
    BY <1>2, <2>2, <2>3 DEF In, Waits
<1> QED
  BY <1>1, <1>2 DEF IInv, JInv, KeptOK

(* A poller's bare channel pointers lead to connections that are kept      *)
(* (EPollPoller.cc:89), for any number of loops, connections and threads,  *)
(* but for a channel that a send() brought back behind a late shutdown().  *)
THEOREM PollersPointToLive == Safe => []PollerPointsToLive
<1>1. IInv => PollerPointsToLive
  BY KeptAlive DEF PollerPointsToLive
<1> QED
  BY <1>1, Invariant, PTL

(* So do those of a loop's list of active channels (EventLoop.cc:91).      *)
THEOREM ActiveAreLive == Safe => []ActiveIsLive
<1>1. ASSUME IInv PROVE ActiveIsLive
  <2> SUFFICES ASSUME NEW l \in Loops, NEW c \in active[l] \ ({Acceptor} \cup resumed)
               PROVE  Alive(c)
    BY DEF ActiveIsLive
  <2>1. c \in Conns /\ ioLoop[c] = l /\ chan[c] = "reading" /\ phase[l] = "events"
    BY <1>1 DEF IInv, JInv, TypeOK, ActiveOK, LoopsOK
  <2> QED
    BY <1>1, <2>1, KeptAlive
<1> QED
  BY <1>1, Invariant, PTL

(* A connection comes up at most once, and goes down only after that and   *)
(* at most once unless it was resumed, whatever the order of peer, send(), *)
(* shutdown() and destructor.                                              *)
THEOREM UpsAndDowns == Safe => []UpThenDownOnce
<1>1. IInv => UpThenDownOnce
  BY DEF IInv, JInv, UpThenDownOnce, ConnOK, TypeOK
<1> QED
  BY <1>1, Invariant, PTL

(* A connection that came up and is gone was reported closed, but for one  *)
(* that was shutting down at the server's end (TcpConnection.cc:234).      *)
THEOREM GoneAreReported == Safe => []GoneWasReported
BY Invariant, PTL DEF IInv, JInv
=============================================================================
