---------------------- MODULE ConnectionOutput_proofs ----------------------
(***************************************************************************)
(* Proofs about ConnectionOutput as the code is, with LeftoverEvent =      *)
(* "read", for any buffer size, mark and lengths: what is taken is passed  *)
(* on in order, completion is told no earlier than it may be, the mark     *)
(* once, and the write end closes after the output.                        *)
(***************************************************************************)
EXTENDS ConnectionOutput, TLAPS

AsCoded == LeftoverEvent = "read"

FunctorType == [op : Op, len : Nat, good : BOOLEAN, upTo : Nat]
Elems(q) == {q[i] : i \in 1 .. Len(q)}

(* The channel never asks to write, so handleWrite never flushes; while    *)
(* the loop's thread is in a write() nothing waits.                        *)
NeverFlushes ==
  /\ events \subseteq {"read"}
  /\ writing.call # "flush"
  /\ writing.call = "none" => writing = NoWrite
  /\ writing.call = "send" => out = <<>>

(* No byte is lost or repeated: this is of numbers, the next of contents.  *)
Counted == peer # "broken" => Len(wire) + Len(writing.rest) + Len(out) = taken

InOrder ==
  ~dangled =>
    /\ \A i \in 1 .. Len(wire) : wire[i] = i
    /\ peer # "broken" => /\ \A i \in 1 .. Len(writing.rest) : writing.rest[i] = Len(wire) + i
                          /\ \A i \in 1 .. Len(out) : out[i] = Len(wire) + Len(writing.rest) + i

(* What a functor that is queued may say.                                  *)
FunctorOK(f) ==
  /\ ~dangled => f.good
  /\ f.op = "writeComplete" => f.upTo <= Len(wire) \/ peer = "broken"

QueueOK == \A f \in Elems(pending) : FunctorOK(f)

IInv == AsCoded /\ TypeOK /\ NeverFlushes /\ Counted /\ InOrder /\ QueueOK

----------------------------------------------------------------------------
(* Sequences.                                                              *)

LEMMA ConcatIndex ==
  ASSUME NEW s \in Seq(Nat), NEW t \in Seq(Nat)
  PROVE  /\ s \o t \in Seq(Nat) /\ Len(s \o t) = Len(s) + Len(t)
         /\ \A i \in 1 .. Len(s) : (s \o t)[i] = s[i]
         /\ \A i \in 1 .. Len(t) : (s \o t)[Len(s) + i] = t[i]
         /\ \A i \in 1 .. Len(s) + Len(t) :
              i \in 1 .. Len(s) \/ \E j \in 1 .. Len(t) : i = Len(s) + j
<1>1. \A i \in 1 .. Len(s) + Len(t) :
        i \in 1 .. Len(s) \/ \E j \in 1 .. Len(t) : i = Len(s) + j
  <2> TAKE i \in 1 .. Len(s) + Len(t)
  <2>1. CASE i > Len(s)
    <3>1. i - Len(s) \in 1 .. Len(t) /\ i = Len(s) + (i - Len(s))
      BY <2>1
    <3> QED
      BY <3>1
  <2> QED
    BY <2>1
<1> QED
  BY <1>1

(* Two runs of numbers, the second from where the first ends.              *)
LEMMA Joined ==
  ASSUME NEW s \in Seq(Nat), NEW t \in Seq(Nat),
         \A i \in 1 .. Len(s) : s[i] = i, \A i \in 1 .. Len(t) : t[i] = Len(s) + i
  PROVE  /\ s \o t \in Seq(Nat) /\ Len(s \o t) = Len(s) + Len(t)
         /\ \A i \in 1 .. Len(s \o t) : (s \o t)[i] = i
<1>1. s \o t \in Seq(Nat) /\ Len(s \o t) = Len(s) + Len(t)
  OBVIOUS
<1>2. ASSUME NEW i \in 1 .. Len(s \o t) PROVE (s \o t)[i] = i
  <2>1. CASE i \in 1 .. Len(s)
    BY <2>1, ConcatIndex
  <2>2. ASSUME NEW j \in 1 .. Len(t), i = Len(s) + j PROVE (s \o t)[i] = i
    BY <2>2, ConcatIndex
  <2>3. i \in 1 .. Len(s) \/ \E j \in 1 .. Len(t) : i = Len(s) + j
    BY <1>1, ConcatIndex
  <2> QED
    BY <2>1, <2>2, <2>3
<1> QED
  BY <1>1, <1>2

LEMMA SplitIndex ==
  ASSUME NEW s \in Seq(Nat), NEW n \in 1 .. Len(s)
  PROVE  /\ SubSeq(s, 1, n) \in Seq(Nat) /\ Len(SubSeq(s, 1, n)) = n
         /\ \A i \in 1 .. n : SubSeq(s, 1, n)[i] = s[i]
         /\ SubSeq(s, n + 1, Len(s)) \in Seq(Nat) /\ Len(SubSeq(s, n + 1, Len(s))) = Len(s) - n
         /\ \A i \in 1 .. Len(s) - n : SubSeq(s, n + 1, Len(s))[i] = s[n + i]
OBVIOUS

LEMMA NumberedTyped ==
  ASSUME TypeOK, NEW len \in Nat, NEW good \in BOOLEAN
  PROVE  /\ Numbered(len, good) \in Seq(Nat) /\ Len(Numbered(len, good)) = len
         /\ good => \A i \in 1 .. len : Numbered(len, good)[i] = taken + i
BY DEF Numbered, TypeOK

LEMMA Queued ==
  ASSUME NEW q \in Seq(FunctorType), NEW f \in FunctorType
  PROVE  Append(q, f) \in Seq(FunctorType) /\ Elems(Append(q, f)) = Elems(q) \cup {f}
<1>1. /\ Len(Append(q, f)) = Len(q) + 1 /\ Append(q, f)[Len(q) + 1] = f
      /\ \A i \in 1 .. Len(q) : Append(q, f)[i] = q[i]
  OBVIOUS
<1>2. \A i \in 1 .. Len(q) + 1 : i \in 1 .. Len(q) \/ i = Len(q) + 1
  OBVIOUS
<1> QED
  BY <1>1, <1>2 DEF Elems

LEMMA Taken ==
  ASSUME NEW q \in Seq(FunctorType), q # <<>>
  PROVE  /\ Head(q) \in FunctorType /\ Head(q) \in Elems(q)
         /\ Tail(q) \in Seq(FunctorType) /\ Elems(Tail(q)) \subseteq Elems(q)
<1>1. /\ Head(q) = q[1] /\ 1 \in 1 .. Len(q) /\ q[1] \in FunctorType
      /\ Len(Tail(q)) = Len(q) - 1
      /\ \A i \in 1 .. Len(Tail(q)) : Tail(q)[i] = q[i + 1] /\ i + 1 \in 1 .. Len(q)
  OBVIOUS
<1> QED
  BY <1>1 DEF Elems

LEMMA FunctorTyped ==
  ASSUME TypeOK, NEW op \in Op, NEW len \in Nat
  PROVE  /\ Functor(op, len) \in FunctorType /\ Functor(op, len).op = op /\ Functor(op, len).good
         /\ Functor(op, len).len = len
         /\ Functor(op, len).upTo = IF op = "writeComplete" THEN taken ELSE 0
BY DEF Functor, FunctorType, TypeOK

----------------------------------------------------------------------------
(* sendInLoop and what it keeps.                                           *)

LEMMA KeepQueue ==
  ASSUME TypeOK, AsCoded, NeverFlushes, NEW rest \in Seq(Nat), NEW q \in Seq(FunctorType),
         Keep(rest, q)
  PROVE  /\ out' = out \o rest /\ events' \subseteq {"read"}
         /\ pending' \in Seq(FunctorType)
         /\ Elems(pending') \subseteq Elems(q) \cup {Functor("highWaterMark", 0)}
<1>1. Functor("highWaterMark", 0) \in FunctorType
  BY FunctorTyped DEF Op
<1> QED
  BY <1>1, Queued DEF Keep, AsCoded, NeverFlushes

LEMMA SendInLoopKeeps ==
  ASSUME IInv, LoopFree, NEW len \in Nat, NEW good \in BOOLEAN, NEW foreign \in BOOLEAN,
         NEW q \in Seq(FunctorType), SendInLoop(len, good, foreign, q),
         ~dangled => good, UNCHANGED <<wire, peer, dangled>>
  PROVE  /\ pending' \in Seq(FunctorType) /\ taken' \in Nat /\ out' \in Seq(Nat)
         /\ writing' \in [call : {"none", "send", "flush"}, rest : Seq(Nat), done : Nat,
                          foreign : BOOLEAN]
         /\ Elems(pending') \subseteq Elems(q) \cup {Functor("highWaterMark", 0)}
         /\ NeverFlushes' /\ Counted' /\ InOrder'
<1> DEFINE n == Numbered(len, good)
<1>1. /\ TypeOK /\ AsCoded /\ NeverFlushes /\ writing = NoWrite
      /\ writing.call = "none" /\ writing.rest = <<>> /\ Len(<<>>) = 0
      /\ out \in Seq(Nat) /\ wire \in Seq(Nat) /\ taken \in Nat
      /\ Len(out) \in Nat /\ Len(wire) \in Nat
  BY DEF IInv, LoopFree, NoWrite, TypeOK, Byte
<1>2. /\ peer # "broken" => Len(wire) + Len(out) = taken
      /\ ~dangled => \A i \in 1 .. Len(wire) : wire[i] = i
      /\ ~dangled /\ peer # "broken" => \A i \in 1 .. Len(out) : out[i] = Len(wire) + i
  BY <1>1 DEF IInv, Counted, InOrder
<1>3. n \in Seq(Nat) /\ Len(n) = len /\ (~dangled => \A i \in 1 .. len : n[i] = taken + i)
  BY <1>1, NumberedTyped
<1> HIDE DEF n
<1>4. CASE state = "kDisconnected"
  <2>1. pending' = q /\ UNCHANGED <<out, events, writing, taken, wire, peer, dangled>>
    BY <1>4 DEF SendInLoop
  <2> QED
    BY <2>1, <1>1 DEF IInv, TypeOK, Byte, NeverFlushes, Counted, InOrder
<1>5. CASE state # "kDisconnected" /\ ~IsWriting /\ out = <<>>
  <2>1. /\ writing' = [call |-> "send", rest |-> n, done |-> 0, foreign |-> foreign]
        /\ writing'.rest = n /\ Len(writing'.rest) = len /\ Len(out) = 0
        /\ pending' = q /\ UNCHANGED <<out, events>> /\ taken' = taken + len
    BY <1>1, <1>3, <1>5 DEF SendInLoop, BeginWrite, n
  <2>2. NeverFlushes'
    BY <2>1, <1>1, <1>5 DEF NeverFlushes
  <2>3. Counted'
    BY <2>1, <1>1, <1>2 DEF Counted
  <2>4. InOrder'
    <3> SUFFICES ASSUME ~dangled, peer # "broken", NEW i \in 1 .. len
                 PROVE  n[i] = Len(wire) + i
      BY <2>1, <1>1, <1>2 DEF InOrder
    <3>1. n[i] = taken + i /\ Len(wire) + Len(out) = taken /\ Len(out) = 0
      BY <2>1, <1>2, <1>3
    <3> QED
      BY ONLY <3>1, Len(wire) \in Nat, i \in Nat
  <2> QED
    BY <2>1, <2>2, <2>3, <2>4, <1>1, <1>3
<1>6. CASE state # "kDisconnected" /\ ~(~IsWriting /\ out = <<>>)
  <2>1. Keep(n, q) /\ writing' = writing /\ taken' = taken + len
    BY <1>6 DEF SendInLoop, n
  <2>2. /\ out' = out \o n /\ events' \subseteq {"read"} /\ pending' \in Seq(FunctorType)
        /\ Elems(pending') \subseteq Elems(q) \cup {Functor("highWaterMark", 0)}
    BY <2>1, <1>1, <1>3, KeepQueue
  <2>3. /\ out' \in Seq(Nat) /\ Len(out') = Len(out) + len
        /\ \A i \in 1 .. Len(out) : out'[i] = out[i]
        /\ \A i \in 1 .. len : out'[Len(out) + i] = n[i]
        /\ \A i \in 1 .. Len(out') : i \in 1 .. Len(out) \/ \E j \in 1 .. len : i = Len(out) + j
    <3>1. /\ Len(out \o n) = Len(out) + len /\ out \o n \in Seq(Nat)
          /\ \A i \in 1 .. Len(out) : (out \o n)[i] = out[i]
          /\ \A i \in 1 .. len : (out \o n)[Len(out) + i] = n[i]
          /\ \A i \in 1 .. Len(out) + len : i \in 1 .. Len(out) \/ \E j \in 1 .. len : i = Len(out) + j
      <4>1. /\ Len(out \o n) = Len(out) + Len(n) /\ out \o n \in Seq(Nat)
            /\ \A i \in 1 .. Len(out) : (out \o n)[i] = out[i]
            /\ \A i \in 1 .. Len(n) : (out \o n)[Len(out) + i] = n[i]
            /\ \A i \in 1 .. Len(out) + Len(n) :
                 i \in 1 .. Len(out) \/ \E j \in 1 .. Len(n) : i = Len(out) + j
        BY <1>1, <1>3, ConcatIndex
      <4> QED
        BY <4>1, <1>3
    <3> QED
      BY <2>2, <3>1
  <2>4. NeverFlushes'
    BY <2>1, <2>2, <1>1 DEF NeverFlushes
  <2>5. Counted'
    <3> SUFFICES ASSUME peer # "broken" PROVE Len(wire) + 0 + Len(out') = taken'
      BY <2>1, <1>1 DEF Counted
    <3>1. Len(wire) + Len(out) = taken /\ Len(out') = Len(out) + len /\ taken' = taken + len
      BY <2>1, <2>3, <1>2
    <3> QED
      BY ONLY <3>1, Len(wire) \in Nat, Len(out) \in Nat, len \in Nat
  <2>6. InOrder'
    <3> SUFFICES ASSUME ~dangled, peer # "broken", NEW i \in 1 .. Len(out')
                 PROVE  out'[i] = Len(wire) + i
      BY <2>1, <1>1, <1>2 DEF InOrder
    <3>1. CASE i \in 1 .. Len(out)
      BY <3>1, <2>3, <1>2
    <3>2. ASSUME NEW j \in 1 .. len, i = Len(out) + j PROVE out'[i] = Len(wire) + i
      <4>1. out'[i] = taken + j /\ Len(wire) + Len(out) = taken
        BY <3>2, <2>3, <1>2, <1>3
      <4> QED
        BY ONLY <3>2, <4>1, Len(wire) \in Nat, Len(out) \in Nat, j \in Nat
    <3> QED
      BY <3>1, <3>2, <2>3
  <2>7. writing' \in [call : {"none", "send", "flush"}, rest : Seq(Nat), done : Nat,
                      foreign : BOOLEAN]
    BY <2>1, <1>1 DEF TypeOK, Byte
  <2> QED
    BY <2>1, <2>2, <2>3, <2>4, <2>5, <2>6, <2>7, <1>1
<1> QED
  BY <1>4, <1>5, <1>6

----------------------------------------------------------------------------
(* The steps.                                                              *)

LEMMA InitInv == Init /\ AsCoded => IInv
<1> SUFFICES ASSUME Init, AsCoded PROVE IInv
  OBVIOUS
<1>1. TypeOK
  <2>1. /\ out \in Seq(Byte) /\ pending \in Seq([op : Op, len : Nat, good : BOOLEAN, upTo : Nat])
        /\ wire \in Seq(Byte) /\ got \in 0 .. Len(wire)
    BY DEF Init
  <2>2. /\ writing \in [call : {"none", "send", "flush"}, rest : Seq(Byte), done : Nat,
                        foreign : BOOLEAN]
    BY DEF Init, NoWrite
  <2> QED
    BY <2>1, <2>2 DEF Init, TypeOK
<1>2. NeverFlushes
  BY DEF Init, NeverFlushes, NoWrite
<1>3. Counted /\ InOrder /\ QueueOK
  BY DEF Init, Counted, InOrder, QueueOK, Elems, NoWrite
<1> QED
  BY <1>1, <1>2, <1>3 DEF IInv

(* What TypeOK says of queues and bytes.                                   *)
LEMMA Typed ==
  ASSUME IInv
  PROVE  /\ TypeOK /\ AsCoded /\ NeverFlushes
         /\ pending \in Seq(FunctorType) /\ out \in Seq(Nat) /\ wire \in Seq(Nat)
         /\ writing.rest \in Seq(Nat) /\ writing.done \in Nat /\ writing.foreign \in BOOLEAN
         /\ writing.call \in {"none", "send"} /\ (writing # NoWrite => writing.call = "send")
         /\ Len(wire) \in Nat /\ Len(writing.rest) \in Nat /\ Len(out) \in Nat
BY DEF IInv, TypeOK, NeverFlushes, FunctorType, Byte

LEMMA CallbackSendsInv == ASSUME IInv, NEW len \in 0 .. MaxLen, CallbackSends(len) PROVE IInv'
<1> USE DEF CallbackSends, peerVars
<1>1. /\ pending' \in Seq(FunctorType) /\ taken' \in Nat /\ out' \in Seq(Nat)
      /\ writing' \in [call : {"none", "send", "flush"}, rest : Seq(Nat), done : Nat,
                       foreign : BOOLEAN]
      /\ Elems(pending') \subseteq Elems(pending) \cup {Functor("highWaterMark", 0)}
      /\ NeverFlushes' /\ Counted' /\ InOrder'
  <2>1. len \in Nat
    BY BoundAssumption
  <2> QED
    BY <2>1, Typed, SendInLoopKeeps
<1>2. TypeOK'
  <2>1. events' \subseteq {"read", "write"}
    BY <1>1 DEF NeverFlushes
  <2> QED
    BY <1>1, <2>1, Typed DEF TypeOK, FunctorType, Byte
<1>3. QueueOK'
  <2>1. Functor("highWaterMark", 0).good /\ Functor("highWaterMark", 0).op = "highWaterMark"
    BY Typed, FunctorTyped DEF Op
  <2> QED
    BY <1>1, <2>1 DEF IInv, QueueOK, FunctorOK
<1> QED
  BY <1>1, <1>2, <1>3 DEF IInv, AsCoded

LEMMA CallbackShutsDownInv == ASSUME IInv, CallbackShutsDown PROVE IInv'
<1> USE DEF IInv, CallbackShutsDown, peerVars, history
<1>1. TypeOK'
  BY DEF TypeOK, ShutdownInLoop, ShutdownWrite
<1>2. NeverFlushes' /\ Counted' /\ InOrder' /\ QueueOK'
  BY DEF NeverFlushes, Counted, InOrder, QueueOK, FunctorOK
<1> QED
  BY <1>1, <1>2 DEF AsCoded

LEMMA HandleEventInv == ASSUME IInv, HandleEvent PROVE IInv'
<1> USE DEF IInv, HandleEvent, peerVars, history
<1>1. state' = "kDisconnected" /\ events' = {} /\ writing' = writing
  BY DEF NeverFlushes, HandleClose
<1>2. TypeOK'
  BY <1>1 DEF TypeOK
<1>3. NeverFlushes' /\ Counted' /\ InOrder' /\ QueueOK'
  BY <1>1 DEF NeverFlushes, Counted, InOrder, QueueOK, FunctorOK
<1> QED
  BY <1>2, <1>3 DEF AsCoded

LEMMA RunFunctorInv == ASSUME IInv, RunFunctor PROVE IInv'
<1> DEFINE f == Head(pending)
<1> USE DEF peerVars
<1>1. /\ pending # <<>> /\ LoopFree
      /\ UNCHANGED <<state, callbacks, userCall, wire, peer, got, short, dangled>>
  BY DEF RunFunctor
<1>2. /\ f \in FunctorType /\ f \in Elems(pending)
      /\ Tail(pending) \in Seq(FunctorType) /\ Elems(Tail(pending)) \subseteq Elems(pending)
  BY <1>1, Typed, Taken
<1>3. f.len \in Nat /\ f.good \in BOOLEAN /\ (~dangled => f.good)
  BY <1>2 DEF FunctorType, IInv, QueueOK, FunctorOK
<1>4. CASE f.op = "send"
  <2>1. SendInLoop(f.len, f.good, TRUE, Tail(pending)) /\ UNCHANGED <<writeOpen, ended>>
    BY <1>4 DEF RunFunctor
  <2> HIDE DEF f
  <2>2. /\ pending' \in Seq(FunctorType) /\ taken' \in Nat /\ out' \in Seq(Nat)
        /\ writing' \in [call : {"none", "send", "flush"}, rest : Seq(Nat), done : Nat,
                         foreign : BOOLEAN]
        /\ Elems(pending') \subseteq Elems(Tail(pending)) \cup {Functor("highWaterMark", 0)}
        /\ NeverFlushes' /\ Counted' /\ InOrder'
    BY <2>1, <1>1, <1>2, <1>3, SendInLoopKeeps
  <2>3. TypeOK'
    <3>1. events' \subseteq {"read", "write"}
      BY <2>2 DEF NeverFlushes
    <3> QED
      BY <2>1, <2>2, <3>1, <1>1, Typed DEF TypeOK, FunctorType, Byte
  <2>4. QueueOK'
    <3>1. Functor("highWaterMark", 0).good /\ Functor("highWaterMark", 0).op = "highWaterMark"
      BY Typed, FunctorTyped DEF Op
    <3> QED
      BY <2>2, <3>1, <1>1, <1>2 DEF IInv, QueueOK, FunctorOK
  <2> QED
    BY <2>2, <2>3, <2>4 DEF IInv, AsCoded
<1>5. CASE f.op # "send"
  <2>1. /\ pending' = Tail(pending) /\ ended' \in BOOLEAN /\ writeOpen' \in BOOLEAN
        /\ UNCHANGED <<out, events, writing, taken>>
    BY <1>5, Typed DEF RunFunctor, ShutdownInLoop, ShutdownWrite, TypeOK
  <2>2. TypeOK'
    BY <2>1, <1>1, <1>2, Typed, SMTT(30) DEF TypeOK, FunctorType
  <2>3. NeverFlushes' /\ Counted' /\ InOrder' /\ QueueOK'
    BY <2>1, <1>1, <1>2 DEF IInv, NeverFlushes, Counted, InOrder, QueueOK, FunctorOK
  <2> QED
    BY <2>2, <2>3 DEF IInv, AsCoded
<1> QED
  BY <1>4, <1>5

LEMMA UserCheckInv == ASSUME IInv, UserCheck PROVE IInv'
<1> USE DEF IInv, UserCheck, connVars, peerVars, history
<1>1. userCall' \in [op : {"send", "shutdown"}, len : Nat]
  BY BoundAssumption
<1>2. TypeOK'
  BY <1>1 DEF TypeOK
<1>3. NeverFlushes' /\ Counted' /\ InOrder' /\ QueueOK'
  BY DEF NeverFlushes, Counted, InOrder, QueueOK, FunctorOK
<1> QED
  BY <1>2, <1>3 DEF AsCoded

LEMMA UserActInv == ASSUME IInv, UserAct PROVE IInv'
<1> USE DEF UserAct, peerVars, history
<1> DEFINE g == Functor(userCall.op, userCall.len)
<1>1. /\ g \in FunctorType /\ g.good /\ g.op # "writeComplete"
  <2>1. userCall.op \in {"send", "shutdown"} /\ userCall.len \in Nat
    BY Typed DEF TypeOK
  <2> QED
    BY <2>1, Typed, FunctorTyped DEF Op
<1>2. pending' \in Seq(FunctorType) /\ Elems(pending') = Elems(pending) \cup {g}
  BY <1>1, Typed, Queued
<1> HIDE DEF g
<1>3. TypeOK'
  BY <1>2, Typed DEF TypeOK, FunctorType, NoCall
<1>4. NeverFlushes' /\ Counted' /\ InOrder' /\ QueueOK'
  BY <1>1, <1>2 DEF IInv, NeverFlushes, Counted, InOrder, QueueOK, FunctorOK
<1> QED
  BY <1>3, <1>4 DEF IInv, AsCoded

LEMMA PeerInv == ASSUME IInv, PeerReads \/ PeerFails PROVE IInv'
<1> USE DEF IInv, connVars, peerVars, history
<1>1. /\ got' \in 0 .. Len(wire) /\ peer' \in {"reading", "stalled", "reset", "broken"}
      /\ peer' = "broken" <=> peer = "broken"
      /\ UNCHANGED <<connVars, writing, pending, callbacks, userCall, wire, ended, history>>
  <2>1. CASE PeerReads
    BY <2>1, Typed DEF PeerReads, TypeOK
  <2>2. CASE PeerFails
    BY <2>2 DEF PeerFails, Up, TypeOK
  <2> QED
    BY <2>1, <2>2
<1>2. TypeOK'
  BY <1>1 DEF TypeOK
<1>3. NeverFlushes' /\ Counted' /\ InOrder'
  BY <1>1 DEF NeverFlushes, Counted, InOrder
<1>4. QueueOK'
  BY <1>1 DEF QueueOK, FunctorOK
<1> QED
  BY <1>2, <1>3, <1>4 DEF AsCoded

(* The string of a queued or running send() goes: dangled is set, so only  *)
(* the numbers of bytes matter from then on.                               *)
(* A string goes: no functor moves, and none changes but in its good.      *)
LEMMA Spoiled ==
  ASSUME pending \in Seq(FunctorType), NEW k \in 1 .. Len(pending),
         pending' = [pending EXCEPT ![k].good = FALSE]
  PROVE  /\ pending' \in Seq(FunctorType) /\ Len(pending') = Len(pending)
         /\ \A i \in 1 .. Len(pending) : /\ pending'[i].op = pending[i].op
                                         /\ pending'[i].upTo = pending[i].upTo
<1>1. pending[k] \in FunctorType
  OBVIOUS
<1>2. [pending[k] EXCEPT !.good = FALSE] \in FunctorType
  BY <1>1 DEF FunctorType
<1>3. pending' = [pending EXCEPT ![k] = [pending[k] EXCEPT !.good = FALSE]]
  OBVIOUS
<1>4. \A i \in 1 .. Len(pending) : pending'[i] = IF i = k THEN [pending[k] EXCEPT !.good = FALSE]
                                                ELSE pending[i]
  BY <1>3
<1>5. pending' \in Seq(FunctorType) /\ Len(pending') = Len(pending)
  BY <1>2, <1>3
<1> QED
  BY <1>1, <1>4, <1>5 DEF FunctorType

LEMMA StringGoesInv == ASSUME IInv, StringGoes PROVE IInv'
<1> USE DEF connVars, peerVars
<1>1. dangled' = TRUE /\ UNCHANGED <<connVars, callbacks, userCall, wire, peerVars, ended, taken, short>>
  BY DEF StringGoes
<1>2. CASE /\ \E i \in 1 .. Len(pending) : pending' = [pending EXCEPT ![i].good = FALSE]
           /\ UNCHANGED writing
  <2>1. PICK i \in 1 .. Len(pending) : pending' = [pending EXCEPT ![i].good = FALSE]
    BY <1>2
  <2>2. /\ pending' \in Seq(FunctorType) /\ Len(pending') = Len(pending)
        /\ \A j \in 1 .. Len(pending) : /\ pending'[j].op = pending[j].op
                                        /\ pending'[j].upTo = pending[j].upTo
    BY <2>1, Typed, Spoiled
  <2>3. QueueOK'
    BY <1>1, <2>2, Typed, SMTT(30) DEF IInv, QueueOK, FunctorOK, Elems
  <2>4. TypeOK'
    <3>1. TypeOK /\ dangled' = TRUE /\ writing' = writing /\ pending' \in Seq(FunctorType)
          /\ UNCHANGED <<connVars, callbacks, userCall, wire, peerVars, ended, taken, short>>
      BY <1>1, <1>2, <2>2, Typed
    <3> QED
      BY <3>1, ZenonT(60) DEF TypeOK, FunctorType, connVars, peerVars
  <2> QED
    BY <1>1, <1>2, <2>3, <2>4 DEF IInv, NeverFlushes, Counted, InOrder, AsCoded
<1>3. CASE /\ writing.foreign /\ writing' = [writing EXCEPT !.rest = [i \in 1 .. Len(@) |-> 0]]
           /\ UNCHANGED pending
  <2> DEFINE zeros == [i \in 1 .. Len(writing.rest) |-> 0]
  <2>1. zeros \in Seq(Nat) /\ Len(zeros) = Len(writing.rest)
    BY Typed
  <2> HIDE DEF zeros
  <2>2. writing' = [writing EXCEPT !.rest = zeros]
    BY <1>3 DEF zeros
  <2>3. /\ writing' \in [call : {"none", "send", "flush"}, rest : Seq(Byte), done : Nat, foreign : BOOLEAN]
        /\ writing'.rest = zeros /\ writing'.call = writing.call
        /\ writing.call = "send"
    <3>1. writing \in [call : {"none", "send", "flush"}, rest : Seq(Byte), done : Nat, foreign : BOOLEAN]
      BY Typed DEF TypeOK
    <3>2. writing # NoWrite
      BY <1>3 DEF NoWrite
    <3>3. zeros \in Seq(Byte)
      BY <2>1 DEF Byte
    <3> QED
      BY <3>1, <3>2, <3>3, <2>2, Typed
  <2>4. TypeOK'
    BY <1>1, <1>3, <2>3, Typed DEF TypeOK
  <2>5. NeverFlushes' /\ Counted' /\ InOrder'
    BY <1>1, <2>1, <2>3 DEF IInv, NeverFlushes, Counted, InOrder
  <2>6. QueueOK'
    BY <1>1, <1>3 DEF IInv, QueueOK, FunctorOK
  <2> QED
    BY <2>4, <2>5, <2>6 DEF IInv, AsCoded
<1> QED
  BY <1>2, <1>3 DEF StringGoes

----------------------------------------------------------------------------
(* The write() call.                                                       *)

LEMMA KernelCopiesInv == ASSUME IInv, KernelCopies PROVE IInv'
<1> DEFINE n == Fits
           r == writing.rest
<1> USE DEF connVars, peerVars, history
<1>1. /\ wire' = wire \o SubSeq(r, 1, n)
      /\ writing' = [writing EXCEPT !.rest = SubSeq(@, n + 1, Len(@)), !.done = @ + n]
      /\ UNCHANGED <<connVars, pending, callbacks, userCall, peerVars, ended, history>>
      /\ writing.call = "send" /\ peer # "broken"
  BY Typed DEF KernelCopies, Broken, Up
<1>2. n \in 1 .. Len(r)
  <2>1. Len(wire) \in Nat /\ Len(r) \in Nat /\ got \in Nat /\ SndBuf \in Nat /\ n > 0
    BY Typed, SizeAssumption DEF KernelCopies, TypeOK
  <2>2. n \in Int /\ n <= Len(r)
    BY <2>1 DEF Fits
  <2> HIDE DEF n, r
  <2> QED
    BY <2>1, <2>2
<1> DEFINE a == SubSeq(r, 1, n)
           b == SubSeq(r, n + 1, Len(r))
<1> HIDE DEF n
<1>3. /\ a \in Seq(Nat) /\ Len(a) = n /\ b \in Seq(Nat) /\ Len(b) = Len(r) - n
      /\ \A i \in 1 .. n : a[i] = r[i]
      /\ \A i \in 1 .. Len(r) - n : b[i] = r[n + i]
  BY <1>2, Typed, SplitIndex
<1>4. /\ wire' = wire \o a /\ writing'.rest = b /\ writing'.call = "send"
      /\ writing' \in [call : {"none", "send", "flush"}, rest : Seq(Byte), done : Nat, foreign : BOOLEAN]
  <2>1. writing \in [call : {"none", "send", "flush"}, rest : Seq(Byte), done : Nat, foreign : BOOLEAN]
    BY Typed DEF TypeOK
  <2>2. writing' = [writing EXCEPT !.rest = b, !.done = writing.done + n]
    BY <1>1
  <2>3. b \in Seq(Byte) /\ writing.done + n \in Nat
    <3>1. b \in Seq(Nat) /\ n \in Nat /\ writing.done \in Nat
      BY <1>2, <1>3, Typed
    <3> HIDE DEF b
    <3> QED
      BY <3>1 DEF Byte
  <2>4. wire' = wire \o a
    BY <1>1
  <2> HIDE DEF a, b
  <2> QED
    BY <2>1, <2>2, <2>3, <2>4, <1>1
<1> HIDE DEF a, b
<1>5. /\ wire' \in Seq(Nat) /\ Len(wire') = Len(wire) + n
      /\ \A i \in 1 .. Len(wire) : wire'[i] = wire[i]
      /\ \A i \in 1 .. n : wire'[Len(wire) + i] = a[i]
      /\ \A i \in 1 .. Len(wire') : i \in 1 .. Len(wire) \/ \E j \in 1 .. n : i = Len(wire) + j
  <2>1. /\ wire \o a \in Seq(Nat) /\ Len(wire \o a) = Len(wire) + Len(a)
        /\ \A i \in 1 .. Len(wire) : (wire \o a)[i] = wire[i]
        /\ \A i \in 1 .. Len(a) : (wire \o a)[Len(wire) + i] = a[i]
        /\ \A i \in 1 .. Len(wire) + Len(a) :
             i \in 1 .. Len(wire) \/ \E j \in 1 .. Len(a) : i = Len(wire) + j
    BY <1>3, Typed, ConcatIndex
  <2> QED
    BY <2>1, <1>3, <1>4
<1>6. TypeOK'
  <2>1. got' \in 0 .. Len(wire')
    BY <1>1, <1>2, <1>5, Typed DEF TypeOK
  <2> QED
    BY <2>1, <1>1, <1>4, <1>5, Typed DEF TypeOK, Byte
<1>7. NeverFlushes'
  BY <1>1, <1>4 DEF IInv, NeverFlushes
<1>8. Counted'
  <2> SUFFICES Len(wire') + Len(writing'.rest) + Len(out) = taken
    BY <1>1 DEF Counted
  <2>1. Len(wire) + Len(r) + Len(out) = taken
    BY <1>1 DEF IInv, Counted
  <2>2. Len(wire') = Len(wire) + n /\ Len(writing'.rest) = Len(r) - n
    BY <1>3, <1>4, <1>5
  <2>3. Len(wire) \in Nat /\ Len(r) \in Nat /\ Len(out) \in Nat /\ n \in Nat
    BY <1>2, Typed
  <2> HIDE DEF r
  <2> QED
    BY ONLY <2>1, <2>2, <2>3
<1>9. InOrder'
  <2>1. out = <<>> /\ out' = out /\ dangled' = dangled
    BY <1>1 DEF IInv, NeverFlushes
  <2> SUFFICES ASSUME ~dangled
               PROVE  /\ \A i \in 1 .. Len(wire') : wire'[i] = i
                      /\ \A i \in 1 .. Len(writing'.rest) : writing'.rest[i] = Len(wire') + i
    BY <2>1 DEF InOrder
  <2>2. /\ \A i \in 1 .. Len(wire) : wire[i] = i
        /\ \A i \in 1 .. Len(r) : r[i] = Len(wire) + i
    BY <1>1 DEF IInv, InOrder
  <2>3. ASSUME NEW i \in 1 .. Len(wire') PROVE wire'[i] = i
    <3>1. CASE i \in 1 .. Len(wire)
      BY <3>1, <2>2, <1>5
    <3>2. ASSUME NEW j \in 1 .. n, i = Len(wire) + j PROVE wire'[i] = i
      <4>1. j \in 1 .. Len(r)
        BY <3>2, <1>2, Typed
      <4> QED
        BY <3>2, <4>1, <2>2, <1>3, <1>5
    <3> QED
      BY <3>1, <3>2, <1>5
  <2>4. ASSUME NEW i \in 1 .. Len(writing'.rest) PROVE writing'.rest[i] = Len(wire') + i
    <3>1. i \in 1 .. Len(r) - n /\ n + i \in 1 .. Len(r)
      <4>1. Len(r) \in Nat /\ n \in 1 .. Len(r) /\ i \in 1 .. Len(r) - n
        BY <1>2, <1>3, <1>4, <2>4, Typed
      <4> QED
        BY ONLY <4>1
    <3>2. writing'.rest[i] = Len(wire) + (n + i)
      BY <3>1, <2>2, <1>3, <1>4
    <3> QED
      BY <3>1, <3>2, <1>2, <1>5, Typed
  <2> QED
    BY <2>3, <2>4
<1>10. QueueOK'
  <2> SUFFICES ASSUME NEW f \in Elems(pending) PROVE FunctorOK(f)'
    BY <1>1 DEF QueueOK
  <2>1. f \in FunctorType
    BY Typed DEF Elems
  <2> QED
    <3>1. Len(wire) <= Len(wire') /\ Len(wire) \in Nat /\ Len(wire') \in Nat /\ f.upTo \in Nat
      BY <2>1, <1>2, <1>5, Typed DEF FunctorType
    <3>2. FunctorOK(f) /\ peer' = peer /\ dangled' = dangled
      BY <1>1 DEF IInv, QueueOK
    <3> QED
      BY <3>1, <3>2 DEF FunctorOK
<1> QED
  BY <1>6, <1>7, <1>8, <1>9, <1>10 DEF IInv, AsCoded

(* A write() returns: what it did not take is kept, or given up with the   *)
(* connection, and if it took all, all that was taken is with the kernel.  *)
LEMMA ReturnInv ==
  ASSUME IInv, writing # NoWrite, NEW fault \in BOOLEAN, Return(writing.rest, fault),
         writing.rest # <<>> /\ fault => peer' = "broken",
         peer' = peer \/ peer' = "broken",
         short' \in BOOLEAN, ended' = ended
  PROVE  IInv'
<1> DEFINE r == writing.rest
<1>1. /\ writing' = NoWrite /\ AfterSend(r, fault)
      /\ UNCHANGED <<state, callbacks, userCall, wire, got, taken, dangled, writeOpen>>
      /\ out = <<>> /\ Len(out) = 0
  <2>1. writing.call = "send" /\ out = <<>>
    BY Typed DEF NeverFlushes
  <2> QED
    BY <2>1 DEF Return, AfterSend
<1>2. /\ writing'.call = "none" /\ writing'.rest = <<>> /\ Len(writing'.rest) = 0
      /\ writing' \in [call : {"none", "send", "flush"}, rest : Seq(Byte), done : Nat,
                       foreign : BOOLEAN]
  BY <1>1 DEF NoWrite
<1>3. /\ out' \in Seq(Nat) /\ events' \subseteq {"read"} /\ pending' \in Seq(FunctorType)
      /\ peer' # "broken" => out' = r
      /\ \A g \in Elems(pending') : \/ g \in Elems(pending)
                                    \/ g = Functor("highWaterMark", 0)
                                    \/ g = Functor("writeComplete", 0) /\ r = <<>>
  <2>1. CASE r = <<>> /\ ~fault
    <3>1. pending' = Completed(pending) /\ UNCHANGED <<out, events>>
      BY <1>1, <2>1 DEF AfterSend
    <3>2. Functor("writeComplete", 0) \in FunctorType
      BY Typed, FunctorTyped DEF Op
    <3>3. pending' \in Seq(FunctorType)
          /\ Elems(pending') \subseteq Elems(pending) \cup {Functor("writeComplete", 0)}
      BY <3>1, <3>2, Typed, Queued DEF Completed
    <3> QED
      BY <1>1, <2>1, <3>1, <3>3, Typed DEF NeverFlushes
  <2>2. CASE fault
    BY <1>1, <2>2, Typed DEF AfterSend, NeverFlushes
  <2>3. CASE r # <<>> /\ ~fault
    <3>1. Keep(r, pending)
      BY <1>1, <2>3 DEF AfterSend
    <3>2. out' = out \o r /\ events' \subseteq {"read"} /\ pending' \in Seq(FunctorType)
          /\ Elems(pending') \subseteq Elems(pending) \cup {Functor("highWaterMark", 0)}
      BY <3>1, Typed, KeepQueue
    <3>3. out \o r = r
      BY <1>1, Typed
    <3> QED
      BY <3>2, <3>3, Typed
  <2> QED
    BY <2>1, <2>2, <2>3
<1>4. TypeOK'
  <2>1. peer' \in {"reading", "stalled", "reset", "broken"}
    BY Typed DEF TypeOK
  <2> QED
    BY <2>1, <1>1, <1>2, <1>3, Typed DEF TypeOK, FunctorType, Byte
<1>5. NeverFlushes'
  BY <1>1, <1>2, <1>3 DEF NeverFlushes
<1>6. Counted' /\ InOrder'
  <2>1. peer' # "broken" => Len(wire) + Len(r) = taken /\ out' = r
    <3> SUFFICES ASSUME peer' # "broken" PROVE Len(wire) + Len(r) = taken
      BY <1>3
    <3>1. Len(wire) + Len(r) + 0 = taken
      BY <1>1 DEF IInv, Counted
    <3> QED
      BY <3>1, Typed
  <2>2. ~dangled => /\ \A i \in 1 .. Len(wire) : wire[i] = i
                    /\ peer' # "broken" => \A i \in 1 .. Len(r) : r[i] = Len(wire) + i
    BY DEF IInv, InOrder
  <2>3. Len(wire') = Len(wire) /\ Len(wire) + 0 = Len(wire)
        /\ \A i \in 1 .. Len(writing'.rest) : FALSE
    BY <1>1, <1>2, Typed
  <2> HIDE DEF r
  <2>4. Counted'
    BY <1>1, <1>2, <2>1, <2>3 DEF Counted
  <2> QED
    BY <1>1, <1>2, <2>1, <2>2, <2>3, <2>4 DEF InOrder
<1>7. QueueOK'
  <2> SUFFICES ASSUME NEW g \in Elems(pending') PROVE FunctorOK(g)'
    BY DEF QueueOK
  <2>1. CASE g \in Elems(pending)
    BY <1>1, <2>1 DEF IInv, QueueOK, FunctorOK
  <2>2. CASE g = Functor("highWaterMark", 0)
    <3>1. g.good /\ g.op # "writeComplete"
      BY <2>2, Typed, FunctorTyped DEF Op
    <3> QED
      BY <3>1 DEF FunctorOK
  <2>3. CASE g = Functor("writeComplete", 0) /\ r = <<>>
    <3>1. g.good /\ g.upTo = taken
      BY <2>3, Typed, FunctorTyped DEF Op
    <3>2. peer # "broken" => taken = Len(wire)
      <4> SUFFICES ASSUME peer # "broken" PROVE taken = Len(wire)
        OBVIOUS
      <4>1. Len(wire) + 0 + 0 = taken
        BY <1>1, <2>3 DEF IInv, Counted
      <4> QED
        BY <4>1, Typed
    <3>3. g.upTo <= Len(wire') \/ peer' = "broken"
      BY <1>1, <3>1, <3>2, Typed
    <3> QED
      BY <3>1, <3>3 DEF FunctorOK
  <2> QED
    BY <1>3, <2>1, <2>2, <2>3
<1> QED
  BY <1>4, <1>5, <1>6, <1>7 DEF IInv, AsCoded

LEMMA WriteEndsInv ==
  ASSUME IInv, WriteReturns \/ WriteInterrupted \/ WriteFails PROVE IInv'
<1>1. CASE WriteReturns
  BY <1>1, ReturnInv, Typed DEF WriteReturns, TypeOK
<1>2. CASE WriteInterrupted
  BY <1>2, ReturnInv DEF WriteInterrupted
<1>3. CASE WriteFails
  <2>1. CASE writing.done > 0 \/ peer = "reset"
    <3>1. /\ writing # NoWrite /\ Return(writing.rest, writing.done = 0)
          /\ peer' = (IF writing.done = 0 THEN "broken" ELSE peer)
          /\ UNCHANGED <<ended, short>>
      BY <1>3, <2>1 DEF WriteFails
    <3>2. short' \in BOOLEAN
      BY <3>1, Typed DEF TypeOK
    <3> QED
      BY <3>1, <3>2, ReturnInv
  <2>2. CASE ~(writing.done > 0 \/ peer = "reset")
    <3>1. /\ ended' = TRUE
          /\ UNCHANGED <<connVars, writing, pending, callbacks, userCall, wire, peerVars, history>>
      BY <1>3, <2>2 DEF WriteFails
    <3>2. TypeOK'
      <4>1. TypeOK
        BY Typed
      <4> QED
        BY <3>1, <4>1, ZenonT(60) DEF TypeOK, connVars, peerVars, history
    <3> QED
      BY <3>1, <3>2 DEF IInv, AsCoded, NeverFlushes, Counted, InOrder, QueueOK, FunctorOK,
                        connVars, peerVars, history
  <2> QED
    BY <2>1, <2>2
<1> QED
  BY <1>1, <1>2, <1>3

LEMMA NextInv == IInv /\ [Next]_vars => IInv'
<1> SUFFICES ASSUME IInv, [Next]_vars PROVE IInv'
  OBVIOUS
<1>1. CASE LoopStep \/ WriteInterrupted
  BY <1>1, KernelCopiesInv, WriteEndsInv, RunFunctorInv DEF LoopStep
<1>2. CASE \E len \in 0 .. MaxLen : CallbackSends(len)
  BY <1>2, CallbackSendsInv
<1>3. CASE CallbackShutsDown \/ HandleEvent
  BY <1>3, CallbackShutsDownInv, HandleEventInv
<1>4. CASE UserCheck \/ UserAct \/ StringGoes
  BY <1>4, UserCheckInv, UserActInv, StringGoesInv
<1>5. CASE PeerReads \/ PeerFails
  BY <1>5, PeerInv
<1>6. CASE UNCHANGED vars
  <2> USE <1>6 DEF vars, connVars, peerVars, history
  <2>1. TypeOK'
    BY Typed DEF TypeOK
  <2>2. NeverFlushes' /\ Counted' /\ InOrder' /\ QueueOK'
    BY DEF IInv, NeverFlushes, Counted, InOrder, QueueOK, FunctorOK
  <2> QED
    BY <2>1, <2>2 DEF IInv, AsCoded
<1> QED
  BY <1>1, <1>2, <1>3, <1>4, <1>5, <1>6 DEF Next

LEMMA Invariant == ASSUME AsCoded PROVE Safe => []IInv
<1>1. Init => IInv
  BY InitInv
<1> QED
  BY <1>1, NextInv, PTL DEF Safe

----------------------------------------------------------------------------
(* What follows from the invariant.                                        *)

(* Types of the fields, of all the lengths send() may be called with.      *)
THEOREM TypeCorrect == ASSUME AsCoded PROVE Safe => []TypeOK
<1>1. IInv => TypeOK
  BY DEF IInv
<1> QED
  BY <1>1, Invariant, PTL

LEMMA StreamInOrder == IInv => StreamIntact
<1> SUFFICES ASSUME IInv, ~dangled PROVE
      /\ \A i \in 1 .. Len(wire) : wire[i] = i
      /\ peer # "broken" => /\ Len(Stream) = taken
                            /\ \A i \in 1 .. taken : Stream[i] = i
  BY DEF StreamIntact
<1>1. \A i \in 1 .. Len(wire) : wire[i] = i
  BY DEF IInv, InOrder
<1>2. ASSUME peer # "broken"
      PROVE  Len(Stream) = taken /\ \A i \in 1 .. taken : Stream[i] = i
  <2> DEFINE r == writing.rest
             m == wire \o r
  <2>1. /\ Len(wire) + Len(r) + Len(out) = taken
        /\ \A i \in 1 .. Len(r) : r[i] = Len(wire) + i
        /\ \A i \in 1 .. Len(out) : out[i] = Len(wire) + Len(r) + i
    BY <1>2 DEF IInv, Counted, InOrder
  <2>2. Stream = m \o out
    BY Typed DEF Stream
  <2>3. /\ m \in Seq(Nat) /\ Len(m) = Len(wire) + Len(r)
        /\ \A i \in 1 .. Len(m) : m[i] = i
    <3>1. wire \in Seq(Nat) /\ r \in Seq(Nat)
      BY Typed
    <3> HIDE DEF r
    <3> QED
      BY <1>1, <2>1, <3>1, Joined
  <2>4. \A i \in 1 .. Len(out) : out[i] = Len(m) + i
    BY <2>1, <2>3
  <2> HIDE DEF m
  <2>5. Len(m \o out) = Len(m) + Len(out) /\ \A i \in 1 .. Len(m \o out) : (m \o out)[i] = i
    BY <2>3, <2>4, Typed, Joined
  <2>6. Len(m \o out) = taken
    BY <2>1, <2>3, <2>5
  <2> QED
    BY <2>2, <2>5, <2>6
<1> QED
  BY <1>1, <1>2

(* No byte that sendInLoop took is lost, repeated or overtaken before it   *)
(* is with the kernel, unless a caller's string went or the connection.    *)
THEOREM StreamIsIntact == ASSUME AsCoded PROVE Safe => []StreamIntact
BY Invariant, StreamInOrder, PTL

(* "Write complete" is never told of bytes that sendInLoop still holds.    *)
THEOREM CompletionIsTrue == ASSUME AsCoded PROVE Safe => []CompleteMeansWritten
<1>1. IInv => CompleteMeansWritten
  BY DEF IInv, QueueOK, FunctorOK, Elems, CompleteMeansWritten
<1> QED
  BY <1>1, Invariant, PTL

----------------------------------------------------------------------------
(* The mark, and the end of writing.                                       *)

(* Output waits only after a write() was cut short or the peer failed, and *)
(* once the write end is closed a write() copies nothing.                  *)
NothingKept == ~short /\ Up => out = <<>>
ClosedCopiesNothing == ~writeOpen => writing.done = 0

EndInv == HighWaterOnce /\ NothingKept /\ ClosedCopiesNothing

(* HighWaterOnce of any queue q and n bytes of output.                     *)
Once(q, n) == \A i, j \in 1 .. Len(q) :
                q[i].op = "highWaterMark" /\ q[j].op = "highWaterMark"
                  => i = j /\ n >= highWaterMark

LEMMA OnceOther ==
  ASSUME NEW q \in Seq(FunctorType), NEW f \in FunctorType, f.op # "highWaterMark",
         NEW n \in Nat, Once(q, n)
  PROVE  Once(Append(q, f), n)
<1>1. /\ Len(Append(q, f)) = Len(q) + 1 /\ Append(q, f)[Len(q) + 1] = f
      /\ \A i \in 1 .. Len(q) : Append(q, f)[i] = q[i]
  OBVIOUS
<1>2. \A i \in 1 .. Len(q) + 1 : i \in 1 .. Len(q) \/ i = Len(q) + 1
  OBVIOUS
<1> QED
  BY <1>1, <1>2 DEF Once

LEMMA OnceTail ==
  ASSUME NEW q \in Seq(FunctorType), q # <<>>, NEW n \in Nat, Once(q, n)
  PROVE  Once(Tail(q), n)
<1>1. /\ Len(Tail(q)) = Len(q) - 1
      /\ \A i \in 1 .. Len(Tail(q)) : Tail(q)[i] = q[i + 1] /\ i + 1 \in 1 .. Len(q)
  OBVIOUS
<1> SUFFICES ASSUME NEW i \in 1 .. Len(Tail(q)), NEW j \in 1 .. Len(Tail(q)),
                    Tail(q)[i].op = "highWaterMark", Tail(q)[j].op = "highWaterMark"
             PROVE  i = j /\ n >= highWaterMark
  BY DEF Once
<1>2. i + 1 = j + 1 /\ n >= highWaterMark
  BY <1>1 DEF Once
<1> QED
  BY <1>2

(* Keep queues the callback when the output gets to the mark, from below   *)
(* where none was queued.                                                  *)
LEMMA OnceKept ==
  ASSUME TypeOK, NEW rest \in Seq(Nat), NEW q \in Seq(FunctorType),
         Once(q, Len(out)), Keep(rest, q)
  PROVE  Once(pending', Len(out'))
<1> DEFINE f == Functor("highWaterMark", 0)
           n == Len(out) + Len(rest)
<1>1. /\ out \in Seq(Nat) /\ Len(out) \in Nat /\ Len(rest) \in Nat /\ highWaterMark \in Nat
  BY SizeAssumption DEF TypeOK, Byte
<1>2. Len(out') = n /\ n \in Nat
  BY <1>1 DEF Keep
<1>3. f \in FunctorType /\ f.op = "highWaterMark"
  BY FunctorTyped DEF Op
<1>4. CASE n >= highWaterMark /\ Len(out) < highWaterMark
  <2>1. pending' = Append(q, f)
    BY <1>4 DEF Keep
  <2>2. \A i \in 1 .. Len(q) : q[i].op # "highWaterMark"
    BY <1>1, <1>4 DEF Once
  <2> HIDE DEF f, n
  <2>3. /\ Len(pending') = Len(q) + 1
        /\ \A i \in 1 .. Len(q) : pending'[i] = q[i]
        /\ \A i \in 1 .. Len(q) + 1 : i \in 1 .. Len(q) \/ i = Len(q) + 1
    BY <2>1, <1>3
  <2> QED
    BY <2>2, <2>3, <1>2, <1>4 DEF Once
<1>5. CASE ~(n >= highWaterMark /\ Len(out) < highWaterMark)
  <2>1. pending' = q
    BY <1>5 DEF Keep
  <2>2. \A i, j \in 1 .. Len(q) : q[i].op = "highWaterMark" /\ q[j].op = "highWaterMark"
                                    => i = j /\ Len(out) >= highWaterMark
    BY DEF Once
  <2>3. Len(out) >= highWaterMark => n >= highWaterMark
    BY <1>1
  <2> HIDE DEF n
  <2> QED
    BY <2>1, <2>2, <2>3, <1>2 DEF Once
<1> QED
  BY <1>4, <1>5

LEMMA SendInLoopOnce ==
  ASSUME IInv, NothingKept, LoopFree, NEW len \in Nat, NEW good \in BOOLEAN,
         NEW foreign \in BOOLEAN, NEW q \in Seq(FunctorType), Once(q, Len(out)),
         SendInLoop(len, good, foreign, q), UNCHANGED <<peer, short>>
  PROVE  /\ Once(pending', Len(out')) /\ NothingKept'
         /\ writing'.done = 0
<1> DEFINE n == Numbered(len, good)
<1>1. n \in Seq(Nat) /\ writing.done = 0
  BY Typed, NumberedTyped DEF LoopFree, NoWrite
<1> HIDE DEF n
<1>2. CASE pending' = q /\ UNCHANGED <<out, writing>>
  BY <1>1, <1>2 DEF NothingKept, Up
<1>3. CASE BeginWrite("send", n, foreign) /\ pending' = q /\ UNCHANGED out
  BY <1>3 DEF BeginWrite, NothingKept, Up
<1>4. CASE Keep(n, q) /\ UNCHANGED writing /\ out # <<>>
  <2>1. Once(pending', Len(out'))
    BY <1>1, <1>4, OnceKept, Typed
  <2>2. ~(~short /\ Up)
    BY <1>4 DEF NothingKept
  <2> QED
    BY <2>1, <2>2, <1>1, <1>4 DEF NothingKept, Up
<1> QED
  <2>1. ~IsWriting
    BY Typed DEF NeverFlushes, IsWriting
  <2> QED
    BY <2>1, <1>2, <1>3, <1>4 DEF SendInLoop, n

LEMMA EndInit == Init => EndInv
BY DEF Init, EndInv, HighWaterOnce, NothingKept, ClosedCopiesNothing, NoWrite

LEMMA ReturnEnds ==
  ASSUME IInv, EndInv, writing # NoWrite, NEW fault \in BOOLEAN, Return(writing.rest, fault),
         writing.rest # <<>> /\ ~fault => short' \/ ~Up',
         short => short', Up' => Up
  PROVE  EndInv'
<1> DEFINE r == writing.rest
<1>1. /\ writing' = NoWrite /\ AfterSend(r, fault) /\ writing'.done = 0 /\ r \in Seq(Nat)
      /\ out = <<>>
  <2>1. writing.call = "send" /\ out = <<>>
    BY Typed DEF NeverFlushes
  <2> QED
    BY <2>1, Typed DEF Return, AfterSend, NoWrite
<1>2. Once(pending, Len(out)) /\ pending \in Seq(FunctorType) /\ Len(out) \in Nat
  BY Typed DEF EndInv, HighWaterOnce, Once
<1>3. Once(pending', Len(out'))
  <2>1. CASE r = <<>> /\ ~fault
    <3>1. pending' = Completed(pending) /\ UNCHANGED out
      BY <1>1, <2>1 DEF AfterSend
    <3>2. Functor("writeComplete", 0) \in FunctorType
          /\ Functor("writeComplete", 0).op # "highWaterMark"
      BY Typed, FunctorTyped DEF Op
    <3> QED
      BY <3>1, <3>2, <1>2, OnceOther DEF Completed
  <2>2. CASE fault
    BY <1>1, <1>2, <2>2 DEF AfterSend
  <2>3. CASE r # <<>> /\ ~fault
    BY <1>1, <1>2, <2>3, OnceKept, Typed DEF AfterSend
  <2> QED
    BY <2>1, <2>2, <2>3
<1>4. NothingKept'
  <2>1. CASE r = <<>> \/ fault
    <3>1. out' = <<>>
      BY <1>1, <2>1 DEF AfterSend
    <3> QED
      BY <3>1 DEF NothingKept
  <2>2. CASE r # <<>> /\ ~fault
    BY <2>2 DEF NothingKept
  <2> QED
    BY <2>1, <2>2
<1>5. HighWaterOnce'
  BY <1>3 DEF Once, HighWaterOnce
<1> QED
  BY <1>1, <1>4, <1>5 DEF EndInv, ClosedCopiesNothing

LEMMA EndNext == IInv /\ EndInv /\ [Next]_vars => EndInv'
<1> SUFFICES ASSUME IInv, EndInv, [Next]_vars PROVE EndInv'
  OBVIOUS
<1>1. Once(pending, Len(out)) /\ pending \in Seq(FunctorType) /\ Len(out) \in Nat
  BY Typed DEF EndInv, HighWaterOnce, Once
<1> USE DEF EndInv, connVars, peerVars, history
<1>2. CASE KernelCopies
  <2>1. writeOpen /\ UNCHANGED <<writeOpen, pending, out, peer, short>>
    BY <1>2 DEF KernelCopies, Broken
  <2> QED
    BY <2>1 DEF HighWaterOnce, NothingKept, ClosedCopiesNothing, Up
<1>3. CASE WriteReturns
  BY <1>3, ReturnEnds DEF WriteReturns, Up
<1>4. CASE WriteInterrupted
  BY <1>4, ReturnEnds DEF WriteInterrupted, Up
<1>5. CASE WriteFails
  <2>1. CASE writing.done > 0 \/ peer = "reset"
    <3>1. /\ writing # NoWrite /\ Return(writing.rest, writing.done = 0)
          /\ peer' = (IF writing.done = 0 THEN "broken" ELSE peer)
          /\ UNCHANGED short /\ Broken
      BY <1>5, <2>1 DEF WriteFails
    <3>2. writing.done # 0 => ~Up /\ peer' = peer
      BY <3>1 DEF ClosedCopiesNothing, Broken
    <3> QED
      BY <3>1, <3>2, ReturnEnds DEF Up
  <2>2. CASE ~(writing.done > 0 \/ peer = "reset")
    <3>1. UNCHANGED <<pending, out, writeOpen, writing, peer, short>>
      BY <1>5, <2>2 DEF WriteFails
    <3> QED
      BY <3>1 DEF HighWaterOnce, NothingKept, ClosedCopiesNothing, Up
  <2> QED
    BY <2>1, <2>2
<1>6. CASE RunFunctor
  <2> DEFINE f == Head(pending)
  <2>1. /\ pending # <<>> /\ LoopFree /\ UNCHANGED <<peer, short>>
        /\ f \in FunctorType /\ Tail(pending) \in Seq(FunctorType)
        /\ Once(Tail(pending), Len(out))
    BY <1>1, <1>6, Taken, OnceTail DEF RunFunctor
  <2>2. CASE f.op = "send"
    <3>1. SendInLoop(f.len, f.good, TRUE, Tail(pending)) /\ UNCHANGED writeOpen
      BY <1>6, <2>2 DEF RunFunctor
    <3>2. f.len \in Nat /\ f.good \in BOOLEAN
      BY <2>1 DEF FunctorType
    <3> HIDE DEF f
    <3>3. Once(pending', Len(out')) /\ NothingKept' /\ writing'.done = 0
      BY <2>1, <3>1, <3>2, SendInLoopOnce
    <3> QED
      BY <3>3 DEF Once, HighWaterOnce, ClosedCopiesNothing
  <2>3. CASE f.op # "send"
    <3>1. pending' = Tail(pending) /\ UNCHANGED <<out, writing>> /\ writing.done = 0
      BY <1>6, <2>1, <2>3 DEF RunFunctor, LoopFree, NoWrite
    <3> QED
      BY <2>1, <3>1 DEF Once, HighWaterOnce, NothingKept, ClosedCopiesNothing, Up
  <2> QED
    BY <2>2, <2>3
<1>7. ASSUME NEW len \in 0 .. MaxLen, CallbackSends(len) PROVE EndInv'
  <2>1. /\ SendInLoop(len, TRUE, FALSE, pending) /\ LoopFree
        /\ UNCHANGED <<peer, short, writeOpen>>
    BY <1>7 DEF CallbackSends
  <2>2. len \in Nat
    BY BoundAssumption
  <2>3. Once(pending', Len(out')) /\ NothingKept' /\ writing'.done = 0
    BY <1>1, <2>1, <2>2, SendInLoopOnce
  <2> QED
    BY <2>1, <2>3 DEF Once, HighWaterOnce, ClosedCopiesNothing
<1>8. CASE CallbackShutsDown
  <2>1. UNCHANGED <<pending, out, writing, peer, short>> /\ writing.done = 0
    BY <1>8 DEF CallbackShutsDown, LoopFree, NoWrite
  <2> QED
    BY <2>1 DEF HighWaterOnce, NothingKept, ClosedCopiesNothing, Up
<1>9. CASE HandleEvent
  <2>1. UNCHANGED <<pending, out, writing, peer, short, writeOpen>>
    BY <1>9, Typed DEF HandleEvent, HandleClose, NeverFlushes
  <2> QED
    BY <2>1 DEF HighWaterOnce, NothingKept, ClosedCopiesNothing, Up
<1>10. CASE UserAct
  <2>1. /\ pending' = Append(pending, Functor(userCall.op, userCall.len))
        /\ UNCHANGED <<out, writing, peer, short, writeOpen>>
    BY <1>10 DEF UserAct
  <2>2. userCall.op \in {"send", "shutdown"} /\ userCall.len \in Nat
    BY <1>10, Typed DEF UserAct, TypeOK
  <2>3. /\ Functor(userCall.op, userCall.len) \in FunctorType
        /\ Functor(userCall.op, userCall.len).op # "highWaterMark"
    BY <2>2, Typed, FunctorTyped DEF Op
  <2>4. Once(pending', Len(out))
    BY <1>1, <2>1, <2>3, OnceOther
  <2> QED
    BY <2>1, <2>4 DEF Once, HighWaterOnce, NothingKept, ClosedCopiesNothing, Up
<1>11. CASE StringGoes
  <2>1. UNCHANGED <<out, peer, short, writeOpen>>
    BY <1>11 DEF StringGoes
  <2>2. writing'.done = writing.done
    BY <1>11, Typed DEF StringGoes, TypeOK
  <2>3. Len(pending') = Len(pending) /\ \A i \in 1 .. Len(pending) : pending'[i].op = pending[i].op
    <3>1. CASE UNCHANGED pending
      BY <3>1
    <3>2. ASSUME NEW k \in 1 .. Len(pending), pending' = [pending EXCEPT ![k].good = FALSE]
          PROVE  /\ Len(pending') = Len(pending)
                 /\ \A i \in 1 .. Len(pending) : pending'[i].op = pending[i].op
      BY <1>1, <3>2, Spoiled
    <3> QED
      BY <1>11, <3>1, <3>2 DEF StringGoes
  <2> QED
    BY <2>1, <2>2, <2>3 DEF HighWaterOnce, NothingKept, ClosedCopiesNothing, Up
<1>12. CASE UserCheck \/ PeerReads \/ PeerFails \/ UNCHANGED vars
  <2>1. UNCHANGED <<pending, out, writing, short, writeOpen>> /\ (Up' => Up)
    BY <1>12 DEF UserCheck, PeerReads, PeerFails, vars, Up
  <2> QED
    BY <2>1 DEF HighWaterOnce, NothingKept, ClosedCopiesNothing
<1> QED
  BY <1>2, <1>3, <1>4, <1>5, <1>6, <1>7, <1>8, <1>9, <1>10, <1>11, <1>12 DEF Next, LoopStep

LEMMA EndInvariant == ASSUME AsCoded PROVE Safe => []EndInv
<1>1. Init => EndInv
  BY EndInit
<1> QED
  BY <1>1, EndNext, Invariant, PTL DEF Safe

(* The high-water callback is queued once, where the output got to the     *)
(* mark, whatever the lengths that are sent: :210's two tests are enough.  *)
THEOREM HighWaterIsOnce == ASSUME AsCoded PROVE Safe => []HighWaterOnce
<1>1. EndInv => HighWaterOnce
  BY DEF EndInv
<1> QED
  BY <1>1, EndInvariant, PTL

(* The write end closes with everything written, where no write() was cut  *)
(* short: shutdownInLoop's test never holds it back, and need not.         *)
THEOREM ClosesAfterOutput == ASSUME AsCoded PROVE Safe => []ClosedAfterOutput
<1>1. EndInv => ClosedAfterOutput
  BY DEF EndInv, NothingKept, ClosedAfterOutput
<1> QED
  BY <1>1, EndInvariant, PTL
=============================================================================
