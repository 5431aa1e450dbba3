-------------------------- MODULE ConnectionOutput --------------------------
(***************************************************************************)
(* The sending side of one net/TcpConnection: send(), sendInLoop,          *)
(* handleWrite and shutdown on the loop's thread, called there by the      *)
(* user's callbacks and through functors by a foreign thread, against a    *)
(* peer that reads, stalls or resets.  The accepted socket is blocking     *)
(* (Socket.cc:52), so write() is a call that takes time: the kernel copies *)
(* what fits, and the loop's thread waits for the rest.                    *)
(*                                                                         *)
(* The bytes sendInLoop takes are numbered 1, 2, 3, ...  0 is a byte read  *)
(* from a string that is gone.  The user's threads keep the connection     *)
(* alive: TcpServer is about what happens if not.                          *)
(***************************************************************************)
EXTENDS Integers, Sequences

CONSTANTS
  LeftoverEvent,   \* what sendInLoop registers for leftover output: "read",
                   \* by :217; its comment means "write"
  highWaterMark,
  SndBuf,          \* the kernel's send buffer, in bytes
  MaxLen,          \* bound: a send has at most MaxLen bytes
  MaxBytes,        \* bound: bytes taken in all
  MaxQueued        \* bound: a foreign call, or a send of nothing, begins
                   \* with fewer functors queued

ASSUME EventAssumption == LeftoverEvent \in {"read", "write"}
ASSUME SizeAssumption == highWaterMark \in Nat \ {0} /\ SndBuf \in Nat \ {0}
ASSUME BoundAssumption == MaxLen \in Nat /\ MaxBytes \in Nat /\ MaxQueued \in Nat

VARIABLES
  state,        \* state_
  events,       \* events_ of the channel
  out,          \* outputBuffer_
  writing,      \* the write() the loop's thread is in
  pending,      \* functors queued at the loop
  writeOpen,    \* no shutdown(SHUT_WR) yet
  callbacks,    \* which of the optional callbacks are set
  userCall,     \* foreign thread: the call whose test of state_ is done
  wire, got,    \* bytes the kernel took; how many of them the peer read
  peer,         \* "reading", "stalled", "reset", "broken": the error was reported
  ended,        \* the process was ended by SIGPIPE or an exception
  taken,        \* history: bytes sendInLoop took
  short,        \*   whether a write() was interrupted,
  dangled       \*   whether a caller's string went before it was read

connVars == <<state, events, out, writeOpen>>
peerVars == <<got, peer>>
history == <<taken, short, dangled>>
vars == <<connVars, writing, pending, callbacks, userCall, wire, peerVars, ended, history>>

NoWrite == [call |-> "none", rest |-> <<>>, done |-> 0, foreign |-> FALSE]
NoCall == [op |-> "none", len |-> 0]
Up == peer \in {"reading", "stalled"}

Init == /\ state = "kConnected"
        /\ events = {"read"}
        /\ out = <<>>
        /\ writing = NoWrite
        /\ pending = <<>>
        /\ writeOpen = TRUE
        /\ callbacks \in SUBSET {"writeComplete", "highWaterMark"}
        /\ userCall = NoCall
        /\ wire = <<>>
        /\ got = 0
        /\ peer = "reading"
        /\ ended = FALSE
        /\ taken = 0
        /\ short = FALSE
        /\ dangled = FALSE

LoopFree == writing = NoWrite /\ ~ended
IsWriting == "write" \in events
Functor(op, len) == [op |-> op, len |-> len, good |-> TRUE,
                    upTo |-> IF op = "writeComplete" THEN taken ELSE 0]

----------------------------------------------------------------------------
(* sendInLoop, on the loop's thread.  queue is pendingFunctors_ without    *)
(* the functor that runs.                                                  *)

(* Mutant: the callback comes again with every send.                       *)
KeepCrying(rest, queue) ==
  /\ out' = out \o rest
  /\ events' = IF IsWriting THEN events ELSE events \cup {LeftoverEvent}
  /\ pending' = IF Len(out) + Len(rest) >= highWaterMark
                THEN Append(queue, Functor("highWaterMark", 0)) ELSE queue

(* What write() did not take is kept, and the channel updated.             *)
Keep(rest, queue) ==
  /\ out' = out \o rest
  /\ events' = IF IsWriting \/ rest = <<>> THEN events ELSE events \cup {LeftoverEvent}
  /\ pending' = IF Len(out) + Len(rest) >= highWaterMark /\ Len(out) < highWaterMark
                THEN Append(queue, Functor("highWaterMark", 0)) ELSE queue

Numbered(len, good) == [i \in 1..len |-> IF good THEN taken + i ELSE 0]

BeginWrite(call, rest, foreign) ==
  writing' = [call |-> call, rest |-> rest, done |-> 0, foreign |-> foreign]

(* Mutants: output that waits is overtaken; nothing is written at once.    *)
SendInLoopOvertaking(len, good, foreign, queue) ==
  IF state = "kDisconnected"
  THEN pending' = queue /\ UNCHANGED <<out, events, writing, taken>>
  ELSE /\ taken' = taken + len
       /\ IF ~IsWriting
          THEN BeginWrite("send", Numbered(len, good), foreign)
               /\ pending' = queue /\ UNCHANGED <<out, events>>
          ELSE Keep(Numbered(len, good), queue) /\ UNCHANGED writing
SendInLoopLater(len, good, foreign, queue) ==
  /\ taken' = taken + len
  /\ Keep(Numbered(len, good), queue)
  /\ UNCHANGED writing

SendInLoop(len, good, foreign, queue) ==
  IF state = "kDisconnected"
  THEN pending' = queue /\ UNCHANGED <<out, events, writing, taken>>
  ELSE /\ taken' = taken + len
       /\ IF ~IsWriting /\ out = <<>>
          THEN BeginWrite("send", Numbered(len, good), foreign)
               /\ pending' = queue /\ UNCHANGED <<out, events>>
          ELSE Keep(Numbered(len, good), queue) /\ UNCHANGED writing

Completed(queue) == IF "writeComplete" \in callbacks
                    THEN Append(queue, Functor("writeComplete", 0)) ELSE queue

(* Mutant: the user is told before it is known that all was written.       *)
AfterSendTelling(rest, fault) ==
  /\ IF rest = <<>> \/ fault THEN pending' = Completed(pending) /\ UNCHANGED <<out, events>>
     ELSE Keep(rest, Completed(pending))
  /\ UNCHANGED writeOpen

(* The rest of sendInLoop after write(): all bytes gone, some left, or an  *)
(* error that says the connection is gone (faultError).                    *)
AfterSend(rest, fault) ==
  /\ IF fault THEN UNCHANGED <<out, events, pending>>
     ELSE IF rest = <<>> THEN pending' = Completed(pending) /\ UNCHANGED <<out, events>>
     ELSE Keep(rest, pending)
  /\ UNCHANGED writeOpen

ShutdownWrite == writeOpen' = FALSE
ShutdownInLoop == IF IsWriting THEN UNCHANGED writeOpen ELSE ShutdownWrite

(* The rest of handleWrite after write() took n bytes of the output.       *)
AfterFlush(n) ==
  IF n < Len(out) THEN /\ out' = SubSeq(out, n + 1, Len(out))
                       /\ UNCHANGED <<events, pending, writeOpen>>
  ELSE /\ out' = <<>>
       /\ events' = events \ {"write"}
       /\ pending' = Completed(pending)
       /\ IF state = "kDisconnecting" THEN ShutdownWrite ELSE UNCHANGED writeOpen

----------------------------------------------------------------------------
(* The write() call.                                                       *)

Return(rest, fault) ==
  /\ writing' = NoWrite
  /\ IF writing.call = "send" THEN AfterSend(rest, fault) ELSE AfterFlush(writing.done)
  /\ UNCHANGED <<state, callbacks, userCall, wire, got, taken, dangled>>

Broken == ~Up \/ ~writeOpen
Fits == LET space == SndBuf - (Len(wire) - got)
        IN IF space < Len(writing.rest) THEN space ELSE Len(writing.rest)

KernelCopies ==
  /\ writing # NoWrite /\ ~ended /\ ~Broken
  /\ Fits > 0
  /\ wire' = wire \o SubSeq(writing.rest, 1, Fits)
  /\ writing' = [writing EXCEPT !.rest = SubSeq(@, Fits + 1, Len(@)), !.done = @ + Fits]
  /\ UNCHANGED <<connVars, pending, callbacks, userCall, peerVars, ended, history>>

WriteReturns ==
  /\ writing # NoWrite /\ ~ended
  /\ writing.rest = <<>>
  /\ writing.done = 0 => ~Broken
  /\ Return(<<>>, FALSE)
  /\ UNCHANGED <<peer, ended, short>>

(* A signal ends the call early, with what was copied or with EINTR.       *)
WriteInterrupted ==
  /\ writing # NoWrite /\ ~ended
  /\ writing.rest # <<>>
  /\ short' = TRUE
  /\ Return(writing.rest, FALSE)
  /\ UNCHANGED <<peer, ended>>

(* The connection fails first: a short count if bytes were copied, else    *)
(* ECONNRESET once.  From then on, and after SHUT_WR, there is SIGPIPE,    *)
(* which nothing ignores.  So it is for a write of no bytes.               *)
WriteFails ==
  /\ writing # NoWrite /\ ~ended
  /\ writing.rest # <<>> \/ writing.done = 0
  /\ Broken
  /\ IF writing.done > 0 \/ peer = "reset"
     THEN /\ Return(writing.rest, writing.done = 0)
          /\ peer' = IF writing.done = 0 THEN "broken" ELSE peer
          /\ UNCHANGED <<ended, short>>
     ELSE /\ ended' = TRUE
          /\ UNCHANGED <<connVars, writing, pending, callbacks, userCall, wire,
                         peerVars, history>>

----------------------------------------------------------------------------
(* The loop's thread: the user's callbacks, events, functors.              *)

CallbackSends(len) ==
  /\ LoopFree
  /\ taken + len <= MaxBytes
  /\ len = 0 => Len(pending) < MaxQueued
  /\ state = "kConnected"
  /\ SendInLoop(len, TRUE, FALSE, pending)
  /\ UNCHANGED <<state, writeOpen, callbacks, userCall, wire, peerVars, ended,
                 short, dangled>>

CallbackShutsDown ==
  /\ LoopFree
  /\ state = "kConnected"
  /\ state' = "kDisconnecting"
  /\ ShutdownInLoop
  /\ UNCHANGED <<events, out, writing, pending, callbacks, userCall, wire, peerVars,
                 ended, history>>

(* Mutant: the connection is left in the state it was constructed in.      *)
HandleCloseConnecting == state' = "kConnecting" /\ events' = {} /\ UNCHANGED writing

(* handleClose, as far as output is concerned.                             *)
HandleClose == /\ state' = "kDisconnected"
               /\ events' = {}
               /\ UNCHANGED writing

HandleWrite == IF IsWriting
               THEN BeginWrite("flush", out, FALSE) /\ UNCHANGED <<state, events>>
               ELSE UNCHANGED <<state, events, writing>>

(* A channel that is registered is told of a hangup, and of EPOLLOUT if it *)
(* asked.                                                                  *)
HandleEvent ==
  /\ LoopFree
  /\ \E revent \in (events \ {"read"}) \cup {"hangup"} :
       /\ events # {}
       /\ IF revent = "write" THEN HandleWrite ELSE HandleClose
  /\ UNCHANGED <<out, writeOpen, pending, callbacks, userCall, wire, peerVars, ended,
                 history>>

(* Running a callback that is not set throws, and nothing catches it.      *)
RunFunctor ==
  /\ LoopFree
  /\ pending # <<>>
  /\ LET f == Head(pending) IN
     IF f.op = "send" THEN /\ SendInLoop(f.len, f.good, TRUE, Tail(pending))
                           /\ UNCHANGED <<writeOpen, ended>>
     ELSE /\ pending' = Tail(pending)
          /\ IF f.op = "shutdown" THEN ShutdownInLoop ELSE UNCHANGED writeOpen
          /\ ended' = (f.op = "highWaterMark" /\ f.op \notin callbacks)
          /\ UNCHANGED <<out, events, writing, taken>>
  /\ UNCHANGED <<state, callbacks, userCall, wire, peerVars, short, dangled>>

----------------------------------------------------------------------------
(* A foreign thread: send() and shutdown() test state_ and then push.      *)

UserCheck ==
  /\ userCall = NoCall /\ ~ended
  /\ Len(pending) < MaxQueued
  /\ state = "kConnected"
  /\ userCall' \in {[op |-> "send", len |-> n] : n \in {m \in 0..MaxLen : taken + m <= MaxBytes}}
                     \cup {[op |-> "shutdown", len |-> 0]}
  /\ UNCHANGED <<connVars, writing, pending, callbacks, wire, peerVars, ended, history>>

UserAct ==
  /\ userCall # NoCall /\ ~ended
  /\ pending' = Append(pending, Functor(userCall.op, userCall.len))
  /\ state' = IF userCall.op = "shutdown" THEN "kDisconnecting" ELSE state
  /\ userCall' = NoCall
  /\ UNCHANGED <<events, out, writing, writeOpen, callbacks, wire, peerVars, ended, history>>

(* send() has returned and the caller's string goes: the functor, or the   *)
(* write() it led to, has its address only.                                *)
StringGoes ==
  /\ ~ended
  /\ dangled' = TRUE
  /\ \/ /\ \E i \in 1..Len(pending) : /\ pending[i].op = "send"
                                      /\ pending' = [pending EXCEPT ![i].good = FALSE]
        /\ UNCHANGED writing
     \/ /\ writing.foreign
        /\ writing' = [writing EXCEPT !.rest = [i \in 1..Len(@) |-> 0]]
        /\ UNCHANGED pending
  /\ UNCHANGED <<connVars, callbacks, userCall, wire, peerVars, ended, taken, short>>

----------------------------------------------------------------------------
(* The peer.                                                               *)

PeerReads == /\ peer = "reading" /\ got < Len(wire)
             /\ got' = Len(wire)
             /\ UNCHANGED <<connVars, writing, pending, callbacks, userCall, wire, peer,
                            ended, history>>

PeerFails == /\ \/ peer = "reading" /\ peer' = "stalled"
                \/ Up /\ peer' = "reset"
             /\ UNCHANGED <<connVars, writing, pending, callbacks, userCall, wire, got,
                            ended, history>>

----------------------------------------------------------------------------
LoopStep == KernelCopies \/ WriteReturns \/ WriteFails \/ RunFunctor

Next == \/ LoopStep
        \/ WriteInterrupted
        \/ \E len \in 0..MaxLen : CallbackSends(len)
        \/ CallbackShutsDown
        \/ HandleEvent
        \/ UserCheck
        \/ UserAct
        \/ StringGoes
        \/ PeerReads
        \/ PeerFails

Safe == Init /\ [][Next]_vars

(* The loop's thread runs, and a peer that reads goes on until it stalls.  *)
Spec == Safe /\ WF_vars(LoopStep) /\ WF_vars(PeerReads)

----------------------------------------------------------------------------
Byte == Nat
Op == {"send", "shutdown", "writeComplete", "highWaterMark"}
TypeOK ==
  /\ state \in {"kConnected", "kDisconnecting", "kDisconnected"}
  /\ events \subseteq {"read", "write"}
  /\ out \in Seq(Byte)
  /\ writing \in [call : {"none", "send", "flush"}, rest : Seq(Byte), done : Nat, foreign : BOOLEAN]
  /\ pending \in Seq([op : Op, len : Nat, good : BOOLEAN, upTo : Nat])
  /\ writeOpen \in BOOLEAN
  /\ callbacks \subseteq {"writeComplete", "highWaterMark"}
  /\ userCall \in [op : {"send", "shutdown"}, len : Nat] \cup {NoCall}
  /\ wire \in Seq(Byte)
  /\ got \in 0..Len(wire)
  /\ peer \in {"reading", "stalled", "reset", "broken"}
  /\ <<ended, short, dangled>> \in BOOLEAN \X BOOLEAN \X BOOLEAN
  /\ taken \in Nat

(* The bytes given to the kernel, then those in a write(), then those that *)
(* wait, are the bytes taken, in order, none twice and none missing: what  *)
(* sendInLoop writes at once never overtakes what waits (:175), and what a *)
(* write() leaves is what is kept (:214).  Once a reset was reported, that  *)
(* is claimed only of what the kernel has.                                 *)
Stream == IF writing.call = "flush"
          THEN wire \o SubSeq(out, writing.done + 1, Len(out))
          ELSE wire \o writing.rest \o out
StreamIntact ==
  ~dangled => /\ \A i \in 1..Len(wire) : wire[i] = i
              /\ peer # "broken" => /\ Len(Stream) = taken
                                    /\ \A i \in 1..taken : Stream[i] = i

(* The user is told "write complete" only when all that was taken by then  *)
(* has been given to the kernel (:181, :87).                               *)
CompleteMeansWritten ==
  \A i \in 1..Len(pending) :
    pending[i].op = "writeComplete" => pending[i].upTo <= Len(wire) \/ peer = "broken"

(* The high-water callback comes when the output reaches the mark, and not *)
(* again with every send that follows (:210).                              *)
HighWaterOnce ==
  \A i, j \in 1..Len(pending) :
    pending[i].op = "highWaterMark" /\ pending[j].op = "highWaterMark"
      => i = j /\ Len(out) >= highWaterMark

(* Where no write() was cut short, the write end closes with everything    *)
(* written: the echo server's send() and then shutdown() in one callback   *)
(* (test/testServer.cc:45-46) loses nothing.                               *)
ClosedAfterOutput == ~writeOpen /\ ~short /\ Up => out = <<>>

(* What shutdownInLoop says of its test, "all data in outputBuffer has     *)
(* been sent" (:254): the write end of a connection that is not closed     *)
(* otherwise does not close before the output that waits.                  *)
WriteEndClosesLast == ~writeOpen /\ events # {} => out = <<>>

(* A byte that sendInLoop took reaches the peer, unless the peer stops     *)
(* reading, the connection or the process ends or a write() was cut short  *)
(* - after which nothing that waits is ever written.                       *)
AcceptedIsDelivered ==
  \A n \in 1..MaxBytes : (taken >= n) ~> (got >= n \/ peer # "reading" \/ ended \/ short)
=============================================================================
