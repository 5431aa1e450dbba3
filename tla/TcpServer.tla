----------------------------- MODULE TcpServer -----------------------------
(***************************************************************************)
(* net/TcpServer.cc with the connection lifecycle of net/TcpConnection.cc, *)
(* the acceptor and the pool: who owns a connection, on which loop each of *)
(* its handlers runs, and when it may be freed.  The base loop accepts,    *)
(* the io loops serve, and they talk by functors in each other's queues.   *)
(* A functor made from a shared_ptr keeps its connection alive until the   *)
(* batch it ran in is dropped; one made from "this" does not.              *)
(*                                                                         *)
(* A loop here is its queue, its batch and its list of active channels,    *)
(* with the wakeups that EventLoop shows never to be missed left out.  The *)
(* server has been started.  Every connection of Conns comes once: that    *)
(* and MaxQueued are the bounds.                                           *)
(***************************************************************************)
EXTENDS Naturals, Sequences, FiniteSets

CONSTANTS
  Base,         \* baseLoop_
  IoSeq,        \* loops_ of the pool, in order; empty without io threads
  Conns,
  Acceptor,     \* acceptChannel_
  UserOps,      \* what message and connection callbacks may do: {"shutdown"}
  Users,        \* the threads without a loop
  ForeignOps,   \* what they do: {"shutdown", "send"}
  Stops,        \* whether the base loop is ever told to quit
  MaxQueued     \* bound: a foreign call begins with fewer functors queued

IoLoops == {IoSeq[i] : i \in 1..Len(IoSeq)}
Loops == IoLoops \cup {Base}

ASSUME LoopAssumption == /\ IoSeq \in Seq(IoLoops)
                         /\ Base \notin IoLoops
                         /\ Cardinality(IoLoops) = Len(IoSeq)
ASSUME AcceptorAssumption == Acceptor \notin Conns
ASSUME OpAssumption == /\ UserOps \subseteq {"shutdown"}
                       /\ ForeignOps \subseteq {"shutdown", "send"}
                       /\ Stops \in BOOLEAN
                       /\ MaxQueued \in Nat

VARIABLES
  state,        \* state_ of each connection, "none" before it is accepted
  chan,         \* its channel in the poller: index_ and events_
  ioLoop,       \* loop_ of the connection
  connections,  \* connections_
  next,         \* next_ of the pool, from 1
  phase,        \* where each loop's thread is
  quit,         \* quit_ of each loop
  active,       \* activateChannels_ of each loop, those not dispatched yet
  pending,      \* pendingFunctors_ of each loop
  batch, ranTo, \* the batch of each loop and how many of it have run
  userRefs,     \* connections the foreign threads hold a shared_ptr to
  userCall,     \* the call each has begun: the check of state_ is done
  server,       \* the stage of ~TcpServer
  ups, downs,   \* history: calls of connectionCallback_ by kind
  resumed       \* history: connections whose sendInLoop went on after they
                \* were closed, because state_ no longer said so

history == <<ups, downs, resumed>>
connVars == <<state, chan, history>>
serverVars == <<ioLoop, connections, next, server>>
loopVars == <<phase, quit, active, batch, ranTo>>
userVars == <<userRefs, userCall>>
vars == <<connVars, serverVars, loopVars, pending, userVars>>

ConnState == {"none", "kConnecting", "kConnected", "kDisconnecting", "kDisconnected"}

(* kNew, kAdded for reading, kAdded for nothing, kDeleted.                 *)
ChanState == {"new", "reading", "idle", "deleted"}
Registered == {"reading", "idle"}

(* The functors bound to a shared_ptr and those bound to a bare this.      *)
Owning == {"established", "remove", "destroyed"}
Bare == {"shutdown", "send"}
Functor == [op : Owning \cup Bare, conn : Conns]

Call == [op : Bare, conn : Conns]
Idle == [op |-> "idle"]
AllIdle == \A u \in Users : userCall[u] = Idle

Init == /\ state = [c \in Conns |-> "none"]
        /\ chan = [c \in Conns |-> "new"]
        /\ ioLoop = [c \in Conns |-> Base]
        /\ connections = {}
        /\ next = 1
        /\ phase = [l \in Loops |-> "poll"]
        /\ quit = [l \in Loops |-> FALSE]
        /\ active = [l \in Loops |-> {}]
        /\ pending = [l \in Loops |-> <<>>]
        /\ batch = [l \in Loops |-> <<>>]
        /\ ranTo = [l \in Loops |-> 0]
        /\ userRefs = {}
        /\ userCall = [u \in Users |-> Idle]
        /\ server = "up"
        /\ ups = [c \in Conns |-> 0]
        /\ downs = [c \in Conns |-> 0]
        /\ resumed = {}

----------------------------------------------------------------------------
(* Reference counting.                                                     *)

Holds(queue, c) == \E i \in 1..Len(queue) : queue[i].conn = c /\ queue[i].op \in Owning

Alive(c) == \/ c \in connections
            \/ \E l \in Loops : Holds(pending[l], c) \/ Holds(batch[l], c)
            \/ c \in userRefs

Push(l, op, c) == pending' = [pending EXCEPT ![l] = Append(@, [op |-> op, conn |-> c])]

----------------------------------------------------------------------------
(* The channel of a connection, as Channel and EPollPoller update it.      *)

EnableReading(c) == chan' = [chan EXCEPT ![c] = "reading"]
DisableAll(c) ==
  chan' = [chan EXCEPT ![c] = IF chan[c] \in Registered THEN "deleted" ELSE "idle"]
Remove(c) == chan' = [chan EXCEPT ![c] = "new"]

----------------------------------------------------------------------------
(* The handlers of a connection.                                           *)

SetState(c, s) == state' = [state EXCEPT ![c] = s]

(* The user's callback is given conn in a state s.  It may keep a          *)
(* reference for another thread and, if connected, call shutdown().        *)
UserCallback(c, s) ==
  /\ \/ SetState(c, s)
     \/ "shutdown" \in UserOps /\ s = "kConnected" /\ SetState(c, "kDisconnecting")
  /\ \/ UNCHANGED userRefs
     \/ ForeignOps # {} /\ userRefs' = userRefs \cup {c}

ConnectEstablished(c) ==
  /\ EnableReading(c)
  /\ ups' = [ups EXCEPT ![c] = @ + 1]
  /\ UserCallback(c, "kConnected")
  /\ UNCHANGED <<downs, resumed>>

(* The user is told that the connection is closed.                         *)
ReportClosed(c) == /\ UserCallback(c, "kDisconnected")
                   /\ downs' = [downs EXCEPT ![c] = @ + 1]

(* Mutants: the channel stays with the poller; the user is told whatever   *)
(* the state.                                                              *)
ConnectDestroyedRegistered(c) ==
  /\ IF state[c] = "kConnected" THEN ReportClosed(c) ELSE UNCHANGED <<state, downs, userRefs>>
  /\ UNCHANGED <<chan, ups, resumed>>
ConnectDestroyedUntested(c) ==
  /\ Remove(c)
  /\ ReportClosed(c)
  /\ UNCHANGED <<ups, resumed>>

ConnectDestroyed(c) ==
  /\ Remove(c)
  /\ IF state[c] = "kConnected" THEN ReportClosed(c) ELSE UNCHANGED <<state, downs, userRefs>>
  /\ UNCHANGED <<ups, resumed>>

(* Mutant: the map keeps the connection.                                   *)
RemoveConnectionKept(c) ==
  /\ Push(ioLoop[c], "destroyed", c)
  /\ UNCHANGED serverVars

(* removeConnectionInLoop, on the base loop.                               *)
RemoveConnectionInLoop(c) ==
  /\ connections' = connections \ {c}
  /\ Push(ioLoop[c], "destroyed", c)
  /\ UNCHANGED <<ioLoop, next, server>>

(* removeConnection on loop l: runInLoop of the base loop.                 *)
RemoveConnection(l, c) ==
  IF l = Base THEN RemoveConnectionInLoop(c)
  ELSE Push(Base, "remove", c) /\ UNCHANGED serverVars

(* Mutant: the user's callback is forgotten.                               *)
HandleCloseSilent(l, c) ==
  /\ SetState(c, "kDisconnected")
  /\ DisableAll(c)
  /\ RemoveConnection(l, c)
  /\ UNCHANGED <<history, userVars>>

HandleClose(l, c) ==
  /\ DisableAll(c)
  /\ ReportClosed(c)
  /\ RemoveConnection(l, c)
  /\ UNCHANGED <<ups, resumed, userCall>>

(* handleRead of n > 0 bytes.                                              *)
HandleMessage(c) ==
  /\ UserCallback(c, state[c])
  /\ UNCHANGED <<chan, history, serverVars, pending, userCall>>

(* handleEvent for the channel of c: a hangup and an end of file close,    *)
(* an error is logged, input is handed to the user.  The tie skips a       *)
(* connection that is gone; were its channel gone with it, nothing would   *)
(* be defined, and ActiveIsLive says when that cannot be.                  *)
HandleEvent(l, c) ==
  /\ phase[l] = "events"
  /\ c \in active[l]
  /\ active' = [active EXCEPT ![l] = @ \ {c}]
  /\ \/ Alive(c) /\ HandleClose(l, c)
     \/ Alive(c) /\ chan[c] = "reading" /\ HandleMessage(c)
     \/ UNCHANGED <<connVars, serverVars, pending, userVars>>
  /\ UNCHANGED <<phase, quit, batch, ranTo>>

----------------------------------------------------------------------------
(* The acceptor and newConnection, on the base loop.                       *)

NextLoop == IF IoSeq = <<>> THEN Base ELSE IoSeq[next]
(* Mutants: the index runs one past the end; the index stays.              *)
AdvancePastEnd == next' = IF next > Len(IoSeq) THEN 1 ELSE next + 1
AdvanceNever == UNCHANGED next

Advance == next' = IF next >= Len(IoSeq) THEN 1 ELSE next + 1

NewConnection(c) ==
  /\ state[c] = "none"
  /\ ioLoop' = [ioLoop EXCEPT ![c] = NextLoop]
  /\ Advance
  /\ connections' = connections \cup {c}
  /\ IF NextLoop = Base
     THEN ConnectEstablished(c) /\ UNCHANGED <<pending, userCall>>
     ELSE /\ SetState(c, "kConnecting")
          /\ Push(NextLoop, "established", c)
          /\ UNCHANGED <<chan, history, userVars>>
  /\ UNCHANGED server

(* accept() may also fail.                                                 *)
Accept ==
  /\ phase[Base] = "events"
  /\ Acceptor \in active[Base]
  /\ active' = [active EXCEPT ![Base] = @ \ {Acceptor}]
  /\ \/ \E c \in Conns : NewConnection(c)
     \/ UNCHANGED <<connVars, serverVars, pending, userVars>>
  /\ UNCHANGED <<phase, quit, batch, ranTo>>

----------------------------------------------------------------------------
(* The loops.                                                              *)

Poll(l) ==
  /\ phase[l] = "poll"
  /\ \E ready \in SUBSET {c \in Conns : ioLoop[c] = l /\ chan[c] \in Registered} :
       active' = [active EXCEPT ![l] = ready \cup IF l = Base THEN {Acceptor} ELSE {}]
  /\ phase' = [phase EXCEPT ![l] = "events"]
  /\ UNCHANGED <<connVars, serverVars, quit, batch, ranTo, pending, userVars>>

SwapPending(l) ==
  /\ phase[l] = "events"
  /\ active[l] = {}
  /\ batch' = [batch EXCEPT ![l] = pending[l]]
  /\ pending' = [pending EXCEPT ![l] = <<>>]
  /\ ranTo' = [ranTo EXCEPT ![l] = 0]
  /\ phase' = [phase EXCEPT ![l] = "run"]
  /\ UNCHANGED <<connVars, serverVars, quit, active, userVars>>

(* Bytes that write() did not take - it was cut short, failed other than   *)
(* by EPIPE or ECONNRESET, or older bytes wait before them - are kept and  *)
(* the channel is updated; past the close only if a late shutdown() has    *)
(* overwritten kDisconnected.                                              *)
KeepOutput(c) == downs[c] = 0 /\ EnableReading(c) /\ UNCHANGED resumed
ResumeOutput(c) == downs[c] > 0 /\ EnableReading(c) /\ resumed' = resumed \cup {c}

(* Mutant: a disconnected connection is not turned away.                   *)
SendInLoopUntested(c) ==
  /\ \/ state[c] # "kDisconnected" /\ (KeepOutput(c) \/ ResumeOutput(c))
     \/ state[c] = "kDisconnected" /\ EnableReading(c) /\ UNCHANGED resumed
     \/ UNCHANGED <<chan, resumed>>
  /\ UNCHANGED <<state, ups, downs, serverVars, pending, userVars>>

SendInLoop(c) ==
  /\ \/ state[c] # "kDisconnected" /\ (KeepOutput(c) \/ ResumeOutput(c))
     \/ UNCHANGED <<chan, resumed>>
  /\ UNCHANGED <<state, ups, downs, serverVars, pending, userVars>>

Run(l, f) ==
  \/ f.op = "established" /\ ConnectEstablished(f.conn)
       /\ UNCHANGED <<serverVars, pending, userCall>>
  \/ f.op = "destroyed" /\ ConnectDestroyed(f.conn)
       /\ UNCHANGED <<serverVars, pending, userCall>>
  \/ f.op = "remove" /\ RemoveConnectionInLoop(f.conn)
       /\ UNCHANGED <<connVars, userVars>>
  \/ f.op = "shutdown" /\ UNCHANGED <<connVars, serverVars, pending, userVars>>
  \/ f.op = "send" /\ SendInLoop(f.conn)

RunFunctor(l) ==
  /\ phase[l] = "run"
  /\ ranTo[l] < Len(batch[l])
  /\ ranTo' = [ranTo EXCEPT ![l] = @ + 1]
  /\ Run(l, batch[l][ranTo[l] + 1])
  /\ UNCHANGED <<phase, quit, active, batch>>

(* Mutant: the rest of the batch is dropped.                               *)
EndPendingEarly(l) ==
  /\ phase[l] = "run"
  /\ batch' = [batch EXCEPT ![l] = <<>>]
  /\ ranTo' = [ranTo EXCEPT ![l] = 0]
  /\ phase' = [phase EXCEPT ![l] = "poll"]
  /\ UNCHANGED <<connVars, serverVars, quit, active, pending, userVars>>

(* The batch is dropped, then quit_ is tested.  The thread of an io loop   *)
(* that leaves loop() destroys the loop, and the functors still queued.    *)
EndPending(l) ==
  /\ phase[l] = "run"
  /\ ranTo[l] = Len(batch[l])
  /\ batch' = [batch EXCEPT ![l] = <<>>]
  /\ ranTo' = [ranTo EXCEPT ![l] = 0]
  /\ phase' = [phase EXCEPT ![l] = IF quit[l] THEN "exited" ELSE "poll"]
  /\ pending' = IF quit[l] /\ l # Base THEN [pending EXCEPT ![l] = <<>>] ELSE pending
  /\ UNCHANGED <<connVars, serverVars, quit, active, userVars>>

----------------------------------------------------------------------------
(* Threads that are no loop's call shutdown() or send() of a connection    *)
(* they hold: the test of state_ is one step, what follows another.  The   *)
(* loop may close the connection in between: shutdown() then puts          *)
(* kDisconnecting over kDisconnected.                                      *)

UserCheck(u, c, op) ==
  /\ server = "up"
  /\ userCall[u] = Idle
  /\ c \in userRefs
  /\ Len(pending[ioLoop[c]]) < MaxQueued
  /\ state[c] = "kConnected"
  /\ userCall' = [userCall EXCEPT ![u] = [op |-> op, conn |-> c]]
  /\ UNCHANGED <<connVars, serverVars, loopVars, pending, userRefs>>

UserAct(u) ==
  /\ userCall[u] # Idle
  /\ userCall' = [userCall EXCEPT ![u] = Idle]
  /\ LET c == userCall[u].conn
     IN /\ Push(ioLoop[c], userCall[u].op, c)
        /\ IF userCall[u].op = "shutdown" THEN SetState(c, "kDisconnecting")
                                          ELSE UNCHANGED state
  /\ UNCHANGED <<chan, history, serverVars, loopVars, userRefs>>

(* The last of them that holds c, none of which is in a call of it.        *)
UserDrop(c) ==
  /\ \A u \in Users : userCall[u] # Idle => userCall[u].conn # c
  /\ c \in userRefs
  /\ userRefs' = userRefs \ {c}
  /\ UNCHANGED <<connVars, serverVars, loopVars, pending, userCall>>

----------------------------------------------------------------------------
(* The end: the base loop is told to quit, main leaves loop(), and then    *)
(* the scope of the server, on the base loop's thread.  Threads that use   *)
(* connections have finished their calls by then.                          *)

QuitBase ==
  /\ Stops
  /\ ~quit[Base]
  /\ quit' = [quit EXCEPT ![Base] = TRUE]
  /\ UNCHANGED <<connVars, serverVars, phase, active, batch, ranTo, pending, userVars>>

(* One pass of the loop in ~TcpServer.                                     *)
DestroyConnection(c) ==
  /\ phase[Base] = "exited"
  /\ AllIdle
  /\ server \in {"up", "destroying"}
  /\ c \in connections
  /\ server' = "destroying"
  /\ connections' = connections \ {c}
  /\ IF ioLoop[c] = Base
     THEN ConnectDestroyed(c) /\ UNCHANGED <<pending, userCall>>
     ELSE Push(ioLoop[c], "destroyed", c) /\ UNCHANGED <<connVars, userVars>>
  /\ UNCHANGED <<ioLoop, next, loopVars>>

(* The pool's threads are destroyed one after the other, each told to quit *)
(* and joined.                                                             *)
Joined(i) == \A j \in 1..i : phase[IoSeq[j]] = "exited"

QuitIoLoop ==
  /\ phase[Base] = "exited"
  /\ AllIdle
  /\ connections = {}
  /\ \E i \in 1..Len(IoSeq) : /\ Joined(i - 1)
                              /\ ~quit[IoSeq[i]]
                              /\ quit' = [quit EXCEPT ![IoSeq[i]] = TRUE]
  /\ server' = "destroying"
  /\ UNCHANGED <<connVars, ioLoop, connections, next, phase, active, batch, ranTo,
                 pending, userVars>>

(* All are joined; then main destroys the base loop, with what is queued.  *)
DestroyBaseLoop ==
  /\ phase[Base] = "exited"
  /\ AllIdle
  /\ connections = {}
  /\ Joined(Len(IoSeq))
  /\ server # "destroyed"
  /\ server' = "destroyed"
  /\ pending' = [pending EXCEPT ![Base] = <<>>]
  /\ UNCHANGED <<connVars, ioLoop, connections, next, loopVars, userVars>>

----------------------------------------------------------------------------
Dispatch(l) == (\E c \in Conns : HandleEvent(l, c)) \/ (l = Base /\ Accept)
LoopStep(l) == Poll(l) \/ Dispatch(l) \/ SwapPending(l) \/ RunFunctor(l) \/ EndPending(l)

UserStep == \/ \E u \in Users : \/ \E c \in Conns, op \in ForeignOps : UserCheck(u, c, op)
                               \/ UserAct(u)
            \/ \E c \in Conns : UserDrop(c)

StopStep == (\E c \in Conns : DestroyConnection(c)) \/ QuitIoLoop \/ DestroyBaseLoop

Next == \/ \E l \in Loops : LoopStep(l)
        \/ UserStep
        \/ QuitBase
        \/ StopStep

Safe == Init /\ [][Next]_vars

(* Every loop's thread is scheduled.  A poll returns at the latest when    *)
(* its timeout is up.                                                      *)
Spec == Safe /\ \A l \in Loops : WF_vars(LoopStep(l))

----------------------------------------------------------------------------
TypeOK ==
  /\ state \in [Conns -> ConnState]
  /\ chan \in [Conns -> ChanState]
  /\ ioLoop \in [Conns -> Loops]
  /\ connections \subseteq Conns
  /\ next \in 1..(IF IoSeq = <<>> THEN 1 ELSE Len(IoSeq))
  /\ phase \in [Loops -> {"poll", "events", "run", "exited"}]
  /\ quit \in [Loops -> BOOLEAN]
  /\ active \in [Loops -> SUBSET (Conns \cup {Acceptor})]
  /\ pending \in [Loops -> Seq(Functor)]
  /\ batch \in [Loops -> Seq(Functor)]
  /\ ranTo \in [Loops -> Nat] /\ \A l \in Loops : ranTo[l] <= Len(batch[l])
  /\ userRefs \subseteq Conns
  /\ userCall \in [Users -> Call \cup {Idle}]
  /\ server \in {"up", "destroying", "destroyed"}
  /\ ups \in [Conns -> Nat]
  /\ downs \in [Conns -> Nat]
  /\ resumed \subseteq Conns

(* Four properties of the lifecycle.  A connection in resumed has had the  *)
(* one accident the code does not prevent (TcpConnection.cc:245 and :168): *)
(* a shutdown() that began before the close and stored kDisconnecting      *)
(* after it, with a send() in the queue, which then registers the channel  *)
(* anew, be it after connectDestroyed.  What still holds of it is said.    *)

(* A poller never holds the bare Channel* of a connection that has been    *)
(* freed (EPollPoller.cc:89): as long as the channel is registered or      *)
(* known to the poller of a loop that runs, someone keeps the connection.  *)
PollerPointsToLive ==
  \A c \in Conns \ resumed : chan[c] # "new" /\ phase[ioLoop[c]] # "exited" => Alive(c)

(* The list of active channels holds bare pointers across the handlers of  *)
(* the channels before (EventLoop.cc:91-94): none of them goes stale.      *)
ActiveIsLive ==
  \A l \in Loops : \A c \in active[l] \ ({Acceptor} \cup resumed) : Alive(c)

(* A connection's user sees it come up at most once, before it goes down,  *)
(* and go down at most once, whatever closes it - peer, shutdown or server *)
(* (handleClose and connectDestroyed both call back); a resumed one is     *)
(* closed again, and has come up and gone down before.                     *)
UpThenDownOnce ==
  \A c \in Conns : /\ ups[c] <= 1
                   /\ downs[c] > 0 => ups[c] = 1
                   /\ IF c \in resumed THEN downs[c] > 0 ELSE downs[c] <= 1

(* The test server's contract, "callback on connection established or      *)
(* closed" (test/testServer.cc:26): a connection that came up and whose    *)
(* channel has left the poller was reported closed.  The server's end      *)
(* takes one that is shutting down away silently (TcpConnection.cc:234).   *)
GoneWasReported ==
  \A c \in Conns : ups[c] = 1 /\ chan[c] = "new"
    => downs[c] > 0 \/ (state[c] = "kDisconnecting" /\ server # "up")

(* No functor bound to a bare this runs on a connection that is gone       *)
(* (TcpConnection.h:28-33 on why this must not be bound).                  *)
BareFunctorsFindLive ==
  \A l \in Loops : phase[l] = "run" /\ ranTo[l] < Len(batch[l]) =>
    LET f == batch[l][ranTo[l] + 1] IN f.op \in Bare => Alive(f.conn)

(* Connections are dealt to the io loops in turn (EventLoopThreadPool      *)
(* getNextLoop): no loop is ever given two more than another.              *)
RoundRobin ==
  LET Given(l) == Cardinality({c \in Conns : state[c] # "none" /\ ioLoop[c] = l})
  IN \A k, l \in IoLoops : Given(k) <= Given(l) + 1

(* A connection whose end was noticed leaves the server's map and is freed *)
(* once no user holds it: the reference cycles server - connection -       *)
(* functor all end, as long as the base loop runs.                         *)
ClosedIsFreed ==
  \A c \in Conns : (downs[c] > 0) ~> (~Alive(c) \/ c \in userRefs \/ quit[Base])

(* A connection accepted is established on its loop, as long as the server *)
(* is not told to stop.                                                    *)
AcceptedIsEstablished ==
  \A c \in Conns : (state[c] = "kConnecting") ~> (ups[c] = 1 \/ quit[Base])
=============================================================================
