----------------------------- MODULE EventLoop -----------------------------
(***************************************************************************)
(* net/EventLoop.{h,cc}: the reactor.  One thread constructs the loop and  *)
(* runs loop(); any thread may call runInLoop, queueInLoop and quit.  What *)
(* interleaves: the push into pendingFunctors_ (under mutex_) or the store *)
(* to quit_, and the write to the eventfd that follows each of them, are   *)
(* separate steps of the calling thread; the loop's thread tests quit_,    *)
(* polls, dispatches, swaps the queue and runs the batch in separate       *)
(* steps.  User callbacks run on the loop's thread and may call back in.   *)
(*                                                                         *)
(* looping_ is never read in the code and pollReturnTime_ is a payload, so *)
(* neither is kept.  Every functor is handed over once and every thread    *)
(* calls quit at most once: these are the bounds of the model.             *)
(***************************************************************************)
EXTENDS Naturals, Sequences

CONSTANTS
  LoopThread,     \* the thread threadId_ names
  Callers,        \* the other threads
  Functors,
  EarlyFunctors,  \* those LoopThread itself queues before it calls loop()
  IoChannels,     \* the channels of sockets and listeners in this loop
  WakeupChannel   \* wakeupChannel_

Threads == Callers \cup {LoopThread}

ASSUME ThreadAssumption == LoopThread \notin Callers
ASSUME FunctorAssumption == EarlyFunctors \subseteq Functors
ASSUME ChannelAssumption == WakeupChannel \notin IoChannels

VARIABLES
  quit,                    \* quit_
  pendingFunctors,         \* pendingFunctors_
  callingPendingFunctors,  \* callingPendingFunctors_
  wakeupFd,                \* the counter of the eventfd wakeupFd_
  activeChannels,          \* activateChannels_, those not dispatched yet
  functors,                \* the batch doPendingFunctors swapped out
  loopAt,                  \* where LoopThread is
  wakeDue,                 \* threads between a push or quit_ = true and the
                           \* wakeup() that follows it
  ran, given, quitters     \* history: functors run and handed over, and the
                           \* threads that called quit

queueVars == <<pendingFunctors, callingPendingFunctors, functors>>
history == <<ran, given, quitters>>
vars == <<quit, queueVars, wakeupFd, activeChannels, loopAt, wakeDue, history>>

LoopPoints == {"created", "check", "poll", "events", "handler", "run", "functor", "stopped"}

(* Where LoopThread executes code of the user: before loop(), in a channel *)
(* callback, in a functor.                                                 *)
UserCode == {"created", "handler", "functor"}

Init == /\ quit = FALSE
        /\ pendingFunctors = <<>>
        /\ callingPendingFunctors = FALSE
        /\ wakeupFd = 0
        /\ activeChannels = {}
        /\ functors = <<>>
        /\ loopAt = "created"
        /\ wakeDue = {}
        /\ ran = <<>>
        /\ given = {}
        /\ quitters = {}

----------------------------------------------------------------------------
(* The calls of the threads.                                               *)

CanCall(t) == /\ t \notin wakeDue
              /\ t = LoopThread => loopAt \in UserCode

Give(f) == /\ f \in Functors \ given
           /\ given' = given \cup {f}

(* Mutant: LoopThread never wakes itself.                                  *)
NeedsWakeupForeignOnly(t) == t # LoopThread

(* queueInLoop's test of who has to be woken.                              *)
NeedsWakeup(t) == t # LoopThread \/ callingPendingFunctors

QueueInLoop(t, f) ==
  /\ CanCall(t)
  /\ Give(f)
  /\ f \in EarlyFunctors <=> (t = LoopThread /\ loopAt = "created")
  /\ pendingFunctors' = Append(pendingFunctors, f)
  /\ wakeDue' = IF NeedsWakeup(t) THEN wakeDue \cup {t} ELSE wakeDue
  /\ UNCHANGED <<quit, callingPendingFunctors, functors, wakeupFd, activeChannels,
                 loopAt, ran, quitters>>

RunInLoop(t, f) ==
  \/ /\ t # LoopThread
     /\ QueueInLoop(t, f)
  \/ /\ t = LoopThread
     /\ CanCall(t)
     /\ f \notin EarlyFunctors
     /\ Give(f)
     /\ ran' = Append(ran, f)
     /\ UNCHANGED <<quit, queueVars, wakeupFd, activeChannels, loopAt, wakeDue, quitters>>

Quit(t) ==
  /\ CanCall(t)
  /\ t \notin quitters
  /\ quitters' = quitters \cup {t}
  /\ quit' = TRUE
  /\ wakeDue' = IF t # LoopThread THEN wakeDue \cup {t} ELSE wakeDue
  /\ UNCHANGED <<queueVars, wakeupFd, activeChannels, loopAt, ran, given>>

(* Mutant: nothing is written to the eventfd.                              *)
WakeupUnwritten(t) ==
  /\ t \in wakeDue
  /\ wakeDue' = wakeDue \ {t}
  /\ UNCHANGED <<quit, queueVars, wakeupFd, activeChannels, loopAt, history>>

Wakeup(t) ==
  /\ t \in wakeDue
  /\ wakeDue' = wakeDue \ {t}
  /\ wakeupFd' = wakeupFd + 1
  /\ UNCHANGED <<quit, queueVars, activeChannels, loopAt, history>>

----------------------------------------------------------------------------
(* loop(), step by step.                                                   *)

LoopCode == LoopThread \notin wakeDue

Loop == /\ loopAt = "created"
        /\ LoopCode
        /\ quit' = FALSE
        /\ loopAt' = "check"
        /\ UNCHANGED <<queueVars, wakeupFd, activeChannels, wakeDue, history>>

CheckQuit == /\ loopAt = "check"
             /\ loopAt' = IF quit THEN "stopped" ELSE "poll"
             /\ UNCHANGED <<quit, queueVars, wakeupFd, activeChannels, wakeDue, history>>

(* epoll_wait returns: the eventfd is ready as long as its counter is not  *)
(* 0, any of the other descriptors may be; with none it was the timeout.   *)
(* If the list of events is full of others the eventfd is not in it.       *)
Poll(ready) ==
  /\ loopAt = "poll"
  /\ activeChannels' = ready
  /\ loopAt' = "events"
  /\ UNCHANGED <<quit, queueVars, wakeupFd, wakeDue, history>>

PollWoken == /\ wakeupFd > 0
             /\ \E io \in SUBSET IoChannels : Poll(io \cup {WakeupChannel})

PollIo == \E io \in SUBSET IoChannels \ {{}} : Poll(io)

PollTimesOut == /\ wakeupFd = 0
                /\ Poll({})

(* A read of the eventfd returns its counter and sets it to 0.             *)
HandleRead == /\ loopAt = "events"
              /\ WakeupChannel \in activeChannels
              /\ activeChannels' = activeChannels \ {WakeupChannel}
              /\ wakeupFd' = 0
              /\ UNCHANGED <<quit, queueVars, loopAt, wakeDue, history>>

BeginHandler == /\ loopAt = "events"
                /\ \E c \in activeChannels \ {WakeupChannel} :
                     activeChannels' = activeChannels \ {c}
                /\ loopAt' = "handler"
                /\ UNCHANGED <<quit, queueVars, wakeupFd, wakeDue, history>>

EndHandler == /\ loopAt = "handler"
              /\ LoopCode
              /\ loopAt' = "events"
              /\ UNCHANGED <<quit, queueVars, wakeupFd, activeChannels, wakeDue, history>>

(* Mutant: the queue is copied and not emptied.                            *)
CopyPending ==
  /\ loopAt = "events"
  /\ activeChannels = {}
  /\ callingPendingFunctors' = TRUE
  /\ functors' = pendingFunctors
  /\ loopAt' = "run"
  /\ UNCHANGED <<quit, pendingFunctors, wakeupFd, activeChannels, wakeDue, history>>

SwapPending == /\ loopAt = "events"
               /\ activeChannels = {}
               /\ callingPendingFunctors' = TRUE
               /\ functors' = pendingFunctors
               /\ pendingFunctors' = <<>>
               /\ loopAt' = "run"
               /\ UNCHANGED <<quit, wakeupFd, activeChannels, wakeDue, history>>

RunFunctor == /\ loopAt = "run"
              /\ functors # <<>>
              /\ ran' = Append(ran, Head(functors))
              /\ functors' = Tail(functors)
              /\ loopAt' = "functor"
              /\ UNCHANGED <<quit, pendingFunctors, callingPendingFunctors, wakeupFd,
                             activeChannels, wakeDue, given, quitters>>

EndFunctor == /\ loopAt = "functor"
              /\ LoopCode
              /\ loopAt' = "run"
              /\ UNCHANGED <<quit, queueVars, wakeupFd, activeChannels, wakeDue, history>>

(* Mutant: the flag is not reset.                                          *)
EndPendingFlagged ==
  /\ loopAt = "run"
  /\ functors = <<>>
  /\ loopAt' = "check"
  /\ UNCHANGED <<quit, queueVars, wakeupFd, activeChannels, wakeDue, history>>

EndPending == /\ loopAt = "run"
              /\ functors = <<>>
              /\ callingPendingFunctors' = FALSE
              /\ loopAt' = "check"
              /\ UNCHANGED <<quit, pendingFunctors, functors, wakeupFd, activeChannels,
                             wakeDue, history>>

----------------------------------------------------------------------------
CallStep(t) == \/ \E f \in Functors : QueueInLoop(t, f) \/ RunInLoop(t, f)
               \/ Quit(t)

LoopStep == \/ Loop \/ CheckQuit \/ PollWoken
            \/ HandleRead \/ BeginHandler \/ EndHandler
            \/ SwapPending \/ RunFunctor \/ EndFunctor \/ EndPending

Next == \/ \E t \in Threads : CallStep(t) \/ Wakeup(t)
        \/ LoopStep
        \/ PollIo
        \/ PollTimesOut

Safe == Init /\ [][Next]_vars

(* The operating system runs every thread and callbacks return.  No call   *)
(* is ever forced, no peer has to send, and a wakeup by the 10 s timeout   *)
(* is not counted on: a caller that needs the loop now must wake it.       *)
Spec == /\ Safe
        /\ WF_vars(LoopStep)
        /\ \A t \in Threads : WF_vars(Wakeup(t))

----------------------------------------------------------------------------
(* callingPendingFunctors_, the batch and the list of active channels say  *)
(* where the thread is: none of them is left over when it goes round.      *)
CallingIsRunning == callingPendingFunctors <=> loopAt \in {"run", "functor"}
BatchIsRunning == functors # <<>> => loopAt \in {"run", "functor"}
ListIsDispatched == activeChannels # {} => loopAt \in {"events", "handler"}

(* The types, and that what loop() and doPendingFunctors set up for one    *)
(* round is taken down before the next (EventLoop.cc:88, :121-133).        *)
TypeOK ==
  /\ quit \in BOOLEAN
  /\ pendingFunctors \in Seq(Functors)
  /\ callingPendingFunctors \in BOOLEAN
  /\ wakeupFd \in Nat
  /\ activeChannels \subseteq IoChannels \cup {WakeupChannel}
  /\ functors \in Seq(Functors)
  /\ loopAt \in LoopPoints
  /\ wakeDue \subseteq Threads
  /\ ran \in Seq(Functors)
  /\ given \subseteq Functors
  /\ quitters \subseteq Threads
  /\ CallingIsRunning
  /\ BatchIsRunning
  /\ ListIsDispatched

SeqRange(s) == {s[i] : i \in 1..Len(s)}

(* A wakeup has been written and not consumed, or a thread is about to     *)
(* write one.                                                              *)
WakeupComing == wakeupFd > 0 \/ wakeDue # {}

(* The queue holds a functor some thread counts on being run promptly.     *)
Waiting == \E f \in SeqRange(pendingFunctors) : f \notin EarlyFunctors

(* The loop never blocks in epoll_wait on work it has been given: with a   *)
(* functor queued (other than one LoopThread queued before loop()) or quit *)
(* requested, the eventfd is readable or is about to be (queueInLoop's     *)
(* "!isInLoopThread() || callingPendingFunctors_", EventLoop.cc:158, and   *)
(* quit, :113).                                                            *)
NeverSleepsOnWork == loopAt = "poll" /\ (Waiting \/ quit) => WakeupComing

(* The inductive form of NeverSleepsOnWork: outside the dispatch of events *)
(* the queue is covered by a wakeup, because a push by LoopThread that     *)
(* wakes nobody happens only there, and the swap follows it.               *)
Covered == loopAt \notin {"events", "handler", "stopped"} /\ Waiting => WakeupComing
QuitCovered == loopAt = "poll" /\ quit => WakeupComing
WakeDueOnlyInUserCode == LoopThread \in wakeDue => loopAt = "functor"

IInv == /\ TypeOK
        /\ Covered
        /\ QuitCovered
        /\ WakeDueOnlyInUserCode

(* The loop keeps the promise of TaskQueue: what queueInLoop takes runs    *)
(* once, in that order, on the loop's thread, unless the loop stops first; *)
(* and a quit of the running loop stops it.                                *)
Promise == INSTANCE TaskQueue WITH
  todo <- functors \o pendingFunctors,
  closing <- quit /\ loopAt # "created",
  open <- loopAt # "stopped"

Implements == Promise!Spec
=============================================================================
