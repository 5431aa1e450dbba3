----------------------- MODULE EventLoopThread_proofs -----------------------
(***************************************************************************)
(* Proofs about EventLoopThread, for any functors and channels: its loop   *)
(* is an EventLoop, what startLoop returns can be used, and who touches    *)
(* something that is gone does so after a quit.                            *)
(***************************************************************************)
EXTENDS EventLoopThread, EventLoop_proofs

(* loop_ is set exactly while threadFunc is at loop(); the thread leaves   *)
(* loop() because quit_ was set, and that a quit() was called; the owner's *)
(* comes in the destructor.                                                *)
PtrOK == loopPtr <=> threadAt = "looping"

Left == {"cleared", "unlocked", "exited", "undefined"}

LoopOK == /\ loopAt # "created" => threadAt \in {"looping"} \cup Left
          /\ threadAt \in Left => loopAt = "stopped"

QuitOK == /\ quit \/ loopAt = "stopped" => quitters # {}
          /\ Owner \in quitters => ownerAt \in {"joining", "destroyed", "undefined"}

OwnerOK == /\ ownerAt = "new" <=> threadAt = "none"
           /\ ownerAt \in {"running", "quitting", "calling", "joining"}
                => threadAt \in {"looping"} \cup Left
           /\ Owner \in wakeDue => ownerAt \in {"running", "joining", "undefined"}

(* Once the destructor is done the thread is, or a callback had quit the   *)
(* loop; a late wakeup() is the owner's last step.                         *)
LateOK == /\ ownerAt = "destroyed" /\ LoopThread \notin quitters => threadAt = "exited"
          /\ threadAt = "undefined" => LoopThread \in quitters
          /\ ownerAt = "undefined" /\ LoopThread \notin quitters =>
               Owner \in quitters /\ Owner \in wakeDue /\ threadAt = "exited"

TInv == TTypeOK /\ IInv /\ PtrOK /\ LoopOK /\ QuitOK /\ OwnerOK /\ LateOK

(* The owner and the thread take the steps of EventLoop and no others.     *)
LEMMA StepOfLoop == TNext => [Next]_vars
<1> SUFFICES ASSUME TNext PROVE Next \/ UNCHANGED vars
  BY Zenon
<1> USE DEF Next, Threads
<1>1. Owner \in Threads
  BY OwnerAssumption
<1>2. CASE OwnerStep
  BY <1>1, <1>2 DEF OwnerStep, Start, SemWait, TestLoop, ReadAgain, QuitLoop, Join, OwnerWakes,
                    CallFindsGone, CallStep
<1>3. CASE ReadLoop \/ OwnerCalls \/ OwnerUsesGone
  BY <1>1, <1>3 DEF ReadLoop, OwnerCalls, OwnerUsesGone, CallStep
<1>4. CASE ThreadStep
  BY <1>4 DEF ThreadStep, SemPost, Publish, LoopRuns, LoopWakes, Clear, Unlock, DestroyLoop
<1>5. CASE LoopPollsIo \/ LoopTimesOut
  BY <1>5 DEF LoopPollsIo, LoopTimesOut
<1>6. CASE LoopCalls
  BY <1>6 DEF LoopCalls, CallStep
<1> QED
  BY <1>2, <1>3, <1>4, <1>5, <1>6 DEF TNext

LEMMA InitInv == TInit => TInv
<1> SUFFICES ASSUME TInit PROVE TInv
  OBVIOUS
<1>1. IInv
  BY InitInvariant DEF TInit
<1>2. TTypeOK
  BY <1>1 DEF TInit, TTypeOK, IInv, OwnerPoints, ThreadPoints
<1> QED
  BY <1>1, <1>2 DEF TInit, Init, TInv, PtrOK, LoopOK, QuitOK, OwnerOK, LateOK, Left

(* What a step of the loop's own code does to the facts above.             *)
LEMMA LoopSteps ==
  ASSUME IInv, LoopStep \/ PollIo \/ PollTimesOut
  PROVE  /\ quitters' = quitters /\ loopAt' # "created" /\ loopAt # "stopped"
         /\ quit' => quit
         /\ loopAt' = "stopped" => quit
BY DEF LoopStep, PollIo, PollTimesOut, Loop, CheckQuit, PollWoken, Poll, HandleRead, BeginHandler,
       EndHandler, SwapPending, RunFunctor, EndFunctor, EndPending, history

LEMMA LoopStepsOwe ==
  ASSUME LoopStep \/ PollIo \/ PollTimesOut
  PROVE  wakeDue' = wakeDue
BY DEF LoopStep, PollIo, PollTimesOut, Loop, CheckQuit, PollWoken, Poll, HandleRead, BeginHandler,
       EndHandler, SwapPending, RunFunctor, EndFunctor, EndPending

LEMMA Calls ==
  ASSUME IInv, NEW t \in Threads, (\E f \in Functors : QueueInLoop(t, f)) \/ Wakeup(t)
  PROVE  /\ UNCHANGED <<quit, quitters, loopAt>>
         /\ \A u \in Threads : u # t => (u \in wakeDue' <=> u \in wakeDue)
BY DEF QueueInLoop, Wakeup, history

(* A loop that has stopped before the destructor was told to by a callback. *)
LEMMA QuitFirst ==
  ASSUME TInv, Owner \notin quitters, loopAt = "stopped"
  PROVE  LoopThread \in quitters
BY OwnerAssumption DEF TInv, TTypeOK, TypeOK, Threads, QuitOK

LEMMA NextInv == TInv /\ [TNext]_allVars => TInv'
<1> SUFFICES ASSUME TInv, [TNext]_allVars PROVE TInv'
  OBVIOUS
<1>1. IInv'
  BY StepOfLoop, Inductive DEF TInv, allVars
<1>2. IInv /\ TypeOK /\ TypeOK'
  BY <1>1 DEF TInv, IInv
<1>3. Owner \in Threads /\ LoopThread \in Threads /\ LoopThread # Owner
  BY OwnerAssumption, ThreadAssumption DEF Threads
<1>4. Owner \notin quitters /\ loopAt = "stopped" => LoopThread \in quitters
  BY QuitFirst
<1> USE DEF TInv, TTypeOK, OwnerPoints, ThreadPoints, LoopExists, PtrOK, LoopOK, QuitOK, OwnerOK,
            LateOK, Left, OwnerGone, threadVars
<1>5. CASE \/ Start \/ SemWait \/ TestLoop \/ ReadLoop \/ ReadAgain \/ Join
           \/ CallFindsGone \/ OwnerUsesGone
  <2>1. UNCHANGED <<quit, quitters, loopAt, wakeDue, loopPtr>>
    BY <1>5 DEF Start, SemWait, TestLoop, ReadLoop, ReadAgain, Join, CallFindsGone, OwnerUsesGone,
                vars, history
  <2>2. CASE Start \/ SemWait \/ TestLoop
    BY <1>1, <1>2, <2>1, <2>2 DEF Start, SemWait, TestLoop
  <2>3. CASE ReadLoop \/ ReadAgain
    BY <1>1, <1>2, <1>4, <2>1, <2>3 DEF ReadLoop, ReadAgain
  <2>4. CASE Join
    BY <1>1, <1>2, <2>1, <2>4 DEF Join
  <2>5. CASE CallFindsGone \/ OwnerUsesGone
    <3>1. ownerAt' = "undefined" /\ threadAt' = threadAt /\ ~LoopExists
      BY <2>5 DEF CallFindsGone, OwnerUsesGone
    <3>2. ownerAt \in {"running", "calling", "joining", "undefined"}
      BY <2>5 DEF CallFindsGone, OwnerUsesGone
    <3>3. threadAt \in {"exited", "undefined"} \/ LoopThread \in quitters
      BY <3>1, <3>2
    <3>4. LoopThread \in quitters \/ (Owner \in quitters /\ Owner \in wakeDue)
      <4>1. CASE Owner \notin quitters
        BY <1>4, <3>3, <4>1
      <4>2. CASE Owner \in quitters
        BY <2>5, <4>2 DEF CallFindsGone, OwnerUsesGone
      <4> QED
        BY <4>1, <4>2
    <3> QED
      BY <1>1, <1>2, <2>1, <3>1, <3>2, <3>3, <3>4
  <2> QED
    BY <1>5, <2>2, <2>3, <2>4, <2>5
<1>6. CASE SemPost \/ Publish \/ Clear \/ Unlock \/ DestroyLoop
  <2>1. UNCHANGED <<quit, quitters, loopAt, wakeDue>>
    BY <1>6 DEF SemPost, Publish, Clear, Unlock, DestroyLoop, vars, history
  <2>2. CASE SemPost
    BY <1>1, <1>2, <2>1, <2>2 DEF SemPost
  <2>3. CASE Publish
    BY <1>1, <1>2, <2>1, <2>3 DEF Publish
  <2>4. CASE Clear
    BY <1>1, <1>2, <1>4, <2>1, <2>4 DEF Clear
  <2>5. CASE Unlock
    BY <1>1, <1>2, <2>1, <2>5 DEF Unlock
  <2>6. CASE DestroyLoop
    BY <1>1, <1>2, <2>1, <2>6 DEF DestroyLoop
  <2> QED
    BY <1>6, <2>2, <2>3, <2>4, <2>5, <2>6
<1>7. CASE QuitLoop
  BY <1>1, <1>2, <1>3, <1>7 DEF QuitLoop, Quit
<1>8. CASE OwnerWakes \/ OwnerCalls \/ LoopWakes
  <2>1. UNCHANGED <<quit, quitters, loopAt, threadVars>>
    BY <1>2, <1>3, <1>8, Calls DEF OwnerWakes, OwnerCalls, LoopWakes
  <2>2. Owner \in wakeDue' => Owner \in wakeDue \/ ownerAt = "running"
    BY <1>2, <1>3, <1>8, Calls DEF OwnerWakes, OwnerCalls, LoopWakes, Wakeup
  <2>3. Owner \in wakeDue /\ ~LoopExists => Owner \in wakeDue'
    BY <1>2, <1>3, <1>8, Calls DEF OwnerWakes, OwnerCalls, LoopWakes
  <2> QED
    BY <1>1, <1>2, <2>1, <2>2, <2>3
<1>9. CASE LoopRuns \/ LoopPollsIo \/ LoopTimesOut
  <2>1. /\ threadAt = "looping" /\ UNCHANGED threadVars
        /\ LoopStep \/ PollIo \/ PollTimesOut
    BY <1>9 DEF LoopRuns, LoopPollsIo, LoopTimesOut
  <2>2. wakeDue' = wakeDue
    BY <2>1, LoopStepsOwe
  <2> QED
    BY <1>1, <1>2, <2>1, <2>2, LoopSteps
<1>10. CASE LoopCalls
  <2>1. CASE \E f \in Functors : QueueInLoop(LoopThread, f)
    <3>1. /\ UNCHANGED <<quit, quitters, loopAt, threadVars>>
          /\ Owner \in wakeDue' <=> Owner \in wakeDue
      BY <1>2, <1>3, <1>10, <2>1, Calls DEF LoopCalls
    <3> QED
      BY <1>1, <1>2, <3>1
  <2>2. CASE Quit(LoopThread)
    BY <1>1, <1>2, <1>3, <1>10, <2>2 DEF LoopCalls, Quit
  <2> QED
    BY <1>10, <2>1, <2>2 DEF LoopCalls
<1>11. CASE UNCHANGED allVars
  <2>1. UNCHANGED <<quit, quitters, loopAt, wakeDue, threadVars>>
    BY <1>11 DEF allVars, vars, history
  <2> QED
    BY <1>1, <1>2, <2>1
<1> QED
  BY <1>5, <1>6, <1>7, <1>8, <1>9, <1>10, <1>11 DEF TNext, OwnerStep, ThreadStep

LEMMA Invariant == TSpec => []TInv
BY InitInv, NextInv, PTL DEF TSpec

(* The thread, its owner and the loop stay well-typed.                     *)
THEOREM ThreadTypeCorrect == TSpec => []TTypeOK
<1>1. TInv => TTypeOK
  BY DEF TInv
<1> QED
  BY <1>1, Invariant, PTL

(* The loop that startLoop returned lives, and is at or before loop(),     *)
(* until the destructor tells it to quit, if no callback did: the bare     *)
(* pointer that TcpServer and the pool keep is good.                       *)
THEOREM LoopIsUsable == TSpec => []ReturnedLoopIsUsable
<1>1. TInv => ReturnedLoopIsUsable
  <2> SUFFICES ASSUME TInv, ownerAt = "running", LoopThread \notin quitters
               PROVE  threadAt = "looping" /\ loopAt # "stopped"
    BY DEF ReturnedLoopIsUsable
  <2>1. quitters \subseteq {LoopThread, Owner} /\ Owner \notin quitters
    BY OwnerAssumption DEF TInv, TTypeOK, TypeOK, Threads, QuitOK
  <2>2. quitters = {}
    BY <2>1
  <2> QED
    BY <2>2 DEF TInv, QuitOK, LoopOK, OwnerOK
<1> QED
  BY <1>1, Invariant, PTL

(* Nobody uses a loop or an EventLoopThread that is gone unless a callback *)
(* quit the loop, except for the wakeup() of the destructor's own quit():  *)
(* the unlocked reads of loop_ and the join are enough for that.           *)
THEOREM GoneOnlyAfterQuit == TSpec => []UndefinedOnlyAfterQuit
<1>1. TInv => UndefinedOnlyAfterQuit
  BY DEF TInv, LateOK, UndefinedOnlyAfterQuit
<1> QED
  BY <1>1, Invariant, PTL

(* The loop of the thread keeps the promise of TaskQueue, started, stopped *)
(* and destroyed as EventLoopThread does it: what the owner hands over     *)
(* runs once and in order, unless the loop stops first.                    *)
THEOREM ThreadImplementsSafely == TSpec => Promise!Safe
<1>1. TInit => Init
  BY DEF TInit
<1>2. [TNext]_allVars => [Next]_vars
  BY StepOfLoop DEF allVars
<1>3. TSpec => Safe
  BY <1>1, <1>2, PTL DEF TSpec, Safe
<1> QED
  BY <1>3, ImplementsSafely, PTL
=============================================================================
