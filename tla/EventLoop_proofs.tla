-------------------------- MODULE EventLoop_proofs --------------------------
(***************************************************************************)
(* What holds of EventLoop for every set of callers, functors and          *)
(* channels: its type, that it never sleeps on work, and that each of its  *)
(* steps is a step of TaskQueue or a stutter.                              *)
(***************************************************************************)
EXTENDS EventLoop, SequenceTheorems, TLAPS

(* The initial values are well-typed.                                      *)
LEMMA InitTyped == Init => TypeOK
<1> SUFFICES ASSUME Init
             PROVE  TypeOK
  OBVIOUS
<1>1. pendingFunctors \in Seq(Functors) /\ functors \in Seq(Functors) /\ ran \in Seq(Functors)
  BY DEF Init
<1>2. QED
  BY <1>1 DEF Init, TypeOK, LoopPoints, CallingIsRunning, BatchIsRunning, ListIsDispatched

(* A push keeps the variables well-typed.                                  *)
LEMMA PushTyped ==
  ASSUME TypeOK, NEW t \in Threads, NEW f \in Functors, QueueInLoop(t, f)
  PROVE  TypeOK'
<1> USE DEF TypeOK, CallingIsRunning, BatchIsRunning, ListIsDispatched
<1>1. pendingFunctors' \in Seq(Functors)
  BY DEF QueueInLoop, Give
<1>2. given' \subseteq Functors /\ wakeDue' \subseteq Threads
  BY DEF QueueInLoop, Give
<1>3. QED
  BY <1>1, <1>2 DEF QueueInLoop

(* Every step keeps the variables well-typed.                              *)
LEMMA StepTyped == TypeOK /\ [Next]_vars => TypeOK'
<1> SUFFICES ASSUME TypeOK, [Next]_vars
             PROVE  TypeOK'
  OBVIOUS
<1> USE DEF TypeOK, LoopPoints, CallingIsRunning, BatchIsRunning, ListIsDispatched
<1>1. ASSUME NEW t \in Threads, NEW f \in Functors, QueueInLoop(t, f)
      PROVE  TypeOK'
  BY <1>1, PushTyped
<1>2. ASSUME NEW t \in Threads, NEW f \in Functors, RunInLoop(t, f)
      PROVE  TypeOK'
  <2>1. CASE t # LoopThread
    BY <1>1, <1>2, <2>1 DEF RunInLoop
  <2>2. CASE t = LoopThread
    <3>1. Give(f) /\ ran' = Append(ran, f)
      BY <1>2, <2>2 DEF RunInLoop
    <3>2. ran' \in Seq(Functors) /\ given' \subseteq Functors
      BY <3>1 DEF Give
    <3>3. QED
      BY <1>2, <2>2, <3>2 DEF RunInLoop, queueVars
  <2>3. QED
    BY <2>1, <2>2
<1>3. ASSUME NEW t \in Threads, Quit(t)
      PROVE  TypeOK'
  BY <1>3 DEF Quit, queueVars
<1>4. ASSUME NEW t \in Threads, Wakeup(t)
      PROVE  TypeOK'
  BY <1>4 DEF Wakeup, queueVars, history
<1>5. CASE Loop
  BY <1>5 DEF Loop, queueVars, history
<1>6. CASE CheckQuit
  BY <1>6 DEF CheckQuit, queueVars, history
<1>7. ASSUME NEW ready \in SUBSET (IoChannels \cup {WakeupChannel}), Poll(ready)
      PROVE  TypeOK'
  BY <1>7 DEF Poll, queueVars, history
<1>8. CASE PollWoken
  <2>1. PICK io \in SUBSET IoChannels : Poll(io \cup {WakeupChannel})
    BY <1>8 DEF PollWoken
  <2>2. QED
    BY <2>1, <1>7
<1>9. CASE PollIo
  <2>1. PICK io \in SUBSET IoChannels : Poll(io)
    BY <1>9 DEF PollIo
  <2>2. QED
    BY <2>1, <1>7
<1>10. CASE PollTimesOut
  BY <1>7, <1>10 DEF PollTimesOut
<1>11. CASE HandleRead
  BY <1>11 DEF HandleRead, queueVars, history
<1>12. CASE BeginHandler
  BY <1>12 DEF BeginHandler, queueVars, history
<1>13. CASE EndHandler
  BY <1>13 DEF EndHandler, queueVars, history
<1>14. CASE SwapPending
  BY <1>14 DEF SwapPending, history
<1>15. CASE RunFunctor
  <2>1. Head(functors) \in Functors /\ Tail(functors) \in Seq(Functors)
    BY <1>15 DEF RunFunctor
  <2>2. QED
    BY <1>15, <2>1 DEF RunFunctor
<1>16. CASE EndFunctor
  BY <1>16 DEF EndFunctor, queueVars, history
<1>17. CASE EndPending
  BY <1>17 DEF EndPending, history
<1>18. CASE UNCHANGED vars
  BY <1>18 DEF vars, queueVars, history
<1>19. QED
  BY <1>1, <1>2, <1>3, <1>4, <1>5, <1>6, <1>8, <1>9, <1>10, <1>11, <1>12, <1>13,
     <1>14, <1>15, <1>16, <1>17, <1>18 DEF Next, CallStep, LoopStep

(* The variables stay well-typed at every step of every thread.            *)
THEOREM TypeCorrect == Safe => []TypeOK
  BY InitTyped, StepTyped, PTL DEF Safe

----------------------------------------------------------------------------
(* Appending to a sequence adds one element to its range.                  *)
LEMMA RangeOfAppend ==
  ASSUME NEW S, NEW s \in Seq(S), NEW e \in S
  PROVE  SeqRange(Append(s, e)) = SeqRange(s) \cup {e}
<1>1. Len(Append(s, e)) = Len(s) + 1 /\ Len(s) \in Nat
  OBVIOUS
<1>2. \A i \in 1..Len(s) : Append(s, e)[i] = s[i]
  OBVIOUS
<1>3. Append(s, e)[Len(s) + 1] = e
  OBVIOUS
<1>4. 1..(Len(s) + 1) = (1..Len(s)) \cup {Len(s) + 1}
  BY <1>1
<1>5. QED
  BY <1>1, <1>2, <1>3, <1>4 DEF SeqRange

(* A push leaves the queue covered: the pushing thread owes a wakeup,      *)
(* unless it is LoopThread before loop() or in a channel callback.         *)
LEMMA PushCovered ==
  ASSUME IInv, NEW t \in Threads, NEW f \in Functors, QueueInLoop(t, f)
  PROVE  IInv'
<1>0. TypeOK'
  BY PushTyped DEF IInv
<1>1. Waiting' => Waiting \/ f \notin EarlyFunctors
  <2>1. SeqRange(pendingFunctors') = SeqRange(pendingFunctors) \cup {f}
    BY RangeOfAppend DEF QueueInLoop, IInv, TypeOK
  <2>2. QED
    BY <2>1 DEF Waiting
<1>2. Covered'
  <2>1. CASE NeedsWakeup(t)
    BY <2>1 DEF QueueInLoop, Covered, WakeupComing
  <2>2. CASE ~NeedsWakeup(t)
    <3>1. t = LoopThread /\ loopAt \in {"created", "handler"}
      BY <2>2 DEF NeedsWakeup, QueueInLoop, CanCall, UserCode, IInv, TypeOK, CallingIsRunning
    <3>2. loopAt = "created" => f \in EarlyFunctors
      BY <3>1 DEF QueueInLoop
    <3>3. QED
      BY <1>1, <2>2, <3>1, <3>2 DEF QueueInLoop, Covered, WakeupComing, IInv
  <2>3. QED
    BY <2>1, <2>2
<1>3. QuitCovered'
  BY DEF QueueInLoop, QuitCovered, WakeupComing, IInv
<1>4. WakeDueOnlyInUserCode'
  BY DEF QueueInLoop, CanCall, NeedsWakeup, UserCode, WakeDueOnlyInUserCode,
         CallingIsRunning, TypeOK, IInv
<1>5. QED
  BY <1>0, <1>2, <1>3, <1>4 DEF IInv

(* The invariant behind NeverSleepsOnWork holds at the start.              *)
LEMMA InitInvariant == Init => IInv
<1> SUFFICES ASSUME Init
             PROVE  IInv
  OBVIOUS
<1>1. ~Waiting
  BY DEF Init, Waiting, SeqRange
<1>2. QED
  BY <1>1, InitTyped DEF Init, IInv, Covered, QuitCovered, WakeDueOnlyInUserCode

(* The invariant behind NeverSleepsOnWork is kept by every step.           *)
LEMMA Inductive == IInv /\ [Next]_vars => IInv'
<1> SUFFICES ASSUME IInv, [Next]_vars
             PROVE  IInv'
  OBVIOUS
<1>0. TypeOK /\ TypeOK' /\ CallingIsRunning
  BY StepTyped DEF IInv, TypeOK
<1> USE DEF IInv, Covered, QuitCovered, CallingIsRunning, WakeDueOnlyInUserCode, WakeupComing
<1>1. ASSUME NEW t \in Threads, NEW f \in Functors, QueueInLoop(t, f)
      PROVE  IInv'
  BY <1>1, PushCovered
<1>2. ASSUME NEW t \in Threads, NEW f \in Functors, RunInLoop(t, f)
      PROVE  IInv'
  <2>1. CASE t # LoopThread
    BY <1>1, <1>2, <2>1 DEF RunInLoop
  <2>2. CASE t = LoopThread
    <3>1. Waiting' = Waiting
      BY <1>2, <2>2 DEF RunInLoop, Waiting, queueVars
    <3>2. QED
      BY <1>0, <1>2, <2>2, <3>1 DEF RunInLoop, queueVars
  <2>3. QED
    BY <2>1, <2>2
<1>3. ASSUME NEW t \in Threads, Quit(t)
      PROVE  IInv'
  <2>1. Waiting' = Waiting
    BY <1>3 DEF Quit, Waiting, queueVars
  <2>2. t = LoopThread => loopAt # "poll"
    BY <1>3 DEF Quit, CanCall, UserCode
  <2>3. QED
    BY <1>0, <1>3, <2>1, <2>2 DEF Quit, queueVars
<1>4. ASSUME NEW t \in Threads, Wakeup(t)
      PROVE  IInv'
  <2>1. wakeupFd' > 0
    BY <1>0, <1>4 DEF Wakeup, TypeOK
  <2>2. QED
    BY <1>0, <1>4, <2>1 DEF Wakeup, queueVars
<1>5. ASSUME Loop \/ CheckQuit \/ EndHandler \/ EndFunctor \/ EndPending
      PROVE  IInv'
  <2>1. Waiting' = Waiting
    BY <1>5 DEF Loop, CheckQuit, EndHandler, EndFunctor, EndPending, Waiting, queueVars
  <2>2. CASE Loop
    BY <1>0, <2>1, <2>2 DEF Loop, LoopCode, queueVars
  <2>3. CASE CheckQuit
    BY <1>0, <2>1, <2>3 DEF CheckQuit, queueVars
  <2>4. CASE EndHandler
    BY <1>0, <2>1, <2>4 DEF EndHandler, LoopCode, queueVars
  <2>5. CASE EndFunctor
    BY <1>0, <2>1, <2>5 DEF EndFunctor, LoopCode, queueVars
  <2>6. CASE EndPending
    BY <1>0, <2>1, <2>6 DEF EndPending
  <2>7. QED
    BY <1>5, <2>2, <2>3, <2>4, <2>5, <2>6
<1>6. ASSUME NEW ready, Poll(ready)
      PROVE  IInv'
  BY <1>0, <1>6 DEF Poll, queueVars
<1>7. ASSUME HandleRead \/ BeginHandler
      PROVE  IInv'
  BY <1>0, <1>7 DEF HandleRead, BeginHandler, queueVars
<1>8. ASSUME SwapPending
      PROVE  IInv'
  <2>1. ~Waiting'
    BY <1>8 DEF SwapPending, Waiting, SeqRange
  <2>2. QED
    BY <1>0, <1>8, <2>1 DEF SwapPending
<1>9. ASSUME RunFunctor
      PROVE  IInv'
  <2>1. Waiting' = Waiting
    BY <1>9 DEF RunFunctor, Waiting
  <2>2. QED
    BY <1>0, <1>9, <2>1 DEF RunFunctor
<1>10. ASSUME UNCHANGED vars
       PROVE  IInv'
  <2>1. Waiting' = Waiting
    BY <1>10 DEF vars, queueVars, Waiting
  <2>2. QED
    BY <1>0, <1>10, <2>1 DEF vars, queueVars
<1>11. QED
  BY <1>1, <1>2, <1>3, <1>4, <1>5, <1>6, <1>7, <1>8, <1>9, <1>10
     DEF Next, CallStep, LoopStep, PollWoken, PollIo, PollTimesOut

(* The loop's thread never blocks in epoll_wait while a functor queued by  *)
(* another thread, or from a functor, or a quit, waits for it without a    *)
(* wakeup written or about to be written.                                  *)
THEOREM NeverSleeps == Safe => []NeverSleepsOnWork
<1>1. IInv => NeverSleepsOnWork
  BY DEF IInv, Covered, QuitCovered, NeverSleepsOnWork
<1>2. QED
  BY <1>1, InitInvariant, Inductive, PTL DEF Safe

----------------------------------------------------------------------------
(* Taking the head of a non-empty batch takes the head of batch and queue. *)
LEMMA HeadOfConcat ==
  ASSUME NEW S, NEW s \in Seq(S), NEW t \in Seq(S), s # <<>>
  PROVE  /\ s \o t # <<>>
         /\ Head(s \o t) = Head(s)
         /\ Tail(s \o t) = Tail(s) \o t
<1>1. s \o t \in Seq(S) /\ Len(s \o t) = Len(s) + Len(t) /\ Len(s) > 0
  BY ConcatProperties, EmptySeq
<1>2. s \o t # <<>>
  BY <1>1, EmptySeq
<1>3. Head(s \o t) = Head(s)
  BY <1>1, ConcatProperties
<1>4. Tail(s) \in Seq(S) /\ Len(Tail(s)) = Len(s) - 1
  BY HeadTailProperties
<1>5. Tail(s \o t) = Tail(s) \o t
  <2>1. Tail(s \o t) \in Seq(S) /\ Len(Tail(s \o t)) = Len(s) + Len(t) - 1
    BY <1>1, <1>2, HeadTailProperties
  <2>2. Tail(s) \o t \in Seq(S) /\ Len(Tail(s) \o t) = Len(s) + Len(t) - 1
    BY <1>4, ConcatProperties
  <2>3. ASSUME NEW i \in 1..Len(s) + Len(t) - 1
        PROVE  Tail(s \o t)[i] = (Tail(s) \o t)[i]
    <3>1. Tail(s \o t)[i] = (s \o t)[i + 1]
      BY <1>1, <1>2, <2>1, HeadTailProperties
    <3>2. CASE i <= Len(s) - 1
      <4>1. (s \o t)[i + 1] = s[i + 1] /\ (Tail(s) \o t)[i] = Tail(s)[i]
        BY <1>4, <3>2, ConcatProperties
      <4>2. Tail(s)[i] = s[i + 1]
        BY <1>4, <3>2, HeadTailProperties
      <4>3. QED
        BY <3>1, <4>1, <4>2
    <3>3. CASE i > Len(s) - 1
      <4>1. (s \o t)[i + 1] = t[i + 1 - Len(s)] /\ (Tail(s) \o t)[i] = t[i - (Len(s) - 1)]
        BY <1>4, <3>3, ConcatProperties
      <4>2. i + 1 - Len(s) = i - (Len(s) - 1)
        OBVIOUS
      <4>3. QED
        BY <3>1, <4>1, <4>2
    <3>4. QED
      BY <3>2, <3>3
  <2>4. QED
    BY <2>1, <2>2, <2>3, SeqEqual
<1>6. QED
  BY <1>2, <1>3, <1>5

(* Every step of the loop and its callers is a step of TaskQueue or leaves *)
(* its variables alone.                                                    *)
LEMMA StepSimulation == IInv /\ [Next]_vars => [Promise!Next]_Promise!vars
<1> SUFFICES ASSUME IInv, [Next]_vars
             PROVE  Promise!Next \/ UNCHANGED Promise!vars
  BY Zenon
<1>0. TypeOK /\ BatchIsRunning
  BY DEF IInv, TypeOK
<1> DEFINE Todo == functors \o pendingFunctors
<1>1. ASSUME NEW t \in Threads, NEW f \in Functors, QueueInLoop(t, f)
      PROVE  Promise!Submit(f)
  <2>1. functors \o Append(pendingFunctors, f) = Append(Todo, f)
    <3>1. Append(pendingFunctors, f) = pendingFunctors \o <<f>>
      BY <1>0, AppendIsConcat DEF TypeOK
    <3>2. Todo \in Seq(Functors) /\ <<f>> \in Seq(Functors)
      BY <1>0, ConcatProperties DEF TypeOK
    <3>3. Append(Todo, f) = Todo \o <<f>>
      BY <3>2, AppendIsConcat
    <3>4. Todo \o <<f>> = functors \o (pendingFunctors \o <<f>>)
      BY <1>0, <3>2, ConcatAssociative DEF TypeOK
    <3>5. QED
      BY <3>1, <3>3, <3>4
  <2>2. QED
    BY <1>1, <2>1 DEF QueueInLoop, Give, Promise!Submit, Promise!Give
<1>2. ASSUME NEW t \in Threads, NEW f \in Functors, RunInLoop(t, f)
      PROVE  Promise!Submit(f) \/ Promise!Call(f)
  <2>1. CASE t # LoopThread
    BY <1>1, <1>2, <2>1 DEF RunInLoop
  <2>2. CASE t = LoopThread
    BY <1>2, <2>2 DEF RunInLoop, Give, queueVars, Promise!Call, Promise!Give
  <2>3. QED
    BY <2>1, <2>2
<1>3. ASSUME NEW t \in Threads, Quit(t)
      PROVE  Promise!RequestStop \/ UNCHANGED Promise!vars
  BY <1>3 DEF Quit, queueVars, Promise!RequestStop, Promise!vars
<1>4. ASSUME NEW t \in Threads, Wakeup(t)
      PROVE  UNCHANGED Promise!vars
  BY <1>4 DEF Wakeup, queueVars, history, Promise!vars
<1>5. CASE Loop \/ HandleRead \/ BeginHandler \/ EndHandler \/ EndFunctor
  BY <1>5 DEF Loop, HandleRead, BeginHandler, EndHandler, EndFunctor, queueVars, history,
              Promise!vars
<1>6. CASE CheckQuit
  <2>1. CASE quit
    BY <1>6, <2>1 DEF CheckQuit, queueVars, history, Promise!Stop, Promise!Next
  <2>2. CASE ~quit
    BY <1>6, <2>2 DEF CheckQuit, queueVars, history, Promise!vars
  <2>3. QED
    BY <2>1, <2>2
<1>7. ASSUME NEW ready, Poll(ready)
      PROVE  UNCHANGED Promise!vars
  BY <1>7 DEF Poll, queueVars, history, Promise!vars
<1>8. CASE SwapPending
  <2>1. functors = <<>>
    BY <1>0, <1>8 DEF SwapPending, BatchIsRunning
  <2>2. functors' \o pendingFunctors' = Todo
    BY <1>0, <1>8, <2>1, ConcatEmptySeq DEF SwapPending, TypeOK
  <2>3. QED
    BY <1>8, <2>2 DEF SwapPending, history, Promise!vars
<1>9. CASE RunFunctor
  <2>1. /\ Todo # <<>>
        /\ Head(Todo) = Head(functors)
        /\ Tail(Todo) = Tail(functors) \o pendingFunctors
    BY <1>0, <1>9, HeadOfConcat DEF RunFunctor, TypeOK
  <2>2. Promise!Execute
    BY <1>9, <2>1 DEF RunFunctor, Promise!Execute
  <2>3. QED
    BY <2>2 DEF Promise!Next
<1>10. CASE EndPending
  BY <1>10 DEF EndPending, history, Promise!vars
<1>11. CASE UNCHANGED vars
  BY <1>11 DEF vars, queueVars, history, Promise!vars
<1>12. QED
  BY <1>1, <1>2, <1>3, <1>4, <1>5, <1>6, <1>7, <1>8, <1>9, <1>10, <1>11
     DEF Next, CallStep, LoopStep, PollWoken, PollIo, PollTimesOut, Promise!Next

(* The loop implements the safety of TaskQueue: for any number of threads  *)
(* and functors, what was queued runs once, in the order of the queue, and *)
(* only before a requested stop.                                           *)
THEOREM ImplementsSafely == Safe => Promise!Safe
<1>1. Init => Promise!Init
  BY DEF Init, Promise!Init
<1>2. Init => IInv
  BY InitInvariant
<1>3. QED
  BY <1>1, <1>2, Inductive, StepSimulation, PTL DEF Safe, Promise!Safe
=============================================================================
