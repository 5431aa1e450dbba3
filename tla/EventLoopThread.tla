-------------------------- MODULE EventLoopThread --------------------------
(***************************************************************************)
(* net/EventLoopThread.{h,cc} over base/Thread.cc: a thread with an        *)
(* EventLoop on its stack.  The owner starts the thread, waits until it    *)
(* has published the loop's address, uses the loop through it, and in the  *)
(* destructor tells the loop to quit and joins the thread.  EventLoop      *)
(* gives the steps of the loop; this module says when the loop exists,     *)
(* when the thread is in which part of threadFunc, and what the owner      *)
(* does.  Each critical section of mutex_ in startLoop and at the          *)
(* publication is one step; the last one is two, because the destructor    *)
(* reads loop_ without mutex_.  The use of something that is gone is       *)
(* undefined: who does it is "undefined" from then on, and stops.          *)
(***************************************************************************)
EXTENDS EventLoop

CONSTANT Owner  \* the thread that has the EventLoopThread

ASSUME OwnerAssumption == Callers = {Owner}

VARIABLES
  loopPtr,   \* loop_ # nullptr
  ownerAt,   \* where the owner is in start, startLoop and ~EventLoopThread
  threadAt   \* where the thread is in threadFunc

threadVars == <<loopPtr, ownerAt, threadAt>>
allVars == <<vars, threadVars>>

OwnerPoints == {"new", "sem", "test", "waiting", "running", "quitting", "calling", "joining",
                "destroyed", "undefined"}
ThreadPoints == {"none", "spawned", "callback", "looping", "cleared", "unlocked", "exited",
                 "undefined"}

TInit == /\ Init
         /\ loopPtr = FALSE
         /\ ownerAt = "new"
         /\ threadAt = "none"

(* The stack frame of threadFunc holds the loop.                           *)
LoopExists == threadAt \in {"callback", "looping", "cleared", "unlocked"}

----------------------------------------------------------------------------
(* The owner.                                                              *)

(* Thread::start up to sem_wait.                                           *)
Start == /\ ownerAt = "new"
         /\ ownerAt' = "sem"
         /\ threadAt' = "spawned"
         /\ UNCHANGED <<vars, loopPtr>>

(* The new thread has posted the semaphore.                                *)
SemWait == /\ ownerAt = "sem"
           /\ threadAt # "spawned"
           /\ ownerAt' = "test"
           /\ UNCHANGED <<vars, loopPtr, threadAt>>

(* Mutant: startLoop does not test loop_ again after it was woken.         *)
TestLoopUntested == /\ ownerAt = "test"
                    /\ ownerAt' = "running"
                    /\ UNCHANGED <<vars, loopPtr, threadAt>>

(* One pass of startLoop's wait loop, under mutex_: return loop_ if it is  *)
(* set, release the mutex and sleep if it is not.                          *)
TestLoop == /\ ownerAt = "test"
            /\ ownerAt' = IF loopPtr THEN "running" ELSE "waiting"
            /\ UNCHANGED <<vars, loopPtr, threadAt>>

(* ~EventLoopThread tests loop_, without mutex_.                           *)
ReadLoop == /\ ownerAt = "running"
            /\ Owner \notin wakeDue
            /\ ownerAt' = IF loopPtr THEN "quitting" ELSE "destroyed"
            /\ UNCHANGED <<vars, loopPtr, threadAt>>

(* It reads loop_ again for the call: through nullptr if the thread has    *)
(* cleared it since, unless the compiler kept what the test had read.      *)
ReadAgain == /\ ownerAt = "quitting"
             /\ \/ ownerAt' = "calling"
                \/ ~loopPtr /\ ownerAt' = "undefined"
             /\ UNCHANGED <<vars, loopPtr, threadAt>>

QuitLoop == /\ ownerAt = "calling"
            /\ LoopExists
            /\ Quit(Owner)
            /\ ownerAt' = "joining"
            /\ UNCHANGED <<loopPtr, threadAt>>

(* Mutant: the thread is not joined.                                       *)
JoinAtOnce == /\ ownerAt = "joining"
              /\ Owner \notin wakeDue
              /\ ownerAt' = "destroyed"
              /\ UNCHANGED <<vars, loopPtr, threadAt>>

Join == /\ ownerAt = "joining"
        /\ Owner \notin wakeDue
        /\ threadAt = "exited"
        /\ ownerAt' = "destroyed"
        /\ UNCHANGED <<vars, loopPtr, threadAt>>

(* The owner hands work to the loop it was given.                          *)
OwnerCalls == /\ ownerAt = "running"
              /\ LoopExists
              /\ \E f \in Functors : QueueInLoop(Owner, f)
              /\ UNCHANGED threadVars

OwnerWakes == LoopExists /\ Wakeup(Owner) /\ UNCHANGED threadVars

(* quit_ = true, or the wakeup() after a push or a quit, in a loop that is *)
(* gone; or the owner begins to use one.                                   *)
CallFindsGone == /\ ~LoopExists
                 /\ ownerAt = "calling" \/ Owner \in wakeDue
                 /\ ownerAt' = "undefined"
                 /\ UNCHANGED <<vars, loopPtr, threadAt>>
OwnerUsesGone == /\ ~LoopExists
                 /\ ownerAt = "running"
                 /\ ownerAt' = "undefined"
                 /\ UNCHANGED <<vars, loopPtr, threadAt>>

----------------------------------------------------------------------------
(* The thread.                                                             *)

(* The lambda of Thread::start posts the semaphore, threadFunc constructs  *)
(* the loop and enters the init callback.                                  *)
SemPost == /\ threadAt = "spawned"
           /\ threadAt' = "callback"
           /\ UNCHANGED <<vars, loopPtr, ownerAt>>

(* Mutant: the owner is not notified.                                      *)
PublishSilently == /\ threadAt = "callback"
                   /\ LoopCode
                   /\ threadAt' = "looping"
                   /\ loopPtr' = TRUE
                   /\ UNCHANGED <<vars, ownerAt>>

(* loop_ = &loop and notify_one, under mutex_.                             *)
Publish == /\ threadAt = "callback"
           /\ LoopCode
           /\ threadAt' = "looping"
           /\ loopPtr' = TRUE
           /\ ownerAt' = IF ownerAt = "waiting" THEN "test" ELSE ownerAt
           /\ UNCHANGED vars

LoopRuns == /\ threadAt = "looping"
            /\ LoopStep
            /\ UNCHANGED threadVars

LoopPollsIo == /\ threadAt = "looping"
               /\ PollIo
               /\ UNCHANGED threadVars

LoopTimesOut == /\ threadAt = "looping"
                /\ PollTimesOut
                /\ UNCHANGED threadVars

LoopCalls == /\ loopAt = "created" => threadAt = "callback"
             /\ \/ \E f \in Functors : QueueInLoop(LoopThread, f)
                \/ Quit(LoopThread)
             /\ UNCHANGED threadVars

LoopWakes == Wakeup(LoopThread) /\ UNCHANGED threadVars

(* Mutant: the address stays.                                              *)
ClearForgotten == /\ threadAt = "looping"
                  /\ loopAt = "stopped"
                  /\ threadAt' = "cleared"
                  /\ UNCHANGED <<vars, loopPtr, ownerAt>>

(* loop() has returned: loop_ = nullptr, with mutex_ held.  The mutex and  *)
(* loop_ are the owner's EventLoopThread's: it may be gone.                *)
OwnerGone == ownerAt = "destroyed"

Clear == /\ threadAt = "looping"
         /\ loopAt = "stopped"
         /\ loopPtr' = FALSE
         /\ threadAt' = IF OwnerGone THEN "undefined" ELSE "cleared"
         /\ UNCHANGED <<vars, ownerAt>>

(* The locals of threadFunc go in reverse order: first the lock, then the  *)
(* loop, whose destructor closes wakeupFd_.                                *)
Unlock == /\ threadAt = "cleared"
          /\ threadAt' = IF OwnerGone THEN "undefined" ELSE "unlocked"
          /\ UNCHANGED <<vars, loopPtr, ownerAt>>

DestroyLoop == /\ threadAt = "unlocked"
               /\ threadAt' = "exited"
               /\ UNCHANGED <<vars, loopPtr, ownerAt>>

----------------------------------------------------------------------------
OwnerStep == \/ Start \/ SemWait \/ TestLoop
             \/ ReadAgain \/ QuitLoop \/ Join \/ OwnerWakes \/ CallFindsGone

ThreadStep == \/ SemPost \/ Publish \/ LoopRuns \/ LoopWakes
              \/ Clear \/ Unlock \/ DestroyLoop

TNext == \/ OwnerStep \/ ReadLoop \/ OwnerCalls \/ OwnerUsesGone
         \/ ThreadStep \/ LoopPollsIo \/ LoopTimesOut \/ LoopCalls

(* Both threads are scheduled and callbacks return; nobody has to call or  *)
(* to destroy anything, and no progress rests on the timeout of a poll.    *)
TSpec == /\ TInit
         /\ [][TNext]_allVars
         /\ WF_allVars(OwnerStep)
         /\ WF_allVars(ThreadStep)

----------------------------------------------------------------------------
(* The types, and that loop_ never holds the address of a loop that is not *)
(* there: it is set after the loop is made and cleared before it goes      *)
(* (EventLoopThread.cc:56, :64).                                           *)
TTypeOK == /\ TypeOK
           /\ loopPtr \in BOOLEAN
           /\ ownerAt \in OwnerPoints
           /\ threadAt \in ThreadPoints
           /\ loopPtr => LoopExists

(* As long as no callback has quit the loop itself, the loop startLoop     *)
(* returned exists, and runs or is about to, until the destructor begins   *)
(* to stop it: TcpServer and the pool keep the bare pointer                *)
(* (EventLoopThreadPool.cc:28).                                            *)
ReturnedLoopIsUsable ==
  ownerAt = "running" /\ LoopThread \notin quitters =>
    threadAt = "looping" /\ loopAt # "stopped"

(* startLoop returns: the publication is not lost between the test of      *)
(* loop_ and the sleep (EventLoopThread.cc:32-39, :54-58), unless a        *)
(* callback of the loop quits it at once and loop_ is null again.          *)
StartLoopReturns ==
  (ownerAt = "sem") ~> (ownerAt = "running" \/ LoopThread \in quitters)

(* The unlocked reads of loop_ in the destructor (EventLoopThread.cc:18,   *)
(* :20) are harmless, and the thread is done with the EventLoopThread      *)
(* before it goes (:21, :63), as long as no callback quits the loop: what  *)
(* may still come too late is the wakeup() of the destructor's own quit()  *)
(* (EventLoop.cc:114).                                                     *)
UndefinedOnlyAfterQuit ==
  /\ threadAt = "undefined" => LoopThread \in quitters
  /\ ownerAt = "undefined" =>
       LoopThread \in quitters \/ (Owner \in quitters /\ Owner \in wakeDue)

(* The destructor gets to the end of its join, and not only by the timeout *)
(* of a poll (EventLoop.cc:110-114, EventLoopThread.cc:20-21), unless its  *)
(* wakeup() finds the loop gone, or loop() began after its quit() and has  *)
(* reset quit_ (EventLoop.cc:81).                                          *)
DestructorEnds ==
  (ownerAt = "joining") ~> (ownerAt \in {"destroyed", "undefined"} \/ ~quit)
=============================================================================
