----------------------------- MODULE TaskQueue -----------------------------
(***************************************************************************)
(* What an EventLoop promises the threads that hand it work, with the      *)
(* poller, the eventfd, the swapped batch and the flags forgotten: one     *)
(* FIFO of tasks, each run once and by the loop's thread, in the order in  *)
(* which queueInLoop took them, until a requested stop takes effect.       *)
(* EventLoop implements this module (EventLoop!Promise).                   *)
(***************************************************************************)
EXTENDS Sequences

CONSTANT Functors

VARIABLES given,    \* the functors some thread has handed over
          todo,     \* taken by queueInLoop and not yet run, oldest first
          ran,      \* in the order in which the loop's thread ran them
          closing,  \* a stop has been requested of the running loop
          open      \* the loop has not stopped

vars == <<given, todo, ran, closing, open>>

Init == /\ given = {}
        /\ todo = <<>>
        /\ ran = <<>>
        /\ closing = FALSE
        /\ open = TRUE

Give(f) == /\ f \in Functors \ given
           /\ given' = given \cup {f}

Submit(f) == /\ Give(f)
             /\ todo' = Append(todo, f)
             /\ UNCHANGED <<ran, closing, open>>

(* runInLoop on the loop's own thread: the task overtakes the queue.       *)
Call(f) == /\ Give(f)
           /\ ran' = Append(ran, f)
           /\ UNCHANGED <<todo, closing, open>>

Execute == /\ open
           /\ todo # <<>>
           /\ ran' = Append(ran, Head(todo))
           /\ todo' = Tail(todo)
           /\ UNCHANGED <<given, closing, open>>

RequestStop == /\ closing' = TRUE
               /\ UNCHANGED <<given, todo, ran, open>>

Stop == /\ closing
        /\ open
        /\ open' = FALSE
        /\ UNCHANGED <<given, todo, ran, closing>>

Next == \/ \E f \in Functors : Submit(f) \/ Call(f)
        \/ Execute
        \/ RequestStop
        \/ Stop

Safe == Init /\ [][Next]_vars

Spec == Safe /\ WF_vars(Execute) /\ WF_vars(Stop)
=============================================================================
