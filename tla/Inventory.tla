----------------------------- MODULE Inventory -----------------------------
(***************************************************************************)
(* easy/recipes/thread/2_1_2MutualDeadLock.cc: Requests register at an     *)
(* Inventory and take themselves off in their destructor, while main()     *)
(* prints the list.  For one request after the other main() starts a       *)
(* thread, calls printAll() and joins the thread.  The sleeps only make    *)
(* some interleavings likelier: here they are all possible.                *)
(*                                                                         *)
(* A request stands for itself, for its mutex and for its thread.          *)
(* requests_ is never shared (nothing calls getDate): no copy is made.     *)
(***************************************************************************)
EXTENDS MutexLock, Naturals

CONSTANTS Requests,          \* as many as main() makes
          main, inventory    \* the main thread; g_inventory

Threads == {main} \cup Requests
Mutexes == {inventory} \cup Requests

ASSUME NamesAssumption == /\ {main, inventory, Nobody} \cap Requests = {}
                          /\ Nobody \notin {main, inventory}

VARIABLES plan,         \* what each thread has left to do
          begun,        \* the requests whose thread1() or thread2() was called
          requests_,    \* the requests listed
          visited,      \* those the loop of printAll() has passed
          freed         \* the requests that are deleted

listVars == <<requests_, visited>>
vars == <<mutex_, holder_, plan, begun, listVars, freed>>

InventoryAdd(r) == Guarded(inventory, << <<"insert", r>> >>)
InventoryRemove(r) == Guarded(inventory, << <<"erase", r>> >>)
PrintRequest(r) == Guarded(r, << <<"print", r>> >>)

(* Mutants: process() also prints the request; printAll() leaves the lock  *)
(* before its loop, as the version in the comment (:102-117) does.         *)
ProcessPrinting(r) == Guarded(r, InventoryAdd(r) \o PrintRequest(r))
PrintAllUnlocked == Guarded(inventory, <<>>) \o << <<"iterate", inventory>> >>

Process(r) == Guarded(r, InventoryAdd(r))
Destructor(r) == Guarded(r, InventoryRemove(r)) \o << <<"free", r>> >>
PrintAll == Guarded(inventory, << <<"iterate", inventory>> >>)

ThreadFunc(r) == Process(r) \o Destructor(r)
Thread1(r) == << <<"start", r>> >> \o PrintAll \o << <<"join", r>> >>

Init == /\ mutex_ = [m \in Mutexes |-> Nobody]
        /\ holder_ = [m \in Mutexes |-> Nobody]
        /\ plan = [t \in Threads |-> <<>>]
        /\ begun = {} /\ requests_ = {} /\ visited = {} /\ freed = {}

At(t, op) == plan[t] # <<>> /\ Head(plan[t])[1] = op
Object(t) == Head(plan[t])[2]
Advance(t) == plan' = [plan EXCEPT ![t] = Tail(@)]

----------------------------------------------------------------------------
Locks(t) == /\ \/ At(t, "acquire") /\ Acquire(t, Object(t))
               \/ At(t, "setHolder") /\ SetHolder(t, Object(t))
            /\ Advance(t)
            /\ UNCHANGED <<begun, listVars, freed>>

Unlocks(t) == /\ \/ At(t, "clearHolder") /\ ClearHolder(Object(t))
                 \/ At(t, "release") /\ Release(Object(t))
              /\ Advance(t)
              /\ UNCHANGED <<begun, listVars, freed>>

Changes(t) == /\ \/ At(t, "insert") /\ requests_' = requests_ \cup {Object(t)}
                 \/ At(t, "erase") /\ requests_' = requests_ \ {Object(t)}
              /\ Advance(t)
              /\ UNCHANGED <<mutex_, holder_, begun, visited, freed>>

(* The loop of printAll() over the list, in the order of addresses, which  *)
(* may be any.                                                             *)
Iterates(t) ==
  /\ At(t, "iterate")
  /\ \/ \E r \in requests_ \ visited : /\ plan' = [plan EXCEPT ![t] = PrintRequest(r) \o @]
                                       /\ visited' = visited \cup {r}
     \/ requests_ \subseteq visited /\ Advance(t) /\ visited' = {}
  /\ UNCHANGED <<mutex_, holder_, begun, requests_, freed>>

Prints(t) == At(t, "print") /\ Advance(t) /\ UNCHANGED <<mutex_, holder_, begun, listVars, freed>>

Frees(t) == /\ At(t, "free")
            /\ freed' = freed \cup {Object(t)}
            /\ Advance(t)
            /\ UNCHANGED <<mutex_, holder_, begun, listVars>>

(* main() calls thread1(), and then thread2(), which does the same.        *)
Calls(t) ==
  /\ t = main /\ plan[main] = <<>>
  /\ \E r \in Requests \ begun :
       /\ plan' = [plan EXCEPT ![main] = Thread1(r)]
       /\ begun' = begun \cup {r}
  /\ UNCHANGED <<mutex_, holder_, listVars, freed>>

Starts(t) == /\ At(t, "start")
             /\ plan' = [plan EXCEPT ![t] = Tail(@), ![Object(t)] = ThreadFunc(Object(t))]
             /\ UNCHANGED <<mutex_, holder_, begun, listVars, freed>>

Joins(t) == /\ At(t, "join")
            /\ plan[Object(t)] = <<>>
            /\ Advance(t)
            /\ UNCHANGED <<mutex_, holder_, begun, listVars, freed>>

Step(t) == \/ Locks(t) \/ Unlocks(t) \/ Changes(t) \/ Iterates(t) \/ Prints(t) \/ Frees(t)
           \/ Calls(t) \/ Starts(t) \/ Joins(t)

Next == \E t \in Threads : Step(t)

(* The scheduler lets every thread that can run go on.                     *)
Safe == Init /\ [][Next]_vars
Spec == Safe /\ \A t \in Threads : WF_vars(Step(t))

----------------------------------------------------------------------------
Instructions == {"acquire", "setHolder", "clearHolder", "release", "insert", "erase", "iterate",
                 "print", "free", "start", "join"} \X (Mutexes \cup Threads)
TypeOK ==
  /\ mutex_ \in [Mutexes -> Threads \cup {Nobody}]
  /\ holder_ \in [Mutexes -> Threads \cup {Nobody}]
  /\ \A m \in Mutexes : holder_[m] \in {Nobody, mutex_[m]}
  /\ plan \in [Threads -> Seq(Instructions)]
  /\ begun \subseteq Requests
  /\ requests_ \subseteq Requests
  /\ visited \subseteq Requests
  /\ freed \subseteq begun

(* isLockedByThisThread() says the truth (Mutex.h:27) in every critical    *)
(* section, whatever other threads lock and unlock: a thread that will     *)
(* clear the record, and is not about to set it, finds itself recorded.    *)
Inside(t, m) ==
  \E i \in DOMAIN plan[t] : /\ plan[t][i] = <<"clearHolder", m>>
                            /\ \A j \in 1..i : plan[t][j] \notin {<<"acquire", m>>, <<"setHolder", m>>}
HolderIsTrue == \A m \in Mutexes : \A t \in Threads :
                  Inside(t, m) => IsLockedBy(t, m) /\ mutex_[m] = t

(* printAll() never touches a request that was deleted, and a request that *)
(* is deleted is neither listed nor locked (the assertion of ~MutexLock,   *)
(* Mutex.h:22): the request takes itself off before it goes (:67).         *)
PrintedIsAlive ==
  /\ requests_ \cap freed = {}
  /\ \A r \in freed : holder_[r] = Nobody
  /\ \A t \in Threads, r \in freed : \A i \in DOMAIN plan[t] :
       plan[t][i] # <<"acquire", r>> /\ plan[t][i] # <<"print", r>>

(* The program ends, or printAll() waits for the mutex of a request whose  *)
(* destructor waits for the mutex printAll() holds: that, which the sleep  *)
(* at :92 is there to show, is the only way it can hang.                   *)
Done == begun = Requests /\ \A t \in Threads : plan[t] = <<>>
WaitsFor(t, m) == At(t, "acquire") /\ Object(t) = m
DestructorWaits(r) == /\ WaitsFor(main, r) /\ mutex_[inventory] = main
                      /\ WaitsFor(r, inventory) /\ mutex_[r] = r
                      /\ r \in requests_
EndsOrDeadlocks == <>(Done \/ \E r \in Requests : DestructorWaits(r))
=============================================================================
