------------------------- MODULE EPollPoller_proofs -------------------------
(***************************************************************************)
(* For any number of channels and descriptors: index_, channels_ and the   *)
(* kernel's epoll set agree after every sequence of operations, and no     *)
(* operation ends the process.                                             *)
(***************************************************************************)
EXTENDS EPollPoller, FiniteSetTheorems, TLAPS

(* The initial state satisfies the inductive invariant.                    *)
LEMMA InitInvariant == Init => IInv
<1> SUFFICES ASSUME Init PROVE IInv
  OBVIOUS
<1> USE DEF Init
<1>1. TypeOK
  BY SizeAssumption, IndexAssumption DEF TypeOK
<1>2. FdsDistinct /\ NeverFatal
  BY DEF FdsDistinct, Live, NeverFatal
<1>3. MapAgrees /\ KernelAgrees
  BY NoneAssumption, IndexAssumption DEF MapAgrees, KernelAgrees
<1> QED
  BY <1>1, <1>2, <1>3 DEF IInv

(* An update, with whatever events, keeps the three records in agreement.  *)
LEMMA UpdateAgrees ==
  ASSUME IInv, NEW c \in Channels, Live(c), NEW ev \in SUBSET Event,
         UpdateChannel(c, ev), UNCHANGED <<fd, capacity>>
  PROVE  IInv'
<1> USE NoneAssumption, IndexAssumption
        DEF IInv, TypeOK, Live, FdsDistinct, MapAgrees, KernelAgrees, NeverFatal, kernel
<1>0. fd[c] \in Fds
  OBVIOUS
<1>1. CASE index[c] \in {kNew, kDeleted}
  <2>1. epollPtr[fd[c]] = None
    BY <1>0, <1>1
  <2>2. /\ epollPtr' = [epollPtr EXCEPT ![fd[c]] = c]
        /\ epollEvents' = [epollEvents EXCEPT ![fd[c]] = ev]
        /\ exited' = exited
        /\ events' = [events EXCEPT ![c] = ev]
        /\ index' = [index EXCEPT ![c] = kAdded]
        /\ channels' = [channels EXCEPT ![fd[c]] = c]
    BY <1>0, <1>1, <2>1 DEF UpdateChannel, EpollAdd
  <2>3. QED
    BY <1>0, <1>1, <2>1, <2>2
<1>2. CASE index[c] = kAdded /\ ev = {}
  <2>1. /\ epollPtr' = [epollPtr EXCEPT ![fd[c]] = None]
        /\ epollEvents' = [epollEvents EXCEPT ![fd[c]] = {}]
        /\ exited' = exited
        /\ events' = [events EXCEPT ![c] = {}]
        /\ index' = [index EXCEPT ![c] = kDeleted]
        /\ channels' = channels
    BY <1>2 DEF UpdateChannel, EpollDel
  <2>2. QED
    BY <1>0, <1>2, <2>1
<1>3. CASE index[c] = kAdded /\ ev # {}
  <2>1. epollPtr[fd[c]] = c
    BY <1>0, <1>3
  <2>2. /\ epollPtr' = [epollPtr EXCEPT ![fd[c]] = c]
        /\ epollEvents' = [epollEvents EXCEPT ![fd[c]] = ev]
        /\ exited' = exited
        /\ events' = [events EXCEPT ![c] = ev]
        /\ UNCHANGED <<index, channels>>
    BY <1>0, <1>3, <2>1 DEF UpdateChannel, EpollMod
  <2>3. QED
    BY <1>0, <1>3, <2>1, <2>2
<1>4. QED
  BY <1>1, <1>2, <1>3

(* Every operation keeps the inductive invariant.                          *)
LEMMA Inductive == IInv /\ [Next]_vars => IInv'
<1> SUFFICES ASSUME IInv, [Next]_vars
             PROVE  IInv'
  OBVIOUS
<1>1. ASSUME NEW c \in Channels, NEW e \in Event, Enable(c, e) \/ Disable(c, e)
      PROVE  IInv'
  <2>1. events[c] \cup {e} \in SUBSET Event /\ events[c] \ {e} \in SUBSET Event
    BY DEF IInv, TypeOK
  <2>2. QED
    BY <1>1, <2>1, UpdateAgrees DEF Enable, Disable
<1>2. ASSUME NEW c \in Channels, DisableAll(c)
      PROVE  IInv'
  BY <1>2, UpdateAgrees DEF DisableAll
<1> USE NoneAssumption, IndexAssumption
        DEF IInv, TypeOK, Live, FdsDistinct, MapAgrees, KernelAgrees, NeverFatal, kernel
<1>3. ASSUME NEW c \in Channels, RemoveChannel(c)
      PROVE  IInv'
  <2>1. CASE index[c] = kAdded
    BY <1>3, <2>1 DEF RemoveChannel, EpollDel
  <2>2. CASE index[c] # kAdded
    BY <1>3, <2>2 DEF RemoveChannel
  <2>3. QED
    BY <2>1, <2>2
<1>4. ASSUME NEW c \in Channels, Construct(c)
      PROVE  IInv'
  <2>1. PICK f \in Fds : /\ \A d \in Channels : fd[d] # f
                         /\ fd' = [fd EXCEPT ![c] = f]
    BY <1>4 DEF Construct
  <2>2. channels[f] = None /\ epollPtr[f] = None
    BY <2>1
  <2>3. QED
    BY <1>4, <2>1, <2>2 DEF Construct
<1>5. ASSUME NEW c \in Channels, Destroy(c)
      PROVE  IInv'
  BY <1>5 DEF Destroy
<1>6. CASE Poll
  <2>1. capacity' \in Nat \ {0}
    BY <1>6 DEF Poll
  <2>2. QED
    BY <1>6, <2>1 DEF Poll
<1>7. CASE UNCHANGED vars
  BY <1>7 DEF vars
<1>8. QED
  BY <1>1, <1>2, <1>3, <1>4, <1>5, <1>6, <1>7 DEF Next

(* The variables stay well-typed.                                          *)
THEOREM TypeCorrect == Spec => []TypeOK
<1>1. IInv => TypeOK
  BY DEF IInv
<1>2. QED
  BY <1>1, InitInvariant, Inductive, PTL DEF Spec

(* After any sequence of updates, removals, closes and reopenings, index_, *)
(* the poller's map and the epoll set agree on who is registered.          *)
THEOREM Registration == Spec => []RegistrationAgrees
<1>1. IInv => RegistrationAgrees
  BY DEF IInv, RegistrationAgrees
<1>2. QED
  BY <1>1, InitInvariant, Inductive, PTL DEF Spec

(* No epoll_ctl fails in a way that ends the process.                      *)
THEOREM NoFatalError == Spec => []NeverFatal
<1>1. IInv => NeverFatal
  BY DEF IInv
<1>2. QED
  BY <1>1, InitInvariant, Inductive, PTL DEF Spec

(* events_ doubles only when epoll_wait filled it, with descriptors that   *)
(* are registered: its size stays below twice their number.                *)
LEMMA CapacityInductive == IInv /\ CapacityBounded /\ [Next]_vars => CapacityBounded'
<1> SUFFICES ASSUME IInv, CapacityBounded, [Next]_vars, capacity' # capacity
             PROVE  CapacityBounded'
  BY DEF CapacityBounded
<1>1. Poll
  BY DEF Next, Enable, Disable, DisableAll, RemoveChannel, Construct, Destroy, vars
<1> DEFINE registered == {f \in Fds : epollPtr[f] # None}
<1>2. PICK numEvents \in 0..Cardinality(registered) :
        capacity' = IF numEvents = capacity THEN 2 * capacity ELSE capacity
  BY <1>1 DEF Poll
<1>3. /\ Cardinality(registered) <= Cardinality(Fds)
      /\ Cardinality(registered) \in Nat /\ Cardinality(Fds) \in Nat
  <2>1. registered \in SUBSET Fds
    OBVIOUS
  <2> HIDE DEF registered
  <2> QED
    BY <2>1, FdsAssumption, FS_Subset, FS_CardinalityType
<1>4. capacity = numEvents /\ capacity' = 2 * capacity
  BY <1>2
<1> HIDE DEF registered
<1> QED
  BY <1>2, <1>3, <1>4 DEF CapacityBounded

(* The list of events never grows past twice the number of descriptors,    *)
(* from whatever size it starts with.                                      *)
THEOREM CapacityIsBounded == Spec => []CapacityBounded
<1>1. Init => CapacityBounded
  BY SizeAssumption DEF Init, CapacityBounded
<1>2. QED
  BY <1>1, InitInvariant, Inductive, CapacityInductive, PTL DEF Spec
=============================================================================
