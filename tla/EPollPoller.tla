---------------------------- MODULE EPollPoller ----------------------------
(***************************************************************************)
(* net/Channel.{h,cc}, net/poller/EPollPoller.cc: the channels of one loop *)
(* and the poller that keeps them registered with the kernel.  Everything  *)
(* here runs on the loop's thread, so an operation is one step; what can   *)
(* go wrong is a long sequence of legal calls after which three records of *)
(* one fact disagree: the channel's index_ and events_, the poller's map   *)
(* channels_, and the kernel's epoll set, in which descriptor numbers are  *)
(* reused as sockets close.                                                *)
(***************************************************************************)
EXTENDS Naturals, FiniteSets

CONSTANTS
  Channels,           \* the addresses a Channel can be constructed at
  Fds,                \* the descriptor numbers, below the process's limit
  None,               \* no channel, no descriptor
  InitEventListSize,  \* kInitEventListSize
  kNew, kAdded, kDeleted

ASSUME NoneAssumption == None \notin Channels \cup Fds
ASSUME FdsAssumption == IsFiniteSet(Fds)
ASSUME IndexAssumption == kNew # kAdded /\ kNew # kDeleted /\ kAdded # kDeleted
ASSUME SizeAssumption == InitEventListSize \in Nat \ {0}

Event == {"read", "write"}

VARIABLES
  fd,            \* fd_ of each constructed Channel, None where there is none
  events,        \* events_
  index,         \* index_
  channels,      \* channels_ of the poller, None where the map has no entry
  epollPtr,      \* the kernel's epoll set: data.ptr by descriptor
  epollEvents,   \*   and the events registered with it
  capacity,      \* events_.size()
  exited         \* LOG_FATAL ended the process

kernel == <<epollPtr, epollEvents>>
vars == <<fd, events, index, channels, kernel, capacity, exited>>

Init == /\ fd = [c \in Channels |-> None]
        /\ events = [c \in Channels |-> {}]
        /\ index = [c \in Channels |-> kNew]
        /\ channels = [f \in Fds |-> None]
        /\ epollPtr = [f \in Fds |-> None]
        /\ epollEvents = [f \in Fds |-> {}]
        /\ capacity = InitEventListSize
        /\ exited = FALSE

Live(c) == fd[c] # None

----------------------------------------------------------------------------
(* epoll_ctl on the descriptor of c, asking for ev: EEXIST and ENOENT are  *)
(* the errors a wrong registration state leads to.  They end the process,  *)
(* but for a failed DEL, which is logged.                                  *)

EpollAdd(c, ev) ==
  IF epollPtr[fd[c]] = None
  THEN /\ epollPtr' = [epollPtr EXCEPT ![fd[c]] = c]
       /\ epollEvents' = [epollEvents EXCEPT ![fd[c]] = ev]
       /\ UNCHANGED exited
  ELSE exited' = TRUE /\ UNCHANGED kernel

(* Mutant: the events asked for do not reach the kernel.                   *)
EpollModStale(c, ev) == UNCHANGED <<kernel, exited>>

EpollMod(c, ev) ==
  IF epollPtr[fd[c]] # None
  THEN /\ epollPtr' = [epollPtr EXCEPT ![fd[c]] = c]
       /\ epollEvents' = [epollEvents EXCEPT ![fd[c]] = ev]
       /\ UNCHANGED exited
  ELSE exited' = TRUE /\ UNCHANGED kernel

EpollDel(c) ==
  /\ epollPtr' = [epollPtr EXCEPT ![fd[c]] = None]
  /\ epollEvents' = [epollEvents EXCEPT ![fd[c]] = {}]
  /\ UNCHANGED exited

----------------------------------------------------------------------------
(* updateChannel, called with the new events_ of the channel.              *)
UpdateChannel(c, ev) ==
  /\ events' = [events EXCEPT ![c] = ev]
  /\ \/ /\ index[c] \in {kNew, kDeleted}
        /\ channels' = IF index[c] = kNew THEN [channels EXCEPT ![fd[c]] = c] ELSE channels
        /\ index' = [index EXCEPT ![c] = kAdded]
        /\ EpollAdd(c, ev)
     \/ /\ index[c] = kAdded
        /\ ev = {}
        /\ index' = [index EXCEPT ![c] = kDeleted]
        /\ EpollDel(c)
        /\ UNCHANGED channels
     \/ /\ index[c] = kAdded
        /\ ev # {}
        /\ EpollMod(c, ev)
        /\ UNCHANGED <<index, channels>>

(* enableReading, enableWriting: events_ |= kReadEvent, kWriteEvent.       *)
Enable(c, e) == /\ Live(c)
                /\ UpdateChannel(c, events[c] \cup {e})
                /\ UNCHANGED <<fd, capacity>>

(* disableReading, disableWriting.                                         *)
Disable(c, e) == /\ Live(c)
                 /\ UpdateChannel(c, events[c] \ {e})
                 /\ UNCHANGED <<fd, capacity>>

DisableAll(c) == /\ Live(c)
                 /\ UpdateChannel(c, {})
                 /\ UNCHANGED <<fd, capacity>>

(* Mutant: the channel is forgotten and not taken out of the epoll set.    *)
RemoveChannelNoDel(c) ==
  /\ Live(c)
  /\ channels' = [channels EXCEPT ![fd[c]] = None]
  /\ index' = [index EXCEPT ![c] = kNew]
  /\ UNCHANGED <<fd, events, kernel, exited, capacity>>

RemoveChannel(c) ==
  /\ Live(c)
  /\ channels' = [channels EXCEPT ![fd[c]] = None]
  /\ IF index[c] = kAdded THEN EpollDel(c) ELSE UNCHANGED <<kernel, exited>>
  /\ index' = [index EXCEPT ![c] = kNew]
  /\ UNCHANGED <<fd, events, capacity>>

(* A socket is opened, under a number not in use, and its Channel built.   *)
Construct(c) ==
  /\ ~Live(c)
  /\ \E f \in Fds : /\ \A d \in Channels : fd[d] # f
                    /\ fd' = [fd EXCEPT ![c] = f]
  /\ events' = [events EXCEPT ![c] = {}]
  /\ index' = [index EXCEPT ![c] = kNew]
  /\ UNCHANGED <<channels, kernel, capacity, exited>>

(* The Channel and its descriptor go, after remove(): connectDestroyed,    *)
(* ~Acceptor and ~EventLoop all end in it.  close() drops the descriptor   *)
(* from the epoll set.                                                     *)
Destroy(c) ==
  /\ Live(c)
  /\ index[c] = kNew
  /\ epollPtr' = [epollPtr EXCEPT ![fd[c]] = None]
  /\ epollEvents' = [epollEvents EXCEPT ![fd[c]] = {}]
  /\ fd' = [fd EXCEPT ![c] = None]
  /\ UNCHANGED <<events, index, channels, capacity, exited>>

(* Mutants: the list also shrinks, the list grows at every poll.           *)
PollShrinks ==
  /\ \E numEvents \in 0..capacity :
       capacity' = IF numEvents = capacity THEN capacity ELSE capacity \div 2
  /\ UNCHANGED <<fd, events, index, channels, kernel, exited>>
PollAlwaysGrows ==
  /\ capacity' = 2 * capacity
  /\ UNCHANGED <<fd, events, index, channels, kernel, exited>>

(* poll: epoll_wait reports any number of the registered descriptors (a    *)
(* hangup or an error whatever the events), as many as fit into events_.   *)
(* What becomes of the reported channels is TcpServer's business.          *)
Poll ==
  /\ \E numEvents \in 0..Cardinality({f \in Fds : epollPtr[f] # None}) :
       /\ numEvents <= capacity
       /\ capacity' = IF numEvents = capacity THEN 2 * capacity ELSE capacity
  /\ UNCHANGED <<fd, events, index, channels, kernel, exited>>

Next == /\ ~exited
        /\ \/ Poll
           \/ \E c \in Channels :
                \/ \E e \in Event : Enable(c, e) \/ Disable(c, e)
                \/ DisableAll(c) \/ RemoveChannel(c)
                \/ Construct(c) \/ Destroy(c)

Spec == Init /\ [][Next]_vars

----------------------------------------------------------------------------
TypeOK == /\ fd \in [Channels -> Fds \cup {None}]
          /\ events \in [Channels -> SUBSET Event]
          /\ index \in [Channels -> {kNew, kAdded, kDeleted}]
          /\ channels \in [Fds -> Channels \cup {None}]
          /\ epollPtr \in [Fds -> Channels \cup {None}]
          /\ epollEvents \in [Fds -> SUBSET Event]
          /\ capacity \in Nat \ {0}
          /\ exited \in BOOLEAN

(* One descriptor, one channel.                                            *)
FdsDistinct == \A c, d \in Channels : Live(c) /\ fd[c] = fd[d] => c = d

(* The poller's map holds a channel from its first update to its removal,  *)
(* under the channel's descriptor.                                         *)
MapAgrees == \A c \in Channels, f \in Fds :
               channels[f] = c <=> fd[c] = f /\ index[c] # kNew

(* The kernel has exactly the channels whose index_ is kAdded, with the    *)
(* events_ they have now.                                                  *)
KernelAgrees ==
  \A c \in Channels, f \in Fds :
    /\ epollPtr[f] = c <=> fd[c] = f /\ index[c] = kAdded
    /\ epollPtr[f] = c => epollEvents[f] = events[c]

(* After any sequence of updates, removals, closes and reopenings, index_, *)
(* channels_ and the epoll set tell one story (EPollPoller.cc:39-79).      *)
RegistrationAgrees == MapAgrees /\ KernelAgrees

(* No update() ends the process in LOG_FATAL (EPollPoller.cc:91-101).      *)
NeverFatal == ~exited

(* events_ grows to at most twice the number of descriptors.               *)
CapacityBounded == capacity <= InitEventListSize \/ capacity <= 2 * Cardinality(Fds)

(* The inductive invariant.                                                *)
IInv == TypeOK /\ FdsDistinct /\ MapAgrees /\ KernelAgrees /\ NeverFatal
=============================================================================
