# ZFWTinyMuduo in TLA+

ZFWTinyMuduo is a small muduo-style TCP server library in C++: one event loop per
thread, descriptors watched through epoll, and functors handed from thread to
thread. This directory models how its threads, loops, channels and connections work
together, checks the models with TLC and proves the central facts with TLAPS.

Paths are relative to `src/`. `PROJECT.json` maps every definition to the lines it
stands for.

## 1. Inventory

### The parts

| Part | State | Operations | Correct when |
|---|---|---|---|
| **EventLoop** (`net/EventLoop.*`) | `quit_`, `pendingFunctors_` (under `mutex_`), `callingPendingFunctors_`, the eventfd `wakeupFd_`, `activateChannels_` | any thread: `runInLoop`, `queueInLoop`, `quit`, `wakeup`; its own thread: `loop`, `handleRead`, `doPendingFunctors` | a functor handed over runs once, in order, on the loop's thread, without waiting for a timeout; a quit stops the loop; the loop never blocks on work it has |
| **Channel** (`net/Channel.*`) | `fd_`, `events_`, `revents_`, `index_`, `tie_` | `enable*`, `disable*`, `remove`, `handleEvent` | it is dispatched only while its owner lives |
| **EPollPoller** (`net/poller/EPollPoller.*`) | `channels_`, `events_` (the list for `epoll_wait`), the kernel's epoll set | `poll`, `updateChannel`, `removeChannel`, `update` | `index_`, `channels_` and the kernel agree; no `epoll_ctl` fails fatally |
| **Thread, EventLoopThread** (`base/Thread.*`, `net/EventLoopThread.*`) | `loop_` (under `mutex_`), a condition variable, a semaphore, the thread | `startLoop`, `threadFunc`, the destructor | `startLoop` returns a loop that exists; the destructor returns, and after it the thread is over |
| **EventLoopThreadPool** (`net/EventLoopThreadPool.*`) | `threads_`, `loops_`, `next_` | `start`, `getNextLoop` | connections are dealt in turn |
| **Acceptor, Socket** (`net/Acceptor.*`, `net/Socket.*`) | the listening descriptor and its channel | `listen`, `handleRead` | each accepted descriptor is handed on or closed |
| **TcpServer** (`net/TcpServer.*`) | `connections_`, `nextConnId_` | `newConnection`, `removeConnection(InLoop)`, the destructor | a connection is in the map from accept to close; none is leaked or freed under a loop that still uses it |
| **TcpConnection** (`net/TcpConnection.*`) | `state_`, its channel and socket, input and output buffers | `connectEstablished`, `handleRead`, `handleWrite`, `handleClose`, `connectDestroyed`, `send`, `shutdown` | the user hears of it up once and then down once; what is sent is written once and in order |
| **Buffer** (`net/Buffer.*`) | a vector and two indices | `append`, `retrieve*`, `readFd`, `writeFd` | a FIFO of bytes; indices stay ordered and inside the vector |
| **Logger** (`base/Logger.*`) | one singleton with a level | `setLogLevel`, `log` | a line carries its own level |
| **MutexLock, Condition** (`base/Mutex.h`, `base/Condition.h`) | the mutex, `holder_` | `lock`, `unlock`, `wait`, `notify` | `holder_` never names a thread that does not hold it |
| **Value types** (`InetAddress`, `Timestamp`, `CurrentThread`) | - | conversions | - |
| **Object pool** (`easy/recipes/thread/1_11Object_Pool.cc`) | a map from names to (weak) pointers, custom deleters | `get`, the deleter | all users of a name share one object; the deleter and the factory may go in any order |
| **Mutual deadlock** (`easy/recipes/thread/2_1_2MutualDeadLock.cc`) | a list of requests, a mutex of its own and one per request | `add`, `remove`, `printAll`, `process`, `~Request` | what is printed is alive; it hangs in one way only |
| **Other recipes** (`easy/recipes`) | exercises: a counter, a singleton, an observer, a copy-on-write list, a latch, a queue | one lock around one access | - |
| **Echo server** (`test/testServer.cc`, `easy/testmuduo`) | - | the user's callbacks | the library's user: its callbacks say what the models must allow |

### How they interact

- A **loop's thread** calls its poller, the poller calls no one; the loop calls
  `Channel::handleEvent` of each active channel, and the channel its owner: acceptor,
  connection or the loop itself (the eventfd).
- **Other threads** only push functors: `runInLoop` and `queueInLoop` lock `mutex_`,
  append, and write to the eventfd. Every crossing between the base loop and an io
  loop is such a push.
- An **accepted connection** starts on the base loop (`newConnection`), is dealt to an io loop
  (`connectEstablished`), closes there (`handleClose`), goes back to the base loop
  (`removeConnectionInLoop`), and ends on the io loop (`connectDestroyed`).
- **Ownership** is by `shared_ptr`: the server's map, functors bound to one, the guard
  of `Channel::handleEvent`, and what the user keeps. Pollers and lists of active
  channels hold bare pointers.
- **Start and stop**: the owner of an `EventLoopThread` sleeps on a condition variable
  until the thread has published its loop; the destructor quits the loop and joins.

### What is hard

Threads interleave between a push and the wakeup that follows it, between the store to
`quit_` and that wakeup, between the test and the set of `state_`. Bare pointers
outlive what they point at if an order is wrong. Three records of one registration have
to agree while descriptor numbers are reused. Functors are dropped when a loop ends.
Each of these hazards is listed in `PROJECT.json` with its line and the properties
that watch it; nothing is persisted, so crashes and restarts are no subject here.

## 2. The modules

```
TaskQueue  <--implements--  EventLoop  <--EXTENDS--  EventLoopThread
                               |
                        (queue, batch and quit, taken as TaskQueue promises them)
                               v
EPollPoller --(registration)--> TcpServer --(one connection, its sends)--> ConnectionOutput

Buffer, StockFactory        (stand alone)
MutexLock  <--EXTENDS--  Inventory
```

**`TaskQueue`** is what a loop promises: one FIFO of tasks, each run once and in order,
until a requested stop takes effect. It knows no poller, eventfd, batch or flag.

**`EventLoop`** is `net/EventLoop.cc`. `pendingFunctors`, `callingPendingFunctors`,
`quit`, `activeChannels` are the members of those names, `functors` is the batch that
`doPendingFunctors` swapped out, `wakeupFd` the counter of the eventfd. `loopAt` is
where the loop's thread is; `wakeDue` holds the threads between a push (or `quit_ =
true`) and the `wakeup()` they owe, which is where threads interleave. `QueueInLoop`,
`RunInLoop`, `Quit`, `Wakeup` are the calls; `Loop`, `CheckQuit`, `Poll*`,
`HandleRead`, `BeginHandler`/`EndHandler`, `SwapPending`, `RunFunctor`/`EndFunctor`,
`EndPending` are the steps of `loop()`. Callbacks and functors may call the loop again.

**`EPollPoller`** is the registration of channels: `fd`, `events`, `index` per channel,
the map `channels`, the kernel's set `epollPtr`/`epollEvents` by descriptor, and the
size of the event list. All of it runs on one thread, so one operation is one step;
channels and descriptors are constructed and destroyed again, under reused numbers.

**`EventLoopThread`** extends `EventLoop` with `threadFunc` (`threadAt`), the owner's
side (`ownerAt`) and `loop_` (`loopPtr`). Each critical section is one step, except the last
one: the destructor reads `loop_` without the mutex, so `Clear` and `Unlock` are apart. The
destructor's test of `loop_` (`ReadLoop`), its second read for the call (`ReadAgain`), its
`quit()` (`QuitLoop`), the `wakeup()` in it (`OwnerWakes`) and the join (`Join`) are five
steps. Whoever uses a loop, a null pointer or an `EventLoopThread` that is gone is
`"undefined"` from then on: the owner in `ReadAgain`, `CallFindsGone` and `OwnerUsesGone`,
the thread in `Clear` and `Unlock`.

**`TcpServer`** composes the acceptor, the server's map, the pool's dealing, the
connections and all loops. A loop is reduced to what `TaskQueue` promises of it: its
queue, its batch, its list of active channels and its phase. `Alive` is the reference
count of a connection; `chan` is the registration of its channel, the four states that
`EPollPoller` shows consistent; `state` is `state_`. `Users` are the threads without a loop:
the `shutdown()` or `send()` of one is split between the test of `state_` (`UserCheck`) and
what follows (`UserAct`). Of a `sendInLoop` that finds its connection not disconnected only
the update of the channel is here (`KeepOutput`); if the connection had been closed before,
it is `ResumeOutput`, and the history variable `resumed` remembers which connections that
happened to (section 4). `server` follows `~TcpServer`, the joins of the pool and `~EventLoop` of
the base loop. `ups` and `downs` count the calls of the user's connection callback.

**`Buffer`** is `net/Buffer.*` as it is: `size`, `bytes`, `readerIndex`, `writeIndex` are
the members, and each function of the class (`Retrieve`, `MakeSpace`, `Append`, `ReadFd`
and the rest) is an operator from one value of the members to the next. The state
machine runs them in any order on a stream whose n-th byte is `n`, so that a byte in the
wrong place shows. `put` and `taken` are where the stream stands, `peak` the most the
buffer held. `overrun` remembers that `readFd` received more than would fit: the code
then writes past the vector, which is undefined, and appends bytes of `extrabuf` that
were not received; the model makes them `0`, the byte that is never right. Every other
property is stated for what the defined part of the program does.

**`ConnectionOutput`** is the sending side of one connection, which `TcpServer` leaves
out. `state`, `events`, `out` are `state_`, the channel's `events_` and `outputBuffer_`;
`writing` is the `write()` the loop's thread is inside of. Accepted sockets are blocking,
so that call is not one step: `KernelCopies` takes what fits into the kernel's buffer,
`WriteReturns` ends it, `WriteInterrupted` ends it early (a signal), `WriteFails` after a
reset; `SendInLoop`, `AfterSend`, `AfterFlush` are the code before and after it. Bytes are
numbered as `sendInLoop` takes them, so that a byte lost, doubled or overtaken shows; a byte
read from a caller's string that is gone is `0`. A send may be of no bytes: it changes no
byte and no buffer, but it calls `write()`, with its errors, and completes. A foreign `send()` is a test of `state_`,
a push, and the caller's string going away (`StringGoes`) at any time after. The peer
reads, stalls or resets. `LeftoverEvent` is what `sendInLoop` registers for leftover
output: the code says reading, its comment writing.

**`StockFactory`** is the object pool in its four versions (`version`): a map of strong
pointers, a map of weak ones, a deleter bound to a bare `this`, and one bound to a weak
pointer. `holds` is who has a `shared_ptr` to which stock. The last reference is dropped
without the mutex, and the deleter starts after it: `pc`, `dying` and `keeps` follow each
thread through the deleter while others get the same name again or drop the factory.

**`MutexLock`** is `base/Mutex.h` as instructions: to lock is to acquire and then to record
the holder, to unlock is to forget the holder and then to release. **`Inventory`** is
the recipe as plans made of such instructions, one plan per thread, any interleaving of
which may happen. `Calls` is `main()` calling `thread1()` and then `thread2()`, each of
which starts a request's thread, prints the list and joins the thread; `Iterates` puts
the `print()` of a listed request not yet `visited` in front of the plan, in any order.
`begun` and `freed` are the requests whose thread was begun and those deleted.

The `MC*` modules name the model values and the sequences; the `*_proofs`
modules hold theorems. Definitions marked "Mutant" restate an operation with a
plausible bug; no specification uses them. Each property was seen to fail under one.

## 3. The runs

| Run | Instance | Shows |
|---|---|---|
| `loop` | 2 foreign threads, 3 functors, 1 socket | no wakeup is missed (`NeverSleepsOnWork`); the loop implements `TaskQueue` with its liveness (`Implements`) |
| `poller` | 3 channels on 2 descriptor numbers, list of size 1 | `RegistrationAgrees`, `NeverFatal`, `CapacityBounded` |
| `buffer` | a vector of 1 + 2 bytes, at most 4 bytes at a time, a stream of 11 | a FIFO of bytes: `LengthKept`, `Fifo`, `GrowthBounded` |
| `buffer_read_fd` | the same | *violation*: a read of more than fits keeps bytes that were not received |
| `thread` | owner and loop thread, 3 functors, one of them queued in the init callback; callbacks may quit | the handshake and the stop: `ReturnedLoopIsUsable`, `UndefinedOnlyAfterQuit`, `StartLoopReturns`, `DestructorEnds` |
| `server` | base loop and 2 io loops, 2 connections, `shutdown()` from callbacks and a foreign thread, the server destroyed once the base loop has ended and foreign calls are done | `PollerPointsToLive`, `ActiveIsLive`, `GoneWasReported`, `RoundRobin` |
| `server_calls` | 1 io loop, 1 connection, 2 foreign threads with `send()` and `shutdown()`, `shutdown()` from callbacks, the server destroyed likewise | `PollerPointsToLive`, `UpThenDownOnce`, and the liveness `ClosedIsFreed`, `AcceptedIsEstablished` |
| `server_bare_this` | 1 io loop, 1 connection, foreign `shutdown()` | *violation*: a functor bound to a bare `this` runs on a freed connection |
| `output` | 3 bytes in sends of 0, 1 or 2, a kernel buffer of 1 byte, a mark of 2, each choice of callbacks | `StreamIntact`, `CompleteMeansWritten`, `HighWaterOnce`, `ClosedAfterOutput`, and the liveness `AcceptedIsDelivered` |
| `output_lost` | the same | *violation*: the write end closes while output waits |
| `stock` | 2 threads, 2 names, 3 objects, all four versions | `OneStockPerKey`, `NoStaleEntry`, `OnlyBareThisCrashes`, and the liveness `FactoryDies` |
| `inventory` | `main()` as it is: 2 requests | `HolderIsTrue`, `PrintedIsAlive`, and the liveness `EndsOrDeadlocks` |

`CHECK_DEADLOCK FALSE` stands where the system does stop: a loop that has quit, a
thread that was joined, a server that was destroyed. The poller never stops and is
checked for deadlock, and so is the buffer, where taking nothing is always possible. The
mutual deadlock of the recipe is what it is there to show; `EndsOrDeadlocks` says it is
the only way `main()` does not end.

### Bounds, and why they are enough

- *EventLoop*: every functor is handed over once and every thread calls `quit` once.
  A missed wakeup needs one push between two steps of the loop; three functors allow
  one in the batch, one queued and one pushed by a callback, and two foreign threads
  allow both to owe a wakeup. The theorems of section 5 lift the bound for safety.
- *EPollPoller*: two descriptor numbers for three channel addresses make reuse of both
  happen; a list of size 1 makes it fill and grow.
- *Buffer*: a vector of three bytes fills, slides over itself and grows within a few
  operations; 11 bytes let it do so several times, with takes in between. The indices
  meet every boundary: empty, full, a slide by one byte, a take of all but one.
- *TcpServer*: `Conns` accepts, and `MaxQueued`, the number of functors queued when a foreign call
  begins. Two connections are enough for one to be active while another's handler runs,
  and for dealing to wrap around two loops; connections do not touch each other
  otherwise. In `server_calls` one connection is enough for the same reason, and two threads
  with a queue of three let a `send()` of one come before, into and after a `shutdown()` of
  the other, the close and `connectDestroyed`. `ups` and `downs` grow without a bound of their own but stay small. The
  theorems of section 5 lift these bounds for the lifecycle.
- *ConnectionOutput*: a kernel buffer smaller than a send makes every `write()` wait;
  three bytes in sends of up to two make output wait behind output and cross the mark. It
  never comes back below: with `LeftoverEvent` as coded nothing that waits is written. Sends
  of nothing are unlimited, so they begin with fewer than `MaxQueued` functors in the
  queue. The theorems lift the bounds for what is not liveness.
- *StockFactory*: one thread can be in the deleter of a stock while the other gets its
  name again; three objects allow an old and a new stock of one name beside another name.
- *Inventory*: two requests are the whole of `main()`; the theorems are for any number.
- Symmetry is used over channels, descriptors and connections, in runs without
  temporal properties only.

### Fairness

The operating system runs every thread, callbacks return, and mutexes are handed on:
weak fairness of each thread's own steps (`LoopStep`, `Wakeup(t)`, `ThreadStep`,
`OwnerStep`, `LoopStep(l)`, `Deleter(t)`, `Step(t)`). No call, no input and no end of a
connection is ever forced, and no signal. `PeerReads` in `ConnectionOutput` is fair
because the peer may stall instead, at any moment, and then no claim is made. In
`EventLoop` and `EventLoopThread` a poll that ends by its 10 s timeout gets none, so that a functor or a quit that is only noticed by the timeout counts as missed;
nor does one that ends with sockets only (`PollIo`), which may fill the list of events and
leave the wakeup to the next poll. In `TcpServer` a poll
always returns (timeout or not): missed wakeups are `EventLoop`'s subject.

## 4. What the violations say, and what the runs do not

Each violation is a finding in `PROJECT.json`, with the line it contradicts.

Some limits of the passing properties come from the code as well.

- *Early functors.* A functor the loop's own thread queues before it calls `loop()` wakes
  nobody; it waits for the first event or timeout. `NeverSleepsOnWork` leaves it out
  (`EarlyFunctors`).
- *An early quit.* `loop()` begins with `quit_ = false`. A destructor that quits the loop
  before its thread got there waits for ever; that is the exception `~quit` of
  `DestructorEnds`, which therefore does not catch it.
- *A late wakeup.* `quit()` stores `quit_` and then calls `wakeup()`. The loop may see the
  store, return and be destroyed in between. `CallFindsGone` is that step, and
  `UndefinedOnlyAfterQuit` names it as the one the destructor can come to by itself.
- *Two reads of `loop_`.* Where a callback quits the loop, the thread can clear `loop_`
  between the destructor's test and the read for the call (`EventLoopThread.cc:18`, `:20`),
  or destroy the loop before `quit_` is stored: a call through null or a dead pointer. If it
  clears it before the test, the destructor does not join, and the thread ends under a mutex
  and an object that may be gone. The run reaches each of these; `UndefinedOnlyAfterQuit`
  says that only such a quit leads there.
- *A short loop.* `StartLoopReturns` makes no claim when a callback quits its own loop at
  once: `threadFunc` clears `loop_` before the owner looked and `startLoop` waits for ever.
- *Dropped functors.* A loop that ends drops its queue. When the server is destroyed,
  `connectDestroyed` of a connection may be among what is dropped; `GoneWasReported` is
  about channels that did leave their poller, and allows the one case in which
  `connectDestroyed` does not call back: a connection that was shutting down.
- *A send after a late shutdown.* `shutdown()` tests `state_` and stores it in two steps
  (`TcpConnection.cc:245-247`), and so can put `kDisconnecting` over the `kDisconnected`
  that the loop has just set. A `send()` that was queued, or had passed its own test, then
  leads to a `sendInLoop` that is not turned away at `:168` and registers the channel anew.
  The connection is closed, and reported, a second time. With two foreign threads the
  `send()` may be pushed behind `connectDestroyed`: the poller is then left with the
  channel of a connection that is freed. `server_calls` reaches all of this
  (`ResumeOutput`). `PollerPointsToLive`, `ActiveIsLive` and `UpThenDownOnce` are false
  without their exception for `resumed`; with it they say, for any calls of any number of
  threads, that this race alone leads there. They show the accident confined, not absent.
- *The caller's string.* A foreign `send()` queues the address of the caller's string
  (`TcpConnection.cc:154`), which may be gone when `sendInLoop` reads it. `StringGoes` is
  that step, `dangled` remembers it, and `StreamIntact` ends there. It is a defect of the
  code that no comment or test speaks of.
- *Reads that overrun.* `Fifo` speaks of buffers whose reads fitted.
- *Output.* `handleWrite` is modelled and never does anything: no channel is ever
  registered for writing. `AcceptedIsDelivered` therefore holds up to the first `write()`
  that is cut short, and `ClosedAfterOutput` as long as there is none. A `write()` after a
  reset was reported, or after the write end closed, raises SIGPIPE, which nothing
  ignores; a high-water functor without a callback throws, which nothing catches. Both
  end the process (`ended`).
- *The third pool.* Its deleter tests no entry: it can erase the one another thread has
  just renewed, and it can run into a factory that is gone. `OneStockPerKey` is of the
  other three, and `OnlyBareThisCrashes` says that only this one runs into a factory that
  is gone, as the recipe's text has it.

## 5. The theorems

`EventLoop_proofs`, for any set of threads, functors and channels:

- `TypeCorrect`: `Safe => []TypeOK`.
  Its last conjuncts say that what one round of the loop sets up is taken down before the
  next: `callingPendingFunctors`, the batch and the list of active channels.
- `NeverSleeps`: `Safe => []NeverSleepsOnWork`. The property is not inductive: it speaks
  of the moment before `epoll_wait`, and a push by the loop's own thread in a channel
  callback wakes nobody. `IInv` says why that is right: outside the dispatch of events
  a waiting functor is always covered by a wakeup that is written or due (`Covered`), because
  such a push happens only inside, and the swap follows; `callingPendingFunctors` is
  true exactly while the batch runs, which is what makes the test in `queueInLoop` sound.
- `ImplementsSafely`: `Safe => Promise!Safe`, step by step (`StepSimulation`), with
  batch and queue read as one FIFO. `HeadOfConcat` is the sequence lemma it rests on.

`EPollPoller_proofs`, for any channels and descriptors: `TypeCorrect`, `Registration`,
`NoFatalError` and `CapacityIsBounded`. The invariant adds that no two channels share a
descriptor; `UpdateAgrees` shows it kept by an update with any set of events. The bound
on the list of events is about the number of registered descriptors, which is why
descriptor numbers are assumed to be finitely many (`FdsAssumption`).

`EventLoopThread_proofs`, for any functors and channels, with one owner:
`ThreadTypeCorrect`, `LoopIsUsable`, `GoneOnlyAfterQuit` and `ThreadImplementsSafely`. `StepOfLoop` shows that
thread and owner take steps of `EventLoop` and no others, so that its invariant and its
refinement carry over. `TInv` adds what the handshake rests on: `loop_` is set exactly
while `threadFunc` is at `loop()` (`PtrOK`); the loop leaves `loop()` only after somebody
called `quit()` (`LoopOK`, `QuitOK`); and where the owner is says where the thread may be
(`OwnerOK`).

`Buffer_proofs`, for any sizes of the vector and any lengths: `TypeCorrect`,
`LengthIsKept`, `BytesAreKept` and `GrowthIsBounded`. There is one lemma per function of
the class, each saying what the function keeps: `EnsureMakesRoom` (whatever branch
`makeSpace` takes, the readable bytes are the same and there is room), `FillAppends`,
`AppendAppends`, `RetrieveTakes`, `ReadFdOverrun`. `IInv` adds to the properties that
`peak` was never exceeded; `Fifo` needs `LengthKept`, for the n-th readable byte is only
known to be byte `taken + n` when the lengths agree.

`TcpServer_proofs`, for any io loops, connections and foreign threads, and whatever those
call: `TypeCorrect`, `DealtInTurn`, `PollersPointToLive`, `ActiveAreLive`, `UpsAndDowns` and
`GoneAreReported`.
Types need that nothing speaks of a connection before it is accepted (`KnownOK`).
Dealing goes in rounds: in round `n` the loops before `next` have been given `n + 1`
connections and the others `n` (`Rounds`), where a loop has one place in the pool
(`OnePlace`). The lifecycle rests on who holds a connection, and that is spread over
map, queues and user. `IInv` says: each functor that is yet to run has the loop and
the state it needs (`FunctorOK`); a connection whose channel is registered, or about to
be, is in the map or has its `connectDestroyed` queued on its loop (`KeptOK`); `ups`,
`downs` and `state` go together (`ConnOK`); no functor of a connection is queued
before its `connectEstablished` (`EstablishedFirst`); and a `send()` queued behind a
`connectDestroyed` finds the connection reported down (`SendsOK`), so that it writes
nothing to it or makes it `resumed`. These two are the only facts about the order of queues that the lifecycle
needs. What is yet to run is kept abstract (`In`, `Behind`), so that a lemma about an
action names only the functors it adds or takes.

`ConnectionOutput_proofs`, for any buffer size, mark and lengths, with the code's
`LeftoverEvent` (`AsCoded`): `TypeCorrect`, `StreamIsIntact`, `CompletionIsTrue`,
`HighWaterIsOnce` and `ClosesAfterOutput`.
`IInv` says that while a `write()` runs nothing waits in `outputBuffer_`
(`NeverFlushes`), that the numbers of bytes add up (`Counted`), that the contents follow
one another (`InOrder`), and what each queued functor may claim (`QueueOK`). Counting
and contents are apart because only the contents depend on the caller's string.
`EndInv` adds, for the mark and the end of writing, that output waits only where a
`write()` was cut short or the peer is gone (`NothingKept`), and that a `write()`
after the write end closed copies nothing (`ClosedCopiesNothing`).

`StockFactory_proofs`, for any threads, names and objects: `TypeCorrect`,
`SharesStocks`, `MapIsCleaned` and `WeakCallbackIsSafe`. `IInv` adds that a stock anyone
holds is the one the map has (`MapFinds`), that the entry of a key is of that key
(`EntriesOK`), and where a deleter can be in which version (`DeletersOK`).

`Inventory_proofs`, for any number of requests: `TypeCorrect`, `RecordsAreTrue` and
`ListedAreAlive`. A plan is always the rest of a script, and the first lemmas say what the
scripts are, one concatenation at a time. `IInv` then says for the line each thread is at
which mutexes it owns and in which it is recorded (`LocksOK`, `MainLocksOK`), and which
requests are listed or deleted (`LifeOK`, `MainLifeOK`): a request is printed between two
lines of `printAll()` that hold the inventory's mutex, and its destructor needs that mutex
to take it off the list.

Assumptions: the named `ASSUME`s of the modules. Threads and channels are distinct from
the loop's own (`ThreadAssumption`, `ChannelAssumption`), early functors are functors, an
`EventLoopThread` has one owner, `None` is no channel, descriptor, stock or key,
descriptors are finitely many, the three values of `index_` differ, the list of events
does not begin empty, the sizes and bounds of a buffer are natural numbers, the mark and
the kernel's buffer are not empty, io loops are not the base loop and have one place each
in the pool, and the names in the recipe (`main`, the inventory, nobody, the requests) are
different ones.

Every safety invariant that a passing run checks is a theorem. Model-checked only is
liveness: the fairness half of `Implements`, `StartLoopReturns`,
`DestructorEnds`, `ClosedIsFreed`, `AcceptedIsEstablished`,
`AcceptedIsDelivered`, `FactoryDies` and `EndsOrDeadlocks`. It is outside the prover's
reach, as is `ENABLED`.

## 6. Not modelled

- `Logger`: its one piece of state, the level, decides only how a line is labelled.
- `Condition`, and the recipes that wait on it: `CountDownLatch` is one wait on one
  counter, and `BlockingQueue` calls its condition variable as a function
  (`notEmpty_()`), so that no use of it compiles.
- The other recipes (`Observer`, `Counter`, `Singleton`, `SignalSlot`, `CopyOnWrite`): one
  lock around one access, with no protocol between threads that a model would add to.
- `easy/testmuduo/muduo_server.cpp` uses the original muduo, not this library; the
  examples that only listen use the system calls alone.
- `looping_`, `pollReturnTime_`, names, addresses, timestamps, log lines: data that decides nothing.
- `newDefaultPoller` returning null under `MUDUO_USE_POLL`, `Thread::~Thread`
  detaching, socket options, `EMFILE` beyond "accept fails".
- A wrap of `nextConnId_`: 2^32 connections.
- The library uses `std::mutex`, which the models take as atomic sections; only `Inventory`
  takes a lock apart, because `base/Mutex.h` records a holder beside it.

## 7. What is left

Everything of the plan that the code allows exists. Left is `TcpServer` and
`ConnectionOutput` in one module, with the bytes of a `sendInLoop` that goes on after the
close; `TcpServer` has what it does to the channel and to the lifetime.
