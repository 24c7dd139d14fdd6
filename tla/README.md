# Verification of CommonEx

CommonEx (`src/source/CommonEx`) is a C++ library for server programs: an
asynchronous task system, thread groups, object pools, counted pointers,
containers, packet streams, a TCP listener and a database adaptor. The modules
here model its concurrent core, its server and its database adaptor, TLC checks them
on small instances, and TLAPS proves the central results for every instance.

Everything under `source/thirdparty` and `source/ThirdParty` is vendored and the
tests of the repository are empty stubs; neither is modelled. What the code
promises is said in the comments of its headers, and the findings below quote
them.

## 1. Inventory

### Components with their own logic

| Component | Source | State | Operations | What makes it correct |
|---|---|---|---|---|
| TaskQueue | `AsyncDispatcher.h:10-91` | `Head`, `Tail`, `Stub`, `Next` of each node | `Push` by many threads, `Pop` by one, destructor | first in first out, no store into a node that was freed, null only when there is a reason, nothing left behind |
| AsyncDispatcher | `AsyncDispatcher.h:142-230`, `Async.cpp:90-167`, `Memory.h` | task count, queue, reference count, pending destroy; per thread: occupying dispatcher, list of waiting ones | `DoAsync`, `DoAfterAsync`, `Dispatch`, `Flush`, release | tasks of one dispatcher never run at once, none is forgotten, no use after destruction, no leak |
| AsyncTimerTaskDispatcher | `AsyncDispatcher.h:93-140`, `Async.cpp:30-88` | per thread: clock, priority queue of entries | `PushTask`, `Tick`, `Shutdown` | due order, one reference per entry, each task destroyed once |
| TQueue | `Queue.h`, `TStructures.h` | vector, `Front` | `Push`, `Top`, `Pop`, `Balance` | order kept, nothing lost |
| Worker, WorkerGroup | `Worker.h` | flags per worker and group, `RunningWorkers`, thread handles | `Start`, `Stop`, `JoinGroup`, `Reset`, destructor, the workers' `RunImpl` | all workers stopped and joined, shutdown announced once everything is over, no self-join, no joinable thread destroyed |
| TObjectPool, SpinLock | `TObjectPool.h`, `Core.h:94-134` | ring, head and tail position, statistics | `Preallocate`, `Allocate`, `Deallocate` | a block has one owner, the totals add up |
| Reference counts, smart pointers | `Memory.h`, `Ptr.h` | count, pointer | copy, move, assign, release | count equals pointers |
| TaskEx | `Task.h` | closure, mirror flag | bind, copy, mirror, move, run | closure destroyed once, no call of a dead one |
| MemoryManager | `MemoryManager.h` | one pool per size class | allocate, deallocate, resize | a block goes back to the pool it came from |
| Containers | `TStructures.h` | data, count, capacity | push, pop, grow, shift, move | elements constructed and destroyed once |
| Buffers, streams, packets | `Buffer.h`, `Stream.h`, `PacketBuilder.h` | buffer, size, position | read, write, seek | position within the buffer |
| ServerController, TCPListenerWorker | `ServerController.h`, `TransportLayer.h` | started flag; `Run`, socket and event, accept thread; a worker group | `Start`, `Stop`, `WaitForController`, destructor, accept loop | the accept thread is joined before `StopTask`, `StopTask` runs once, no thread survives the destructor |
| AsyncIO | `Win32Platform.h`, `TransportLayer.h`, `Work.h` | completion port, members reused by each call | post, process | result belongs to the work item |
| Database | `Database/Adaptor.h`, `Database.cpp` | connection, transaction flag, statement, retry flag | connect, ping, reconnect, prepare, execute, start, commit, roll back | transactions are atomic, their outcome is told truly, no update is applied twice, none stays open |

### How they interact

- A task runs inside `Flush` of its dispatcher and may call `DoAsync` and
  `DoAfterAsync` of any dispatcher: `Dispatch` is re-entered on the same thread.
  The thread's list keeps the execution flat.
- `Dispatch` pushes to a TaskQueue that a consumer on another thread pops from.
- The list of dispatchers waiting for a thread is a TQueue.
- A timer entry holds a reference to its dispatcher; `Tick` dispatches to it.
- Worker threads call `AsyncSystem::InitializeThread`, `TickThread` in their
  loop and `ShutdownThread`; ServerController owns a WorkerGroup and a listener.
- MemoryManager's size classes are TObjectPools; tasks, buffers and packets are
  allocated from them.

### What is hard

Interleavings of producers with the consumer of a queue; the moment when a
dispatcher changes its consumer; counted pointers across threads; re-entrance;
storage moving under a reference; counters that two threads change on two sides
of an event; loops bounded by a number that changes; blocking waits; a database
connection that is lost before, during and after a command and is opened again by
two layers that do not know of each other. The library itself persists nothing.
Every place is listed under `hazards` in `PROJECT.json`.

## 2. Modules

| Module | What it is |
|---|---|
| `TaskFifo` | what a TaskQueue promises: a sequence, and the task in the consumer's hand |
| `TaskQueue` | the queue, one action per memory access |
| `TaskQueueProofs` | theorems about `TaskQueue` |
| `TQueueOps`, `TQueue` | TQueue as operators on values; one queue with its history |
| `AsyncDispatcher` | dispatchers, threads, reference counts, timers as seen by dispatchers; uses `TQueueOps` for the thread's list |
| `AsyncTimer` | the timer of one thread with its priority queue and storage |
| `TObjectPool` | the pool in both modes, with the spin lock |
| `WorkerGroup` | one group, its owner thread and its workers |
| `TCPListener` | the accept thread of a listener, its Start and Stop |
| `ServerController` | a controller: extends `WorkerGroup` (its group) and instantiates `TCPListener` (its listener) |
| `Database` | a connection, its statement and its transactions, with the client library and the server |
| `SharedPtr` | `MSharedPtr` and the reference count of `MemoryResource<true>` |
| `AsyncDispatcherProofs`, `AsyncTimerProofs`, `TQueueProofs`, `SharedPtrProofs`, `TObjectPoolProofs`, `DatabaseProofs` | theorems about the module each is named after |
| `ServerControllerProofs` | theorems about `WorkerGroup` (part 1) and about `ServerController`, which extends it (part 2) |
| `MC...` | the instance TLC checks, one for each module above that has a state |

Operators named `X_Y` with a comment starting with "Mutant" are `X` with a
plausible mistake. No specification uses them: they show that the property named
with them in `PROJECT.json` is one the mistake would break.

### TaskQueue

`Link` is the `Next` field of every node, the stub included; `head` and `tail`
are `Head` and `Tail`. `Push` is `Make` (a free node is allocated and its `Next`
is null), `PushExchange` and `PushLink`. `Pop` is split at every access to memory
that another thread may touch: `PopBegin` loads `Tail` and `Tail->Next` and
branches, the rest follows the statements of the last-node path. Loads of `Tail`
belong to the consumer alone and are merged with the next access. `DestroyTask` and
`NothingPopped` are the caller; the destructor's loop is the same `Pop` in phase
`"draining"`. History variables: `log` (exchange order), `taken`, `stubAt` (where
the stub is in that order), `gap` (an excuse for a null `Pop` was seen). Memory is
sequentially consistent here; `Next` is a plain field in the code, so this is what
x86 compilers make of it and not what the C++ standard promises.

### AsyncDispatcher

One `pc` per thread: `count`, `exchange`, `link`, `reference` are the four steps
of `Dispatch` until the thread is a consumer, `flush`, `executing`, `executed`
are `Flush`, `flushed` and `drain` the loop over the list, `fired` and `shutdown`
the timer. Atomic operations are steps; work on thread-local data is merged with
them. While a task executes (`executing`) its thread may do whatever user code may:
`Dispatch` re-entered from a task returns to `executing`, and never to a second
`Flush`, because the thread is occupied. A caller needs a right to the dispatcher:
an owner's pointer, or to be a task of it (`MayUse`), and the owner does not
release it under a call in progress (`OwnerPointerInUse`). `list` is the thread's TQueue,
bit for bit; the history `lost` names the dispatchers that a shift of a list dropped.
`queue` is in exchange order and says nothing of the Stub. `Pop` can return the first task once
its own push has linked it; while the push of the second is half done, it depends on whether
the Stub lies between the two. `CanPop` keeps the first condition and leaves the second open:
every `Pop` of the code is a step of the model, a null `Pop` is a stuttering step, and the model
also allows some returns that the code would delay. `TaskQueue` has the details.

### AsyncTimer

The entry that fires stays in the queue while its task is dispatched; user code may
run there and push. `moved` says that this push made the storage move, so that the
reference `Tick` holds points into the old block: it is this copy that is emptied, and
`pop` destroys the task of the live copy. The model does not treat the write to the
old block as an error of its own: the pools keep such blocks, and the double
destruction is the consequence that shows.

### TObjectPool

`claim` takes the counter, then `swap` is the interlocked exchange, or `read` and
`write` the two plain accesses under the lock. `bUseSpinLock` is a template argument;
it is a variable that `Init` chooses and no step changes, so that one run covers both
modes.

### WorkerGroup

`run[w]` is where `RunImpl` of worker `w` is, `call` what the owner does with the
group, `step` where it is in `Start`, `stop[c]` where caller `c` is in `Stop`, which
both the owner and tasks may call. Flags and the counter are read and written one
at a time. `terminated` is `std::terminate`: a joinable `std::thread` was assigned
to or destroyed; the owner takes no step after it, the workers may.
`bIncludeMainThread` and the presence of an initialization task are chosen by
`Init`. The initial state is a group after a successful `Initialize`; `Initialize` again, of a group
that is not running, puts new workers in the place of the old ones.

### TCPListener and ServerController

`acceptor` is where `AcceptRoutine` is: waiting for `Run` (at most two minutes, so it may
give up), at the loop's test, waiting for an event, or in the user's `OnAccept`.
`closing[c]` is where caller `c` is in the listener's `Stop`, every access to `Run`, the
handles and the thread on its own. `OnAccept` is taken not to call `Stop`: the accept thread
would join itself.

A controller is a group and a listener; its `Start` and `Stop` call theirs.
`ServerController` extends `WorkerGroup`, whose `Main` is the controller's owner, and takes
the listener by `INSTANCE`. `main` is where the owner is in `Start`,
`WaitForController` or the destructor, `control[c]` where a caller, the owner or a worker's
task, is in `Stop`. The group's actions are used as they are: `StartWorkers` is `Start` of
the group and something more, `StopWorkers` its `Stop`, `DestroyWorkers` its `Destructor`;
a worker whose task is in the controller's `Stop` does not go on with `RunImpl`.
`bUseCallingThread` is the group's `bIncludeMainThread`. `startTasks` and `stopTasks` are
histories: how often `StartTask` succeeded and how often `StopTask` was called. A controller may
be started again while its group is still running (`StartWorkersRunning`: the group's `Start`
returns at once), because a `Stop` that comes before the group runs clears `bIsStarted` and
leaves the group to itself. The destructor runs `Stop`, then
destroys the members from the last declared to the first: the group, the listener, the
listener's thread.

### Database

`conn` is the connection, both sides: what the server has (`session`, `pending` updates of
the open transaction) and what the client library keeps (`socket`, `inTrans`, the server
status flag of the last answer; `canReconnect`; `stmt`, the state of the one prepared
statement). `Command` is one call of the library: the connection may be found dead when the
command is written (the library reconnects by itself, since `SetOptions` asks for it, unless it
believes a transaction to be open) or when the answer is read; it may be lost after the server
has executed the command; the server may refuse a statement, and end the transaction when it
does so to resolve a deadlock. The rest is the adaptor:
`TryReacquireConnection` is the loop `close`, `open`, `connect` with `tries`, entered from
`ExecuteUpdate`. A unit of work is a `DBTransaction` or a few updates outside of one. The
caller is free: it may go on after a failure, open and close the connection in the middle,
commit or leave. `careful[n]` records that in unit `n` it left at the first failure and left
the connection alone; atomicity is promised to such callers only. `applied` counts how often
the server has made an update permanent, which is what the properties are about.

What happens when a dead connection is noticed, what reconnection does to prepared
statements, and that it is refused in a transaction, is modelled from how libmysqlclient
documents it; no line of `src` shows it and these definitions are marked external.

### SharedPtr

`ptr` is `BlockObject` of each pointer, `op[t]` the operation of thread `t` on the pointers
`source` and `target`. The header says "Not thread safe, sync before copying or moving": a
pointer is in one operation at a time (`Free`). The counts are shared and changed without a
lock: `LoadCount` and `CompareExchange` are `AddReference`, whose loop gives up when it reads
zero, `ReleaseReference` the interlocked decrement, `Destroy` and `Clear` what `Reset` does after
it. `Drop` is what an assignment does to the target's old reference: nothing. `dropped`
counts these for each block, so that the count can be compared exactly.

## 3. Runs

All bounds are in the `.cfg` files; bounds on counters are `Max...` constants in the
guard of the action that increments. Deadlock is not checked where the system really
stops: nobody has to push, dispatch or allocate for ever.

| Run | Instance | Shows |
|---|---|---|
| `taskqueue` | 2 producers, 3 nodes, 4 pushes | `IInv` and what follows from it; implements `TaskFifo` with its liveness |
| `tqueue` | slack 3, 12 pushes | `InOrder`, `LossIsBounded` over several shifts |
| `tqueue_loss` | slack 64 as in the code, 66 pushes | `NothingLost` is false |
| `dispatcher_safety` | 2 threads, 3 dispatchers, 3 tasks, lists that shift at slack 2 | one consumer, exact counts, no use after destruction, nothing queued at destruction |
| `dispatcher_live` | 2 threads, 2 dispatchers, 2 tasks | every task is done, no dispatcher leaks |
| `timer` | 4 tasks, storage for 2, clock to 3 | order, references, destruction |
| `pool` | 3 threads, 3 blocks, 2 slots, 4 allocations, both modes | one owner per block, totals, `PoolAbsorbs` |
| `workers` | 2 workers, 2 starts, all four template and task choices | counter exact, bounds of the loops, no self-join, shutdown announced, quiet destructor |
| `workers_start_hangs` | 1 worker | `WaitEndsWhenRunning` is false |
| `server` | 2 workers, 1 start of the group, 2 of the controller, with and without the calling thread | accept thread joined before `StopTask`, `StopTask` once for each `StartTask`, quiet and complete destruction, `Stop` of the listener returns |
| `database` | 2 units of work, 2 updates, 2 lost connections, 2 tries | atomic transactions, true outcomes, no update twice, none left open |
| `sharedptr` | 3 threads, 4 pointers, 2 blocks, 2 dropped references per block | exact counts, no dangling pointer, one destruction, no reference from zero |

Each module also states its type invariant, which is a part of the inductive invariant (`IInv`,
`CInv` for the controller, which includes the listener's) and proved with it. The inductive invariants that no run lists were checked with the
constants of the component's run as well, before they were proved.

Why the bounds are enough. In a TaskQueue two producers are the interesting number,
one that has exchanged and not linked and one that overtakes it; three nodes give a
first, a middle and a last, and the fourth push reuses a node. Any number is covered by
the proof. Two threads and two dispatchers give every hand-over of a consumer, a list
with an entry, and a dispatcher destroyed by the other thread; the third task lets one
be queued, one executed and one on its way at the same time. The third dispatcher puts a
second entry into a list. The code shifts a list at 64 popped entries, which no small instance
reaches: the safety run shifts at 2, so that a second entry is dropped, and the liveness
run does not shift; the proofs hold for every slack. Two slots and four
allocations go round the ring twice, with a third thread to meet a slow one in its slot.
Two workers are enough for a first that ends and a last that is missed. A controller
is started twice and its group once (`MaxStartTasks`, `MaxStarts`): the second start is the one
that meets a group that still runs, or a `Stop` that still works on the first; its accept
thread cannot be started again. The proofs cover any number of both. Two updates and
two units are the smallest transaction that can be torn and the smallest sequence in which
an older one can leak into the next; the second lost connection meets the recovery from
the first. Three threads make a compare-and-exchange fail against an addition and a
release, with one thread reading; blocks are handed out again after they were destroyed.

When a list shifts, `TQueue` loses an entry (`tqueue_loss`), and the dispatcher in it keeps
its counted tasks and one reference with no consumer: it is never flushed again and never
destroyed. The properties of `AsyncDispatcher` say so exactly: `OneConsumer` makes an exception
for `lost`, `RefCountIsExact` counts the `LostReference`. `EveryTaskIsDone` and `NoLeak` are
claimed for lists that do not shift.

### Fairness

- `TaskQueue.FairSpec`: every thread that is inside `Push` goes on, and the consumer
  keeps calling `Pop`. This is the scheduler of the operating system and the loop
  of `Flush`. Nobody has to start a push.
- `AsyncDispatcher.FairSpec`: weak fairness of everything a thread does by itself:
  the steps of `Dispatch` and `Flush`, the return of a task body, the ticks of the
  worker's loop while it has timer entries. Calls by user code, releases and shutdowns
  are not fair. `FlushPop` may happen whenever `Pop` may return a task (`CanPop`); fairness does
  not make `Pop` succeed where the code's fails for ever, because it fails on a queue
  that is not empty only while a push is half done (`EmptyPopJustified` of `TaskQueue`),
  and the pushing thread is scheduled too.
- `ServerController.FairControllerSpec`: the accept thread is scheduled and `OnAccept`
  returns; so is a thread inside the listener's `Stop`. Nothing is assumed of the
  group: its joins may wait for ever.
- `WorkerGroup.FairSpec`: threads run, and a task returns once the flag of its worker
  is down; nobody has to call `Stop`. The hang in `workers_start_hangs` needs no
  unfair scheduling: the worker's task simply goes on working.

### Findings

1. `Queue.h:72`: `Balance` computes its slack as `Front + 1` although `Pop` has already
   incremented `Front`; a shift drops the first element not yet popped (`tqueue_loss`): the
   63rd `Pop` loses the 64th element. When that is the only one left, as in the run's trace of
   64 pushes and 63 pops, a debug build stops at the assertion in `TStructures.h:359`;
   with more elements left nothing notices.
2. `Worker.h:138`: `atomic_flag::wait(v)` waits while the flag equals `v`;
   `WaitForIsRunning(true)`, called by `Worker::Start`, therefore waits for the worker
   to end when the worker was faster (`workers_start_hangs`). `Memory.h:88` has the
   same call.

More that the models reach, without a run of its own:

- `Worker.h:241`: `Worker::Stop` returns at once when the flag of the worker is down, and a
  worker that was started but has not raised its flag yet looks the same as one that has
  ended. One worker shows it, in these steps of `WorkerGroup`: `Start` creates the thread
  (`StartThread`), its wait returns at once because the flag is down (`WaitForIsRunning`, see
  finding 2), the worker is counted and the group runs; `Stop` clears the group's flag
  and passes the worker by (`StopWorker`) while it is still in `InitializeWorker`, and goes
  on to `JoinWorker`; the worker raises its flag (`Announce`) and runs its task as if it
  had never been stopped. `Worker.h:235` says "Stop the worker"; the stop is lost, and the
  owner waits in the join for a worker nobody will stop. A group with the main thread has
  the same window without finding 2: its last worker is counted before `RunImpl` raises the
  flag, so that a `Stop` from another worker's task passes it by.
- `Worker.h:459`: the owner counts a worker after it was started. One that ends before the
  owner counts the next finds the counter at one or below and announces the shutdown of
  the whole group while others are still to come or running; `Worker.h:371` says of
  `OnGroupShutdown` that it runs "after all threads in the group stop". `CounterIsExact`
  is therefore claimed outside of `Start` only.
- `Worker.h:487`: `Stop` uses the number of running workers as the bound of a loop over all
  of them. When the first has ended by itself the last is neither told to stop nor joined;
  `Worker.h:474` says "Stops the workers in this group".
- A failed initialization leaves the worker counted as not running but its flag may be
  set again, and the counter is short of those started before; `CounterIsExact` excludes it.
- `Reset` destroys joinable threads of workers that ended by
  themselves (`DeleteWorkers` sets `terminated`), `Start` of such a group assigns to
  them (`StartThread`), and the destructor of a group that was `Reset` indexes an array
  that is gone (`DestructorAfterReset`).
- In `AsyncTimer`, `DestroyedOnce` holds except for `stranded` tasks: those are destroyed
  twice.
- Controller: a `Start` under a second `Stop` that overlaps the first sets `Run` again
  after that `Stop` has cleared it, and its join waits for an accept thread that goes on
  (`StartedUnderStop`, which `ListenerStopReturns` excludes).
- Listener: one that was initialized and never started terminates the program in its
  destructor, since `Stop` returns early; it has no accept thread after the first `Stop`,
  so that a controller that is started again accepts nothing; two callers in `Stop` may both
  join the thread (`StopJoins` lets the second terminate or not).
- Controller: `Stop` from a task or another thread is forgotten while `Start` is under
  way without the calling thread, because `bIsStarted` is set last. With the calling
  thread it is set before the group runs: a `Stop` in between stops the listener, finds the
  group not running and clears the flag, and what is left is a server without listener that
  no further `Stop` ends. Two calls of `Stop` at once run `StopTask` twice; the owner's own
  `Stop` at the end of `Start` is one of them when a task stops the server. The `overlapped`
  in the properties is this case.
- Database: the retry in `Prepare` compares the result of `mysql_stmt_prepare`, 0 or 1, with
  error codes and is never taken, and so is the one in `Execute`. The retry in `ExecuteUpdate` executes a statement that
  belongs to the old connection and always fails; `AtMostOnce` holds because of that, and its
  mutant shows that preparing it again would break it. A `ROLLBACK` that fails leaves
  `bIsTransactionStarted` set, and no transaction can be started until a later rollback
  succeeds, which only a valid `DBTransaction` sends. An update that changes no row is
  reported as a failure. Without `careful` none of `AllOrNothing` and `OutcomeIsTrue`
  holds: a caller that goes on after a failure may have half of its updates applied outside
  of any transaction on a connection that was silently opened anew.
- `MSharedPtr`: assignment, by copy or by move, forgets the reference of the pointer
  assigned to, so its block is never given back; copying a null pointer dereferences
  null, and the model does not copy one.

## 4. Proofs

Every component has its inductive invariant in its own module, as the conjunction of named
parts, and its proofs in a module named `...Proofs`: `Init => IInv`, one lemma for each
action (or for each family of actions that touch the same variables), one that puts them
together, and the theorems as consequences. All hold for every value of the constants that
satisfies the assumptions below, in particular for any number of threads, nodes, blocks,
workers, units of work and for any bound `Max...`.

### TaskQueue

`TaskQueueProofs` proves `Invariance` (`Spec => []IInv`); `TypeCorrect`, `LinksAreSafe`,
`NodesHaveOneOwner`, `NullIsJustified` and `DestructorDrains`, the safety invariants, as
consequences of it; and `ImplementsFifo` (`Spec => Fifo!Safety`), the refinement of `TaskFifo`.
Assumptions: `Stub` and `NULL` are different and are no task nodes.

The safety properties are not inductive. That no producer stores into a freed node
needs to know which node each producer owes its link to; that `Pop` returns the oldest
task needs to know that the links, as far as they are there, follow the exchange
order. `IInv` says this by position: `Chain` says that the node at each live position of
`log` is linked to the next, or some producer (or the consumer, for the stub) still
owes exactly that link; `PopState` says what the consumer's local variables are at each
step of `Pop` in terms of `taken`, `stubAt` and `log`; `GapState` ties the excuse for a
null result to a push in flight; `DrainState` says that no push is in flight after the
destructor began. The proof goes action by action; lemmas state what a link that is
present means for the position behind it.

### AsyncDispatcher

`AsyncDispatcherProofs` proves `OneConsumer`, `CountIsExact`, `RefCountIsExact` and
`NoUseAfterDestroy`, and the action property `DestructorDropsNothing`. Assumptions: `NULL` is
neither a dispatcher nor a task, the set of threads is finite, the slack of the lists is positive.

`References(d)` is the set of all counted references to a dispatcher, each a tuple of its kind
and its holder, so that a step adds or removes one element, or exchanges one for another
(`DrainNext`: the list's reference becomes the flush's, or goes down with a lost entry), and the
count follows. `Consumers(d)` is the same for the consumer: it is one element, and a lemma says that
a step of the thread in it leaves only that thread's part. That nobody destroys a dispatcher in
use is `LastReference`: every reference that the code gives up is one that no list, no Flush and no
Dispatch in progress depends on (`IsSpare`), so that when it is the only one there is no consumer,
hence nothing is counted, hence nothing is queued. The critical moment is the Dispatch between
its first step and `AddReference`, when the call itself holds nothing: `CallIsCovered` says what keeps
the dispatcher alive then, the owner's pointer, the task of the same dispatcher that is executing,
or the timer entry that fires. `ThreadState` and `TimerState` say what each thread's own
variables may be at each `pc`. That `LostIsBusy` is inductive is the proof that a lost
dispatcher stays lost.

### AsyncTimer

`AsyncTimerProofs` proves `FireOrder`, `OneReferencePerEntry` and `DestroyedOnce`, for any due
delays, any set of tasks and any capacity of the storage. Assumptions: `NULL` is no task, delays
are natural numbers, the storage starts with room for one entry at least and grows by one at least.

`FiringIsDue` makes the order inductive: what fired last was due, and new entries are due no
earlier than now. For `DestroyedOnce` each task's destructions are accounted for by where the task is:
in an entry that waits it has none (`WaitingIsWhole`), in the one that fires it is with its consumer
or was destroyed by it (`FiringIsHandedOver`), and after its entry is gone it was destroyed once, and
once more if it was stranded (`DestroysAreCounted`).

### TQueue

`TQueueProofs` proves `InOrder` and `LossIsBounded`, for any number of pushes. The only assumption is
that the slack is positive.

`IInv` looks at what is out and what is stored as one sequence, place by place (`Value(i)`, `Total`):
a push adds one at its end, a pop without a shift moves the border between the two parts and nothing
else, and a shift closes the gap that the dropped value leaves, so that `Total + shifts = pushed`.
Three lemmas say that each of the three keeps the order; each operation is shown to be one of them.

### SharedPtr

`SharedPtrProofs` proves `ReferencesAreExact`, `NoDanglingPointer`, `DestroyedByTheLast` and
`NoReferenceFromZero`. Assumptions: `null` is neither a block nor a pointer; the sets of
pointers and threads are finite.

The count is compared with a sum of cardinalities, so the work is to show which of the sets
each step changes and by which pointer or thread: lemmas state how a cardinality changes
when one pointer is written or one thread moves. What makes the sum inductive is `Engaged`
and `Exclusive` (a pointer is in at most one operation, so that a pointer and the thread
that is about to release it are not counted twice), and `PooledUnreferenced` and
`DestroyedUnreferenced` (a block that is handed out starts from zero). That the
compare-and-exchange never adds to zero follows from the exactness alone: the source of the
copy is one of the references counted.

### TObjectPool

`TObjectPoolProofs` proves `OneOwner` and `TotalsAddUp`, in both modes of the template, and
`PoolAbsorbs`, which claims something for the locked mode only. Assumptions: `PoolSize` is a power of two, as the code asserts, `NULL` is no block and no thread, the
sets of blocks and threads are finite.

With the interlocked instructions a block is in one place because the exchange moves it in
one step. With the lock the same needs `LockIsHeld` (only the holder is at a slot) and
`ReadIsCurrent` (what it has read is still in the slot when it writes), which is mutual
exclusion and what it is for.

`PoolAbsorbs` has an invariant of its own, `RInv`, proved on top of the first. That
`TailPosition` is never ahead of `HeadPosition` is a matter of counting: every position is
a call that returned and was counted in a total or one that is still on its way
(`CallsAreCounted`), and `TotalsAddUp` says that what is given back was allocated. `RingIsWindow`
then says which slots are empty: those of the positions from `TailPosition` to `HeadPosition`.
Its steps need that two positions less than `PoolSize` apart have different slots and that
one turn leads to the same slot, which is proved from division with remainder. A thread
between claiming its slot and writing it makes one exception, which `ClaimIsServed` describes.

### Database

`DatabaseProofs` proves `AllOrNothing`, `OutcomeIsTrue`, `AtMostOnce` and
`NoTransactionLeftOpen`. Assumptions: the adaptor tries at least once to reacquire a
connection; no update is one of the statements the adaptor sends by itself.

What the adaptor believes, what the client library believes and what the server has are three
things that a lost connection changes at different moments. `SessionIsHeld` says that an open
transaction of the server belongs to a `DBTransaction` whose flags are up; `InAdaptor` what
can be true while a connection is being reacquired: the statement is the old connection's and
can not be executed, which is the reason why no update is applied twice; `Untouched` that an
update that is still to come has left no trace; `Told` what the caller was told; and
`StillOpen`, the heart of it, that a careful caller whose calls all succeeded has its whole
transaction on the server, or the very next call fails.

### WorkerGroup

Part 1 of `ServerControllerProofs` proves `CounterIsExact`, `IndexInBounds`, `NoSelfJoin`,
`ShutdownNotForgotten` and `DestructorIsQuiet`. Assumptions: there is at least one worker, and
`Main` is no worker's number.

The counter is exact outside of `Start`; inside, it lags behind by the workers that have been
started and not been counted, and a worker of an earlier `Start` that has not yet reported
makes it wrong altogether. `CountedInLoop` says the first, and excludes the second by `Doomed`:
the loop of `Start` will then assign to a joinable thread and the program ends, so that it
never comes out with a wrong count. `LastIsKnown` says that when all have reported one of
them is on its way to `OnGroupShutdown`; `JoinedForDestruction` follows the destructor's loop.

### ServerController

Part 2 of `ServerControllerProofs` proves `StopTaskAfterAccept`,
`StopTaskOnce`, `DestructionIsQuiet` and `NobodyLeftBehind`, from the group's assumptions alone.

The group's invariant is a part of the controller's as long as the program runs
(`~ terminated => IInv`), and every step of the controller is a step of the group or leaves the
group alone, so that the lemmas about the group's actions are cited and not repeated.
`StopTasksAreCounted` balances each `StartTask` against the `StopTask` that was called or is
still ahead; `AcceptorIsJoined` says who will join the accept thread once `Run` is down.

### What TLC alone checks

Liveness and ENABLED are out of the prover's reach: the liveness part of `FifoSpec`,
`EveryTaskIsDone`, `NoLeak` and `ListenerStopReturns`. Every safety property of a
passing run is a theorem. The two properties that are false, `WaitEndsWhenRunning` and
`NothingLost`, have their counterexamples from TLC.

## 5. Not modelled

- Mathematics (`SMath*`): floating point, no state.
- Cryptography (`Crypt.*`): byte arithmetic, no shared state.
- Start and stop of the library (`CommonEx.cpp`): a sequence of calls on one thread.
- Identifiers, diagnostics, type traits: no behaviour.
- `Map.h`, `DQueue.h`, `ConnectionEndpoint.h`: empty or commented out.
- Containers, `TaskEx`, the unique pointers, the size classes of MemoryManager: sequential
  code on data of one thread. What the concurrent parts use of them is modelled there.
- Buffers, streams and packets: sequential bounds arithmetic; several of the builders in
  `PacketBuilder.h` cannot be instantiated (they assign to constants and call overloads
  that do not exist), so that there is no behaviour to model.
- AsyncIO: a thin layer over a completion port, which is external.
- Database: the rows of a result, the binding of parameters, settings.
- Sockets, the MySQL client, the allocator of the operating system: external, and modelled
  only as far as the code's calls reach them.
- In WorkerGroup: the move assignment, which takes a second group.
- Weak memory: all models are sequentially consistent.

The library's own files are about a sixth of the lines of the repository's
implementation files; the rest is vendored (JSON, formatting, XML, MySQL headers), and of
the sixth more than half is vector mathematics, cryptography, templates of data
structures and declarations without behaviour. The modules cover most of what is left.

## 6. Plan

1. Done: `TaskQueue` with `TaskFifo` and its proofs, `AsyncDispatcher`, `TQueue`,
   `AsyncTimer`, `TObjectPool`, `WorkerGroup`; `TCPListener` with `ServerController`,
   `Database`, `SharedPtr`.
2. Done: a theorem for every safety property of the passing runs, for every component.
3. Next: abstract specifications of the pool (an allocator) and of the timer as
   `AsyncDispatcher` uses it, and the proofs that the detailed modules implement them.
