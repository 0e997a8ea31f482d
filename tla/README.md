# angelica: a TLA+ development

`angelica` is a C++/C toolbox for Windows network servers: active objects, lock-free
containers, a page allocator, an IOCP/epoll socket layer, timers and a virtual-memory
swapper. There is no design document: the source is the specification, and what it
promises has to be read out of the code, its comments and its test programs. This directory
models the concurrent core of it, checks the models with TLC, and proves with TLAPS the safety
properties and refinements of ten components for every size.

Contents: 1. the system; 2. the modules; 3. what the runs check; 4. bounds; 5. fairness;
6. proofs; 7. disagreements with the code's own comments and tests; 8. what is not
modelled; 9. plan.

## 1. The system

| component | source | state | operations |
|---|---|---|---|
| active objects | `active/` | per object: `event_que`, `_run_flag`; server: `_active_pool`, `_free_active_pool`, `_run_flag`, `_empty_flag`, `_cond` | `active()`, `~active()`, `post`, `start`, `stop`, worker `run`/`do_one` |
| object pool | `container/no_blocking_pool.h` | N locked lists and an atomic `_size` | `pop`, `put`, `size` |
| hazard pointers | `container/detail/_hazard_ptr.h` | push-only list of hazard records, 8 recover lists | `acquire`, `release`, `retire` (with its scan) |
| MS queue | `container/msque.h` | linked list, `_begin`, `_end`, `_size` | `push`, `pop`, `clear` |
| interval table | `container/concurrent_interval_table.h` | 1023 buckets of maps, a read/upgrade/write word per bucket and node | `insert`, `search`, `set`, `erase`, `for_each` |
| page heap | `pool/` | micro heaps with a flag, chunks (`count`, `rec_flag`, `slide`), ring of free chunks, list of big chunks | `angmalloc`, `angrealloc`, `angfree` |
| write buffer | `async_net/sock_buff.*` | `write_buff_`, `send_buff_`, `_send_flag`, pages | `write`, `send_buff`, `clear` |
| read buffer | `async_net/sock_buff.*`, `win32/socket_base_win32.cpp` | `buff`, `slide`, `buff_size`, `isrecv`, the outstanding `WSARecv` | `async_recv`, `OnRecv` |
| windows sockets | `async_net/win32/`, `socket_base.*` | flags, handlers, `nConnect`, outstanding operations | `async_accpet`, `async_connect`, `async_send`, `On*`, `closesocket` |
| socket handles | `async_net/socket.*`, `socket_pool.h` | the shared count `_ref`, the pooled `socket_base`s | construct, copy, assign, destroy |
| buffer and overlapped pools | `async_net/*buff_pool.*`, `win32/Overlapped.*` | `no_blocking_pool`s | `get`, `release` |
| service | `async_net/async_service.*` | `event_que`, IOCP, `thread_count` | `run`, `post`, `network` |
| linux sockets | `async_net/linux/` | an epoll twin that does not compile | |
| deque | `container/optimistic_queue.h` | doubly linked list | push and pop at both ends |
| ring queue, swap queue | `container/ringque.h`, `swapque.h` | array and two indices; two lists | `push`, `pop` |
| wait registry | `detail/wait_any.*` | one interval table | `addwait`, `getwait`, `wait_any` |
| timer | `timer/` | thread-local maps by time and by key | `add_timer`, `del_timer`, `do_timer` |
| virtual memory | `virmem/` | lists of mapped files and of reserved addresses, four flags | `vmalloc`, `swap_in`, `swap_out`, `vfree` |

How they meet. An active object posts to its `mirco_active`, whose `event_que` is an `msque`; the server
keeps the `mirco_active`s to run in a `no_blocking_pool`, and its threads take them out, run their queues
dry and clear their flags. `msque` and the deque publish what they read in the hazard pointers and give
removed nodes to `retire`. Sockets, pages and overlapped structures are recycled through
`no_blocking_pool`s; a socket's bytes go through the write and read buffers, between the threads that
call `async_send` and `async_recv` and the service threads that are given the completions; user code has
sockets through handles that share a count, and the last one gives the socket back to its pool. The page
heap is the allocator of its own, used by any thread.

What is hard. Nearly everything is shared without a lock over the whole operation: flags set by one
thread and cleared by another (`_run_flag`, `_send_flag`, `rec_flag`, the micro heap's `_flag`), pointers
read before they are published or locked, counters that lag behind the data (`_size`), locks that are
tried and not awaited, hand-written read/upgrade/write words, two lists under four locks. What must hold
is that an object is with one thread, nothing is lost or doubled or freed too early, and waiting ends.

## 2. The modules

Every thread of the program is a process with a program counter; an action is one shared
access (a load, a store, a compare-and-swap, taking or releasing a lock) with the local
work up to the next one. A section whose shared data only the lock's holder touches is one
action. Calls inline their callees. Except where a module says otherwise memory is
sequentially consistent, as the default order of `boost::atomic` makes it. History
variables, named `history` in their comment, record what happened and guard nothing.

| module | models | state and actions |
|---|---|---|
| `ActorMailbox` | what an active object promises | a queue of events, the one being handled, those done; `Post`, `Begin`, `Finish` |
| `ActiveServer` | `active/`, with the lag of the pool's `_size` | posters push, exchange `_run_flag`, put, set `_empty_flag`, notify (`PostStep`); server threads pop, take events until the queue is empty, clear the flag (`DoOneStep`), test, fall asleep and time out (`RunStep`); handles come and go with recycled `mirco_active`s (`ObjectStep`); `Start`, `Stop`. A new `mirco_active` begins with any `_run_flag`, for the constructor does not set it |
| `ObjectPool`, `NoBlockingPool` | a bag of objects; `no_blocking_pool` | every `try_lock`, push, pop and change of `_size`, the object's list and the counter apart |
| `HazardSystem` | `_hazard_ptr.h` and the client's protocol of `msque::pop` | `acquire` walks and pushes records (the push is an exchange and a later store), `retire` takes a recover list, scans record by record, deallocates; the plain store to `_hazard` may wait in a store buffer (`Flush`) |
| `FifoQueue`, `MSQueue` | a FIFO queue; `msque` | push and pop load by load and swap by swap, with nodes that are freed and reused as soon as no published pointer forbids it. The scan is taken as correct here: `HazardSystem` is about the scan |
| `IntervalTable` | one bucket of `concurrent_interval_table` | the word of the bucket (+1 for a reader, +65536 for an upgrader, -1 for a writer), its promotion in all its steps, the word of each node, and all five operations with their early returns |
| `PageHeap` | `pool/`, blocks of less than 4096 bytes | `TakeHeap`/`HeapBusy` (the probing), `Malloc*`, marking and unmarking of a full chunk, taking a chunk from the ring (`Take*`) or creating one, `free` with its recovery (`Put*`, `Merge*`) under the shared, upgrade and unique modes of `_free_mu`, and the doubling of a full ring (`PutFull`, `NoResize`, `Resize`, `ResizeDone`): the copy with the words it leaves out and those it reads from behind the array, and the threads that still have the old array |
| `BigChunks` | `pool/`, blocks of 4096 bytes and more | the heap cuts, marks, rechecks and changes its chunk (`AllocBig` and its parts); `angfree` step by step (`FreeBlock`, `Recover`, `NotMarked`); `angrealloc` where it grows in place (`Grow`, `Brk`) or writes `slide` as it is (`Rewrite`); the list of free big chunks, sorted, with the binary search (`Bisearch`), the insertion and the merging of neighbours (`MergeBig`) as operators on sequences, one step each because `_bigfree_flag` is held; a step whose search would not end is not taken |
| `SendStream`, `WriteBuff` | messages in order; `write_buff` and the sending side of a socket | `async_send` copies under `_mu` (`Write`), tries to exchange the buffers (`SendBuff`), `WSASend`; `OnSend` clears the buffer and the flag, calls the handler, which may call `async_send`, and tries again. Either `WSASend` or its completion may fail |
| `ReadBuff` | the receiving side of a socket | `async_recv` turns the reception off or on, and on it first hands out what the buffer holds (`RecvOff`, `RecvOn`, `AsyncRecv`); the kernel completes an empty `WSARecv` (`Signal`, `Complete`); `OnRecv` reads until a short `recv`, doubles the buffer when it is full, calls the handler if `isrecv` is set and leaves the next `WSARecv`. The peer sends, closes or resets |
| `SocketHandles` | `socket`, `SocketPool` | handles as counts shared between threads: `Copy`, destruction in its two accesses, `Assign`; the pool with its limit; system sockets of `_sock_pool` (`Getfd`, `Releasefd`). It has no `Spec`: its actions are conjuncts of those below |
| `WinSockets` | accepting, connecting and closing; the service's threads | `EXTENDS SocketHandles`. `async_accpet` leaves an `AcceptEx` after up to 64 tries; its completion passes through `OnAccept` (`Raise`, the next `AcceptEx`, the client to the handler); `async_connect` and `OnConnect` with its three retries; `closesocket`, `DisconnectEx` and the lowering of `nConnect`; each call may fail, an exception ends `run()` and loses what it carried |
| `OptimisticQueue` | the deque of `optimistic_queue.h` | pushes and pops at both ends, load by load |

`MC*` modules give the symmetry sets and sizes of the runs. `ActorMailbox`, `ObjectPool`,
`FifoQueue` and `SendStream` are abstract specifications; the detailed modules instantiate
them with a refinement mapping and have them as properties.

| refinement | mapping |
|---|---|
| `ActiveServer` implements `ActorMailbox` | the event being handled is that of the thread that owns the `mirco_active` |
| `NoBlockingPool` implements `ObjectPool` | the stock is what is in the lists and counted in `_size` |
| `MSQueue` implements `FifoQueue` | the items are the data of the nodes behind `_begin` |
| `WriteBuff` implements `SendStream` | the queue is the buffer on its way out, then the one being written |

## 3. What the runs check

Each module has one type invariant. Where it is not listed as a property of its own it is the
first conjunct of the module's main invariant, so that a run reports it all the same.

| run | configuration | properties | shows |
|---|---|---|---|
| `active` | 1 active, 2 handles, 2 posters, 2 threads of `start` and one that calls `do_one`, 2 events, fairness | `TypeOK` `SerialActive` `FlagMeansScheduled` `OneOwner` `StrandsInTwoWays` `ImplementsMailbox` `WaitingEventIsHandled` `StopEndsThreads` | no active runs twice at once; the flag says whether a run is pending; recycling gives each `mirco_active` to one handle; an event is stranded by the store of `false` after an empty queue or, when `new` left the flag on, by its own post, and in no other way; the mailbox is implemented; what was put in the pool is handled, lost notifications or not; `stop` ends all threads |
| `pool` | 3 threads, 2 lists, 2 objects | `OnePlace` `ImplementsPool` `SomeOperationEnds` | the pool is linearizable, no object is in two places, `_size` is exact and never wraps, the loops spin only while others get on |
| `hazard` | 3 threads, 3 nodes, up to 3 records, 2 recover lists | `RetiredOnce` `NoRecordLost` `LinkedScanCollects` `NoFreedInUse` | records and recover lists have one user; a node is retired once; a used node is freed only through the two gaps named in `NoFreedInUse` |
| `msque` | 2 threads, 3 nodes, 2 pushes | `ListIntact` `NoUseAfterFree` `SizeSettles` `ImplementsFifo` `SomeOperationEnds` | linearizable, lock-free, no freed node is touched; `_size` wraps and comes back |
| `table` | 2 threads, 2 keys, every operation, 3 calls each | `FlagCounts` `OneNodeWriter` `SizeCounts` | the word counts the locks until the first promotion, and -1 means alone always; one writer per node; whatever the promotions did, `_size` at rest is the number of keys plus the lost races and the nodes of a map that another insert replaced, and nothing else |
| `heap` | 2 threads, 2 micro heaps, a ring of 2 that may be doubled, 3 allocations each | `NoOverlap` `RecoveredOnce` `NeverBusy` | blocks in use never overlap and chunks are recovered once, except through the stale compare-and-swap of `rec_flag` and what a resize misreads; no allocation finds all micro heaps busy |
| `bigchunks` | 1 micro heap, 2 threads that free or resize, blocks of 1 and 2 units, 6 allocations | `ChunksApart` `NothingLost` | after all merges chunks and blocks are apart, a chunk has one recoverer, and no memory is lost |
| `writebuff` | 3 threads, 4 messages of three sizes | `OneSender` `NothingLeftBehind` `KernelOwnsPages` `ImplementsStream` | messages go out once and in order; the kernel's pages are not touched; nothing is left behind except through the named gap |
| `readbuff` | 2 threads, 3 units of data, 3 calls of `async_recv`, fairness | `StreamInOrder` `NeverDeaf` `NothingWaits` | the handlers are given the stream in order and once though the buffer grows twice and the reception goes off and on, but for what a short `recv` took, which nobody is given, and but for two receptions at a time; a socket that should receive never ends up without a `WSARecv`; what arrives is taken from the kernel, and what the buffer counts is handed out |
| `shortread` | 1 thread, 3 units, pages of 2, 1 call of `async_recv` | `ShortReadsDelivered` | *violated*: what a short `recv` read reaches no handler |
| `sockets` | 4 sockets, 2 counts of handles, 2 threads, a limit of 1 connection, 5 calls | `OneOwner` `ChainAlive` `WithinLimit` | a `socket_base` is in one place; the chain of accepts of a listener ends only in the ways named (and once it ended, a second chain of that listener is watched no more); with an exact counter the clients are at most `nMaxConnect` plus one for each chain ever begun: one chain lets one client more in than `nMaxConnect`, for its last `AcceptEx` was left before the limit was reached |
| `deque` | 2 threads, 2 pushes | `PoppedOnce` | *violated*: `pop_front` and `pop_back` both return the last datum |

### How to read the exceptions

Some properties would fail as one would first write them, because the code has a gap. They
are stated with the gap as an explicit, narrow condition, so that they say "this is the only
way". Each condition is a history variable set by one to three actions; the mutants show that the
properties still refute a wrong step where it is false. Where the gap is itself one of the hazards,
the property does not refute it: it says how far its damage goes.

| condition | module | what it records |
|---|---|---|
| `stuck` | `ActiveServer` | a flag that `new` left on: such a `mirco_active` is never scheduled, and `StrandsInTwoWays` allows its posts to strand their events |
| `late`, `cutOff` | `HazardSystem` | a hazard pointer seen too late; a scan that met a record not linked yet |
| `promoted`, `leaked`, `lostRace`, `overwrote` | `IntervalTable` | a promotion took place (`FlagCounts` says what the word is before one); a search returned without unlocking; an insert counted a node that another revived; an insert put a new map over another's. `SizeCounts` is exact about the last two and needs no other exception |
| `stale`, `misread`, `leaked` | `PageHeap` | a compare-and-swap of `rec_flag` on a chunk that was used again; a chunk taken from the old array after a resize began, or a word from behind the array taken for a chunk; a heap flag left set (`SecondTryFits` says that this takes one of the first two) |
| `stale`, `torn`, `failed` | `BigChunks` | the same compare-and-swap; an `angrealloc` that wrote `slide` while the heap cut a block; an allocation that returned 0 (`ChunksApart` says there is none) |
| `missed` | `WriteBuff` | a sender gave up for a holder that does not send either |
| `twice`, `stray`, `lost` | `ReadBuff` | two `WSARecv`s at a time; a write into a buffer given back (`OwnBuffer` says it takes the first); the units that a short `recv` took: `StreamInOrder` says that these and no others are missing, and the run `shortread` that they should not be |
| `overlap` | `SocketHandles` | two destructors of handles of one count overlap; a count of 0 that both read, or a handle assigned while another thread is in the destructor of the same count |
| `cut`, `unearned`, `raced` | `WinSockets` | the chain of accepts ended by failure, exception or limit; `nConnect` lowered for a connection it did not count; `nConnect` written between another thread's load and store |

Three of these deserve a description. *PageHeap*: `free` takes a chunk's count to 0 and only
then compares `rec_flag` with 1. In between the micro heap may have restarted the chunk, cut
new blocks from it, filled it and marked it once more; the comparison then succeeds and a chunk
with live blocks is recovered. *WriteBuff*: a sender that finds `_mu` or `_send_flag` taken
returns and relies on the holder. If the holder has just found the flag set, or has the flag
only to see that its buffer is no longer the one written, it does not send either, and if the
completion comes in that moment the data waits for the next call of `async_send`. *ReadBuff*:
`async_recv` tests `isrecv` and sets it later, so two callers can each leave a `WSARecv`; and an
`async_recv(false)` followed by `async_recv(true)` can leave one beside that of an `OnRecv` under
way. From then on two `OnRecv`s share the buffer and nothing is said of the stream. And a `recv`
that does not fill the buffer, which is the usual one, ends the loop of `OnRecv` before its bytes are
counted in `slide` (`socket_base_win32.cpp:368` and 387): the next `recv` writes over them, and no
handler is given them. Only what arrives in pieces that fill the buffer is received.

## 4. Bounds

Two threads suffice for most of the races, which are between two operations; three are used
where a third party matters (the pool's probing, a scan beside a push beside a reader, a
completion beside two senders, a caller of `do_one` beside the server's own threads). Every
bounded thing is small enough to fill up:

* `Cap` 1 makes every second allocation meet a full chunk; `RingMax` 2 (1024 in the code) leaves
  one place, so that the ring fills, wraps and is doubled; `MaxRing` is twice what one resize makes of
  it. The run reaches the copy, its end, and the second resize that waits for itself (`put_stuck`);
  within its bounds no thread takes a chunk from the old array and `misread` stays false, so of
  those steps only the proof speaks.
* `Full` 0 (8 in the code) makes a sender wait after the first full page; the pages hold two units
  and the messages are one, two and three units long. In `ReadBuff` `PageSize` is 1 and three
  units arrive, so that the buffer is doubled twice; in `ReadBuffShort.cfg` it is 2, so that one unit alone is a
  short `recv`.
* `Width` 8 makes a wrap of the 32-bit `_size` visible, `Wrap` 6 stands for 2^32
  in `nConnect`: it is low enough for `nConnect` to go below 0 and be a great number, as it does in the code.
* `ScanAbove` 0 (32 in the code) makes every retire scan. In `OptimisticQueue` nothing is freed:
  the first scan comes with the 33rd pop.
* `PoolMax` 1 (1024 in the code) makes the second `socket_base` that is given back a deleted one;
  `MaxConnect` 1 makes the second client the one over the limit; `Attempts` 2 (64 for each
  processor) and `Retries` 2 (3 in the code) let a call fail, succeed at the next try, or use up
  its tries. Of the four sockets three can be clients: with one chain begun `WithinLimit` allows two, so a
  third would refute it; with two chains it allows three and says nothing here, and the proof has the rest.
* In `BigChunks` `First` is 2 and `MaxMem` 12, so that chunks of 2 and 4 units lie beside each
  other, merge, and are taken apart again by the heap; the list stays shorter than the six chunks
  with which the search need not end. `MCBigChunks` checks the search on its own as two assumptions:
  `SearchUpToFive` (it ends and finds the smallest chunk that is large enough, for all sorted lists
  of up to five of three sizes) and `SearchOfSix` (a list on which it goes round for ever).

`MaxEvents`, `MaxOps`, `MaxPush`, `MaxCalls`, `MaxAllocs`, `MaxRecords`, `MaxUnits`, `MaxHandles` and `Hold`
bound the calls, the data and the allocations; the actions that begin a call have them as guards,
which is why most runs set `CHECK_DEADLOCK FALSE`: all may end when the calls are used up. (`pool`
and `msque` never stop, and deadlock is checked there.)

Symmetry is used for threads, nodes, keys, handles and sockets, in runs without liveness only.

## 5. Fairness

Weak fairness of each thread's steps inside an operation: the operating system schedules
every thread, and no step waits for another but where its guard says so. Nobody is obliged to
call an operation, to post, to start or to stop. The lock of a thread that waits is not assumed
to be fair. In `ActiveServer` the timeout of `timed_wait` is a step of the sleeping thread: that it
happens is what rescues a lost notification. In `ReadBuff` the kernel completes a `WSARecv` when
there is something to read, and of the threads in `network()` some one takes the completion, not
each. The pool and the queue are claimed to be lock-free only: some operation ends, not each.
`IntervalTable` and `PageHeap` also have a `FairSpec`, the test program that makes all its calls;
it is that of the disagreements below, and no listed run uses it.

## 6. Proofs

`tlapm` checks the modules `*_proofs`, eight of them. The theorems hold for all values of the
constants under the named assumptions of the modules (a sentinel `None` outside the sets it is
added to, positive counts, finite sets where the code has finitely many): the run `active` has
one active, two handles and three threads, the proofs any number. They cover these properties:

| module | theorems | properties they state |
|---|---|---|
| `ActiveServer_proofs` | `ServerTypes` `ServerSerial` `ServerFlag` `ServerOwner` `ServerStrands` `ServerImplementsMailbox` `MailboxInOrder` `ServerInOrder` | all of run `active` but the two leads-to properties |
| `ActiveServer_proofs`, second part | `PoolOnePlace` `PoolImplementsPool` | `OnePlace` `ImplementsPool` of run `pool` |
| `MSQueue_proofs` | `ListStaysIntact` `NothingUsedAfterFree` `SizeIsRight` `QueueImplementsFifo` | all of run `msque` but `SomeOperationEnds` |
| `MSQueue_proofs`, second part | `NodesRetiredOnce` `ScanMissesNothing` `NodesInUseStay` `RecordsAreNotLost` | all of run `hazard` |
| `PageHeap_proofs` | `HeapNeverBusy` `BlocksDoNotOverlap` `ChunksRecoveredOnce` | all of run `heap` |
| `WriteBuff_proofs` | `OneSenderAlways` `KernelOwnsItsPages` `NothingIsLeftBehind` `WriteBuffImplementsStream` | all of run `writebuff` |
| `ReadBuff_proofs` | `ReceiverInOrder` `ReceiverNeverDeaf` | all of run `readbuff` but `NothingWaits` |
| `WinSockets_proofs` | `OwnerIsOne` `ChainIsAlive` `LimitHolds` | all of run `sockets` |
| `BigChunks_proofs` | `BigInvariant` `BigChunksApart` `NoChunkLost` | all of run `bigchunks` |
| `IntervalTable_proofs` | `NodesHaveOneWriter` `SizeCountsKeys` `WordCountsLocks` | all of run `table` but the other two parts of `FlagCounts` |

Two modules are about two components each: the pool and the server that rests on it, and the hazard
pointers and the queue that rests on them. `NoBlockingPool` and `HazardSystem` (and `BigChunks`) have
names of their own for that (`PoolInit`, `HazardSpec`, `bigVars`, ...), so that one module can extend both.

Induction over data is done as the argument of the least counterexample, which speaks of a set and
not of an operator: `NatSet`, `SubsetInduction` and `SetInduction` follow from the library's `WFMin`
and serve for the sums over threads (`WinSockets_proofs`), the probes of a search and
the loops of a merge (`BigChunks_proofs`), the chain of nodes and the closed sets (`MSQueue_proofs`).

Each invariant below was first checked by TLC as an invariant of the module's run.

*ActiveServer.* That no active is run twice at once is not inductive: a second run could begin
because the pool has the `mirco_active` twice, or a poster puts it while a thread owns it. The
invariant is

    IInv == TypeOK /\ Holdings /\ Origin /\ OneOwner /\ OneRun /\ FlagMeansScheduled

where `OneRun` counts the rights to run an active (a poster about to put it, its entries in
the pool, a thread that owns it) and says that there is at most one, `FlagMeansScheduled` ties
that right to `_run_flag`, `Holdings` says which locals are set at which step, and `Origin` where
flags and handles come from. The argument: the exchange at `active_server.cpp:80` gives the
right only when the flag was off, hence when there was none; put, pop and run hand it on; the
store of `false` gives it up. Refinement follows step by step with the busy event defined by the
owner, which `SerialActive` makes unique. `MailboxInOrder` is proved of the abstract mailbox, from
an invariant that the events done, the one busy and those queued are the numbers posted in
order, and carries over to the server as `ServerInOrder`.

*NoBlockingPool.* The invariant is `PoolTypeOK /\ PoolLocking /\ PoolPutting /\ PoolApart /\ PoolFinite /\
SizeExact`: who is between
`try_lock` and `unlock` has the lock of the list it looks at (`PoolLocking`); what a thread is putting is
its own until it counts it and is in one list from the push to the count (`PoolPutting`, `PoolApart`); and
`_size` is the number of objects that are in a list and counted, and of those just taken out and not
uncounted yet. So a pop that reads 0 finds the pool empty in the abstract too, and every step is a
`Put` at the count, a `Pop` at the taking out, a `PopEmpty`, or leaves the stock alone.

*HazardSystem.* `HazardIInv == HazardTypeOK /\ Holding /\ OneUser /\ Shown /\ Retiring /\ RecordsLinked`.
`RecordsLinked` is the part that had to be found: a push exchanges `_head` and stores `_next` later, so
the list is cut in between. It says that every record that was pushed is in each set of records that
contains the head and is closed under `nextRec` and under the links that the running pushes are about to
store. The closed sets stand in for the walk, which is recursive. With it a scan that met no half-pushed
record comes by every pointer it owes (`Scanning`), and a node in use stays because any scan that may
free it owes its pointer (`Using`).

*MSQueue.* `IInv == TypeOK /\ PcOK /\ ListOK /\ Made /\ Validated /\ Taken`. `ListOK`: the nodes from
`_begin` on are a list without a cycle, `_end` is on it, and none is free. `Made` and `Taken` say that
a node that is not linked yet, or was taken off, is in no other place; `Validated` says what a thread
that found its published node in `_begin` or `_end` again may rely on, step by step, although the
queue moves on: it is not freed, its `_next` does not return to null, and a swap that
succeeds found it where it was. `Counted` ties `_size` to the list and to the operations that have not
counted. `MemoryAssumption`, that the nodes are finitely many, makes the list end.

*WriteBuff.* `IInv == TypeOK /\ Locking /\ FlagOnce /\ Current /\ Contents /\ SendEmpty`: the flag is with
one thread, with the kernel or lost with the connection (`FlagOnce`); who copies has the buffer that
is written, and the sender the other one, but between the two stores of the exchange (`Current`); and
the send buffer is empty but on its way out (`SendEmpty`). `NothingIsLeftBehind` adds who will yet
send what is written (`Cared`), and the refinement that the messages in the buffers are those copied
and not sent, in order, once (`Fresh`).

*ReadBuff.* `IInv == TypeOK /\ LocalsOK /\ IsFiniteSet(Receiving) /\ (~ twice => Once)`. `Once` says that the
waiting `WSARecv`, its completion and the thread in `OnRecv` or in the flush of `async_recv` are one right
(`Single`), that what this thread has read of the buffer's place and size is still so (`Current`), and
that what was given and what the buffer holds are the stream so far, in order (`InOrder`). Types hold
even when two `OnRecv`s share the buffer: it is doubled by each, which makes room for what
each adds. `ReceiverNeverDeaf` needs that an error of `recv()` was recorded before `OnRecv` ends with
it. That the buffer's size doubles, 2^(n+1) = 2 * 2^n, is proved from the number of subsets of a set.

*WinSockets.* `OwnerIsOne` rests on `TypeInv`, of which the part that matters says that a count is the
number of the handles that share it, a sum over the threads, and on

    OwnerOK == ~ overlap => OneReader /\ \A s \in Sockets : Places(s) = Bit(s \in made)

`Places` adds up where a socket can be: the pool, the counts, the waiting accepts, the completions that carry it,
the threads in `OnAccept`, and what is lost; `OneReader` says that one destructor has seen the count reach 0.
TLC, asked about three threads, found a second way to break it, which two do not show: a handle may be
assigned, and so lowered again, between the two accesses of another destructor; `overlap` has both. `ChainIsAlive`
has `ChainOK` of each listener, an `AcceptEx` under way or a thread on the way to the next. `LimitHolds` has
`LimitOK`: `nConnect`, less a multiple of `Wrap` and of 0 or more, is at least the clients that are
connected, the accepts that have raised it being counted by chain. The assumptions say that
the sets are finite, that the pool has a limit and that the limit of connections is below `Wrap`.

*IntervalTable.* `IInv == Shape /\ Words /\ Counted /\ MapOK /\ (~promoted => Bucket /\ Unpromoted)`.
`Words`: a node's word is -1 when `set` or `erase` has the node, and at least the number of threads that
read it or write it as `insert` does; a new writer needs the word 0 or the erased one, which nobody
shares. This holds whatever the promotions have made of the bucket's word, and although `for_each` raises
words it should lower. `Counted`, which needs no exception either: `_size`, the inserts that still have
to count and the nodes that are erased make up the nodes that were made, the lost races and the erases
that still have to count. Each promotion is passed on the way, for the insert of a new key is one; that
two inserts may be in the bucket at a time does not matter, because each of them makes one node and
counts one. `MapOK` goes from nodes to keys: no two keys have one node, and each node has a key unless an
insert put its map over another's (`overwrote`). At rest the two give `SizeCounts`. `Bucket`: as long as
no insert was promoted the word of the bucket is shared locks plus 65536 times upgradable ones, those
never given back included; that the shared ones stay below 65536 is the guard of `shared_lock`.
`NodesOK`, in `Shape`, bounds the nodes as `CreatedOK` bounds the chunks below.

*PageHeap.* `HeapNeverBusy`: with at least as many micro heaps as threads no allocation finds
all of them busy, although it looks at each at another moment and their holders change. This is a
counting argument. `Room` says that for every i at most `NHeaps - i` threads probe or hold a micro
heap at i or later. A thread that finds i busy shares it with its holder, so two more threads are at i
or later than above i (`TwoMore`); so there is room for one more above (`MoveOn`), and i was not the
last (`NotTheLast`). `FlagHeld` supplies the holder. The theorem excludes runs in which a second
`_malloc` failed, after which the code leaves the flag set; `SecondTryFits`, which is part of
`ChunksRecoveredOnce`, says when that can be.

`BlocksDoNotOverlap` and `ChunksRecoveredOnce` have the invariant

    BlocksInv == TypeOK /\ LocalsOK /\ CreatedOK /\ CopyOK /\ (~ stale /\ ~ misread => Sound)

`Sound` has ten parts; the two that carry the argument are `CountOK`, that a chunk's count is
the number of its blocks in use and of the threads about to lower it, and `Owners`, that the chunk of a
micro heap that is not leaving it is unmarked, not out of use and no other's. Who takes a
chunk from its start has seen the count 0 and is its only owner, so no block is cut twice; who
recovers one made the comparison of `rec_flag` succeed, once, and puts it in one place. The indices of the
ring do not matter. A resize may lose chunks, and from behind the array it may copy words that are no chunks; but
no chunk gets two places in the new array, because the two parts it copies come from different slots
(`MovedApart`), so the chunks in one place are still in one (`ResizeSound`, `ResizeDoneSound`). `CopyOK` says
that the new array is empty but while it is filled. Two things remain that would break it, and `misread` records
them: a taker that read `_free` before the resize and takes from the old array a chunk that the new one has too,
and one that takes a word for a chunk. `CreatedOK` bounds the chunks: an allocation creates one at most.

*BigChunks.* `BigInv == ~ stale => Sound`. `Sound` is about what the list's operations may mix up, and
what a heap and a `free()` may: the chunks lie side by side up to `top` (`Tiles`); a chunk is in the list
once, with one that puts it there, or with one heap, without a mark (`InOnePlace`); or it is marked, and
then a block in it, a `free()` that saw the count 0, or the heap before its second look is left to
recover it (`SomewhereOK`). The count is that of the blocks, and of a `_malloc` that found no room
(`CountsOK`); with it a count of 0 means that nobody else has the chunk, and a swap of `rec_flag` at that
time makes one owner. `RoomOK`, that a second `_malloc` finds room, needs that a merge makes chunks
larger only. `CutsOK` and, before a block grew while another was cut, `BlocksOK` keep the blocks apart.
The list's part is shown for lists of any length: a search that ends is at a chunk that is large enough
or at none (`SearchFinds`), the merge of two chunks that meet keeps the others' places (`TilesMerged`),
the loop of `_merge_bigfree` loses none of those it does not merge (`Merged`), and all that are left are
put back once (`AllInserted`). `BigAssumption` says that the first chunks fit the memory, and that the
heaps are finitely many.

Model-checked only:

* Liveness (`WaitingEventIsHandled`, `StopEndsThreads`, `SomeOperationEnds` of two modules, `NothingWaits`),
  which the prover does not do.
* Of `FlagCounts` of the interval table: that a word of -1 is one thread's (`MinusOneIsAlone`), and the bound
  of the nodes' words in `TypeOK`. After a promotion the word of the bucket is a sum of what
  several threads added, and a thread that unlocks twice (`concurrent_interval_table.h:143` and 157) leaves
  it one higher. TLC finds it to hold for two threads with three calls each and for three with
  one; no claim is made for more.
* That the search of the list of big chunks finds the smallest chunk that is large enough
  (`SearchUpToFive`); it need not even end (`SearchOfSix`). The proofs rest only on that it ends, if it
  does, at a chunk that is large enough.
* `PoppedOnce` of the deque, which does not hold.

## 7. Disagreements with comments and tests

Two that runs show:

* `container/optimistic_queue.h:5` calls the class a lock-free deque, and
  `test/optimistic_queue_test.cpp` pops at both ends at once. `pop_front` moves `head` to the last
  node (120) and cuts that node's `prev` afterwards (121); a `pop_back` in between compares the `prev`
  it has read with the new `head` (211), does not see that the node is the dummy now, and returns its
  datum too. Run `deque`, property `PoppedOnce`.
* The server of `test/async_net_test_server.cpp:131-140` is made for a stream that arrives in pieces: it keeps
  what is shorter than a message and waits for the rest. `OnRecv` gives it no such piece: a `recv()` that
  does not fill the buffer leaves the loop (`socket_base_win32.cpp:368`) before its bytes are counted (387). Run
  `shortread`, property `ShortReadsDelivered`, one thread and no concurrency.

Stated as a definition of the module that no listed run checks; TLC refutes each with the module's
configuration changed as said:

* `_hazard_ptr.h:155` says that a scan collects all non-null pointers. It misses those behind
  a record that was pushed and not linked yet (101). `HazardSystem`, `ScanCollectsAll`, two threads.
* `concurrent_interval_table.h:30` says -1 is write and 0-N read. After a failed
  compare-and-swap (341) the exchange at 347 takes any word, and a writer proceeds beside readers.
  `IntervalTable`, `WriterAlone`, with `Ops` insert and search.
* `test/interval_table_test.cpp:16-18` starts two inserting threads and joins them. They can wait for
  each other in the promotion (336) for ever. `IntervalTable`, `FairSpec`, `InsertsFinish`, with `Ops`
  insert.
* `pool/main.cpp:23-24` joins two threads that allocate and free in turn. `_chunk_from_free` waits for
  the slot behind the one that `_recover_to_free` filled (`mempage_heap.cpp:151` against 228), and both
  threads may wait for ever. `PageHeap`, `FairSpec`, `TestEnds`, with `Hold` 1 and `MaxCalls` 4.

Found while reading, and built into the models as the code does it where the part is modelled:

* `list_erase` (`c_list.c:23`) is commented as deleting the node, but its loop stops at the node and
  not before it: it unlinks nothing, and `free` follows. (`virmem/` is in no model, see 8.)
* `swap_in` maps as much as the reserved range it found is long, which can be more than the handle's
  size; a `vmalloc` that fails puts its range back with the length where the end is expected;
  `swap_out` leaves `mem` set when the reservation of the addresses fails. (In no model.)
* `_resize_freelist` (`mempage_heap.cpp:398-419`) does something only when the two indices are equal,
  which takes a put that has lost its lock (at the end of its block, 225); it copies as if the ring were
  full then, leaves chunks behind, and may read behind the array (`PageHeap`).
* `_bisearch` need not end with six free chunks (`SearchOfSix`), and `_bigfree_flag` stays set.
* `angrealloc` that grows a block in place leaves the old size in its header, so that a later move
  copies too little.
* `recv()` that returns 0 is taken for a short read; the handler is never told that the peer closed.
* `isdisconnect` stays false after `closesocket`, `isclosed` is never set, and a `socket_base` that
  comes back from the pool keeps its handlers and their flags.
* `delete` of a `socket_base` does not reach the destructor of the Windows class, which is not
  virtual: the system socket is not given back.
* A function posted to the service is never run: `swapque::push` never raises the `_size` that `pop`
  tests.
* `do_timer` (`timer.cpp:83-106`) also runs the first timer that is not due, and runs none when no
  timer lies in the future.

## 8. What is not modelled

* `msque::clear` beside other operations: it frees the list they use, and nothing is promised.
* The hash functions and the 1023 buckets: buckets share nothing but `_size`.
* `_merge` of the ring of free chunks. It is called when the indices are equal, so that its loop is
  entered only if another thread moved `_free_slide` before the lock was taken; one iteration is then
  always made, and with fewer than 512 chunks (`_free_max/2`) it is the last (340), with more there are
  several. In `PageHeap` chunks are taken as not adjacent, and `Merge` finds nothing to merge; a slot
  that is not stored yet, which the loop would follow as a null pointer, is not looked at.
* Of the resizing of the ring: the copy (`memcpy`, 415-416) is one step. The second resize calls `_chunk`
  for its memory (410), which waits for the lock that its own thread has (`put_stuck`); if that thread
  has lost the lock, the second resize is not followed. The resizing of the list of big chunks is not
  modelled: the lists stay far from 1024. Small and big blocks are in different modules and do not meet
  in one chunk.
* `mirco_active`'s queue is taken as a FIFO queue and the server's pool as a bag with a lagging
  size, as `MSQueue` and `NoBlockingPool` show them to be.
* Sending, receiving and the life of a connection are three modules with state of their own; a socket
  that is closed while it sends is in none of them. `bind`, `get_remote_addr` and the registration of
  the handlers other than `onAccept` change nothing the properties see. The buffer and overlapped pools
  are `no_blocking_pool`s around `new`.
* `virmem/`. What it does depends on the allocator below it more than on its own steps: `list_erase`
  unlinks nothing and `free` follows, so that the nodes of its lists are freed memory; a sequence of
  legal calls, with no second thread (`swap_out`, `swap_in`, `vmalloc`), takes one address node twice and
  frees it twice (`virmem.c:87-93`); `vfree` allocates a node (281) that can be one still linked, and is
  written field by field; and both kinds of node have one size, so that either can come back as the
  other. What holds of the ranges and views under all that would be said of the model's allocator and not
  of this code.
* `optimistic_queue::clear` does not compile. `ringque`'s put and take are those of `PageHeap`'s ring
  with another start. `swapque` gives nothing out. `wait_any` is one interval table and a loop that
  polls a condition of the caller's. The timer is thread-local and sequential.
* `async_net/linux` does not compile. `delete/` is retired. Strings, exceptions and logging keep no state.
* Weak memory, except for the one plain store in `HazardSystem`.

## 9. Plan

Done: the concurrent core, that is active objects, pool, hazard pointers, both queues, interval table,
page heap with small and big blocks, both directions of a socket, its handles and connections.

Proved: what section 6 lists, that is every safety property and refinement that a passing run checks, but for
the other two parts of `FlagCounts`.

Theorems worth proving next: the bound of the nodes' words in `IntervalTable`, and that the search of
`BigChunks` ends where a list has at most five chunks.

Modules that could follow: one that composes the life of a connection with its two buffers, and the
timer's maps.
