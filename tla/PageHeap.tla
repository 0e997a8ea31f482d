------------------------------ MODULE PageHeap ------------------------------
(***************************************************************************)
(* pool/: angmalloc and angfree for blocks of less than 4096 bytes.        *)
(*                                                                         *)
(* The heap has one micro heap per processor.  An allocation takes the     *)
(* first one whose flag it can set, and cuts the block from its chunk.     *)
(* Blocks are never given back one by one: a chunk counts its blocks, and  *)
(* when a full chunk still has some, the micro heap marks it for recovery  *)
(* (rec_flag 1) and goes on with another chunk; the free() that takes the  *)
(* count to 0 recovers it (rec_flag 2) into a ring of free chunks.         *)
(*                                                                         *)
(* The ring is an array.  When it is full, as a put finds it without the   *)
(* lock it lost before, its chunks are copied to one of twice its length.  *)
(*                                                                         *)
(* All blocks have one size here, and a chunk room for Cap of them.  The   *)
(* chunks are not adjacent in memory, so the merges find nothing to merge, *)
(* and no chunk is larger than chunk_size, so the list of big chunks stays *)
(* empty.                                                                  *)
(***************************************************************************)
EXTENDS Integers, FiniteSets

CONSTANTS
  Threads,
  NHeaps,     \* concurrent_count
  Cap,        \* blocks per chunk
  RingMax,    \* _free_max at first, 1024 in the code
  Hold,       \* bound on the blocks a thread has at a time
  MaxCalls,   \* bound on the allocations of each thread
  None

ASSUME HeapsAssumption == NHeaps \in Nat \ {0} /\ IsFiniteSet(Threads)
ASSUME SizesAssumption == Cap \in Nat \ {0} /\ RingMax \in Nat \ {0, 1}
ASSUME BoundsAssumption == Hold \in Nat /\ MaxCalls \in Nat
ASSUME NoneAssumption == None \notin Threads \cup Nat /\ None \notin Nat \X Nat

Heaps == 0 .. NHeaps - 1
MaxRing == 4 * RingMax  \* bound on _free_max: the array is replaced once
Slots == 0 .. MaxRing - 1
Chunks == 1 .. NHeaps + Cardinality(Threads) * MaxCalls
Blocks == Chunks \X (1 .. Cap)

VARIABLES
  flag,     \* flag[h]: the thread that set _flag of micro heap h, or None
  chunk,    \* chunk[h]: chunk_small of micro heap h
  created,  \* how many chunks were created
  count, recFlag,  \* of each chunk
  slide,    \* slide[c]: how many blocks were cut from chunk c
  ring, freeSlide, allocSlide,  \* _free, _free_slide, _alloc_slide
  ringMax,  \* _free_max
  copy,     \* _tmp: the array that a resize fills
  oldRing,  \* the array that _free was before the resize
  early,    \* threads that may have read _free before, and not used it yet
  shared,   \* the threads with a shared lock of _free_mu
  upgrade,  \* the thread with its upgrade lock, or None
  pc, heap, cur, blk,  \* each thread: step, micro heap, chunk, block
  again,    \* again[t]: t is in the second _malloc of the allocation
  at, new,  \* each thread's slide and newslide
  calls,    \* calls[t]: how many allocations t has begun
  held,     \* held[t]: the blocks t owns
  failed,   \* history: an allocation returned 0
  leaked,   \* history: a second _malloc failed, and the flag stayed set
  misread,  \* history: a chunk was taken from the old array after a resize
            \* began, or what is no chunk was taken for one
  stale     \* history: a compare-and-swap of rec_flag, made because the count
            \* was 0, succeeded when it was so no more

heaps == <<flag, chunk>>
chunks == <<created, count, recFlag, slide>>
arrays == <<ringMax, copy, oldRing>>
indices == <<ring, freeSlide, allocSlide, arrays, early>>
locks == <<shared, upgrade>>
locals == <<heap, cur, blk, again, at, new>>
client == <<calls, held>>
history == <<failed, leaked, misread, stale>>
vars == <<heaps, chunks, indices, locks, pc, locals, client, history>>

\* Stands for the header of _bigfree, two words of the heap's first chunk that
\* lie behind _free (a pointer and a size).  The rest of that chunk is 0.
Header == 0
Nothing == [i \in Slots |-> None]

\* _create_mempage_heap: a chunk for each micro heap, and an empty ring.
Init ==
  /\ flag = [h \in Heaps |-> None]
  /\ chunk = [h \in Heaps |-> h + 1]
  /\ created = NHeaps
  /\ count = [c \in Chunks |-> 0]
  /\ recFlag = [c \in Chunks |-> 0]
  /\ slide = [c \in Chunks |-> 0]
  /\ ring = [i \in Slots |-> IF i \in {RingMax, RingMax + 1} THEN Header ELSE None]
  /\ freeSlide = 0 /\ allocSlide = 0 /\ ringMax = RingMax
  /\ copy = Nothing /\ oldRing = Nothing /\ early = {}
  /\ shared = {} /\ upgrade = None
  /\ pc = [t \in Threads |-> "idle"]
  /\ heap = [t \in Threads |-> 0]
  /\ cur = [t \in Threads |-> None]
  /\ blk = [t \in Threads |-> None]
  /\ again = [t \in Threads |-> FALSE]
  /\ at = [t \in Threads |-> 0]
  /\ new = [t \in Threads |-> 0]
  /\ calls = [t \in Threads |-> 0]
  /\ held = [t \in Threads |-> {}]
  /\ failed = FALSE /\ leaked = FALSE /\ misread = FALSE /\ stale = FALSE

Goto(t, l) == pc' = [pc EXCEPT ![t] = l]
Wrap(i) == IF i = ringMax THEN 0 ELSE i

\* The chunk an allocating thread works on
Chunk(t) == chunk[heap[t]]

-----------------------------------------------------------------------------
(* _mempage_heap_alloc                                                     *)

\* Mutant of CallAlloc: the probing starts anywhere.
CallAnywhere(t) ==
  /\ pc[t] = "idle" /\ calls[t] < MaxCalls /\ Cardinality(held[t]) < Hold
  /\ calls' = [calls EXCEPT ![t] = @ + 1]
  /\ \E h \in Heaps : heap' = [heap EXCEPT ![t] = h]
  /\ again' = [again EXCEPT ![t] = FALSE]
  /\ Goto(t, "probe")
  /\ UNCHANGED <<heaps, chunks, indices, locks, cur, blk, at, new, held, history>>

CallAlloc(t) ==
  /\ pc[t] = "idle" /\ calls[t] < MaxCalls /\ Cardinality(held[t]) < Hold
  /\ calls' = [calls EXCEPT ![t] = @ + 1]
  /\ heap' = [heap EXCEPT ![t] = 0]
  /\ again' = [again EXCEPT ![t] = FALSE]
  /\ Goto(t, "probe")
  /\ UNCHANGED <<heaps, chunks, indices, locks, cur, blk, at, new, held, history>>

\* test_and_set finds the flag clear.
TakeHeap(t) ==
  /\ pc[t] = "probe" /\ flag[heap[t]] = None
  /\ flag' = [flag EXCEPT ![heap[t]] = t]
  /\ Goto(t, "malloc")
  /\ UNCHANGED <<chunk, chunks, indices, locks, locals, client, history>>

\* On to the next micro heap; after the last one the allocation returns 0.
NextHeap(t) ==
  IF heap[t] + 1 < NHeaps
  THEN /\ heap' = [heap EXCEPT ![t] = @ + 1]
       /\ Goto(t, "probe")
       /\ UNCHANGED failed
  ELSE /\ failed' = TRUE
       /\ heap' = [heap EXCEPT ![t] = 0]
       /\ Goto(t, "idle")

HeapBusy(t) ==
  /\ pc[t] = "probe" /\ flag[heap[t]] # None
  /\ NextHeap(t)
  /\ UNCHANGED <<heaps, chunks, indices, locks, cur, blk, again, at, new, client, leaked,
                 misread, stale>>

-----------------------------------------------------------------------------
(* _malloc                                                                 *)

\* Mutant of MallocReset: one block may be left.
ResetEarly(t) ==
  /\ pc[t] = "malloc"
  /\ slide' = IF count[Chunk(t)] <= 1 THEN [slide EXCEPT ![Chunk(t)] = 0] ELSE slide
  /\ Goto(t, "count")
  /\ UNCHANGED <<heaps, created, count, recFlag, indices, locks, locals, client, history>>

\* A chunk without blocks is used from its start.
MallocReset(t) ==
  /\ pc[t] = "malloc"
  /\ slide' = IF count[Chunk(t)] = 0 THEN [slide EXCEPT ![Chunk(t)] = 0] ELSE slide
  /\ Goto(t, "count")
  /\ UNCHANGED <<heaps, created, count, recFlag, indices, locks, locals, client, history>>

\* count++, and the block if there is room
MallocCount(t) ==
  LET c == Chunk(t) IN
  /\ pc[t] = "count"
  /\ count' = [count EXCEPT ![c] = @ + 1]
  /\ IF slide[c] < Cap
     THEN /\ slide' = [slide EXCEPT ![c] = @ + 1]
          /\ blk' = [blk EXCEPT ![t] = <<c, slide[c] + 1>>]
          /\ Goto(t, "clear")
     ELSE /\ Goto(t, "uncount")
          /\ UNCHANGED <<slide, blk>>
  /\ UNCHANGED <<heaps, created, recFlag, indices, locks, heap, cur, again, at, new, client,
                 history>>

\* No room: count--.  (Were this the second _malloc, the flag would stay set.)
MallocUncount(t) ==
  /\ pc[t] = "uncount"
  /\ count' = [count EXCEPT ![Chunk(t)] = @ - 1]
  /\ leaked' = (leaked \/ again[t])
  /\ IF again[t]
     THEN NextHeap(t)
     ELSE Goto(t, "full") /\ UNCHANGED <<heap, failed>>
  /\ UNCHANGED <<heaps, created, recFlag, slide, indices, locks, cur, blk, again, at, new,
                 client, misread, stale>>

\* clear(_heap), and the block is the caller's.
ClearHeap(t) ==
  /\ pc[t] = "clear"
  /\ flag' = [flag EXCEPT ![heap[t]] = None]
  /\ held' = [held EXCEPT ![t] = @ \cup {blk[t]}]
  /\ blk' = [blk EXCEPT ![t] = None]
  /\ heap' = [heap EXCEPT ![t] = 0]
  /\ again' = [again EXCEPT ![t] = FALSE]
  /\ Goto(t, "idle")
  /\ UNCHANGED <<chunk, chunks, indices, locks, cur, at, new, calls, history>>

-----------------------------------------------------------------------------
(* _mirco_mempage_heap_alloc_small, when the chunk is full                 *)

\* The chunk in use starts over, and _malloc is tried again.
StartOver(t) ==
  /\ slide' = [slide EXCEPT ![Chunk(t)] = 0]
  /\ again' = [again EXCEPT ![t] = TRUE]
  /\ Goto(t, "malloc")

\* count.load() == 0: all its blocks are gone meanwhile.
FullButEmpty(t) ==
  /\ pc[t] = "full" /\ count[Chunk(t)] = 0
  /\ StartOver(t)
  /\ UNCHANGED <<heaps, created, count, recFlag, indices, locks, heap, cur, blk, at, new,
                 client, history>>

FullInUse(t) ==
  /\ pc[t] = "full" /\ count[Chunk(t)] # 0
  /\ Goto(t, "mark")
  /\ UNCHANGED <<heaps, chunks, indices, locks, locals, client, history>>

\* rec_flag.store(1): whoever frees the last block recovers the chunk.
MarkChunk(t) ==
  /\ pc[t] = "mark"
  /\ recFlag' = [recFlag EXCEPT ![Chunk(t)] = 1]
  /\ Goto(t, "recheck")
  /\ UNCHANGED <<heaps, created, count, slide, indices, locks, locals, client, history>>

\* The last block may have gone before the mark was seen.
Recheck(t) ==
  /\ pc[t] = "recheck"
  /\ Goto(t, IF count[Chunk(t)] = 0 THEN "unmark" ELSE "take_lock")
  /\ UNCHANGED <<heaps, chunks, indices, locks, locals, client, history>>

\* compare_exchange(1, 0): the micro heap keeps the chunk, ...
Unmark(t) ==
  /\ pc[t] = "unmark" /\ recFlag[Chunk(t)] = 1
  /\ recFlag' = [recFlag EXCEPT ![Chunk(t)] = 0]
  /\ stale' = (stale \/ count[Chunk(t)] # 0)
  /\ StartOver(t)
  /\ UNCHANGED <<heaps, created, count, indices, locks, heap, cur, blk, at, new, client,
                 failed, leaked, misread>>

\* ... or a free() was first.
UnmarkFails(t) ==
  /\ pc[t] = "unmark" /\ recFlag[Chunk(t)] # 1
  /\ Goto(t, "take_lock")
  /\ UNCHANGED <<heaps, chunks, indices, locks, locals, client, history>>

-----------------------------------------------------------------------------
(* _chunk and _chunk_from_free                                             *)

\* A thread waits in lock() of _free_mu: boost lets no new shared or upgrade
\* lock overtake it.
SomeoneWaits == \E u \in Threads : pc[u] = "merge"

\* A put that has the unique lock
Alone(u) == upgrade = u /\ pc[u] \in {"put_full", "put_resize", "put_copy", "put_stuck"}

TakeLock(t) ==
  /\ pc[t] = "take_lock" /\ ~ SomeoneWaits /\ \A u \in Threads : ~ Alone(u)
  /\ shared' = shared \cup {t}
  /\ at' = [at EXCEPT ![t] = allocSlide]
  /\ Goto(t, "take_test")
  /\ UNCHANGED <<heaps, chunks, indices, upgrade, heap, cur, blk, again, new, client, history>>

\* slide == _free_slide: nothing in the ring, nothing in the big list, so
\* _create_chunk
CreateChunk(t) ==
  /\ pc[t] = "take_test" /\ at[t] = freeSlide
  /\ shared' = shared \ {t}
  /\ created' = created + 1
  /\ cur' = [cur EXCEPT ![t] = created + 1]
  /\ at' = [at EXCEPT ![t] = 0]
  /\ Goto(t, "install")
  /\ UNCHANGED <<heaps, count, recFlag, slide, indices, upgrade, heap, blk, again, new, client,
                 history>>

TakeTest(t) ==
  /\ pc[t] = "take_test" /\ at[t] # freeSlide
  /\ Goto(t, "take_swap")
  /\ UNCHANGED <<heaps, chunks, indices, locks, locals, client, history>>

\* _alloc_slide goes from slide to newslide, ...
TakeSwap(t) ==
  /\ pc[t] = "take_swap"
  /\ IF allocSlide = at[t]
     THEN /\ allocSlide' = Wrap(at[t] + 1)
          /\ at' = [at EXCEPT ![t] = Wrap(@ + 1)]
          /\ Goto(t, "take_wait")
     ELSE /\ at' = [at EXCEPT ![t] = allocSlide]
          /\ Goto(t, "take_test")
          /\ UNCHANGED allocSlide
  /\ UNCHANGED <<heaps, chunks, ring, freeSlide, arrays, early, locks, heap, cur, blk, again, new,
                 client, history>>

\* The chunk a word of the array is taken for: behind the array, any.
TakenFor(t, word) ==
  \E c \in Chunks :
    /\ word = c \/ word = Header
    /\ cur' = [cur EXCEPT ![t] = c]

Resizing == \E u \in Threads : pc[u] = "put_copy"

\* ... and the thread exchanges _free[newslide] (not _free[slide]) until it
\* is not null, with the shared lock.  (_free is read anew each time.)
TakeChunk(t) ==
  /\ pc[t] = "take_wait"
  /\ \/ /\ ring[at[t]] # None
        /\ TakenFor(t, ring[at[t]])
        /\ ring' = [ring EXCEPT ![at[t]] = None]
        /\ misread' = (misread \/ Resizing \/ ring[at[t]] = Header)
        /\ UNCHANGED oldRing
     \/ /\ t \in early /\ oldRing[at[t]] # None
        /\ TakenFor(t, oldRing[at[t]])
        /\ oldRing' = [oldRing EXCEPT ![at[t]] = None]
        /\ misread' = TRUE
        /\ UNCHANGED ring
  /\ early' = early \ {t}
  /\ shared' = shared \ {t}
  /\ at' = [at EXCEPT ![t] = 0]
  /\ Goto(t, "install")
  /\ UNCHANGED <<heaps, chunks, freeSlide, allocSlide, ringMax, copy, upgrade, heap, blk,
                 again, new,
                 client, failed, leaked, stale>>

\* The chunk is reset and becomes the micro heap's.
Install(t) ==
  LET c == cur[t] IN
  /\ pc[t] = "install"
  /\ count' = [count EXCEPT ![c] = 0]
  /\ recFlag' = [recFlag EXCEPT ![c] = 0]
  /\ slide' = [slide EXCEPT ![c] = 0]
  /\ chunk' = [chunk EXCEPT ![heap[t]] = c]
  /\ cur' = [cur EXCEPT ![t] = None]
  /\ again' = [again EXCEPT ![t] = TRUE]
  /\ Goto(t, "malloc")
  /\ UNCHANGED <<flag, created, indices, locks, heap, blk, at, new, client, history>>

-----------------------------------------------------------------------------
(* _free                                                                   *)

CallFree(t) ==
  /\ pc[t] = "idle"
  /\ \E b \in held[t] :
       /\ held' = [held EXCEPT ![t] = @ \ {b}]
       /\ cur' = [cur EXCEPT ![t] = b[1]]
  /\ Goto(t, "uncount_block")
  /\ UNCHANGED <<heaps, chunks, indices, locks, heap, blk, again, at, new, calls, history>>

\* --count == 0
UncountBlock(t) ==
  LET last == count[cur[t]] = 1 IN
  /\ pc[t] = "uncount_block"
  /\ count' = [count EXCEPT ![cur[t]] = @ - 1]
  /\ cur' = IF last THEN cur ELSE [cur EXCEPT ![t] = None]
  /\ Goto(t, IF last THEN "recover" ELSE "idle")
  /\ UNCHANGED <<heaps, created, recFlag, slide, indices, locks, heap, blk, again, at, new,
                 client, history>>

\* Mutant of Recover: rec_flag is set and not compared.
RecoverAnyway(t) ==
  /\ pc[t] = "recover"
  /\ recFlag' = [recFlag EXCEPT ![cur[t]] = 2]
  /\ stale' = (stale \/ count[cur[t]] # 0)
  /\ Goto(t, "put_lock")
  /\ UNCHANGED <<heaps, created, count, slide, indices, locks, locals, client, failed, leaked,
                 misread>>

\* compare_exchange(1, 2), some time after the count was 0
Recover(t) ==
  /\ pc[t] = "recover" /\ recFlag[cur[t]] = 1
  /\ recFlag' = [recFlag EXCEPT ![cur[t]] = 2]
  /\ stale' = (stale \/ count[cur[t]] # 0)
  /\ Goto(t, "put_lock")
  /\ UNCHANGED <<heaps, created, count, slide, indices, locks, locals, client, failed, leaked,
                 misread>>

NotMarked(t) ==
  /\ pc[t] = "recover" /\ recFlag[cur[t]] # 1
  /\ cur' = [cur EXCEPT ![t] = None]
  /\ Goto(t, "idle")
  /\ UNCHANGED <<heaps, chunks, indices, locks, heap, blk, again, at, new, client, history>>

-----------------------------------------------------------------------------
(* _recover_chunk and _recover_to_free                                     *)

PutLock(t) ==
  /\ pc[t] = "put_lock" /\ upgrade = None /\ ~ SomeoneWaits
  /\ upgrade' = t
  /\ at' = [at EXCEPT ![t] = freeSlide]
  /\ Goto(t, "put_test")
  /\ UNCHANGED <<heaps, chunks, indices, shared, heap, cur, blk, again, new, client, history>>

\* newslide == _alloc_slide: the ring is full.
PutTest(t) ==
  /\ pc[t] = "put_test"
  /\ new' = [new EXCEPT ![t] = Wrap(at[t] + 1)]
  /\ Goto(t, IF Wrap(at[t] + 1) = allocSlide THEN "put_alone" ELSE "put_swap")
  /\ UNCHANGED <<heaps, chunks, indices, locks, heap, cur, blk, again, at, client, history>>

\* The upgrade lock becomes a unique one (the second time round there is no
\* lock any more), and slide is read again, ...
PutAlone(t) ==
  /\ pc[t] = "put_alone" /\ (upgrade = t => shared = {})
  /\ at' = [at EXCEPT ![t] = freeSlide]
  /\ Goto(t, "put_full")
  /\ UNCHANGED <<heaps, chunks, indices, locks, heap, cur, blk, again, new, client, history>>

\* ... and at the end of the block the lock is gone, and the loop goes on
\* without one.
GoOnAlone(t) ==
  /\ upgrade' = IF upgrade = t THEN None ELSE upgrade
  /\ Goto(t, "put_swap")

\* newslide == _alloc_slide still?  Only then _resize_freelist is called.
PutFull(t) ==
  /\ pc[t] = "put_full"
  /\ IF new[t] = allocSlide THEN Goto(t, "put_resize") /\ UNCHANGED upgrade ELSE GoOnAlone(t)
  /\ UNCHANGED <<heaps, chunks, indices, shared, locals, client, history>>

\* _resize_freelist does nothing if the two indices differ.
NoResize(t) ==
  /\ pc[t] = "put_resize" /\ freeSlide # allocSlide
  /\ GoOnAlone(t)
  /\ UNCHANGED <<heaps, chunks, indices, shared, locals, client, history>>

\* What is copied: _free[0 .. i-1] to the beginning of the new array, and
\* _free[i .. 2*i-1], wherever that ends, to its end.
Moved(i) ==
  [j \in Slots |-> IF j < i THEN ring[j]
                   ELSE IF j \in 2 * ringMax - i .. 2 * ringMax - 1 THEN ring[j - 2 * ringMax + 2 * i]
                   ELSE None]

\* They are equal: _free_max is doubled and the array copied.  The heap's first
\* chunk has room for one new array; for the second one _chunk is called, and
\* waits for _free_mu, which this thread has.  (If it has lost it, the second
\* resize is not followed.)
Resize(t) ==
  /\ pc[t] = "put_resize" /\ freeSlide = allocSlide
  /\ ringMax = RingMax \/ (ringMax = 2 * RingMax /\ upgrade = t)
  /\ ringMax' = 2 * ringMax
  /\ IF ringMax = RingMax
     THEN copy' = Moved(freeSlide) /\ Goto(t, "put_copy")
     ELSE Goto(t, "put_stuck") /\ UNCHANGED copy
  /\ UNCHANGED <<heaps, chunks, ring, freeSlide, allocSlide, oldRing, early, locks, locals,
                 client, history>>

\* _free is the new array; who uses it now may have read it before.
ResizeDone(t) ==
  /\ pc[t] = "put_copy"
  /\ ring' = copy /\ oldRing' = ring /\ copy' = Nothing
  /\ early' = {u \in Threads : pc[u] \in {"take_wait", "put_store"}}
  /\ GoOnAlone(t)
  /\ UNCHANGED <<heaps, chunks, freeSlide, allocSlide, ringMax, shared, locals, client, history>>

PutSwap(t) ==
  /\ pc[t] = "put_swap"
  /\ IF freeSlide = at[t]
     THEN /\ freeSlide' = new[t]
          /\ Goto(t, "put_store")
          /\ UNCHANGED at
     ELSE /\ at' = [at EXCEPT ![t] = freeSlide]
          /\ Goto(t, "put_test")
          /\ UNCHANGED freeSlide
  /\ UNCHANGED <<heaps, chunks, ring, allocSlide, arrays, early, locks, heap, cur, blk, again, new,
                 client, history>>

\* _free[slide].store(_chunk), and the end of the lock
PutStore(t) ==
  /\ pc[t] = "put_store"
  /\ \/ ring' = [ring EXCEPT ![at[t]] = cur[t]] /\ UNCHANGED oldRing
     \/ t \in early /\ oldRing' = [oldRing EXCEPT ![at[t]] = cur[t]] /\ UNCHANGED ring
  /\ early' = early \ {t}
  /\ upgrade' = IF upgrade = t THEN None ELSE upgrade
  /\ cur' = [cur EXCEPT ![t] = None]
  /\ at' = [at EXCEPT ![t] = 0]
  /\ new' = [new EXCEPT ![t] = 0]
  /\ Goto(t, "merge_test")
  /\ UNCHANGED <<heaps, chunks, freeSlide, allocSlide, ringMax, copy, shared, heap, blk, again,
                 client, history>>

\* When the ring seems empty there is a merge under the unique lock.
MergeTest(t) ==
  /\ pc[t] = "merge_test"
  /\ Goto(t, IF freeSlide = allocSlide THEN "merge_call" ELSE "idle")
  /\ UNCHANGED <<heaps, chunks, indices, locks, locals, client, history>>

\* lock() of _free_mu is called ...
MergeCall(t) ==
  /\ pc[t] = "merge_call"
  /\ Goto(t, "merge")
  /\ UNCHANGED <<heaps, chunks, indices, locks, locals, client, history>>

\* ... and succeeds.  _merge compares the addresses of the chunk at
\* _alloc_slide and of others, and finds none adjacent.
Merge(t) ==
  /\ pc[t] = "merge" /\ shared = {} /\ upgrade = None
  /\ Goto(t, "idle")
  /\ UNCHANGED <<heaps, chunks, indices, locks, locals, client, history>>

-----------------------------------------------------------------------------
Malloc(t) == MallocReset(t) \/ MallocCount(t) \/ MallocUncount(t)

AllocSmall(t) ==
  \/ FullButEmpty(t) \/ FullInUse(t) \/ MarkChunk(t) \/ Recheck(t)
  \/ Unmark(t) \/ UnmarkFails(t)

FindChunk(t) ==
  \/ TakeLock(t) \/ CreateChunk(t) \/ TakeTest(t) \/ TakeSwap(t) \/ TakeChunk(t)
  \/ Install(t)

Alloc(t) ==
  \/ CallAlloc(t) \/ TakeHeap(t) \/ HeapBusy(t) \/ ClearHeap(t)
  \/ Malloc(t) \/ AllocSmall(t) \/ FindChunk(t)

RecoverChunk(t) ==
  \/ PutLock(t) \/ PutTest(t) \/ PutAlone(t) \/ PutFull(t)
  \/ NoResize(t) \/ Resize(t) \/ ResizeDone(t) \/ PutSwap(t) \/ PutStore(t)
  \/ MergeTest(t) \/ MergeCall(t) \/ Merge(t)

Free(t) ==
  \/ CallFree(t) \/ UncountBlock(t) \/ Recover(t) \/ NotMarked(t) \/ RecoverChunk(t)

Next == \E t \in Threads : Alloc(t) \/ Free(t)

Spec == Init /\ [][Next]_vars

\* Every thread goes on with its allocations and frees.
FairSpec == Spec /\ \A t \in Threads : WF_vars(Alloc(t) \/ Free(t))

-----------------------------------------------------------------------------
AllocSteps == {"probe", "malloc", "count", "uncount", "full", "mark", "recheck",
               "unmark", "take_lock", "take_test", "take_swap", "take_wait",
               "install", "clear"}
PutSteps == {"put_lock", "put_test", "put_alone", "put_full", "put_resize", "put_copy",
             "put_stuck", "put_swap", "put_store"}
FreeSteps == {"uncount_block", "recover"} \cup PutSteps \cup {"merge_test", "merge_call", "merge"}

\* What the places of an array hold, and the indices of the one in use
Words == Chunks \cup {None, Header}
Indices == 0 .. ringMax - 1

TypeOK ==
  /\ flag \in [Heaps -> Threads \cup {None}]
  /\ chunk \in [Heaps -> Chunks]
  /\ created \in Chunks
  /\ count \in [Chunks -> Int] /\ recFlag \in [Chunks -> 0 .. 2]
  /\ slide \in [Chunks -> 0 .. Cap]
  /\ ring \in [Slots -> Words] /\ copy \in [Slots -> Words] /\ oldRing \in [Slots -> Words]
  /\ ringMax \in {RingMax, 2 * RingMax, 4 * RingMax} /\ early \subseteq Threads
  /\ freeSlide \in Indices /\ allocSlide \in Indices
  /\ shared \subseteq Threads /\ upgrade \in Threads \cup {None}
  /\ pc \in [Threads -> {"idle"} \cup AllocSteps \cup FreeSteps]
  /\ heap \in [Threads -> Heaps]
  /\ cur \in [Threads -> Chunks \cup {None}]
  /\ blk \in [Threads -> Blocks \cup {None}]
  /\ again \in [Threads -> BOOLEAN]
  /\ at \in [Threads -> Indices] /\ new \in [Threads -> Indices]
  /\ calls \in [Threads -> 0 .. MaxCalls]
  /\ held \in [Threads -> SUBSET Blocks]
  /\ failed \in BOOLEAN /\ leaked \in BOOLEAN
  /\ misread \in BOOLEAN /\ stale \in BOOLEAN

\* The blocks in use: those of the callers and those about to be theirs.
InUse(t) == held[t] \cup ({blk[t]} \ {None})

\* No two blocks in use overlap but for two gaps: between reading a count of 0
\* and the compare-and-swap of rec_flag (chunk.cpp:114-116 and
\* mirco_mempage_heap.cpp:70-72) the chunk may be used and marked again; and a
\* resize (mempage_heap.cpp:398-419) copies the ring while, if the put has lost
\* its lock, chunks are taken from it, and copies words from behind it.
NoOverlap ==
  /\ TypeOK
  /\ ~ stale /\ ~ misread =>
       /\ \A t, u \in Threads : t # u => InUse(t) \cap InUse(u) = {}
       /\ \A t \in Threads : blk[t] \notin held[t]

\* The second _malloc finds room, in a chunk that nobody else cuts meanwhile
\* (mirco_mempage_heap.cpp:83), but for the gaps of NoOverlap.
SecondTryFits == leaked => stale \/ misread

\* The chunks out of use: recovered, and not a micro heap's again.
Out(t) == pc[t] \in PutSteps \cup {"install"}

\* A micro heap has marked its chunk and is about to look for another one.
Leaving(h) ==
  /\ flag[h] # None
  /\ pc[flag[h]] \in {"recheck", "unmark", "take_lock", "take_test", "take_swap",
                     "take_wait", "install"}

\* With the same exceptions, a chunk out of use has no block, is no micro
\* heap's, and is in one place: recovered once by one thread, handed to one
\* micro heap (chunk.cpp:114-118, mirco_mempage_heap.cpp:68-80), which then
\* finds room in it.
RecoveredOnce ==
  /\ SecondTryFits
  /\ ~ stale /\ ~ misread =>
       LET inRing == {i \in Slots : ring[i] \in Chunks}
           out == {ring[i] : i \in inRing} \cup {cur[t] : t \in {u \in Threads : Out(u)}}
       IN  /\ Cardinality(out) = Cardinality(inRing) + Cardinality({t \in Threads : Out(t)})
           /\ \A t \in Threads : \A b \in InUse(t) : b[1] \notin out
           /\ \A h \in Heaps : ~ Leaving(h) =>
                /\ chunk[h] \notin out
                /\ \A g \in Heaps \ {h} : chunk[g] = chunk[h] => Leaving(g)

\* With as many micro heaps as threads no allocation finds all of them busy
\* (mempage_heap.cpp:70-81), although each is probed at another moment: the
\* test pool/main.cpp:11-13 uses the result unseen.  A flag that stays set
\* after a _malloc that failed (72-75) would end that.
NeverBusy == Cardinality(Threads) <= NHeaps /\ ~ leaked => ~ failed

\* The test pool/main.cpp:7-24: two threads that free each block before they
\* allocate the next one end, and are joined.
TestEnds ==
  <>(\A t \in Threads : pc[t] = "idle" /\ calls[t] = MaxCalls /\ held[t] = {})
=============================================================================
