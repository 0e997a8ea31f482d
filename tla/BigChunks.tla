------------------------------ MODULE BigChunks ------------------------------
(***************************************************************************)
(* pool/: angmalloc, angrealloc and angfree for blocks of 4096 bytes and   *)
(* more.                                                                   *)
(*                                                                         *)
(* A micro heap cuts the blocks from its chunk.  When one does not fit and *)
(* the chunk has blocks that are in use, the heap marks it (rec_flag 1)    *)
(* and goes on with another chunk: of the same size, or of twice the size  *)
(* of the block if that is more.  The free() that takes the count to 0     *)
(* then recovers the chunk into the list of big chunks, which is kept by   *)
(* size, searched by halves, and merged where chunks meet in memory.       *)
(*                                                                         *)
(* A process here is a micro heap (whoever has its flag) or a call of      *)
(* angfree or angrealloc.  All of the list's operations run under          *)
(* _bigfree_flag, and are one step.  Memory is counted in units of         *)
(* chunk_size and is never given back; VirtualAlloc hands it out upwards,  *)
(* so that chunks can be adjacent.  A chunk is known by its address; its   *)
(* header takes no room.  There are no small blocks: the ring of free      *)
(* chunks is empty, _chunk and _recover_chunk find nothing in it, and the  *)
(* list never holds the 1024 chunks at which it would be resized.          *)
(***************************************************************************)
EXTENDS Integers, SequencesExt, FiniteSetsExt

CONSTANTS
  Heaps,    \* the micro heaps; concurrent_count is their number
  Freers,   \* the calls of angfree or angrealloc at a time (a bound)
  Lengths,  \* the sizes of the blocks
  First,    \* the size of a micro heap's first chunk, chunk_size*4
  MaxMem,   \* bound on the memory
  MaxAllocs,  \* bound on the allocations
  Nothing

ASSUME BigAssumption ==
  /\ First \in Nat \ {0} /\ MaxMem \in Nat /\ MaxAllocs \in Nat
  /\ Lengths \subseteq Nat \ {0}
  /\ IsFiniteSet(Heaps) /\ Heaps # {} /\ Heaps \cap Freers = {}
  /\ First * Cardinality(Heaps) <= MaxMem
  /\ Nothing \notin Heaps \cup Freers \cup Nat

Procs == Heaps \cup Freers
Addr == 1 .. MaxMem

VARIABLES
  top,     \* the memory below it was handed out
  size, count, recFlag, slide,   \* of the chunk at each address
  big,     \* _bigfree: the chunks in order
  chunk,   \* chunk[h]: the chunk of micro heap h
  used,    \* the blocks in use: in a chunk, at an address, of a length, and
           \* the length their header says
  step,    \* each process: its next step,
  cur,     \* the chunk it recovers,
  mem,     \* the block angrealloc grows,
  need,    \* the size of a block that is allocated or grown,
  again,   \* whether a heap is in its second _malloc,
  old,     \* and the size of the chunk that was full: _old_chunksize
  allocs,  \* how many allocations there were
  torn,    \* history: angrealloc wrote slide while the heap cut a block
  failed,  \* history: an allocation returned 0
  stale    \* history: a compare-and-swap of rec_flag, made because the count
           \* was 0, succeeded when it was so no more (or no chunk was there)

header == <<count, recFlag, slide>>
locals == <<cur, mem, need, again, old>>
history == <<torn, failed, stale>>
bigVars == <<top, size, header, big, chunk, used, step, locals, allocs, history>>

\* _create_mempage_heap, as far as these chunks go
BigInit ==
  \E order \in SetToSeqs(Heaps) :
    /\ chunk = [h \in Heaps |-> 1 + First * (CHOOSE i \in DOMAIN order : order[i] = h) - First]
    /\ top = 1 + First * Len(order)
    /\ size = [a \in Addr |-> IF \E h \in Heaps : chunk[h] = a THEN First ELSE 0]
    /\ count = [a \in Addr |-> 0]
    /\ recFlag = [a \in Addr |-> 0]
    /\ slide = [a \in Addr |-> 0]
    /\ big = <<>> /\ used = {}
    /\ step = [p \in Procs |-> "idle"]
    /\ cur = [p \in Procs |-> Nothing]
    /\ need = [p \in Procs |-> 0]
    /\ mem = [f \in Freers |-> Nothing]
    /\ again = [h \in Heaps |-> FALSE]
    /\ old = [h \in Heaps |-> 0]
    /\ allocs = 0 /\ torn = FALSE /\ failed = FALSE /\ stale = FALSE

StepTo(p, l) == step' = [step EXCEPT ![p] = l]

-----------------------------------------------------------------------------
(* The list: _bisearch, _erase, _merge_chunk, _recover_to_bigfree and      *)
(* _merge_bigfree, of a list l of chunks whose sizes are sz.               *)

\* Where the search for x goes from index i (from 0): it is over with an index
\* or with -1, or goes on.
Probe(l, sz, x, i) ==
  LET n == Len(l)
      s == sz[l[i + 1]]
  IN  CASE s = x -> [over |-> TRUE, at |-> i]
        [] s > x /\ i > 0 /\ sz[l[i]] > x -> [over |-> FALSE, at |-> i \div 2]
        [] s > x /\ (i = 0 \/ sz[l[i]] <= x) -> [over |-> TRUE, at |-> i]
        [] s < x /\ i < n - 1 -> [over |-> FALSE, at |-> (i + n) \div 2]
        [] s < x /\ i = n - 1 -> [over |-> TRUE, at |-> -1]

\* The search after k probes.  A place that comes twice comes for ever: who
\* searches so, with _bigfree_flag set, does not take the step that would follow.
Search(l, sz, x) ==
  LET f[k \in 0 .. Len(l) + 1] ==
        IF k = 0 THEN [over |-> Len(l) = 0, at |-> IF Len(l) = 0 THEN -1 ELSE 0]
        ELSE IF f[k - 1].over THEN f[k - 1] ELSE Probe(l, sz, x, f[k - 1].at)
  IN  f[Len(l) + 1]

Ends(l, sz, x) == Search(l, sz, x).over
Bisearch(l, sz, x) == Search(l, sz, x).at

Erase(l, i) == RemoveAt(l, i + 1)

\* _merge_chunk: the lower chunk grows, if the chunks meet.  The header of the
\* other is left in the memory of the first, here with the size 0.
Meet(sz, c, d) == c = d + sz[d] \/ d = c + sz[c]
Lower(c, d) == IF c < d THEN c ELSE d
Grown(sz, c, d) == [sz EXCEPT ![c] = 0, ![d] = 0, ![Lower(c, d)] = sz[c] + sz[d]]

Insert(l, sz, c) ==
  LET i == Bisearch(l, sz, sz[c]) IN InsertAt(l, IF i = -1 THEN Len(l) + 1 ELSE i + 1, c)

\* A bug it could have: a chunk that meets no other is dropped.
MergeOneDrop(acc, c) ==
  LET j == SelectInSeq(acc.tmp, LAMBDA d: Meet(acc.sz, c, d)) IN
  IF j = 0 THEN acc
  ELSE [tmp |-> [acc.tmp EXCEPT ![j] = Lower(c, @)], sz |-> Grown(acc.sz, c, acc.tmp[j])]

\* The loop over _tmpchunk: c is merged with the first chunk it meets, or kept.
MergeOne(acc, c) ==
  LET j == SelectInSeq(acc.tmp, LAMBDA d: Meet(acc.sz, c, d)) IN
  IF j = 0 THEN [acc EXCEPT !.tmp = Append(@, c)]
  ELSE [tmp |-> [acc.tmp EXCEPT ![j] = Lower(c, @)], sz |-> Grown(acc.sz, c, acc.tmp[j])]

\* The order the chunks are met in: the last, the first, and then from the end.
MergeOrder(l) ==
  LET n == Len(l) IN
  [k \in 1 .. n |-> l[CASE k = 1 -> n [] k = 2 -> 1 [] OTHER -> n + 2 - k]]

\* _tmpchunk and the sizes after each of the chunks of the list
MergeSteps(order, sz) ==
  LET acc[k \in 0 .. Len(order)] ==
        IF k = 0 THEN [tmp |-> <<>>, sz |-> sz] ELSE MergeOne(acc[k - 1], order[k])
  IN  acc

\* The list after each of the chunks of tmp was put into it
InsertSteps(tmp, sz) ==
  LET list[k \in 0 .. Len(tmp)] ==
        IF k = 0 THEN <<>> ELSE Insert(list[k - 1], sz, tmp[k])
  IN  list

\* ... all of them, and whether that ends
PutBack(acc) ==
  LET lists == InsertSteps(acc.tmp, acc.sz) IN
  [list |-> lists[Len(acc.tmp)], sz |-> acc.sz,
   ends |-> \A k \in 1 .. Len(acc.tmp) : Ends(lists[k - 1], acc.sz, acc.sz[acc.tmp[k]])]

\* _merge_bigfree of a list longer than concurrent_count: the list and the
\* sizes after it, and whether it ends
MergeBig(l, sz) == PutBack(MergeSteps(MergeOrder(l), sz)[Len(l)])

\* The chunk at index j, if there is one, is taken out.
TakeOut(m, j, ends) ==
  [list |-> IF j >= 0 THEN Erase(m.list, j) ELSE m.list,
   sz |-> m.sz,
   c |-> IF j >= 0 THEN m.list[j + 1] ELSE Nothing,
   ends |-> ends]

\* _chunk_from_bigfree: the list, the sizes, the chunk that was found, and
\* whether it ends
FromBig(x) ==
  LET i == Bisearch(big, size, x)
      m == IF i >= 0 \/ Len(big) <= Cardinality(Heaps)
           THEN [list |-> big, sz |-> size, ends |-> TRUE]
           ELSE MergeBig(big, size)
      shorter == Len(m.list) < Len(big)
      j == IF shorter THEN Bisearch(m.list, m.sz, x) ELSE i
  IN  TakeOut(m, j, Ends(big, size, x) /\ m.ends /\ (shorter => Ends(m.list, m.sz, x)))

-----------------------------------------------------------------------------
(* _mirco_mempage_heap_alloc_big, by the thread that has the heap's flag. *)

Alloc(h) ==
  /\ step[h] = "idle" /\ allocs < MaxAllocs
  /\ allocs' = allocs + 1
  /\ \E s \in Lengths : need' = [need EXCEPT ![h] = s]
  /\ again' = [again EXCEPT ![h] = FALSE]
  /\ StepTo(h, "malloc")
  /\ UNCHANGED <<top, size, header, big, chunk, used, cur, mem, old, history>>

\* _malloc: a chunk without blocks is used from its start, ...
MallocReset(h) ==
  /\ step[h] = "malloc"
  /\ slide' = IF count[chunk[h]] = 0 THEN [slide EXCEPT ![chunk[h]] = 0] ELSE slide
  /\ StepTo(h, "count")
  /\ UNCHANGED <<top, size, count, recFlag, big, chunk, used, locals, allocs, history>>

\* ... count++, and the block if there is room; ...
MallocCount(h) ==
  LET c == chunk[h] IN
  /\ step[h] = "count"
  /\ count' = [count EXCEPT ![c] = @ + 1]
  /\ IF slide[c] + need[h] <= size[c]
     THEN /\ slide' = [slide EXCEPT ![c] = @ + need[h]]
          /\ used' = used \cup {[chunk |-> c, at |-> c + slide[c], len |-> need[h],
                                 said |-> need[h]]}
          /\ StepTo(h, "idle")
     ELSE /\ StepTo(h, "uncount")
          /\ UNCHANGED <<slide, used>>
  /\ UNCHANGED <<top, size, recFlag, big, chunk, locals, allocs, history>>

\* ... count-- if there is none, and the size of the chunk is read.  (After the
\* second _malloc the allocation returns 0, and the flag of the heap stays set.)
MallocUncount(h) ==
  /\ step[h] = "uncount"
  /\ count' = [count EXCEPT ![chunk[h]] = @ - 1]
  /\ failed' = (failed \/ again[h])
  /\ old' = [old EXCEPT ![h] = size[chunk[h]]]
  /\ StepTo(h, IF again[h] THEN "stuck" ELSE "full")
  /\ UNCHANGED <<top, size, recFlag, slide, big, chunk, used, cur, mem, need, again, allocs,
                 torn, stale>>

\* _chunksize <= _old_chunksize: the next chunk has the size of this one.
SameSize(h) == 2 * need[h] <= old[h]
NextSize(h) == IF SameSize(h) THEN old[h] ELSE 2 * need[h]

SecondMalloc(h) ==
  /\ again' = [again EXCEPT ![h] = TRUE]
  /\ old' = [old EXCEPT ![h] = 0]
  /\ StepTo(h, "malloc")

StartOver(h) == SecondMalloc(h) /\ slide' = [slide EXCEPT ![chunk[h]] = 0]

\* count.load() == 0: the chunk is used again, ...
FullButEmpty(h) ==
  /\ step[h] = "full" /\ count[chunk[h]] = 0 /\ SameSize(h)
  /\ StartOver(h)
  /\ UNCHANGED <<top, size, count, recFlag, big, chunk, used, cur, mem, need, allocs, history>>

\* ... or recovered by the heap, if it is too small.
TooSmall(h) ==
  /\ step[h] = "full" /\ count[chunk[h]] = 0 /\ ~SameSize(h)
  /\ cur' = [cur EXCEPT ![h] = chunk[h]]
  /\ StepTo(h, "put")
  /\ UNCHANGED <<top, size, header, big, chunk, used, mem, need, again, old, allocs, history>>

FullInUse(h) ==
  /\ step[h] = "full" /\ count[chunk[h]] # 0
  /\ StepTo(h, "mark")
  /\ UNCHANGED <<top, size, header, big, chunk, used, locals, allocs, history>>

\* rec_flag.store(1): whoever frees the last block recovers the chunk.
Mark(h) ==
  /\ step[h] = "mark"
  /\ recFlag' = [recFlag EXCEPT ![chunk[h]] = 1]
  /\ StepTo(h, "recheck")
  /\ UNCHANGED <<top, size, count, slide, big, chunk, used, locals, allocs, history>>

Recheck(h) ==
  /\ step[h] = "recheck"
  /\ StepTo(h, IF count[chunk[h]] = 0 THEN "unmark" ELSE "take")
  /\ UNCHANGED <<top, size, header, big, chunk, used, locals, allocs, history>>

\* compare_exchange(1, 0), and the heap keeps the chunk, or (1, 2), and it
\* recovers the chunk; ...  If a free() has recovered it meanwhile, the header may
\* be inside another chunk, and be written over.
Unmark(h) ==
  LET c == chunk[h] IN
  /\ step[h] = "unmark" /\ (recFlag[c] = 1 \/ size[c] = 0)
  /\ stale' = (stale \/ count[c] # 0 \/ size[c] = 0)
  /\ IF SameSize(h)
     THEN recFlag' = [recFlag EXCEPT ![c] = 0] /\ StartOver(h) /\ UNCHANGED cur
     ELSE /\ recFlag' = [recFlag EXCEPT ![c] = 2]
          /\ cur' = [cur EXCEPT ![h] = c]
          /\ StepTo(h, "put")
          /\ UNCHANGED <<slide, again, old>>
  /\ UNCHANGED <<top, size, count, big, chunk, used, mem, need, allocs, torn, failed>>

\* ... or a free() was first.
UnmarkFails(h) ==
  /\ step[h] = "unmark" /\ recFlag[chunk[h]] # 1
  /\ StepTo(h, "take")
  /\ UNCHANGED <<top, size, header, big, chunk, used, locals, allocs, history>>

\* The chunk c, reset, becomes the heap's.
Install(h, c) ==
  /\ count' = [count EXCEPT ![c] = 0]
  /\ recFlag' = [recFlag EXCEPT ![c] = 0]
  /\ slide' = [slide EXCEPT ![c] = 0]
  /\ chunk' = [chunk EXCEPT ![h] = c]
  /\ SecondMalloc(h)
  /\ UNCHANGED <<used, cur, mem, need, allocs, history>>

\* _chunk: one of the list, ...
Take(h) ==
  LET from == FromBig(NextSize(h)) IN
  /\ step[h] = "take" /\ from.ends /\ from.c # Nothing
  /\ big' = from.list /\ size' = from.sz
  /\ Install(h, from.c)
  /\ UNCHANGED top

\* ... or a new one.
Create(h) ==
  LET x == NextSize(h)
      from == FromBig(x)
  IN  /\ step[h] = "take" /\ from.ends /\ from.c = Nothing /\ top + x <= MaxMem + 1
      /\ big' = from.list
      /\ size' = [from.sz EXCEPT ![top] = x]
      /\ top' = top + x
      /\ Install(h, top)

-----------------------------------------------------------------------------
(* _free, and the end of a recovery. *)

\* --count; for the last block there is more to do.
FreeBlock(f) ==
  /\ step[f] = "idle"
  /\ \E b \in used \ {mem[g] : g \in Freers} :
       /\ used' = used \ {b}
       /\ count' = [count EXCEPT ![b.chunk] = @ - 1]
       /\ IF count[b.chunk] = 1
          THEN cur' = [cur EXCEPT ![f] = b.chunk] /\ StepTo(f, "recover")
          ELSE UNCHANGED <<cur, step>>
  /\ UNCHANGED <<top, size, recFlag, slide, big, chunk, mem, need, again, old, allocs, history>>

\* A bug it could have: rec_flag is set and not compared.
RecoverAnyway(f) ==
  /\ step[f] = "recover"
  /\ recFlag' = [recFlag EXCEPT ![cur[f]] = 2]
  /\ stale' = (stale \/ count[cur[f]] # 0)
  /\ StepTo(f, "put")
  /\ UNCHANGED <<top, size, count, slide, big, chunk, used, locals, allocs, torn, failed>>

\* compare_exchange(1, 2), some time after the count was 0.  The header may be
\* inside another chunk by then, and be written over.
Recover(f) ==
  LET c == cur[f] IN
  /\ step[f] = "recover" /\ (recFlag[c] = 1 \/ size[c] = 0)
  /\ recFlag' = [recFlag EXCEPT ![c] = 2]
  /\ stale' = (stale \/ count[c] # 0 \/ size[c] = 0)
  /\ StepTo(f, "put")
  /\ UNCHANGED <<top, size, count, slide, big, chunk, used, locals, allocs, torn, failed>>

NotMarked(f) ==
  /\ step[f] = "recover" /\ recFlag[cur[f]] # 1
  /\ cur' = [cur EXCEPT ![f] = Nothing]
  /\ StepTo(f, "idle")
  /\ UNCHANGED <<top, size, header, big, chunk, used, mem, need, again, old, allocs, history>>

\* _recover_chunk: into the list.
Put(p) ==
  /\ step[p] = "put" /\ Ends(big, size, size[cur[p]])
  /\ big' = Insert(big, size, cur[p])
  /\ cur' = [cur EXCEPT ![p] = Nothing]
  /\ StepTo(p, IF p \in Heaps THEN "take" ELSE "idle")
  /\ UNCHANGED <<top, size, header, chunk, used, mem, need, again, old, allocs, history>>

-----------------------------------------------------------------------------
(* angrealloc, where the block is the last of its chunk.  Elsewhere it is  *)
(* an allocation, a copy of as many bytes as the header says and a free,   *)
(* as the other actions make them; a smaller size changes nothing.         *)

Ending(b) == b.at + b.said = b.chunk + slide[b.chunk]

\* The heap is in _malloc: who writes slide now and the heap may each undo what
\* the other does.
Cutting(c) == \E h \in Heaps : chunk[h] = c /\ step[h] = "count"

\* The size the header says: slide is lowered by 0 (chunk.cpp:91-93).
Rewrite(f) ==
  /\ step[f] = "idle"
  /\ \E b \in used \ {mem[g] : g \in Freers} :
       Ending(b) /\ torn' = (torn \/ Cutting(b.chunk))
  /\ UNCHANGED <<top, size, header, big, chunk, used, step, locals, allocs, failed, stale>>

\* _realloc finds that slide is at the end of the block, and room.  (The room
\* must be more than what is needed.)
Grow(f) ==
  /\ step[f] = "idle"
  /\ \E b \in used \ {mem[g] : g \in Freers}, s \in Lengths :
       /\ b.said < s /\ Ending(b) /\ s - b.said < size[b.chunk] - slide[b.chunk]
       /\ mem' = [mem EXCEPT ![f] = b]
       /\ need' = [need EXCEPT ![f] = s]
  /\ StepTo(f, "grow")
  /\ UNCHANGED <<top, size, header, big, chunk, used, cur, again, old, allocs, history>>

\* _brk: slide moves on from where it is by now, if there is room; the caller
\* has the block in either case, and its header says the old size.
Brk(f) ==
  LET b == mem[f]
      end == slide[b.chunk] + need[f] - b.said
  IN  /\ step[f] = "grow"
      /\ slide' = IF end <= size[b.chunk] THEN [slide EXCEPT ![b.chunk] = end] ELSE slide
      /\ used' = (used \ {b}) \cup {[b EXCEPT !.len = need[f]]}
      /\ torn' = (torn \/ ~Ending(b) \/ Cutting(b.chunk))
      /\ mem' = [mem EXCEPT ![f] = Nothing]
      /\ need' = [need EXCEPT ![f] = 0]
      /\ StepTo(f, "idle")
      /\ UNCHANGED <<top, size, count, recFlag, big, chunk, cur, again, old, allocs, failed, stale>>

-----------------------------------------------------------------------------
AllocBig(h) ==
  \/ Alloc(h) \/ MallocReset(h) \/ MallocCount(h) \/ MallocUncount(h)
  \/ FullButEmpty(h) \/ TooSmall(h) \/ FullInUse(h) \/ Mark(h) \/ Recheck(h)
  \/ Unmark(h) \/ UnmarkFails(h) \/ Take(h) \/ Create(h)

BigNext ==
  \/ \E h \in Heaps : AllocBig(h)
  \/ \E f \in Freers :
       FreeBlock(f) \/ Recover(f) \/ NotMarked(f) \/ Rewrite(f) \/ Grow(f) \/ Brk(f)
  \/ \E p \in Procs : Put(p)

BigSpec == BigInit /\ [][BigNext]_bigVars

-----------------------------------------------------------------------------
BigTypeOK ==
  /\ top \in 1 .. MaxMem + 1
  /\ size \in [Addr -> 0 .. MaxMem] /\ slide \in [Addr -> 0 .. MaxMem]
  /\ count \in [Addr -> Int] /\ recFlag \in [Addr -> 0 .. 2]
  /\ big \in Seq(Addr) /\ chunk \in [Heaps -> Addr]
  /\ used \subseteq [chunk : Addr, at : Addr, len : Lengths, said : Lengths]
  /\ cur \in [Procs -> Addr \cup {Nothing}] /\ mem \in [Freers -> used \cup {Nothing}]

\* What a chunk or a block of len units at address a occupies
Units(a, len) == a .. a + len - 1

\* The heaps that have done with their chunk and go for another
Leaving(h) == step[h] \in {"recheck", "unmark", "put", "take"}

\* The chunks that are somewhere: in the list, recovered and on the way to it,
\* a heap's, or with blocks in use.
KeptChunks == {cur[p] : p \in {q \in Procs : step[q] = "put"}}
          \cup {chunk[h] : h \in {g \in Heaps : ~Leaving(g)}}
          \cup {b.chunk : b \in used}
          \cup {cur[f] : f \in {g \in Freers : step[g] = "recover"}}
          \cup {chunk[h] : h \in {g \in Heaps : step[g] \in {"recheck", "unmark"}}}

\* No two chunks share memory after any merges, a chunk of the list is there
\* once and has no block, and no two blocks overlap: the chunk that a heap left
\* is recovered by the heap or by the last free(), and not by both
\* (mirco_mempage_heap.cpp:45-55, chunk.cpp:114-117).  The exception is the gap
\* of PageHeap, between a count of 0 and the compare-and-swap, and an angrealloc
\* that writes slide while the heap cuts a block (chunk.cpp:92, 101).  An allocation finds
\* room the second time.
ChunksApart ==
  ~stale /\ ~torn =>
    /\ BigTypeOK
    /\ ~failed
    /\ IsInjective(big)
    /\ \A c, d \in ToSet(big) \cup KeptChunks :
         c # d => Units(c, size[c]) \cap Units(d, size[d]) = {}
    /\ \A c \in ToSet(big) : \A b \in used : b.chunk # c
    /\ \A b, d \in used : b # d => Units(b.at, b.len) \cap Units(d.at, d.len) = {}
    /\ \A b \in used : Units(b.at, b.len) \subseteq Units(b.chunk, size[b.chunk])

\* And no memory is lost: all that was handed out belongs to a chunk of the
\* list, or to one that is on its way there, a heap's, or in use.  A merge that
\* forgets a chunk, or a chunk whose last block goes while the heap marks it and
\* that nobody recovers (mempage_heap.cpp:346-376, mirco_mempage_heap.cpp:33-40,
\* 48-54), shows as nothing but growth.
NothingLost ==
  ~stale => UNION {Units(c, size[c]) : c \in ToSet(big) \cup KeptChunks} = 1 .. top - 1
=============================================================================
