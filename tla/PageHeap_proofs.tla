--------------------------- MODULE PageHeap_proofs ---------------------------
(***************************************************************************)
(* First, with as many micro heaps as threads an allocation never finds    *)
(* all of them busy, for any number of both.                               *)
(*                                                                         *)
(* The argument counts threads by the micro heap they probe or hold: at    *)
(* most NHeaps - i of them are at i or above.  A thread that finds i busy  *)
(* and moves on leaves the one that holds i behind, so there were at least *)
(* two more at i or above than above i, and there is room for one more     *)
(* above; behind the last micro heap there is room for none.               *)
(*                                                                         *)
(* Second, no two blocks in use overlap, and a chunk is recovered once,    *)
(* for any number of threads, micro heaps, blocks and slots of the ring.   *)
(* The argument is about what count[c] counts (Users): the blocks of c in  *)
(* use and the threads about to lower it.  Who resets the slide of a chunk *)
(* has seen the count 0, and is its only owner (Owners): the chunk of a    *)
(* micro heap that is not leaving it is neither marked nor out of use nor  *)
(* another's.  Where the indices of the ring are does not matter, and a    *)
(* resize copies each chunk to one place.                                  *)
(***************************************************************************)
EXTENDS PageHeap, FiniteSetTheorems, TLAPS

Steps == {"idle"} \cup AllocSteps \cup FreeSteps

\* Between test_and_set and clear
Holding == AllocSteps \ {"probe"}

\* The types of the variables that the argument is about.
FlagTypes ==
  /\ flag \in [Heaps -> Threads \cup {None}]
  /\ heap \in [Threads -> Heaps]
  /\ pc \in [Threads -> Steps]
  /\ failed \in BOOLEAN /\ leaked \in BOOLEAN

\* A flag that is set belongs to a thread that is using this micro heap.
FlagHeld ==
  \A h \in Heaps, t \in Threads : flag[h] = t => heap[t] = h /\ pc[t] \in Holding

\* The threads that probe or hold micro heap i or a later one
From(i) == {t \in Threads : heap[t] >= i}

Room == \A i \in 0 .. NHeaps : Cardinality(From(i)) <= NHeaps - i

Enough == Cardinality(Threads) <= NHeaps

IInv ==
  /\ FlagTypes
  /\ Enough /\ ~ leaked => FlagHeld /\ Room /\ ~ failed

-----------------------------------------------------------------------------
\* The threads are finitely many, and so are those from i on.
LEMMA FromFinite ==
  ASSUME NEW i \in Nat
  PROVE  /\ IsFiniteSet(From(i))
         /\ Cardinality(From(i)) \in Nat
BY HeapsAssumption, FS_Subset, FS_CardinalityType DEF From

\* Nothing about the flags changes but for the step of a thread, which does
\* not leave the steps between test_and_set and clear, nor enter them.
LEMMA QuietStep ==
  ASSUME IInv, NEW t \in Threads, NEW l \in Steps,
         flag' = flag, heap' = heap, failed' = failed, leaked' = leaked,
         pc' = [pc EXCEPT ![t] = l],
         pc[t] \in Holding => l \in Holding
  PROVE  IInv'
<1>1. FlagTypes'
  BY DEF IInv, FlagTypes
<1>2. ASSUME Enough, ~ leaked
      PROVE  FlagHeld' /\ Room' /\ ~ failed'
  <2>1. FlagHeld'
    BY <1>2 DEF IInv, FlagHeld, FlagTypes
  <2>2. Room'
    BY <1>2 DEF IInv, Room, From
  <2>. QED  BY <1>2, <2>1, <2>2 DEF IInv
<1>. QED  BY <1>1, <1>2 DEF IInv, Enough

\* A thread that goes back to the first micro heap leaves room everywhere.
LEMMA BackToFirst ==
  ASSUME FlagTypes, Enough, Room, NEW t \in Threads,
         heap' = [heap EXCEPT ![t] = 0]
  PROVE  Room'
<1> SUFFICES ASSUME NEW i \in 0 .. NHeaps
             PROVE  Cardinality({u \in Threads : heap'[u] >= i}) <= NHeaps - i
  BY DEF Room, From
<1> DEFINE After == {u \in Threads : heap'[u] >= i}
<1>0. NHeaps \in Nat /\ i \in Nat
  BY HeapsAssumption
<1>1. CASE i = 0
  <2>1. Cardinality(After) <= Cardinality(Threads)
    BY HeapsAssumption, FS_Subset
  <2>2. Cardinality(After) \in Nat /\ Cardinality(Threads) \in Nat
    BY HeapsAssumption, FS_Subset, FS_CardinalityType
  <2>. QED  BY <1>0, <1>1, <2>1, <2>2 DEF Enough
<1>2. CASE i # 0
  <2>1. After \subseteq From(i)
    BY <1>0, <1>2 DEF From, FlagTypes, Heaps
  <2>2. Cardinality(After) <= Cardinality(From(i)) /\ Cardinality(After) \in Nat
    BY <1>0, <2>1, FromFinite, FS_Subset, FS_CardinalityType
  <2>3. Cardinality(From(i)) <= NHeaps - i
    BY DEF Room
  <2>. QED  BY <1>0, <2>2, <2>3, FromFinite
<1>. QED  BY <1>1, <1>2

\* With two threads at i, two more are at i or above than above i.
LEMMA TwoMore ==
  ASSUME FlagTypes, NEW i \in Nat, NEW t \in Threads, NEW u \in Threads,
         t # u, heap[t] = i, heap[u] = i
  PROVE  Cardinality(From(i + 1)) + 2 <= Cardinality(From(i))
<1>0. i + 1 \in Nat
  OBVIOUS
<1>1. /\ IsFiniteSet(From(i)) /\ Cardinality(From(i)) \in Nat
      /\ IsFiniteSet(From(i + 1)) /\ Cardinality(From(i + 1)) \in Nat
  BY <1>0, FromFinite
<1>2. t \notin From(i + 1) /\ u \notin From(i + 1) \cup {t}
  BY DEF From
<1>3. /\ IsFiniteSet(From(i + 1) \cup {t})
      /\ Cardinality(From(i + 1) \cup {t}) = Cardinality(From(i + 1)) + 1
  BY <1>1, <1>2, FS_AddElement
<1>4. /\ IsFiniteSet((From(i + 1) \cup {t}) \cup {u})
      /\ Cardinality((From(i + 1) \cup {t}) \cup {u}) = Cardinality(From(i + 1)) + 2
  <2>1. Cardinality((From(i + 1) \cup {t}) \cup {u}) = Cardinality(From(i + 1) \cup {t}) + 1
    BY <1>2, <1>3, FS_AddElement
  <2>2. IsFiniteSet((From(i + 1) \cup {t}) \cup {u})
    BY <1>2, <1>3, FS_AddElement
  <2>. QED  BY <1>1, <1>3, <2>1, <2>2
<1>5. (From(i + 1) \cup {t}) \cup {u} \subseteq From(i)
  BY HeapsAssumption DEF From, FlagTypes, Heaps
<1>6. Cardinality((From(i + 1) \cup {t}) \cup {u}) <= Cardinality(From(i))
  BY <1>1, <1>5, FS_Subset
<1>. QED  BY <1>1, <1>4, <1>6

\* A thread that probes a busy micro heap: the holder is there as well, and
\* behind both there is room for less than the rest.
LEMMA BusyLeavesRoom ==
  ASSUME FlagTypes, FlagHeld, Room, NEW i \in Heaps,
         NEW t \in Threads, heap[t] = i, pc[t] = "probe", flag[i] # None
  PROVE  /\ Cardinality(From(i + 1)) \in Nat
         /\ Cardinality(From(i + 1)) + 2 <= NHeaps - i
<1>0. NHeaps \in Nat /\ i \in Nat /\ i + 1 \in Nat /\ i \in 0 .. NHeaps
  BY HeapsAssumption DEF Heaps
<1>1. PICK u \in Threads : u = flag[i]
  BY DEF FlagTypes
<1>2. heap[u] = i /\ pc[u] \in Holding
  BY <1>1 DEF FlagHeld
<1>3. u # t
  BY <1>2 DEF Holding
<1>4. Cardinality(From(i + 1)) + 2 <= Cardinality(From(i))
  BY <1>0, <1>2, <1>3, TwoMore
<1>5. Cardinality(From(i)) <= NHeaps - i
  BY <1>0 DEF Room
<1>6. Cardinality(From(i)) \in Nat /\ Cardinality(From(i + 1)) \in Nat
  BY <1>0, FromFinite
<1>. QED  BY <1>0, <1>4, <1>5, <1>6

\* So it may move on to the next one, ...
LEMMA MoveOn ==
  ASSUME FlagTypes, FlagHeld, Room, NEW i \in Heaps,
         NEW t \in Threads, heap[t] = i, pc[t] = "probe", flag[i] # None,
         heap' = [heap EXCEPT ![t] = i + 1]
  PROVE  Room'
<1> SUFFICES ASSUME NEW j \in 0 .. NHeaps
             PROVE  Cardinality({v \in Threads : heap'[v] >= j}) <= NHeaps - j
  BY DEF Room, From
<1>0. /\ i \in Nat /\ j \in Nat /\ NHeaps \in Nat
      /\ \A v \in Threads : heap[v] \in Nat /\ heap'[v] = IF v = t THEN i + 1 ELSE heap[v]
  BY HeapsAssumption DEF FlagTypes, Heaps
<1>1. CASE j # i + 1
  <2>1. {v \in Threads : heap'[v] >= j} = From(j)
    BY <1>0, <1>1 DEF From
  <2>. QED  BY <2>1 DEF Room
<1>2. CASE j = i + 1
  <2>1. {v \in Threads : heap'[v] >= j} = From(j) \cup {t} /\ t \notin From(j)
    BY <1>0, <1>2 DEF From
  <2>2. IsFiniteSet(From(j))
    BY <1>0, FromFinite
  <2>3. Cardinality(From(j) \cup {t}) = Cardinality(From(j)) + 1
    BY <2>1, <2>2, FS_AddElement
  <2>4. Cardinality(From(j)) \in Nat /\ Cardinality(From(j)) + 2 <= NHeaps - i
    BY <1>2, BusyLeavesRoom
  <2>. QED  BY <1>0, <1>2, <2>1, <2>3, <2>4
<1>. QED  BY <1>1, <1>2

\* ... and there is a next one.
LEMMA NotTheLast ==
  ASSUME FlagTypes, FlagHeld, Room, NEW i \in Heaps,
         NEW t \in Threads, heap[t] = i, pc[t] = "probe", flag[i] # None
  PROVE  i + 1 < NHeaps /\ i + 1 \in Heaps
<1>1. i \in Nat /\ NHeaps \in Nat
  BY HeapsAssumption DEF Heaps
<1>2. Cardinality(From(i + 1)) \in Nat /\ Cardinality(From(i + 1)) + 2 <= NHeaps - i
  BY BusyLeavesRoom
<1>. QED  BY <1>1, <1>2 DEF Heaps

-----------------------------------------------------------------------------
LEMMA InitIInv == Init => IInv
<1> SUFFICES ASSUME Init PROVE IInv
  OBVIOUS
<1>0. NHeaps \in Nat \ {0} /\ IsFiniteSet(Threads) /\ 0 \in Heaps
  BY HeapsAssumption DEF Heaps
<1>1. FlagTypes
  BY <1>0 DEF Init, FlagTypes, Steps
<1>2. FlagHeld
  BY NoneAssumption DEF Init, FlagHeld
<1>3. ASSUME Enough PROVE Room
  <2> SUFFICES ASSUME NEW i \in 0 .. NHeaps
               PROVE  Cardinality(From(i)) <= NHeaps - i
    BY DEF Room
  <2>1. CASE i = 0
    <3>1. From(i) \subseteq Threads
      BY DEF From
    <3>2. Cardinality(From(i)) <= Cardinality(Threads) /\ Cardinality(Threads) \in Nat
      BY <1>0, <3>1, FS_Subset, FS_CardinalityType
    <3>. QED  BY <1>0, <1>3, <2>1, <3>2, FromFinite DEF Enough
  <2>2. CASE i # 0
    <3>1. From(i) = {}
      BY <1>0, <2>2 DEF From, Init
    <3>. QED  BY <1>0, <3>1, FS_EmptySet
  <2>. QED  BY <2>1, <2>2
<1>. QED  BY <1>1, <1>2, <1>3 DEF IInv, Init
-----------------------------------------------------------------------------
(* The steps that touch the flags                                          *)

LEMMA CallAllocKeeps ==
  ASSUME IInv, NEW t \in Threads, CallAlloc(t)
  PROVE  IInv'
<1>1. FlagTypes'
  BY HeapsAssumption
  DEF CallAlloc, Goto, IInv, FlagTypes, Heaps, Steps, AllocSteps, heaps, history
<1>2. ASSUME Enough, ~ leaked PROVE FlagHeld' /\ Room' /\ ~ failed'
  <2>0. FlagTypes /\ FlagHeld /\ Room /\ ~ failed
    BY <1>2 DEF IInv
  <2>1. FlagHeld'
    BY <2>0 DEF CallAlloc, Goto, FlagHeld, FlagTypes, Holding, AllocSteps, heaps
  <2>2. heap' = [heap EXCEPT ![t] = 0]
    BY DEF CallAlloc
  <2>3. Room'
    BY <1>2, <2>0, <2>2, BackToFirst
  <2>. QED  BY <2>0, <2>1, <2>3 DEF CallAlloc, history
<1>. QED  BY <1>1, <1>2 DEF IInv, Enough, CallAlloc, history

LEMMA TakeHeapKeeps ==
  ASSUME IInv, NEW t \in Threads, TakeHeap(t)
  PROVE  IInv'
<1>1. FlagTypes'
  BY DEF TakeHeap, Goto, IInv, FlagTypes, Steps, AllocSteps, locals, history
<1>2. ASSUME Enough, ~ leaked PROVE FlagHeld' /\ Room' /\ ~ failed'
  <2>0. FlagTypes /\ FlagHeld /\ Room /\ ~ failed
    BY <1>2 DEF IInv
  <2>1. FlagHeld'
    BY <2>0, NoneAssumption
    DEF TakeHeap, Goto, FlagHeld, FlagTypes, Holding, AllocSteps, locals
  <2>2. Room'
    BY <2>0 DEF TakeHeap, locals, Room, From
  <2>. QED  BY <2>0, <2>1, <2>2 DEF TakeHeap, history
<1>. QED  BY <1>1, <1>2 DEF IInv, Enough, TakeHeap, history

LEMMA HeapBusyKeeps ==
  ASSUME IInv, NEW t \in Threads, HeapBusy(t)
  PROVE  IInv'
<1>0. heap[t] \in Heaps /\ 0 \in Heaps
  BY HeapsAssumption DEF IInv, FlagTypes, Heaps
<1>1. FlagTypes'
  <2>1. CASE heap[t] + 1 < NHeaps
    <3>1. heap[t] + 1 \in Heaps
      BY <1>0, <2>1, HeapsAssumption DEF Heaps
    <3>. QED
      BY <2>1, <3>1 DEF HeapBusy, NextHeap, Goto, IInv, FlagTypes, Steps, AllocSteps, heaps
  <2>2. CASE ~ heap[t] + 1 < NHeaps
    BY <1>0, <2>2 DEF HeapBusy, NextHeap, Goto, IInv, FlagTypes, Steps, AllocSteps, heaps
  <2>. QED  BY <2>1, <2>2
<1>2. ASSUME Enough, ~ leaked PROVE FlagHeld' /\ Room' /\ ~ failed'
  <2>0. FlagTypes /\ FlagHeld /\ Room /\ ~ failed
    BY <1>2 DEF IInv
  <2>1. PICK i \in Heaps : heap[t] = i
    BY <1>0
  <2>2. pc[t] = "probe" /\ flag[i] # None
    BY <2>1 DEF HeapBusy
  <2>3. i + 1 < NHeaps
    BY <2>0, <2>1, <2>2, NotTheLast
  <2>4. /\ heap' = [heap EXCEPT ![t] = i + 1]
        /\ pc' = [pc EXCEPT ![t] = "probe"]
        /\ flag' = flag /\ failed' = failed
    BY <2>1, <2>3 DEF HeapBusy, NextHeap, Goto, heaps
  <2>5. FlagHeld'
    BY <2>0, <2>2, <2>4 DEF FlagHeld, FlagTypes, Holding, AllocSteps
  <2>6. Room'
    BY <2>0, <2>1, <2>2, <2>4, MoveOn
  <2>. QED  BY <2>0, <2>4, <2>5, <2>6
<1>. QED  BY <1>1, <1>2 DEF IInv, Enough, HeapBusy

\* The second _malloc that fails is the exception of NeverBusy.
LEMMA MallocUncountKeeps ==
  ASSUME IInv, NEW t \in Threads, MallocUncount(t)
  PROVE  IInv'
<1>1. CASE ~ again[t]
  <2>1. /\ flag' = flag /\ heap' = heap /\ failed' = failed
        /\ pc' = [pc EXCEPT ![t] = "full"] /\ pc[t] = "uncount"
        /\ leaked' = (leaked \/ again[t])
    BY <1>1 DEF MallocUncount, Goto, heaps
  <2>2. leaked' = leaked
    BY <1>1, <2>1, Zenon DEF IInv, FlagTypes
  <2>3. "full" \in Steps /\ "full" \in Holding
    BY DEF Steps, Holding, AllocSteps
  <2>. QED  BY <2>1, <2>2, <2>3, QuietStep
<1>2. CASE again[t]
  <2>0. heap[t] \in Heaps /\ 0 \in Heaps
    BY HeapsAssumption DEF IInv, FlagTypes, Heaps
  <2>1. leaked' = TRUE
    BY <1>2 DEF MallocUncount
  <2>2. FlagTypes'
    <3>1. CASE heap[t] + 1 < NHeaps
      <4>1. heap[t] + 1 \in Heaps
        BY <2>0, <3>1, HeapsAssumption DEF Heaps
      <4>. QED
        BY <1>2, <2>1, <3>1, <4>1
        DEF MallocUncount, NextHeap, Goto, IInv, FlagTypes, Steps, AllocSteps, heaps
    <3>2. CASE ~ heap[t] + 1 < NHeaps
      BY <1>2, <2>0, <2>1, <3>2
      DEF MallocUncount, NextHeap, Goto, IInv, FlagTypes, Steps, AllocSteps, heaps
    <3>. QED  BY <3>1, <3>2
  <2>. QED  BY <2>1, <2>2 DEF IInv
<1>. QED  BY <1>1, <1>2

LEMMA ClearHeapKeeps ==
  ASSUME IInv, NEW t \in Threads, ClearHeap(t)
  PROVE  IInv'
<1>1. FlagTypes'
  BY HeapsAssumption DEF ClearHeap, Goto, IInv, FlagTypes, Heaps, Steps, history
<1>2. ASSUME Enough, ~ leaked PROVE FlagHeld' /\ Room' /\ ~ failed'
  <2>0. FlagTypes /\ FlagHeld /\ Room /\ ~ failed
    BY <1>2 DEF IInv
  <2>1. FlagHeld'
    BY <2>0, NoneAssumption
    DEF ClearHeap, Goto, FlagHeld, FlagTypes, Holding, AllocSteps
  <2>2. heap' = [heap EXCEPT ![t] = 0]
    BY DEF ClearHeap
  <2>3. Room'
    BY <1>2, <2>0, <2>2, BackToFirst
  <2>. QED  BY <2>0, <2>1, <2>3 DEF ClearHeap, history
<1>. QED  BY <1>1, <1>2 DEF IInv, Enough, ClearHeap, history

-----------------------------------------------------------------------------
(* All other steps are quiet.                                              *)

LEMMA MallocKeeps ==
  ASSUME IInv, NEW t \in Threads, MallocReset(t) \/ MallocCount(t)
  PROVE  IInv'
<1>1. PICK l \in {"count", "uncount", "clear"} : pc' = [pc EXCEPT ![t] = l]
  BY DEF MallocReset, MallocCount, Goto
<1>2. flag' = flag /\ heap' = heap /\ failed' = failed /\ leaked' = leaked
  BY DEF MallocReset, MallocCount, heaps, locals, history
<1>3. l \in Steps /\ l \in Holding
  BY DEF Steps, Holding, AllocSteps
<1>. QED  BY <1>1, <1>2, <1>3, QuietStep

LEMMA AllocSmallKeeps ==
  ASSUME IInv, NEW t \in Threads, AllocSmall(t)
  PROVE  IInv'
<1>1. PICK l \in {"malloc", "mark", "recheck", "unmark", "take_lock"} :
             pc' = [pc EXCEPT ![t] = l]
  BY DEF AllocSmall, FullButEmpty, FullInUse, MarkChunk, Recheck, Unmark, UnmarkFails,
         StartOver, Goto
<1>2. flag' = flag /\ heap' = heap /\ failed' = failed /\ leaked' = leaked
  BY DEF AllocSmall, FullButEmpty, FullInUse, MarkChunk, Recheck, Unmark, UnmarkFails,
         heaps, locals, history
<1>3. l \in Steps /\ l \in Holding
  BY DEF Steps, Holding, AllocSteps
<1>. QED  BY <1>1, <1>2, <1>3, QuietStep

LEMMA FindChunkKeeps ==
  ASSUME IInv, NEW t \in Threads, FindChunk(t)
  PROVE  IInv'
<1>1. PICK l \in {"take_test", "take_swap", "take_wait", "install", "malloc"} :
             pc' = [pc EXCEPT ![t] = l]
  BY DEF FindChunk, TakeLock, CreateChunk, TakeTest, TakeSwap, TakeChunk, Install, Goto
<1>2. flag' = flag /\ heap' = heap /\ failed' = failed /\ leaked' = leaked
  BY DEF FindChunk, TakeLock, CreateChunk, TakeTest, TakeSwap, TakeChunk, Install,
         heaps, locals, history
<1>3. l \in Steps /\ l \in Holding
  BY DEF Steps, Holding, AllocSteps
<1>. QED  BY <1>1, <1>2, <1>3, QuietStep

LEMMA FreeKeeps ==
  ASSUME IInv, NEW t \in Threads, Free(t)
  PROVE  IInv'
<1>1. PICK l \in FreeSteps \cup {"idle"} : pc' = [pc EXCEPT ![t] = l]
  <2>1. CASE CallFree(t) \/ UncountBlock(t) \/ Recover(t) \/ NotMarked(t)
    BY <2>1 DEF CallFree, UncountBlock, Recover, NotMarked, Goto, FreeSteps, PutSteps
  <2>2. CASE RecoverChunk(t)
    BY <2>2 DEF RecoverChunk, PutLock, PutTest, PutAlone, PutFull, NoResize, Resize, ResizeDone,
                GoOnAlone, PutSwap, PutStore, MergeTest, MergeCall, Merge, Goto, FreeSteps,
                PutSteps
  <2>. QED  BY <2>1, <2>2 DEF Free
<1>2. flag' = flag /\ heap' = heap /\ failed' = failed /\ leaked' = leaked
  <2>1. CASE CallFree(t) \/ UncountBlock(t) \/ Recover(t) \/ NotMarked(t)
    BY <2>1 DEF CallFree, UncountBlock, Recover, NotMarked, heaps, locals, history
  <2>2. CASE RecoverChunk(t)
    BY <2>2 DEF RecoverChunk, PutLock, PutTest, PutAlone, PutFull, NoResize, Resize, ResizeDone,
                PutSwap, PutStore, MergeTest, MergeCall, Merge, heaps, locals, history
  <2>. QED  BY <2>1, <2>2 DEF Free
<1>3. pc[t] \notin Holding
  <2>1. CASE CallFree(t) \/ UncountBlock(t) \/ Recover(t) \/ NotMarked(t)
    BY <2>1 DEF CallFree, UncountBlock, Recover, NotMarked, Holding, AllocSteps
  <2>2. CASE RecoverChunk(t)
    BY <2>2 DEF RecoverChunk, PutLock, PutTest, PutAlone, PutFull, NoResize, Resize, ResizeDone,
                PutSwap, PutStore, MergeTest, MergeCall, Merge, Holding, AllocSteps
  <2>. QED  BY <2>1, <2>2 DEF Free
<1>4. l \in Steps
  BY DEF Steps
<1>. QED  BY <1>1, <1>2, <1>3, <1>4, QuietStep

LEMMA NextIInv == IInv /\ [Next]_vars => IInv'
<1> SUFFICES ASSUME IInv, [Next]_vars PROVE IInv'
  OBVIOUS
<1>1. ASSUME NEW t \in Threads, Alloc(t) \/ Free(t) PROVE IInv'
  BY <1>1, CallAllocKeeps, TakeHeapKeeps, HeapBusyKeeps, ClearHeapKeeps,
     MallocUncountKeeps, MallocKeeps, AllocSmallKeeps, FindChunkKeeps, FreeKeeps
  DEF Alloc, Malloc
<1>2. CASE UNCHANGED vars
  BY <1>2 DEF vars, heaps, locals, history, IInv, FlagTypes, Enough, FlagHeld, Room, From
<1>. QED  BY <1>1, <1>2 DEF Next

-----------------------------------------------------------------------------
(* The theorem                                                             *)

\* With as many micro heaps as threads, no allocation returns 0 because it
\* found every flag of mempage_heap.cpp:70-81 set.
THEOREM HeapNeverBusy == Spec => []NeverBusy
<1>1. IInv => NeverBusy
  BY DEF IInv, Enough, NeverBusy
<1>. QED  BY <1>1, InitIInv, NextIInv, PTL DEF Spec

-----------------------------------------------------------------------------
(* The blocks                                                              *)

\* The first _malloc of an allocation failed, and there was no second one yet.
Seeking == {"full", "mark", "recheck", "unmark", "take_lock", "take_test", "take_swap",
            "take_wait", "install"}

\* The thread has a chunk in hand.
Carrying == {"install", "uncount_block", "recover"} \cup PutSteps

LocalsOK ==
  \A t \in Threads :
    /\ pc[t] \in Seeking => ~ again[t]
    /\ pc[t] \in Carrying => cur[t] # None
    /\ pc[t] \in AllocSteps => calls[t] > 0
    /\ (pc[t] = "clear") <=> (blk[t] # None)

\* The present allocation of t will not create a chunk any more.
Spent(t) ==
  /\ pc[t] \notin Seeking \ {"install"}
  /\ again[t] \/ pc[t] \notin {"probe", "malloc", "count", "uncount"}

\* Every chunk but the first ones was created by an allocation of its own:
\* S has the thread and the number of each of them.
Created(S) ==
  /\ created <= NHeaps + Cardinality(S)
  /\ \A p \in S : p[2] <= calls[p[1]] /\ (p[2] = calls[p[1]] => Spent(p[1]))

CreatedOK == \E S \in SUBSET (Threads \X (1 .. MaxCalls)) : Created(S)

\* A flag is set by the thread that works on the micro heap.
FlagsOK ==
  /\ \A h \in Heaps, t \in Threads : flag[h] = t => heap[t] = h /\ pc[t] \in Holding
  /\ \A t \in Threads : pc[t] \in Holding => flag[heap[t]] = t

\* What the count of c counts: the blocks in use, and the threads that are
\* about to lower it.
Lowering(t, c) ==
  \/ pc[t] = "uncount" /\ Chunk(t) = c
  \/ pc[t] = "uncount_block" /\ cur[t] = c

Users(c) ==
  {<<1, b>> : b \in {d \in Blocks : d[1] = c /\ \E t \in Threads : d \in InUse(t)}}
    \cup {<<2, t>> : t \in {u \in Threads : Lowering(u, c)}}

CountOK == \A c \in Chunks : IsFiniteSet(Users(c)) /\ count[c] = Cardinality(Users(c))

Apart ==
  /\ \A t, u \in Threads : t # u => InUse(t) \cap InUse(u) = {}
  /\ \A t \in Threads : blk[t] \notin held[t]

\* A block in use was cut from its chunk since the chunk was used from its start.
Cut == \A t \in Threads : \A b \in InUse(t) : b[2] <= slide[b[1]]

IsOut(c) ==
  \/ \E i \in Slots : ring[i] = c \/ copy[i] = c
  \/ \E t \in Threads : Out(t) /\ cur[t] = c

OnePlace ==
  /\ \A i, j \in Slots : ring[i] = ring[j] /\ ring[i] \in Chunks => i = j
  /\ \A i, j \in Slots : copy[i] = copy[j] /\ copy[i] \in Chunks => i = j
  /\ \A t, u \in Threads : Out(t) /\ Out(u) /\ cur[t] = cur[u] => t = u
  /\ \A i \in Slots, t \in Threads : Out(t) => ring[i] # cur[t] /\ copy[i] # cur[t]

OutOK == \A c \in Chunks : IsOut(c) => count[c] = 0 /\ recFlag[c] # 1

\* The chunk of a micro heap that is not leaving it is not marked, not out of
\* use, and no other's.
Owners ==
  \A h \in Heaps : ~ Leaving(h) =>
    /\ recFlag[chunk[h]] = 0 /\ ~ IsOut(chunk[h])
    /\ \A g \in Heaps \ {h} : chunk[g] = chunk[h] => Leaving(g)

\* Nothing refers to a chunk that was not created.
Unborn ==
  \A c \in Chunks : c > created =>
    /\ count[c] = 0 /\ recFlag[c] = 0
    /\ \A h \in Heaps : chunk[h] # c
    /\ \A i \in Slots : ring[i] # c /\ copy[i] # c
    /\ \A t \in Threads : cur[t] # c

\* The second _malloc has the whole chunk.
Fits ==
  \A t \in Threads : again[t] =>
    /\ pc[t] \notin {"probe", "uncount"}
    /\ pc[t] \in {"malloc", "count"} => slide[Chunk(t)] = 0

Sound ==
  /\ ~ leaked /\ FlagsOK /\ CountOK /\ Apart /\ Cut /\ OnePlace /\ OutOK
  /\ Owners /\ Unborn /\ Fits

\* The new array is empty but while a resize fills it.
CopyOK == copy = Nothing \/ Resizing

BlocksInv ==
  TypeOK /\ LocalsOK /\ CreatedOK /\ CopyOK /\ (~ stale /\ ~ misread => Sound)

-----------------------------------------------------------------------------
LEMMA Consts ==
  /\ NHeaps \in Nat \ {0} /\ Cap \in Nat \ {0} /\ RingMax \in Nat /\ RingMax > 1
  /\ 0 \in Heaps /\ Header \notin Chunks /\ Header # None /\ \A h \in Heaps : h \in Nat /\ h < NHeaps
  /\ \E n \in Nat : n >= NHeaps /\ n = NHeaps + Cardinality(Threads) * MaxCalls
                    /\ Chunks = 1 .. n
  /\ None \notin Threads /\ None \notin Chunks /\ None \notin Blocks
  /\ \A b \in Blocks : b = <<b[1], b[2]>> /\ b[1] \in Chunks /\ b[2] \in 1 .. Cap
<1>1. NHeaps \in Nat \ {0} /\ Cap \in Nat \ {0} /\ RingMax \in Nat /\ RingMax > 1
  BY HeapsAssumption, SizesAssumption
<1>2. 0 \in Heaps /\ \A h \in Heaps : h \in Nat /\ h < NHeaps
  BY <1>1 DEF Heaps
<1>3. PICK m \in Nat : m = Cardinality(Threads) * MaxCalls
  <2>1. Cardinality(Threads) \in Nat
    BY HeapsAssumption, FS_CardinalityType
  <2>2. ASSUME NEW a \in Nat, NEW b \in Nat PROVE a * b \in Nat
    OBVIOUS
  <2>. QED  BY <2>1, <2>2, BoundsAssumption
<1>4. Chunks = 1 .. (NHeaps + m)
  BY <1>3 DEF Chunks
<1>5. None \notin Threads /\ None \notin Chunks
  BY <1>1, <1>4, NoneAssumption
<1>6. Chunks \subseteq Nat /\ 1 .. Cap \subseteq Nat
  BY <1>1, <1>4
<1>7. None \notin Blocks
  BY <1>6, NoneAssumption DEF Blocks
<1>8. \A b \in Blocks : b = <<b[1], b[2]>> /\ b[1] \in Chunks /\ b[2] \in 1 .. Cap
  BY DEF Blocks
<1>9. NHeaps + m \in Nat /\ NHeaps + m >= NHeaps
  BY <1>1
<1>10. Header \notin Chunks /\ Header # None
  BY <1>4, NoneAssumption DEF Header
<1>. QED  BY <1>1, <1>2, <1>3, <1>4, <1>5, <1>7, <1>8, <1>9, <1>10
-----------------------------------------------------------------------------
(* Types                                                                   *)

HeapTypes ==
  /\ flag \in [Heaps -> Threads \cup {None}]
  /\ chunk \in [Heaps -> Chunks]
  /\ created \in Chunks
  /\ count \in [Chunks -> Int] /\ recFlag \in [Chunks -> 0 .. 2]
  /\ slide \in [Chunks -> 0 .. Cap]

RingTypes ==
  /\ ring \in [Slots -> Words] /\ copy \in [Slots -> Words] /\ oldRing \in [Slots -> Words]
  /\ ringMax \in {RingMax, 2 * RingMax, 4 * RingMax} /\ early \subseteq Threads
  /\ freeSlide \in Indices /\ allocSlide \in Indices
  /\ shared \subseteq Threads /\ upgrade \in Threads \cup {None}

LocalTypes ==
  /\ pc \in [Threads -> {"idle"} \cup AllocSteps \cup FreeSteps]
  /\ heap \in [Threads -> Heaps]
  /\ cur \in [Threads -> Chunks \cup {None}]
  /\ again \in [Threads -> BOOLEAN]
  /\ at \in [Threads -> Indices] /\ new \in [Threads -> Indices]

ClientTypes ==
  /\ blk \in [Threads -> Blocks \cup {None}]
  /\ calls \in [Threads -> 0 .. MaxCalls]
  /\ held \in [Threads -> SUBSET Blocks]
  /\ failed \in BOOLEAN /\ leaked \in BOOLEAN
  /\ misread \in BOOLEAN /\ stale \in BOOLEAN

LEMMA WrapType ==
  ASSUME RingTypes
  PROVE  /\ \A i \in Indices : Wrap(i + 1) \in Indices
         /\ 0 \in Indices /\ Indices \subseteq Slots
<1>1. RingMax \in Nat /\ RingMax > 1
  BY Consts
<1>2. ringMax \in Nat /\ ringMax > 1 /\ ringMax <= 4 * RingMax
  BY <1>1 DEF RingTypes
<1>. QED  BY <1>1, <1>2 DEF Wrap, Slots, Indices, MaxRing

\* The allocation that creates a chunk did not create one before, and so
\* there is a number for it.
LEMMA RoomForChunk ==
  ASSUME TypeOK, LocalsOK, CreatedOK, NEW t \in Threads, CreateChunk(t)
  PROVE  created + 1 \in Chunks /\ CreatedOK'
<1>1. PICK S \in SUBSET (Threads \X (1 .. MaxCalls)) : Created(S)
  BY DEF CreatedOK
<1>2. PICK n \in Nat : Chunks = 1 .. n /\ n = NHeaps + Cardinality(Threads) * MaxCalls
  BY Consts
<1>3. PICK k \in 1 .. MaxCalls : k = calls[t]
  <2>1. calls[t] \in 0 .. MaxCalls /\ calls[t] > 0
    BY DEF CreateChunk, LocalsOK, AllocSteps, TypeOK
  <2>. QED  BY <2>1, BoundsAssumption
<1> DEFINE p == <<t, k>>
<1>4. p \in Threads \X (1 .. MaxCalls) /\ p \notin S
  BY <1>1, <1>3 DEF Created, Spent, CreateChunk, Seeking
<1>5. /\ IsFiniteSet(Threads \X (1 .. MaxCalls))
      /\ Cardinality(Threads \X (1 .. MaxCalls)) = Cardinality(Threads) * MaxCalls
  <2>1. IsFiniteSet(1 .. MaxCalls) /\ Cardinality(1 .. MaxCalls) = MaxCalls
    BY BoundsAssumption, FS_Interval
  <2>. QED  BY <2>1, HeapsAssumption, FS_Product
<1>6. S \cup {p} \in SUBSET (Threads \X (1 .. MaxCalls))
  BY <1>4
<1>7. /\ IsFiniteSet(S) /\ Cardinality(S) \in Nat
      /\ Cardinality(S \cup {p}) = Cardinality(S) + 1
  BY <1>4, <1>5, FS_Subset, FS_AddElement, FS_CardinalityType
<1>8. Cardinality(S \cup {p}) <= Cardinality(Threads) * MaxCalls
  BY <1>5, <1>6, FS_Subset
<1>9. PICK m \in Nat : m = Cardinality(Threads) * MaxCalls
  BY <1>5, FS_CardinalityType
<1>10. created \in Chunks /\ created <= NHeaps + Cardinality(S)
  BY <1>1 DEF TypeOK, Created
<1>11. created + 1 \in Chunks
  BY <1>2, <1>7, <1>8, <1>9, <1>10, Consts
<1>12. Created(S \cup {p})'
  <2>1. created' = created + 1 /\ calls' = calls /\ again' = again
        /\ pc' = [pc EXCEPT ![t] = "install"]
    BY DEF CreateChunk, Goto, client
  <2>2. created + 1 <= NHeaps + Cardinality(S \cup {p})
    BY <1>2, <1>7, <1>10, Consts
  <2>3. ASSUME NEW q \in S \cup {p}
        PROVE  q[2] <= calls[q[1]] /\ (q[2] = calls[q[1]] => Spent(q[1])')
    <3>1. CASE q = p
      BY <1>3, <2>1, <3>1 DEF Spent, TypeOK, Seeking
    <3>2. CASE q \in S
      <4>1. q[1] \in Threads /\ q[2] <= calls[q[1]] /\ (q[2] = calls[q[1]] => Spent(q[1]))
        BY <1>1, <3>2 DEF Created
      <4>. QED  BY <2>1, <4>1 DEF Spent, TypeOK, Seeking
    <3>. QED  BY <3>1, <3>2
  <2>. QED  BY <2>1, <2>2, <2>3 DEF Created
<1>. QED  BY <1>6, <1>11, <1>12 DEF CreatedOK

\* All other steps create nothing, and an allocation that will not create a
\* chunk never will.
LEMMA SameCreated ==
  ASSUME TypeOK, CreatedOK, created' = created,
         \A u \in Threads : \/ calls'[u] = calls[u] /\ (Spent(u) => Spent(u)')
                           \/ calls'[u] = calls[u] + 1
  PROVE  CreatedOK'
<1>1. PICK S \in SUBSET (Threads \X (1 .. MaxCalls)) : Created(S)
  BY DEF CreatedOK
<1>2. ASSUME NEW q \in S
      PROVE  q[2] <= calls'[q[1]] /\ (q[2] = calls'[q[1]] => Spent(q[1])')
  <2>1. q[1] \in Threads /\ q[2] \in Nat
    BY BoundsAssumption
  <2>2. q[2] <= calls[q[1]] /\ (q[2] = calls[q[1]] => Spent(q[1])) /\ calls[q[1]] \in Nat
    BY <1>1, <2>1, BoundsAssumption DEF Created, TypeOK
  <2>. QED  BY <2>1, <2>2
<1>3. Created(S)'
  BY <1>1, <1>2 DEF Created
<1>. QED  BY <1>3 DEF CreatedOK

LEMMA Types ==
  /\ TypeOK <=> HeapTypes /\ RingTypes /\ LocalTypes /\ ClientTypes
  /\ TypeOK' <=> HeapTypes' /\ RingTypes' /\ LocalTypes' /\ ClientTypes'
BY DEF TypeOK, HeapTypes, RingTypes, LocalTypes, ClientTypes

LEMMA TypeStep ==
  ASSUME TypeOK, LocalsOK, CreatedOK, NEW t \in Threads, Alloc(t) \/ Free(t)
  PROVE  TypeOK' /\ LocalsOK' /\ CreatedOK'
<1>0. /\ HeapTypes /\ RingTypes /\ LocalTypes /\ ClientTypes
      /\ heap[t] \in Heaps /\ Chunk(t) = chunk[heap[t]] /\ Chunk(t) \in Chunks
  BY Types DEF HeapTypes, LocalTypes, Chunk
<1>r. /\ 0 \in Indices /\ Indices \subseteq Slots
      /\ \A i \in Indices : Wrap(i + 1) \in Indices
      /\ ringMax' = ringMax => Indices' = Indices
  BY <1>0, WrapType DEF Indices
<1>a. ASSUME NEW u \in Threads PROVE pc[u] = "clear" => blk[u] \in Blocks
  BY <1>0, Consts DEF LocalsOK, ClientTypes
<1>b. pc[t] \in Carrying => cur[t] \in Chunks
  BY <1>0 DEF LocalsOK, LocalTypes
<1>1. ASSUME CallAlloc(t) PROVE TypeOK' /\ LocalsOK' /\ CreatedOK'
  <2>1. HeapTypes'
    BY <1>0, <1>1, Consts DEF CallAlloc, Goto, HeapTypes, heaps, chunks
  <2>2. RingTypes'
    BY <1>0, <1>r, <1>1, Consts
    DEF CallAlloc, Goto, RingTypes, LocalTypes, LocalsOK, Carrying, indices, arrays, locks
  <2>3. LocalTypes'
    BY <1>0, <1>r, <1>1, Consts
    DEF CallAlloc, Goto, LocalTypes, ClientTypes, RingTypes, AllocSteps, FreeSteps, PutSteps,
         Heaps, locals, indices, arrays
  <2>4. ClientTypes'
    <3>1. calls' = [calls EXCEPT ![t] = @ + 1] /\ calls[t] < MaxCalls /\ calls[t] \in 0 .. MaxCalls
      BY <1>0, <1>1 DEF CallAlloc, ClientTypes
    <3>2. calls' \in [Threads -> 0 .. MaxCalls]
      BY <1>0, <3>1, BoundsAssumption DEF ClientTypes
    <3>. QED  BY <1>0, <1>1, <3>2 DEF CallAlloc, ClientTypes, history, locals
  <2>5. LocalsOK'
    BY <1>0, <1>1, Consts DEF CallAlloc, Goto, LocalTypes, ClientTypes, LocalsOK, Seeking,
         Carrying, PutSteps, AllocSteps, locals, client
  <2>6. created' = created
    BY <1>1 DEF CallAlloc, Goto, chunks
  <2>7. ASSUME NEW u \in Threads
        PROVE  \/ calls'[u] = calls[u] /\ (Spent(u) => Spent(u)')
               \/ calls'[u] = calls[u] + 1
    BY <1>0, <1>1
    DEF CallAlloc, Goto, LocalTypes, ClientTypes, LocalsOK, Spent, Seeking, locals, client
  <2>. QED  BY <2>1, <2>2, <2>3, <2>4, <2>5, <2>6, Types, <2>7, SameCreated
<1>2. ASSUME TakeHeap(t) PROVE TypeOK' /\ LocalsOK' /\ CreatedOK'
  <2>1. HeapTypes'
    BY <1>0, <1>2, Consts DEF TakeHeap, Goto, HeapTypes, heaps, chunks
  <2>2. RingTypes'
    BY <1>0, <1>r, <1>2, Consts
    DEF TakeHeap, Goto, RingTypes, LocalTypes, LocalsOK, Carrying, indices, arrays, locks
  <2>3. LocalTypes'
    BY <1>0, <1>r, <1>2, Consts
    DEF TakeHeap, Goto, LocalTypes, ClientTypes, RingTypes, AllocSteps, FreeSteps, PutSteps,
         Heaps, locals, indices, arrays
  <2>4. ClientTypes'
    BY <1>0, <1>a, <1>2, Consts
    DEF TakeHeap, Goto, ClientTypes, HeapTypes, Blocks, client, history, locals
  <2>5. LocalsOK'
    BY <1>0, <1>2, Consts DEF TakeHeap, Goto, LocalTypes, ClientTypes, LocalsOK, Seeking,
         Carrying, PutSteps, AllocSteps, locals, client
  <2>6. created' = created
    BY <1>2 DEF TakeHeap, Goto, chunks
  <2>7. ASSUME NEW u \in Threads
        PROVE  \/ calls'[u] = calls[u] /\ (Spent(u) => Spent(u)')
               \/ calls'[u] = calls[u] + 1
    BY <1>0, <1>2
    DEF TakeHeap, Goto, LocalTypes, ClientTypes, LocalsOK, Spent, Seeking, locals, client
  <2>. QED  BY <2>1, <2>2, <2>3, <2>4, <2>5, <2>6, Types, <2>7, SameCreated
<1>3. ASSUME HeapBusy(t) PROVE TypeOK' /\ LocalsOK' /\ CreatedOK'
  <2>1. HeapTypes'
    BY <1>0, <1>3, Consts DEF HeapBusy, Goto, NextHeap, HeapTypes, heaps, chunks
  <2>2. RingTypes'
    BY <1>0, <1>r, <1>3, Consts
    DEF HeapBusy, Goto, NextHeap, RingTypes, LocalTypes, LocalsOK, Carrying, indices, arrays, locks
  <2>3. LocalTypes'
    <3>1. PICK h \in Heaps, l \in {"probe", "idle", "full"} :
            heap' = [heap EXCEPT ![t] = h] /\ pc' = [pc EXCEPT ![t] = l]
      <4>1. CASE heap[t] + 1 < NHeaps
        BY <1>0, <1>3, <4>1, Consts DEF HeapBusy, NextHeap, Goto, Heaps, LocalTypes
      <4>2. CASE ~ heap[t] + 1 < NHeaps
        BY <1>0, <1>3, <4>2, Consts DEF HeapBusy, NextHeap, Goto, LocalTypes
      <4>. QED  BY <4>1, <4>2
    <3>. QED  BY <1>0, <1>r, <1>3, <3>1 DEF HeapBusy, LocalTypes, AllocSteps, indices, arrays
  <2>4. ClientTypes'
    BY <1>0, <1>a, <1>3, Consts
    DEF HeapBusy, Goto, NextHeap, ClientTypes, HeapTypes, Blocks, client, history, locals
  <2>5. LocalsOK'
    BY <1>0, <1>3, Consts DEF HeapBusy, Goto, NextHeap, LocalTypes, ClientTypes, LocalsOK,
         Seeking, Carrying, PutSteps, AllocSteps, locals, client
  <2>6. created' = created
    BY <1>3 DEF HeapBusy, Goto, NextHeap, chunks
  <2>7. ASSUME NEW u \in Threads
        PROVE  \/ calls'[u] = calls[u] /\ (Spent(u) => Spent(u)')
               \/ calls'[u] = calls[u] + 1
    BY <1>0, <1>3 DEF HeapBusy, Goto, NextHeap, LocalTypes, ClientTypes, LocalsOK, Spent,
         Seeking, locals, client
  <2>. QED  BY <2>1, <2>2, <2>3, <2>4, <2>5, <2>6, Types, <2>7, SameCreated
<1>4. ASSUME ClearHeap(t) PROVE TypeOK' /\ LocalsOK' /\ CreatedOK'
  <2>1. HeapTypes'
    BY <1>0, <1>4, Consts DEF ClearHeap, Goto, HeapTypes, heaps, chunks
  <2>2. RingTypes'
    BY <1>0, <1>r, <1>4, Consts
    DEF ClearHeap, Goto, RingTypes, LocalTypes, LocalsOK, Carrying, indices, arrays, locks
  <2>3. LocalTypes'
    BY <1>0, <1>r, <1>4, Consts
    DEF ClearHeap, Goto, LocalTypes, ClientTypes, RingTypes, AllocSteps, FreeSteps, PutSteps,
         Heaps, locals, indices, arrays
  <2>4. ClientTypes'
    BY <1>0, <1>a, <1>4, Consts
    DEF ClearHeap, Goto, ClientTypes, HeapTypes, Blocks, client, history, locals
  <2>5. LocalsOK'
    BY <1>0, <1>4, Consts DEF ClearHeap, Goto, LocalTypes, ClientTypes, LocalsOK, Seeking,
         Carrying, PutSteps, AllocSteps, locals, client
  <2>6. created' = created
    BY <1>4 DEF ClearHeap, Goto, chunks
  <2>7. ASSUME NEW u \in Threads
        PROVE  \/ calls'[u] = calls[u] /\ (Spent(u) => Spent(u)')
               \/ calls'[u] = calls[u] + 1
    BY <1>0, <1>4
    DEF ClearHeap, Goto, LocalTypes, ClientTypes, LocalsOK, Spent, Seeking, locals, client
  <2>. QED  BY <2>1, <2>2, <2>3, <2>4, <2>5, <2>6, Types, <2>7, SameCreated
<1>5. ASSUME MallocReset(t) PROVE TypeOK' /\ LocalsOK' /\ CreatedOK'
  <2>1. HeapTypes'
    BY <1>0, <1>5, SizesAssumption DEF MallocReset, HeapTypes, heaps
  <2>2. RingTypes'
    BY <1>0, <1>r, <1>5, Consts
    DEF MallocReset, Goto, RingTypes, LocalTypes, LocalsOK, Carrying, indices, arrays, locks
  <2>3. LocalTypes'
    BY <1>0, <1>r, <1>5, Consts DEF MallocReset, Goto, LocalTypes, ClientTypes, RingTypes,
         AllocSteps,
         FreeSteps, Heaps, locals,
         indices, arrays
  <2>4. ClientTypes'
    BY <1>0, <1>a, <1>5, Consts
    DEF MallocReset, Goto, ClientTypes, HeapTypes, Blocks, client, history, locals
  <2>5. LocalsOK'
    BY <1>0, <1>5, Consts DEF MallocReset, Goto, LocalTypes, ClientTypes, LocalsOK, Seeking,
         Carrying, PutSteps, AllocSteps, locals, client
  <2>6. created' = created
    BY <1>5 DEF MallocReset, Goto, chunks
  <2>7. ASSUME NEW u \in Threads
        PROVE  \/ calls'[u] = calls[u] /\ (Spent(u) => Spent(u)')
               \/ calls'[u] = calls[u] + 1
    BY <1>0, <1>5
    DEF MallocReset, Goto, LocalTypes, ClientTypes, LocalsOK, Spent, Seeking, locals, client
  <2>. QED  BY <2>1, <2>2, <2>3, <2>4, <2>5, <2>6, Types, <2>7, SameCreated
<1>6. ASSUME MallocCount(t) PROVE TypeOK' /\ LocalsOK' /\ CreatedOK'
  <2>1. HeapTypes'
    <3>1. count' = [count EXCEPT ![Chunk(t)] = count[Chunk(t)] + 1] /\ count[Chunk(t)] + 1 \in Int
      BY <1>0, <1>6 DEF MallocCount, HeapTypes
    <3>2. slide' \in [Chunks -> 0 .. Cap]
      BY <1>0, <1>6, SizesAssumption DEF MallocCount, HeapTypes
    <3>3. count' \in [Chunks -> Int]
      BY <1>0, <3>1 DEF HeapTypes
    <3>4. heaps' = heaps /\ created' = created /\ recFlag' = recFlag
      BY <1>6 DEF MallocCount
    <3>. QED  BY <1>0, <3>2, <3>3, <3>4 DEF HeapTypes, heaps
  <2>2. RingTypes'
    BY <1>0, <1>r, <1>6, Consts
    DEF MallocCount, Goto, RingTypes, LocalTypes, LocalsOK, Carrying, indices, arrays, locks
  <2>3. LocalTypes'
    BY <1>0, <1>r, <1>6, Consts DEF MallocCount, Goto, LocalTypes, ClientTypes, RingTypes,
         AllocSteps,
         FreeSteps, Heaps, locals,
         indices, arrays
  <2>4. ClientTypes'
    <3>1. slide[Chunk(t)] < Cap => <<Chunk(t), slide[Chunk(t)] + 1>> \in Blocks
      BY <1>0, SizesAssumption DEF HeapTypes, Blocks
    <3>. QED  BY <1>0, <1>6, <3>1 DEF MallocCount, ClientTypes, client, history
  <2>5. LocalsOK'
    <3>1. blk[t] = None
      BY <1>0, <1>6 DEF MallocCount, LocalsOK
    <3>2. CASE slide[Chunk(t)] < Cap
      <4>1. <<Chunk(t), slide[Chunk(t)] + 1>> \in Blocks
        BY <1>0, <3>2, SizesAssumption DEF HeapTypes, Blocks
      <4>2. PICK b \in Blocks : blk' = [blk EXCEPT ![t] = b]
        BY <1>6, <3>2, <4>1 DEF MallocCount
      <4>3. pc' = [pc EXCEPT ![t] = "clear"] /\ again' = again /\ cur' = cur /\ calls' = calls
        BY <1>6, <3>2 DEF MallocCount, Goto, client
      <4>4. b # None /\ pc[t] = "count"
        BY <1>6, Consts DEF MallocCount
      <4>. QED
        BY <1>0, <4>2, <4>3, <4>4
        DEF LocalTypes, ClientTypes, LocalsOK, Seeking, Carrying, PutSteps, AllocSteps
    <3>3. CASE ~ slide[Chunk(t)] < Cap
      BY <1>0, <1>6, <3>3
      DEF MallocCount, Goto, LocalTypes, ClientTypes, LocalsOK, Seeking, Carrying, PutSteps,
           AllocSteps,
           client
    <3>. QED  BY <3>2, <3>3
  <2>6. created' = created
    BY <1>6 DEF MallocCount, Goto, chunks
  <2>7. ASSUME NEW u \in Threads
        PROVE  \/ calls'[u] = calls[u] /\ (Spent(u) => Spent(u)')
               \/ calls'[u] = calls[u] + 1
    BY <1>0, <1>6
    DEF MallocCount, Goto, LocalTypes, ClientTypes, LocalsOK, Spent, Seeking, locals, client
  <2>. QED  BY <2>1, <2>2, <2>3, <2>4, <2>5, <2>6, Types, <2>7, SameCreated
<1>7. ASSUME MallocUncount(t) PROVE TypeOK' /\ LocalsOK' /\ CreatedOK'
  <2>1. HeapTypes'
    <3>1. count' = [count EXCEPT ![Chunk(t)] = @ - 1] /\ count[Chunk(t)] \in Int
      BY <1>0, <1>7 DEF MallocUncount, HeapTypes
    <3>. QED  BY <1>0, <1>7, <3>1 DEF MallocUncount, HeapTypes, heaps
  <2>2. RingTypes'
    BY <1>0, <1>r, <1>7, Consts
    DEF MallocUncount, Goto, NextHeap, RingTypes, LocalTypes, LocalsOK, Carrying, indices,
         arrays, locks
  <2>3. LocalTypes'
    <3>1. PICK h \in Heaps, l \in {"probe", "idle", "full"} :
            heap' = [heap EXCEPT ![t] = h] /\ pc' = [pc EXCEPT ![t] = l]
      <4>1. CASE again[t] /\ heap[t] + 1 < NHeaps
        <5>1. heap[t] + 1 \in Heaps
          BY <1>0, <4>1, HeapsAssumption DEF Heaps
        <5>. QED  BY <1>7, <4>1, <5>1 DEF MallocUncount, NextHeap, Goto
      <4>2. CASE ~ (again[t] /\ heap[t] + 1 < NHeaps)
        BY <1>0, <1>7, <4>2, Consts DEF MallocUncount, NextHeap, Goto, LocalTypes
      <4>. QED  BY <4>1, <4>2
    <3>. QED
      BY <1>0, <1>r, <1>7, <3>1 DEF MallocUncount, LocalTypes, AllocSteps, indices, arrays
  <2>4. ClientTypes'
    BY <1>0, <1>a, <1>7, Consts
    DEF MallocUncount, Goto, NextHeap, ClientTypes, HeapTypes, Blocks, client, history, locals
  <2>5. LocalsOK'
    BY <1>0, <1>7, Consts DEF MallocUncount, Goto, NextHeap, LocalTypes, ClientTypes, LocalsOK,
         Seeking, Carrying, PutSteps, AllocSteps, locals, client
  <2>6. created' = created
    BY <1>7 DEF MallocUncount, Goto, NextHeap, chunks
  <2>7. ASSUME NEW u \in Threads
        PROVE  \/ calls'[u] = calls[u] /\ (Spent(u) => Spent(u)')
               \/ calls'[u] = calls[u] + 1
    BY <1>0, <1>7 DEF MallocUncount, Goto, NextHeap, LocalTypes, ClientTypes, LocalsOK, Spent,
         Seeking, locals, client
  <2>. QED  BY <2>1, <2>2, <2>3, <2>4, <2>5, <2>6, Types, <2>7, SameCreated
<1>8. ASSUME FullButEmpty(t) PROVE TypeOK' /\ LocalsOK' /\ CreatedOK'
  <2>1. HeapTypes'
    BY <1>0, <1>8, Consts DEF FullButEmpty, Goto, StartOver, HeapTypes, heaps, chunks
  <2>2. RingTypes'
    BY <1>0, <1>r, <1>8, Consts
    DEF FullButEmpty, Goto, StartOver, RingTypes, LocalTypes, LocalsOK, Carrying, indices,
         arrays, locks
  <2>3. LocalTypes'
    BY <1>0, <1>r, <1>8, Consts DEF FullButEmpty, Goto, StartOver, LocalTypes, ClientTypes,
         RingTypes,
         AllocSteps, FreeSteps, PutSteps, Heaps, locals,
         indices, arrays
  <2>4. ClientTypes'
    BY <1>0, <1>a, <1>8, Consts
    DEF FullButEmpty, Goto, StartOver, ClientTypes, HeapTypes, Blocks, client, history, locals
  <2>5. LocalsOK'
    BY <1>0, <1>8, Consts DEF FullButEmpty, Goto, StartOver, LocalTypes, ClientTypes, LocalsOK,
         Seeking, Carrying, PutSteps, AllocSteps, locals, client
  <2>6. created' = created
    BY <1>8 DEF FullButEmpty, Goto, StartOver, chunks
  <2>7. ASSUME NEW u \in Threads
        PROVE  \/ calls'[u] = calls[u] /\ (Spent(u) => Spent(u)')
               \/ calls'[u] = calls[u] + 1
    BY <1>0, <1>8 DEF FullButEmpty, Goto, StartOver, LocalTypes, ClientTypes, LocalsOK, Spent,
         Seeking, locals, client
  <2>. QED  BY <2>1, <2>2, <2>3, <2>4, <2>5, <2>6, Types, <2>7, SameCreated
<1>9. ASSUME FullInUse(t) PROVE TypeOK' /\ LocalsOK' /\ CreatedOK'
  <2>1. HeapTypes'
    BY <1>0, <1>9, Consts DEF FullInUse, Goto, HeapTypes, heaps, chunks
  <2>2. RingTypes'
    BY <1>0, <1>r, <1>9, Consts
    DEF FullInUse, Goto, RingTypes, LocalTypes, LocalsOK, Carrying, indices, arrays, locks
  <2>3. LocalTypes'
    BY <1>0, <1>r, <1>9, Consts
    DEF FullInUse, Goto, LocalTypes, ClientTypes, RingTypes, AllocSteps, FreeSteps, PutSteps,
         Heaps, locals, indices, arrays
  <2>4. ClientTypes'
    BY <1>0, <1>a, <1>9, Consts
    DEF FullInUse, Goto, ClientTypes, HeapTypes, Blocks, client, history, locals
  <2>5. LocalsOK'
    BY <1>0, <1>9, Consts DEF FullInUse, Goto, LocalTypes, ClientTypes, LocalsOK, Seeking,
         Carrying, PutSteps, AllocSteps, locals, client
  <2>6. created' = created
    BY <1>9 DEF FullInUse, Goto, chunks
  <2>7. ASSUME NEW u \in Threads
        PROVE  \/ calls'[u] = calls[u] /\ (Spent(u) => Spent(u)')
               \/ calls'[u] = calls[u] + 1
    BY <1>0, <1>9
    DEF FullInUse, Goto, LocalTypes, ClientTypes, LocalsOK, Spent, Seeking, locals, client
  <2>. QED  BY <2>1, <2>2, <2>3, <2>4, <2>5, <2>6, Types, <2>7, SameCreated
<1>10. ASSUME MarkChunk(t) PROVE TypeOK' /\ LocalsOK' /\ CreatedOK'
  <2>1. HeapTypes'
    BY <1>0, <1>10, Consts DEF MarkChunk, Goto, HeapTypes, heaps, chunks
  <2>2. RingTypes'
    BY <1>0, <1>r, <1>10, Consts
    DEF MarkChunk, Goto, RingTypes, LocalTypes, LocalsOK, Carrying, indices, arrays, locks
  <2>3. LocalTypes'
    BY <1>0, <1>r, <1>10, Consts
    DEF MarkChunk, Goto, LocalTypes, ClientTypes, RingTypes, AllocSteps, FreeSteps, PutSteps,
         Heaps, locals, indices, arrays
  <2>4. ClientTypes'
    BY <1>0, <1>a, <1>10, Consts
    DEF MarkChunk, Goto, ClientTypes, HeapTypes, Blocks, client, history, locals
  <2>5. LocalsOK'
    BY <1>0, <1>10, Consts DEF MarkChunk, Goto, LocalTypes, ClientTypes, LocalsOK, Seeking,
         Carrying, PutSteps, AllocSteps, locals, client
  <2>6. created' = created
    BY <1>10 DEF MarkChunk, Goto, chunks
  <2>7. ASSUME NEW u \in Threads
        PROVE  \/ calls'[u] = calls[u] /\ (Spent(u) => Spent(u)')
               \/ calls'[u] = calls[u] + 1
    BY <1>0, <1>10
    DEF MarkChunk, Goto, LocalTypes, ClientTypes, LocalsOK, Spent, Seeking, locals, client
  <2>. QED  BY <2>1, <2>2, <2>3, <2>4, <2>5, <2>6, Types, <2>7, SameCreated
<1>11. ASSUME Recheck(t) PROVE TypeOK' /\ LocalsOK' /\ CreatedOK'
  <2>1. HeapTypes'
    BY <1>0, <1>11, Consts DEF Recheck, Goto, HeapTypes, heaps, chunks
  <2>2. RingTypes'
    BY <1>0, <1>r, <1>11, Consts
    DEF Recheck, Goto, RingTypes, LocalTypes, LocalsOK, Carrying, indices, arrays, locks
  <2>3. LocalTypes'
    BY <1>0, <1>r, <1>11, Consts
    DEF Recheck, Goto, LocalTypes, ClientTypes, RingTypes, AllocSteps, FreeSteps, PutSteps,
         Heaps, locals, indices, arrays
  <2>4. ClientTypes'
    BY <1>0, <1>a, <1>11, Consts
    DEF Recheck, Goto, ClientTypes, HeapTypes, Blocks, client, history, locals
  <2>5. LocalsOK'
    BY <1>0, <1>11, Consts DEF Recheck, Goto, LocalTypes, ClientTypes, LocalsOK, Seeking,
         Carrying, PutSteps, AllocSteps, locals, client
  <2>6. created' = created
    BY <1>11 DEF Recheck, Goto, chunks
  <2>7. ASSUME NEW u \in Threads
        PROVE  \/ calls'[u] = calls[u] /\ (Spent(u) => Spent(u)')
               \/ calls'[u] = calls[u] + 1
    BY <1>0, <1>11
    DEF Recheck, Goto, LocalTypes, ClientTypes, LocalsOK, Spent, Seeking, locals, client
  <2>. QED  BY <2>1, <2>2, <2>3, <2>4, <2>5, <2>6, Types, <2>7, SameCreated
<1>12. ASSUME Unmark(t) PROVE TypeOK' /\ LocalsOK' /\ CreatedOK'
  <2>1. HeapTypes'
    BY <1>0, <1>12, SizesAssumption DEF Unmark, StartOver, HeapTypes, heaps
  <2>2. RingTypes'
    BY <1>0, <1>r, <1>12, Consts
    DEF Unmark, Goto, StartOver, RingTypes, LocalTypes, LocalsOK, Carrying, indices, arrays, locks
  <2>3. LocalTypes'
    BY <1>0, <1>r, <1>12, Consts DEF Unmark, Goto, StartOver, LocalTypes, ClientTypes, RingTypes,
         AllocSteps, FreeSteps, PutSteps, Heaps, locals,
         indices, arrays
  <2>4. ClientTypes'
    BY <1>0, <1>a, <1>12, Consts
    DEF Unmark, Goto, StartOver, ClientTypes, HeapTypes, Blocks, client, history, locals
  <2>5. LocalsOK'
    BY <1>0, <1>12, Consts DEF Unmark, Goto, StartOver, LocalTypes, ClientTypes, LocalsOK,
         Seeking, Carrying, PutSteps, AllocSteps, locals, client
  <2>6. created' = created
    BY <1>12 DEF Unmark, Goto, StartOver, chunks
  <2>7. ASSUME NEW u \in Threads
        PROVE  \/ calls'[u] = calls[u] /\ (Spent(u) => Spent(u)')
               \/ calls'[u] = calls[u] + 1
    BY <1>0, <1>12
    DEF Unmark, Goto, StartOver, LocalTypes, ClientTypes, LocalsOK, Spent, Seeking, locals, client
  <2>. QED  BY <2>1, <2>2, <2>3, <2>4, <2>5, <2>6, Types, <2>7, SameCreated
<1>13. ASSUME UnmarkFails(t) PROVE TypeOK' /\ LocalsOK' /\ CreatedOK'
  <2>1. HeapTypes'
    BY <1>0, <1>13, Consts DEF UnmarkFails, Goto, HeapTypes, heaps, chunks
  <2>2. RingTypes'
    BY <1>0, <1>r, <1>13, Consts
    DEF UnmarkFails, Goto, RingTypes, LocalTypes, LocalsOK, Carrying, indices, arrays, locks
  <2>3. LocalTypes'
    BY <1>0, <1>r, <1>13, Consts DEF UnmarkFails, Goto, LocalTypes, ClientTypes, RingTypes,
         AllocSteps, FreeSteps, PutSteps, Heaps, locals,
         indices, arrays
  <2>4. ClientTypes'
    BY <1>0, <1>a, <1>13, Consts
    DEF UnmarkFails, Goto, ClientTypes, HeapTypes, Blocks, client, history, locals
  <2>5. LocalsOK'
    BY <1>0, <1>13, Consts DEF UnmarkFails, Goto, LocalTypes, ClientTypes, LocalsOK, Seeking,
         Carrying, PutSteps, AllocSteps, locals, client
  <2>6. created' = created
    BY <1>13 DEF UnmarkFails, Goto, chunks
  <2>7. ASSUME NEW u \in Threads
        PROVE  \/ calls'[u] = calls[u] /\ (Spent(u) => Spent(u)')
               \/ calls'[u] = calls[u] + 1
    BY <1>0, <1>13
    DEF UnmarkFails, Goto, LocalTypes, ClientTypes, LocalsOK, Spent, Seeking, locals, client
  <2>. QED  BY <2>1, <2>2, <2>3, <2>4, <2>5, <2>6, Types, <2>7, SameCreated
<1>14. ASSUME TakeLock(t) PROVE TypeOK' /\ LocalsOK' /\ CreatedOK'
  <2>1. HeapTypes'
    BY <1>0, <1>14, Consts DEF TakeLock, Goto, HeapTypes, heaps, chunks
  <2>2. RingTypes'
    BY <1>0, <1>r, <1>14, Consts
    DEF TakeLock, Goto, RingTypes, LocalTypes, LocalsOK, Carrying, indices, arrays, locks
  <2>3. LocalTypes'
    BY <1>0, <1>r, <1>14, Consts
    DEF TakeLock, Goto, LocalTypes, ClientTypes, RingTypes, AllocSteps, FreeSteps, PutSteps,
         Heaps, locals, indices, arrays
  <2>4. ClientTypes'
    BY <1>0, <1>a, <1>14, Consts
    DEF TakeLock, Goto, ClientTypes, HeapTypes, Blocks, client, history, locals
  <2>5. LocalsOK'
    BY <1>0, <1>14, Consts DEF TakeLock, Goto, LocalTypes, ClientTypes, LocalsOK, Seeking,
         Carrying, PutSteps, AllocSteps, locals, client
  <2>6. created' = created
    BY <1>14 DEF TakeLock, Goto, chunks
  <2>7. ASSUME NEW u \in Threads
        PROVE  \/ calls'[u] = calls[u] /\ (Spent(u) => Spent(u)')
               \/ calls'[u] = calls[u] + 1
    BY <1>0, <1>14
    DEF TakeLock, Goto, LocalTypes, ClientTypes, LocalsOK, Spent, Seeking, locals, client
  <2>. QED  BY <2>1, <2>2, <2>3, <2>4, <2>5, <2>6, Types, <2>7, SameCreated
<1>15. ASSUME CreateChunk(t) PROVE TypeOK' /\ LocalsOK' /\ CreatedOK'
  <2>1. HeapTypes'
    BY <1>0, <1>15, RoomForChunk, Consts DEF CreateChunk, Goto, HeapTypes, heaps, chunks
  <2>2. RingTypes'
    BY <1>0, <1>r, <1>15, RoomForChunk, Consts
    DEF CreateChunk, Goto, RingTypes, LocalTypes, LocalsOK, Carrying, indices, arrays, locks
  <2>3. LocalTypes'
    BY <1>0, <1>r, <1>15, RoomForChunk, Consts DEF CreateChunk, Goto, LocalTypes, ClientTypes,
         RingTypes, AllocSteps, FreeSteps, PutSteps, Heaps, locals,
         indices, arrays
  <2>4. ClientTypes'
    BY <1>0, <1>a, <1>15, Consts
    DEF CreateChunk, Goto, ClientTypes, HeapTypes, Blocks, client, history, locals
  <2>5. LocalsOK'
    BY <1>0, <1>15, RoomForChunk, Consts DEF CreateChunk, Goto, LocalTypes, ClientTypes,
         LocalsOK, Seeking, Carrying, PutSteps, AllocSteps, locals, client
  <2>6. CreatedOK'
    BY <1>15, RoomForChunk
  <2>. QED  BY <2>1, <2>2, <2>3, <2>4, <2>5, <2>6, Types
<1>16. ASSUME TakeTest(t) PROVE TypeOK' /\ LocalsOK' /\ CreatedOK'
  <2>1. HeapTypes'
    BY <1>0, <1>16, Consts DEF TakeTest, Goto, HeapTypes, heaps, chunks
  <2>2. RingTypes'
    BY <1>0, <1>r, <1>16, Consts
    DEF TakeTest, Goto, RingTypes, LocalTypes, LocalsOK, Carrying, indices, arrays, locks
  <2>3. LocalTypes'
    BY <1>0, <1>r, <1>16, Consts
    DEF TakeTest, Goto, LocalTypes, ClientTypes, RingTypes, AllocSteps, FreeSteps, PutSteps,
         Heaps, locals, indices, arrays
  <2>4. ClientTypes'
    BY <1>0, <1>a, <1>16, Consts
    DEF TakeTest, Goto, ClientTypes, HeapTypes, Blocks, client, history, locals
  <2>5. LocalsOK'
    BY <1>0, <1>16, Consts DEF TakeTest, Goto, LocalTypes, ClientTypes, LocalsOK, Seeking,
         Carrying, PutSteps, AllocSteps, locals, client
  <2>6. created' = created
    BY <1>16 DEF TakeTest, Goto, chunks
  <2>7. ASSUME NEW u \in Threads
        PROVE  \/ calls'[u] = calls[u] /\ (Spent(u) => Spent(u)')
               \/ calls'[u] = calls[u] + 1
    BY <1>0, <1>16
    DEF TakeTest, Goto, LocalTypes, ClientTypes, LocalsOK, Spent, Seeking, locals, client
  <2>. QED  BY <2>1, <2>2, <2>3, <2>4, <2>5, <2>6, Types, <2>7, SameCreated
<1>17. ASSUME TakeSwap(t) PROVE TypeOK' /\ LocalsOK' /\ CreatedOK'
  <2>1. HeapTypes'
    BY <1>0, <1>17, Consts DEF TakeSwap, Goto, HeapTypes, heaps, chunks
  <2>2. RingTypes'
    BY <1>0, <1>r, <1>17, Consts
    DEF TakeSwap, Goto, RingTypes, LocalTypes, LocalsOK, Carrying, indices, arrays, locks
  <2>3. LocalTypes'
    <3>1. PICK l \in AllocSteps \cup FreeSteps : pc' = [pc EXCEPT ![t] = l]
      BY <1>17 DEF TakeSwap, Goto, AllocSteps, FreeSteps
    <3>2. PICK s \in Indices : at' = [at EXCEPT ![t] = s] \/ at' = at
      BY <1>0, <1>r, <1>17 DEF TakeSwap, LocalTypes, RingTypes
    <3>. QED  BY <1>0, <1>r, <1>17, <3>1, <3>2 DEF TakeSwap, LocalTypes, arrays
  <2>4. ClientTypes'
    BY <1>0, <1>a, <1>17, Consts
    DEF TakeSwap, Goto, ClientTypes, HeapTypes, Blocks, client, history, locals
  <2>5. LocalsOK'
    BY <1>0, <1>17, Consts DEF TakeSwap, Goto, LocalTypes, ClientTypes, LocalsOK,
         Seeking, Carrying, PutSteps, AllocSteps, locals, client
  <2>6. created' = created
    BY <1>17 DEF TakeSwap, Goto, chunks
  <2>7. ASSUME NEW u \in Threads
        PROVE  \/ calls'[u] = calls[u] /\ (Spent(u) => Spent(u)')
               \/ calls'[u] = calls[u] + 1
    BY <1>0, <1>17
    DEF TakeSwap, Goto, LocalTypes, ClientTypes, LocalsOK, Spent, Seeking, locals, client
  <2>. QED  BY <2>1, <2>2, <2>3, <2>4, <2>5, <2>6, Types, <2>7, SameCreated
<1>18. ASSUME TakeChunk(t) PROVE TypeOK' /\ LocalsOK' /\ CreatedOK'
  <2>1. HeapTypes'
    BY <1>0, <1>18, Consts DEF TakeChunk, Goto, HeapTypes, heaps, chunks
  <2>c. PICK c \in Chunks : cur' = [cur EXCEPT ![t] = c]
    BY <1>18 DEF TakeChunk, TakenFor
  <2>2. RingTypes'
    <3>1. None \in Words
      BY DEF Words
    <3>2. ring' = [ring EXCEPT ![at[t]] = None] \/ ring' = ring
      BY <1>18 DEF TakeChunk
    <3>3. oldRing' = [oldRing EXCEPT ![at[t]] = None] \/ oldRing' = oldRing
      BY <1>18 DEF TakeChunk
    <3>. QED
      BY <1>0, <1>r, <1>18, <3>1, <3>2, <3>3 DEF TakeChunk, RingTypes
  <2>3. LocalTypes'
    BY <1>0, <1>r, <1>18, <2>c DEF TakeChunk, Goto, LocalTypes, AllocSteps
  <2>4. ClientTypes'
    BY <1>0, <1>a, <1>18, Consts
    DEF TakeChunk, Goto, ClientTypes, HeapTypes, Blocks, client, history, locals
  <2>5. LocalsOK'
    BY <1>0, <1>18, <2>c, Consts DEF TakeChunk, Goto, LocalTypes, ClientTypes, LocalsOK, Seeking,
         Carrying, PutSteps, AllocSteps, locals, client
  <2>6. created' = created
    BY <1>18 DEF TakeChunk, Goto, chunks
  <2>7. ASSUME NEW u \in Threads
        PROVE  \/ calls'[u] = calls[u] /\ (Spent(u) => Spent(u)')
               \/ calls'[u] = calls[u] + 1
    BY <1>0, <1>18
    DEF TakeChunk, Goto, LocalTypes, ClientTypes, LocalsOK, Spent, Seeking, locals, client
  <2>. QED  BY <2>1, <2>2, <2>3, <2>4, <2>5, <2>6, Types, <2>7, SameCreated
<1>19. ASSUME Install(t) PROVE TypeOK' /\ LocalsOK' /\ CreatedOK'
  <2>1. HeapTypes'
    <3>1. cur[t] \in Chunks
      BY <1>0, <1>b, <1>19 DEF Install, Carrying
    <3>. QED  BY <1>0, <1>19, <3>1, SizesAssumption DEF Install, HeapTypes
  <2>2. RingTypes'
    BY <1>0, <1>r, <1>19, Consts
    DEF Install, Goto, RingTypes, LocalTypes, LocalsOK, Carrying, indices, arrays, locks
  <2>3. LocalTypes'
    BY <1>0, <1>r, <1>19, Consts
    DEF Install, Goto, LocalTypes, ClientTypes, RingTypes, AllocSteps, FreeSteps, PutSteps,
         Heaps, locals, indices, arrays
  <2>4. ClientTypes'
    BY <1>0, <1>a, <1>19, Consts
    DEF Install, Goto, ClientTypes, HeapTypes, Blocks, client, history, locals
  <2>5. LocalsOK'
    BY <1>0, <1>19, Consts DEF Install, Goto, LocalTypes, ClientTypes, LocalsOK, Seeking,
         Carrying, PutSteps, AllocSteps, locals, client
  <2>6. created' = created
    BY <1>19 DEF Install, Goto, chunks
  <2>7. ASSUME NEW u \in Threads
        PROVE  \/ calls'[u] = calls[u] /\ (Spent(u) => Spent(u)')
               \/ calls'[u] = calls[u] + 1
    BY <1>0, <1>19
    DEF Install, Goto, LocalTypes, ClientTypes, LocalsOK, Spent, Seeking, locals, client
  <2>. QED  BY <2>1, <2>2, <2>3, <2>4, <2>5, <2>6, Types, <2>7, SameCreated
<1>20. ASSUME CallFree(t) PROVE TypeOK' /\ LocalsOK' /\ CreatedOK'
  <2>1. HeapTypes'
    BY <1>0, <1>20, Consts DEF CallFree, Goto, HeapTypes, heaps, chunks
  <2>2. RingTypes'
    BY <1>0, <1>r, <1>20, Consts
    DEF CallFree, Goto, RingTypes, LocalTypes, LocalsOK, Carrying, indices, arrays, locks
  <2>3. LocalTypes'
    BY <1>0, <1>r, <1>20, Consts
    DEF CallFree, Goto, LocalTypes, ClientTypes, RingTypes, AllocSteps, FreeSteps, PutSteps,
         Heaps, locals, indices, arrays
  <2>4. ClientTypes'
    BY <1>0, <1>20 DEF CallFree, ClientTypes, history
  <2>5. LocalsOK'
    BY <1>0, <1>20, Consts DEF CallFree, Goto, LocalTypes, ClientTypes, LocalsOK, Seeking,
         Carrying, PutSteps, AllocSteps, locals, client
  <2>6. created' = created
    BY <1>20 DEF CallFree, Goto, chunks
  <2>7. ASSUME NEW u \in Threads
        PROVE  \/ calls'[u] = calls[u] /\ (Spent(u) => Spent(u)')
               \/ calls'[u] = calls[u] + 1
    BY <1>0, <1>20
    DEF CallFree, Goto, LocalTypes, ClientTypes, LocalsOK, Spent, Seeking, locals, client
  <2>. QED  BY <2>1, <2>2, <2>3, <2>4, <2>5, <2>6, Types, <2>7, SameCreated
<1>21. ASSUME UncountBlock(t) PROVE TypeOK' /\ LocalsOK' /\ CreatedOK'
  <2>1. HeapTypes'
    <3>1. cur[t] \in Chunks
      BY <1>0, <1>b, <1>21 DEF UncountBlock, Carrying
    <3>2. count' = [count EXCEPT ![cur[t]] = @ - 1] /\ count[cur[t]] \in Int
      BY <1>0, <1>21, <3>1 DEF UncountBlock, HeapTypes
    <3>. QED  BY <1>0, <1>21, <3>1, <3>2 DEF UncountBlock, HeapTypes, heaps
  <2>2. RingTypes'
    BY <1>0, <1>r, <1>21, Consts
    DEF UncountBlock, Goto, RingTypes, LocalTypes, LocalsOK, Carrying, indices, arrays, locks
  <2>3. LocalTypes'
    BY <1>0, <1>r, <1>21, Consts DEF UncountBlock, Goto, LocalTypes, ClientTypes, RingTypes,
         AllocSteps, FreeSteps, PutSteps, Heaps, locals,
         indices, arrays
  <2>4. ClientTypes'
    BY <1>0, <1>a, <1>21, Consts
    DEF UncountBlock, Goto, ClientTypes, HeapTypes, Blocks, client, history, locals
  <2>5. LocalsOK'
    BY <1>0, <1>21, Consts DEF UncountBlock, Goto, LocalTypes, ClientTypes, LocalsOK, Seeking,
         Carrying, PutSteps, AllocSteps, locals, client
  <2>6. created' = created
    BY <1>21 DEF UncountBlock, Goto, chunks
  <2>7. ASSUME NEW u \in Threads
        PROVE  \/ calls'[u] = calls[u] /\ (Spent(u) => Spent(u)')
               \/ calls'[u] = calls[u] + 1
    BY <1>0, <1>21
    DEF UncountBlock, Goto, LocalTypes, ClientTypes, LocalsOK, Spent, Seeking, locals, client
  <2>. QED  BY <2>1, <2>2, <2>3, <2>4, <2>5, <2>6, Types, <2>7, SameCreated
<1>22. ASSUME Recover(t) PROVE TypeOK' /\ LocalsOK' /\ CreatedOK'
  <2>1. HeapTypes'
    <3>1. recFlag' = [recFlag EXCEPT ![cur[t]] = 2]
      BY <1>22 DEF Recover
    <3>2. recFlag' \in [Chunks -> 0 .. 2]
      <4>1. cur[t] \in Chunks
        BY <1>0, <1>b, <1>22 DEF Recover, Carrying
      <4>2. 2 \in 0 .. 2
        OBVIOUS
      <4>. QED  BY <1>0, <3>1, <4>1, <4>2, Zenon DEF HeapTypes
    <3>3. heaps' = heaps /\ created' = created /\ count' = count /\ slide' = slide
      BY <1>22 DEF Recover
    <3>. QED  BY <1>0, <3>2, <3>3 DEF HeapTypes, heaps
  <2>2. RingTypes'
    BY <1>0, <1>r, <1>22, Consts
    DEF Recover, Goto, RingTypes, LocalTypes, LocalsOK, Carrying, indices, arrays, locks
  <2>3. LocalTypes'
    BY <1>0, <1>r, <1>22, Consts
    DEF Recover, Goto, LocalTypes, ClientTypes, RingTypes, AllocSteps, FreeSteps, PutSteps,
         Heaps, locals, indices, arrays
  <2>4. ClientTypes'
    BY <1>0, <1>a, <1>22, Consts
    DEF Recover, Goto, ClientTypes, HeapTypes, Blocks, client, history, locals
  <2>5. LocalsOK'
    BY <1>0, <1>22, Consts DEF Recover, Goto, LocalTypes, ClientTypes, LocalsOK, Seeking,
         Carrying, PutSteps, AllocSteps, locals, client
  <2>6. created' = created
    BY <1>22 DEF Recover, Goto, chunks
  <2>7. ASSUME NEW u \in Threads
        PROVE  \/ calls'[u] = calls[u] /\ (Spent(u) => Spent(u)')
               \/ calls'[u] = calls[u] + 1
    BY <1>0, <1>22
    DEF Recover, Goto, LocalTypes, ClientTypes, LocalsOK, Spent, Seeking, locals, client
  <2>. QED  BY <2>1, <2>2, <2>3, <2>4, <2>5, <2>6, Types, <2>7, SameCreated
<1>23. ASSUME NotMarked(t) PROVE TypeOK' /\ LocalsOK' /\ CreatedOK'
  <2>1. HeapTypes'
    BY <1>0, <1>23, Consts DEF NotMarked, Goto, HeapTypes, heaps, chunks
  <2>2. RingTypes'
    BY <1>0, <1>r, <1>23, Consts
    DEF NotMarked, Goto, RingTypes, LocalTypes, LocalsOK, Carrying, indices, arrays, locks
  <2>3. LocalTypes'
    BY <1>0, <1>r, <1>23, Consts
    DEF NotMarked, Goto, LocalTypes, ClientTypes, RingTypes, AllocSteps, FreeSteps, PutSteps,
         Heaps, locals, indices, arrays
  <2>4. ClientTypes'
    BY <1>0, <1>a, <1>23, Consts
    DEF NotMarked, Goto, ClientTypes, HeapTypes, Blocks, client, history, locals
  <2>5. LocalsOK'
    BY <1>0, <1>23, Consts DEF NotMarked, Goto, LocalTypes, ClientTypes, LocalsOK, Seeking,
         Carrying, PutSteps, AllocSteps, locals, client
  <2>6. created' = created
    BY <1>23 DEF NotMarked, Goto, chunks
  <2>7. ASSUME NEW u \in Threads
        PROVE  \/ calls'[u] = calls[u] /\ (Spent(u) => Spent(u)')
               \/ calls'[u] = calls[u] + 1
    BY <1>0, <1>23
    DEF NotMarked, Goto, LocalTypes, ClientTypes, LocalsOK, Spent, Seeking, locals, client
  <2>. QED  BY <2>1, <2>2, <2>3, <2>4, <2>5, <2>6, Types, <2>7, SameCreated
<1>24. ASSUME PutLock(t) PROVE TypeOK' /\ LocalsOK' /\ CreatedOK'
  <2>1. HeapTypes'
    BY <1>0, <1>24, Consts DEF PutLock, Goto, HeapTypes, heaps, chunks
  <2>2. RingTypes'
    BY <1>0, <1>r, <1>24, Consts
    DEF PutLock, Goto, RingTypes, LocalTypes, LocalsOK, Carrying, indices, arrays, locks
  <2>3. LocalTypes'
    BY <1>0, <1>r, <1>24, Consts
    DEF PutLock, Goto, LocalTypes, ClientTypes, RingTypes, AllocSteps, FreeSteps, PutSteps,
         Heaps, locals, indices, arrays
  <2>4. ClientTypes'
    BY <1>0, <1>a, <1>24, Consts
    DEF PutLock, Goto, ClientTypes, HeapTypes, Blocks, client, history, locals
  <2>5. LocalsOK'
    BY <1>0, <1>24, Consts DEF PutLock, Goto, LocalTypes, ClientTypes, LocalsOK, Seeking,
         Carrying, PutSteps, AllocSteps, locals, client
  <2>6. created' = created
    BY <1>24 DEF PutLock, Goto, chunks
  <2>7. ASSUME NEW u \in Threads
        PROVE  \/ calls'[u] = calls[u] /\ (Spent(u) => Spent(u)')
               \/ calls'[u] = calls[u] + 1
    BY <1>0, <1>24
    DEF PutLock, Goto, LocalTypes, ClientTypes, LocalsOK, Spent, Seeking, locals, client
  <2>. QED  BY <2>1, <2>2, <2>3, <2>4, <2>5, <2>6, Types, <2>7, SameCreated
<1>25. ASSUME PutTest(t) PROVE TypeOK' /\ LocalsOK' /\ CreatedOK'
  <2>1. HeapTypes'
    BY <1>0, <1>25, Consts DEF PutTest, Goto, HeapTypes, heaps, chunks
  <2>2. RingTypes'
    BY <1>0, <1>r, <1>25, Consts
    DEF PutTest, Goto, RingTypes, LocalTypes, LocalsOK, Carrying, indices, arrays, locks
  <2>3. LocalTypes'
    BY <1>0, <1>r, <1>25, Consts
    DEF PutTest, Goto, LocalTypes, ClientTypes, RingTypes, AllocSteps, FreeSteps, PutSteps,
         Heaps, locals, indices, arrays
  <2>4. ClientTypes'
    BY <1>0, <1>a, <1>25, Consts
    DEF PutTest, Goto, ClientTypes, HeapTypes, Blocks, client, history, locals
  <2>5. LocalsOK'
    BY <1>0, <1>25, Consts DEF PutTest, Goto, LocalTypes, ClientTypes, LocalsOK,
         Seeking, Carrying, PutSteps, AllocSteps, locals, client
  <2>6. created' = created
    BY <1>25 DEF PutTest, Goto, chunks
  <2>7. ASSUME NEW u \in Threads
        PROVE  \/ calls'[u] = calls[u] /\ (Spent(u) => Spent(u)')
               \/ calls'[u] = calls[u] + 1
    BY <1>0, <1>25
    DEF PutTest, Goto, LocalTypes, ClientTypes, LocalsOK, Spent, Seeking, locals, client
  <2>. QED  BY <2>1, <2>2, <2>3, <2>4, <2>5, <2>6, Types, <2>7, SameCreated
<1>26. ASSUME PutAlone(t) PROVE TypeOK' /\ LocalsOK' /\ CreatedOK'
  <2>1. HeapTypes'
    BY <1>0, <1>26, Consts DEF PutAlone, Goto, HeapTypes, heaps, chunks
  <2>2. RingTypes'
    BY <1>0, <1>r, <1>26, Consts
    DEF PutAlone, Goto, RingTypes, LocalTypes, LocalsOK, Carrying, indices, arrays, locks
  <2>3. LocalTypes'
    BY <1>0, <1>r, <1>26, Consts
    DEF PutAlone, Goto, LocalTypes, ClientTypes, RingTypes, AllocSteps, FreeSteps, PutSteps,
         Heaps, locals, indices, arrays
  <2>4. ClientTypes'
    BY <1>0, <1>a, <1>26, Consts
    DEF PutAlone, Goto, ClientTypes, HeapTypes, Blocks, client, history, locals
  <2>5. LocalsOK'
    BY <1>0, <1>26, Consts DEF PutAlone, Goto, LocalTypes, ClientTypes, LocalsOK, Seeking,
         Carrying, PutSteps, AllocSteps, locals, client
  <2>6. created' = created
    BY <1>26 DEF PutAlone, Goto, chunks
  <2>7. ASSUME NEW u \in Threads
        PROVE  \/ calls'[u] = calls[u] /\ (Spent(u) => Spent(u)')
               \/ calls'[u] = calls[u] + 1
    BY <1>0, <1>26
    DEF PutAlone, Goto, LocalTypes, ClientTypes, LocalsOK, Spent, Seeking, locals, client
  <2>. QED  BY <2>1, <2>2, <2>3, <2>4, <2>5, <2>6, Types, <2>7, SameCreated
<1>27. ASSUME PutSwap(t) PROVE TypeOK' /\ LocalsOK' /\ CreatedOK'
  <2>1. HeapTypes'
    BY <1>0, <1>27, Consts DEF PutSwap, Goto, HeapTypes, heaps, chunks
  <2>2. RingTypes'
    BY <1>0, <1>r, <1>27, Consts
    DEF PutSwap, Goto, RingTypes, LocalTypes, LocalsOK, Carrying, indices, arrays, locks
  <2>3. LocalTypes'
    <3>1. PICK l \in AllocSteps \cup FreeSteps : pc' = [pc EXCEPT ![t] = l]
      BY <1>27 DEF PutSwap, Goto, AllocSteps, FreeSteps, PutSteps
    <3>2. PICK s \in Indices : at' = [at EXCEPT ![t] = s] \/ at' = at
      BY <1>0, <1>r, <1>27 DEF PutSwap, LocalTypes, RingTypes
    <3>. QED  BY <1>0, <1>r, <1>27, <3>1, <3>2 DEF PutSwap, LocalTypes, arrays
  <2>4. ClientTypes'
    BY <1>0, <1>a, <1>27, Consts
    DEF PutSwap, Goto, ClientTypes, HeapTypes, Blocks, client, history, locals
  <2>5. LocalsOK'
    BY <1>0, <1>27, Consts DEF PutSwap, Goto, LocalTypes, ClientTypes, LocalsOK, Seeking,
         Carrying, PutSteps, AllocSteps, locals, client
  <2>6. created' = created
    BY <1>27 DEF PutSwap, Goto, chunks
  <2>7. ASSUME NEW u \in Threads
        PROVE  \/ calls'[u] = calls[u] /\ (Spent(u) => Spent(u)')
               \/ calls'[u] = calls[u] + 1
    BY <1>0, <1>27
    DEF PutSwap, Goto, LocalTypes, ClientTypes, LocalsOK, Spent, Seeking, locals, client
  <2>. QED  BY <2>1, <2>2, <2>3, <2>4, <2>5, <2>6, Types, <2>7, SameCreated
<1>28. ASSUME PutStore(t) PROVE TypeOK' /\ LocalsOK' /\ CreatedOK'
  <2>1. HeapTypes'
    BY <1>0, <1>28, Consts DEF PutStore, Goto, HeapTypes, heaps, chunks
  <2>2. RingTypes'
    <3>1. cur[t] \in Words
      BY <1>b, <1>28 DEF PutStore, Words, Carrying, PutSteps
    <3>2. ring' = [ring EXCEPT ![at[t]] = cur[t]] \/ ring' = ring
      BY <1>28 DEF PutStore
    <3>3. oldRing' = [oldRing EXCEPT ![at[t]] = cur[t]] \/ oldRing' = oldRing
      BY <1>28 DEF PutStore
    <3>. QED
      BY <1>0, <1>r, <1>28, <3>1, <3>2, <3>3 DEF PutStore, RingTypes
  <2>3. LocalTypes'
    BY <1>0, <1>r, <1>28, Consts
    DEF PutStore, Goto, LocalTypes, ClientTypes, RingTypes, AllocSteps, FreeSteps, PutSteps,
         Heaps, locals, indices, arrays
  <2>4. ClientTypes'
    BY <1>0, <1>a, <1>28, Consts
    DEF PutStore, Goto, ClientTypes, HeapTypes, Blocks, client, history, locals
  <2>5. LocalsOK'
    BY <1>0, <1>28, Consts DEF PutStore, Goto, LocalTypes, ClientTypes, LocalsOK, Seeking,
         Carrying, PutSteps, AllocSteps, locals, client
  <2>6. created' = created
    BY <1>28 DEF PutStore, Goto, chunks
  <2>7. ASSUME NEW u \in Threads
        PROVE  \/ calls'[u] = calls[u] /\ (Spent(u) => Spent(u)')
               \/ calls'[u] = calls[u] + 1
    BY <1>0, <1>28
    DEF PutStore, Goto, LocalTypes, ClientTypes, LocalsOK, Spent, Seeking, locals, client
  <2>. QED  BY <2>1, <2>2, <2>3, <2>4, <2>5, <2>6, Types, <2>7, SameCreated
<1>29. ASSUME MergeTest(t) PROVE TypeOK' /\ LocalsOK' /\ CreatedOK'
  <2>1. HeapTypes'
    BY <1>0, <1>29, Consts DEF MergeTest, Goto, HeapTypes, heaps, chunks
  <2>2. RingTypes'
    BY <1>0, <1>r, <1>29, Consts
    DEF MergeTest, Goto, RingTypes, LocalTypes, LocalsOK, Carrying, indices, arrays, locks
  <2>3. LocalTypes'
    BY <1>0, <1>r, <1>29, Consts
    DEF MergeTest, Goto, LocalTypes, ClientTypes, RingTypes, AllocSteps, FreeSteps, PutSteps,
         Heaps, locals, indices, arrays
  <2>4. ClientTypes'
    BY <1>0, <1>a, <1>29, Consts
    DEF MergeTest, Goto, ClientTypes, HeapTypes, Blocks, client, history, locals
  <2>5. LocalsOK'
    BY <1>0, <1>29, Consts DEF MergeTest, Goto, LocalTypes, ClientTypes, LocalsOK, Seeking,
         Carrying, PutSteps, AllocSteps, locals, client
  <2>6. created' = created
    BY <1>29 DEF MergeTest, Goto, chunks
  <2>7. ASSUME NEW u \in Threads
        PROVE  \/ calls'[u] = calls[u] /\ (Spent(u) => Spent(u)')
               \/ calls'[u] = calls[u] + 1
    BY <1>0, <1>29
    DEF MergeTest, Goto, LocalTypes, ClientTypes, LocalsOK, Spent, Seeking, locals, client
  <2>. QED  BY <2>1, <2>2, <2>3, <2>4, <2>5, <2>6, Types, <2>7, SameCreated
<1>30. ASSUME MergeCall(t) PROVE TypeOK' /\ LocalsOK' /\ CreatedOK'
  <2>1. HeapTypes'
    BY <1>0, <1>30, Consts DEF MergeCall, Goto, HeapTypes, heaps, chunks
  <2>2. RingTypes'
    BY <1>0, <1>r, <1>30, Consts
    DEF MergeCall, Goto, RingTypes, LocalTypes, LocalsOK, Carrying, indices, arrays, locks
  <2>3. LocalTypes'
    BY <1>0, <1>r, <1>30, Consts
    DEF MergeCall, Goto, LocalTypes, ClientTypes, RingTypes, AllocSteps, FreeSteps, PutSteps,
         Heaps, locals, indices, arrays
  <2>4. ClientTypes'
    BY <1>0, <1>a, <1>30, Consts
    DEF MergeCall, Goto, ClientTypes, HeapTypes, Blocks, client, history, locals
  <2>5. LocalsOK'
    BY <1>0, <1>30, Consts DEF MergeCall, Goto, LocalTypes, ClientTypes, LocalsOK, Seeking,
         Carrying, PutSteps, AllocSteps, locals, client
  <2>6. created' = created
    BY <1>30 DEF MergeCall, Goto, chunks
  <2>7. ASSUME NEW u \in Threads
        PROVE  \/ calls'[u] = calls[u] /\ (Spent(u) => Spent(u)')
               \/ calls'[u] = calls[u] + 1
    BY <1>0, <1>30
    DEF MergeCall, Goto, LocalTypes, ClientTypes, LocalsOK, Spent, Seeking, locals, client
  <2>. QED  BY <2>1, <2>2, <2>3, <2>4, <2>5, <2>6, Types, <2>7, SameCreated
<1>31. ASSUME Merge(t) PROVE TypeOK' /\ LocalsOK' /\ CreatedOK'
  <2>1. HeapTypes'
    BY <1>0, <1>31, Consts DEF Merge, Goto, HeapTypes, heaps, chunks
  <2>2. RingTypes'
    BY <1>0, <1>r, <1>31, Consts
    DEF Merge, Goto, RingTypes, LocalTypes, LocalsOK, Carrying, indices, arrays, locks
  <2>3. LocalTypes'
    BY <1>0, <1>r, <1>31, Consts
    DEF Merge, Goto, LocalTypes, ClientTypes, RingTypes, AllocSteps, FreeSteps, PutSteps, Heaps,
         locals,
         indices, arrays
  <2>4. ClientTypes'
    BY <1>0, <1>a, <1>31, Consts
    DEF Merge, Goto, ClientTypes, HeapTypes, Blocks, client, history, locals
  <2>5. LocalsOK'
    BY <1>0, <1>31, Consts DEF Merge, Goto, LocalTypes, ClientTypes, LocalsOK, Seeking,
         Carrying, PutSteps, AllocSteps, locals, client
  <2>6. created' = created
    BY <1>31 DEF Merge, Goto, chunks
  <2>7. ASSUME NEW u \in Threads
        PROVE  \/ calls'[u] = calls[u] /\ (Spent(u) => Spent(u)')
               \/ calls'[u] = calls[u] + 1
    BY <1>0, <1>31
    DEF Merge, Goto, LocalTypes, ClientTypes, LocalsOK, Spent, Seeking, locals, client
  <2>. QED  BY <2>1, <2>2, <2>3, <2>4, <2>5, <2>6, Types, <2>7, SameCreated
<1>32. ASSUME PutFull(t) PROVE TypeOK' /\ LocalsOK' /\ CreatedOK'
  <2>1. HeapTypes'
    BY <1>0, <1>32 DEF PutFull, Goto, HeapTypes, heaps, chunks
  <2>2. RingTypes'
    BY <1>0, <1>r, <1>32
    DEF PutFull, GoOnAlone, Goto, RingTypes, indices, arrays, locks
  <2>3. LocalTypes'
    BY <1>0, <1>r, <1>32
    DEF PutFull, GoOnAlone, Goto, LocalTypes, FreeSteps, PutSteps, indices, arrays, locals
  <2>4. ClientTypes'
    BY <1>0, <1>32 DEF PutFull, ClientTypes, client, history, locals
  <2>5. LocalsOK'
    BY <1>0, <1>32 DEF PutFull, GoOnAlone, Goto, LocalTypes, LocalsOK, Seeking, Carrying, PutSteps,
         AllocSteps, locals, client
  <2>6. created' = created
    BY <1>32 DEF PutFull, chunks
  <2>7. ASSUME NEW u \in Threads
        PROVE  \/ calls'[u] = calls[u] /\ (Spent(u) => Spent(u)')
               \/ calls'[u] = calls[u] + 1
    BY <1>0, <1>32
    DEF PutFull, GoOnAlone, Goto, LocalTypes, Spent, Seeking, locals, client
  <2>. QED  BY <2>1, <2>2, <2>3, <2>4, <2>5, <2>6, Types, <2>7, SameCreated
<1>33. ASSUME NoResize(t) PROVE TypeOK' /\ LocalsOK' /\ CreatedOK'
  <2>1. HeapTypes'
    BY <1>0, <1>33 DEF NoResize, Goto, HeapTypes, heaps, chunks
  <2>2. RingTypes'
    BY <1>0, <1>r, <1>33
    DEF NoResize, GoOnAlone, Goto, RingTypes, indices, arrays, locks
  <2>3. LocalTypes'
    BY <1>0, <1>r, <1>33
    DEF NoResize, GoOnAlone, Goto, LocalTypes, FreeSteps, PutSteps, indices, arrays, locals
  <2>4. ClientTypes'
    BY <1>0, <1>33 DEF NoResize, ClientTypes, client, history, locals
  <2>5. LocalsOK'
    BY <1>0, <1>33 DEF NoResize, GoOnAlone, Goto, LocalTypes, LocalsOK, Seeking, Carrying, PutSteps,
         AllocSteps, locals, client
  <2>6. created' = created
    BY <1>33 DEF NoResize, chunks
  <2>7. ASSUME NEW u \in Threads
        PROVE  \/ calls'[u] = calls[u] /\ (Spent(u) => Spent(u)')
               \/ calls'[u] = calls[u] + 1
    BY <1>0, <1>33
    DEF NoResize, GoOnAlone, Goto, LocalTypes, Spent, Seeking, locals, client
  <2>. QED  BY <2>1, <2>2, <2>3, <2>4, <2>5, <2>6, Types, <2>7, SameCreated
<1>34. ASSUME Resize(t) PROVE TypeOK' /\ LocalsOK' /\ CreatedOK'
  <2>1. HeapTypes'
    BY <1>0, <1>34 DEF Resize, Goto, HeapTypes, heaps, chunks
  <2>a. /\ ringMax' = 2 * ringMax /\ Indices \subseteq Indices'
        /\ ringMax' \in {RingMax, 2 * RingMax, 4 * RingMax}
    BY <1>0, <1>34, Consts DEF Resize, RingTypes, Indices
  <2>b. ringMax = RingMax => Moved(freeSlide) \in [Slots -> Words]
    <3>1. \A j \in Slots : j < freeSlide => ring[j] \in Words
      BY <1>0 DEF RingTypes
    <3>2. ringMax = RingMax =>
            \A j \in Slots : j \in 2 * ringMax - freeSlide .. 2 * ringMax - 1 =>
              j - 2 * ringMax + 2 * freeSlide \in Slots
      <4>1. freeSlide \in Nat /\ freeSlide < ringMax /\ RingMax \in Nat
        BY <1>0, Consts DEF RingTypes, Indices
      <4>. QED  BY <4>1 DEF Slots, MaxRing
    <3>. QED  BY <1>0, <3>1, <3>2 DEF Moved, RingTypes, Words
  <2>2. RingTypes'
    <3>1. copy' \in [Slots -> Words]
      BY <1>0, <1>34, <2>b DEF Resize, RingTypes
    <3>. QED  BY <1>0, <1>34, <2>a, <3>1 DEF Resize, RingTypes, locks
  <2>3. LocalTypes'
    <3>1. PICK l \in FreeSteps : pc' = [pc EXCEPT ![t] = l]
      BY <1>34 DEF Resize, Goto, FreeSteps, PutSteps
    <3>. QED  BY <1>0, <1>34, <2>a, <3>1 DEF Resize, LocalTypes, locals
  <2>4. ClientTypes'
    BY <1>0, <1>34 DEF Resize, ClientTypes, client, history, locals
  <2>5. LocalsOK'
    BY <1>0, <1>34 DEF Resize, GoOnAlone, Goto, LocalTypes, LocalsOK, Seeking, Carrying, PutSteps,
         AllocSteps, locals, client
  <2>6. created' = created
    BY <1>34 DEF Resize, chunks
  <2>7. ASSUME NEW u \in Threads
        PROVE  \/ calls'[u] = calls[u] /\ (Spent(u) => Spent(u)')
               \/ calls'[u] = calls[u] + 1
    BY <1>0, <1>34
    DEF Resize, GoOnAlone, Goto, LocalTypes, Spent, Seeking, locals, client
  <2>. QED  BY <2>1, <2>2, <2>3, <2>4, <2>5, <2>6, Types, <2>7, SameCreated
<1>35. ASSUME ResizeDone(t) PROVE TypeOK' /\ LocalsOK' /\ CreatedOK'
  <2>1. HeapTypes'
    BY <1>0, <1>35 DEF ResizeDone, Goto, HeapTypes, heaps, chunks
  <2>2. RingTypes'
    BY <1>0, <1>r, <1>35 DEF ResizeDone, GoOnAlone, RingTypes, Nothing, Words
  <2>3. LocalTypes'
    BY <1>0, <1>r, <1>35
    DEF ResizeDone, GoOnAlone, Goto, LocalTypes, FreeSteps, PutSteps, indices, arrays, locals
  <2>4. ClientTypes'
    BY <1>0, <1>35 DEF ResizeDone, ClientTypes, client, history, locals
  <2>5. LocalsOK'
    BY <1>0, <1>35 DEF ResizeDone, GoOnAlone, Goto, LocalTypes, LocalsOK, Seeking, Carrying,
         PutSteps,
         AllocSteps, locals, client
  <2>6. created' = created
    BY <1>35 DEF ResizeDone, chunks
  <2>7. ASSUME NEW u \in Threads
        PROVE  \/ calls'[u] = calls[u] /\ (Spent(u) => Spent(u)')
               \/ calls'[u] = calls[u] + 1
    BY <1>0, <1>35
    DEF ResizeDone, GoOnAlone, Goto, LocalTypes, Spent, Seeking, locals, client
  <2>. QED  BY <2>1, <2>2, <2>3, <2>4, <2>5, <2>6, Types, <2>7, SameCreated
<1>. QED
  BY <1>1, <1>2, <1>3, <1>4, <1>5, <1>6, <1>7, <1>8, <1>9, <1>10, <1>11, <1>12, <1>13, <1>14,
       <1>15, <1>16, <1>17, <1>18, <1>19, <1>20, <1>21, <1>22, <1>23, <1>24, <1>25, <1>26,
       <1>27, <1>28, <1>29, <1>30, <1>31, <1>32, <1>33, <1>34, <1>35
  DEF Alloc, Malloc, AllocSmall, FindChunk, Free, RecoverChunk

-----------------------------------------------------------------------------
(* What a step leaves alone                                                *)

LEMMA PlaceFrame ==
  ASSUME OnePlace, ring' = ring, copy' = copy,
         \A u \in Threads : (Out(u)' <=> Out(u)) /\ (Out(u) => cur'[u] = cur[u])
  PROVE  OnePlace' /\ \A c : IsOut(c)' <=> IsOut(c)
<1>1. OnePlace'
  BY DEF OnePlace
<1>2. ASSUME NEW c PROVE IsOut(c)' <=> IsOut(c)
  BY DEF IsOut
<1>. QED  BY <1>1, <1>2

LEMMA UseFrame ==
  ASSUME CountOK, count' = count,
         \A u \in Threads : InUse(u)' = InUse(u),
         \A u \in Threads : \A c \in Chunks : Lowering(u, c)' <=> Lowering(u, c)
  PROVE  CountOK'
<1>1. ASSUME NEW c \in Chunks PROVE Users(c)' = Users(c)
  BY DEF Users
<1>. QED  BY <1>1 DEF CountOK

LEMMA OwnFrame ==
  ASSUME TypeOK, Owners, chunk' = chunk, recFlag' = recFlag,
         \A h \in Heaps : Leaving(h)' <=> Leaving(h),
         \A c \in Chunks : IsOut(c)' => IsOut(c)
  PROVE  Owners'
<1>1. \A h \in Heaps : chunk[h] \in Chunks
  BY DEF TypeOK
<1>2. \A c, d : c = d => (IsOut(c)' <=> IsOut(d)')
  BY DEF IsOut
<1>. QED  BY <1>1, <1>2 DEF Owners

\* A chunk whose count is 0 has no block in use, and nobody is about to lower
\* its count.
LEMMA NoUsers ==
  ASSUME CountOK, NEW c \in Chunks, count[c] = 0
  PROVE  /\ \A u \in Threads : \A b \in InUse(u) : b \in Blocks => b[1] # c
         /\ \A u \in Threads : ~ Lowering(u, c)
<1>1. Users(c) = {}
  BY FS_EmptySet DEF CountOK
<1>2. ASSUME NEW u \in Threads, NEW b \in InUse(u), b \in Blocks, b[1] = c PROVE FALSE
  <2>1. <<1, b>> \in Users(c)
    BY <1>2 DEF Users
  <2>. QED  BY <1>1, <2>1
<1>3. ASSUME NEW u \in Threads, Lowering(u, c) PROVE FALSE
  <2>1. <<2, u>> \in Users(c)
    BY <1>3 DEF Users
  <2>. QED  BY <1>1, <2>1
<1>. QED  BY <1>2, <1>3

\* One user more, or one less
LEMMA OneMore ==
  ASSUME TypeOK, CountOK, NEW c \in Chunks, NEW x, x \notin Users(c),
         Users(c)' = Users(c) \cup {x},
         \A d \in Chunks \ {c} : Users(d)' = Users(d),
         count' = [count EXCEPT ![c] = count[c] + 1]
  PROVE  CountOK'
<1>0. count \in [Chunks -> Int]
  BY DEF TypeOK
<1>1. IsFiniteSet(Users(c)') /\ Cardinality(Users(c)') = Cardinality(Users(c)) + 1
  BY FS_AddElement DEF CountOK
<1>2. count'[c] = Cardinality(Users(c)')
  BY <1>0, <1>1 DEF CountOK
<1>3. \A d \in Chunks \ {c} : IsFiniteSet(Users(d)') /\ count'[d] = Cardinality(Users(d)')
  BY <1>0 DEF CountOK
<1>. QED  BY <1>1, <1>2, <1>3 DEF CountOK

LEMMA OneLess ==
  ASSUME TypeOK, CountOK, NEW c \in Chunks, NEW x, x \in Users(c),
         Users(c)' = Users(c) \ {x},
         \A d \in Chunks \ {c} : Users(d)' = Users(d),
         count' = [count EXCEPT ![c] = count[c] - 1]
  PROVE  CountOK'
<1>0. count \in [Chunks -> Int]
  BY DEF TypeOK
<1>1. IsFiniteSet(Users(c)') /\ Cardinality(Users(c)') = Cardinality(Users(c)) - 1
  BY FS_RemoveElement DEF CountOK
<1>2. count'[c] = Cardinality(Users(c)')
  BY <1>0, <1>1 DEF CountOK
<1>3. \A d \in Chunks \ {c} : IsFiniteSet(Users(d)') /\ count'[d] = Cardinality(Users(d)')
  BY <1>0 DEF CountOK
<1>. QED  BY <1>1, <1>2, <1>3 DEF CountOK

\* What is known of the thread that steps
LEMMA Known ==
  ASSUME TypeOK, LocalsOK, NEW t \in Threads
  PROVE  /\ heap[t] \in Heaps /\ Chunk(t) = chunk[heap[t]] /\ Chunk(t) \in Chunks
         /\ created \in Nat /\ created + 1 \in Nat
         /\ \A u \in Threads : InUse(u) \subseteq Blocks
         /\ pc[t] \in Carrying => cur[t] \in Chunks
         /\ None \notin Threads /\ None \notin Chunks /\ None \notin Blocks
         /\ Chunks \subseteq Nat
<1>1. heap[t] \in Heaps /\ Chunk(t) = chunk[heap[t]] /\ Chunk(t) \in Chunks
  BY DEF TypeOK, Chunk
<1>2. PICK n \in Nat : Chunks = 1 .. n
  BY Consts
<1>3. created \in Nat /\ created + 1 \in Nat
  BY <1>2 DEF TypeOK
<1>4. \A u \in Threads : InUse(u) \subseteq Blocks
  BY DEF TypeOK, InUse
<1>5. pc[t] \in Carrying => cur[t] \in Chunks
  BY DEF TypeOK, LocalsOK
<1>. QED  BY <1>1, <1>2, <1>3, <1>4, <1>5, Consts

-----------------------------------------------------------------------------
(* The steps                                                               *)

\* Between these steps nothing changes but the thread's own slides, the locks
\* and the indices of the ring.
Alike == {{"full", "mark"},
          {"recheck", "unmark", "take_lock", "take_test", "take_swap", "take_wait"},
          PutSteps,
          {"merge_test", "merge_call", "merge", "idle"}}

LEMMA AlikeStep ==
  ASSUME TypeOK, LocalsOK, Sound, NEW t \in Threads, NEW A \in Alike, pc[t] \in A,
         \E l \in A : pc' = [pc EXCEPT ![t] = l],
         heaps' = heaps, chunks' = chunks, history' = history, held' = held,
         heap' = heap, cur' = cur, blk' = blk, again' = again,
         \/ ring' = ring /\ copy' = copy
         \/ OnePlace' /\ \A c \in Chunks : IsOut(c)' => IsOut(c)
  PROVE  Sound'
<1>0. PICK l \in A : pc' = [pc EXCEPT ![t] = l]
  OBVIOUS
<1>1. /\ pc \in [Threads -> {"idle"} \cup AllocSteps \cup FreeSteps]
      /\ flag' = flag /\ chunk' = chunk /\ created' = created /\ count' = count
      /\ recFlag' = recFlag /\ slide' = slide /\ leaked' = leaked
  BY DEF TypeOK, heaps, chunks, history
<1>2. \A u \in Threads : (Out(u)' <=> Out(u)) /\ InUse(u)' = InUse(u)
  BY <1>0, <1>1 DEF Out, PutSteps, InUse, Alike
<1>3. \A u \in Threads : \A c \in Chunks : Lowering(u, c)' <=> Lowering(u, c)
  BY <1>0, <1>1 DEF Lowering, Alike, PutSteps, Chunk
<1>4. \A h \in Heaps : Leaving(h)' <=> Leaving(h)
  <2> SUFFICES ASSUME NEW h \in Heaps, flag[h] # None PROVE Leaving(h)' <=> Leaving(h)
    BY <1>1 DEF Leaving
  <2>1. flag[h] \in Threads
    BY DEF TypeOK
  <2>. QED  BY <1>0, <1>1, <2>1 DEF Leaving, Alike, PutSteps
<1>5. OnePlace' /\ \A c \in Chunks : IsOut(c)' => IsOut(c)
  BY <1>2, PlaceFrame DEF Sound
<1>6. Owners'
  BY <1>1, <1>4, <1>5, OwnFrame DEF Sound
<1>7. CountOK'
  BY <1>1, <1>2, <1>3, UseFrame DEF Sound
<1>8. Apart' /\ Cut'
  BY <1>1, <1>2 DEF Sound, Apart, Cut
<1>9. OutOK'
  BY <1>1, <1>5 DEF Sound, OutOK
<1>o. Unborn'
  <2> SUFFICES ASSUME NEW c \in Chunks, c > created
               PROVE  /\ count[c] = 0 /\ recFlag[c] = 0
                      /\ \A h \in Heaps : chunk[h] # c
                      /\ \A i \in Slots : ring'[i] # c /\ copy'[i] # c
                      /\ \A u \in Threads : cur[u] # c
    BY <1>1 DEF Unborn
  <2>1. ~ IsOut(c)
    BY DEF Sound, Unborn, IsOut
  <2>2. \A i \in Slots : ring'[i] # c /\ copy'[i] # c
    BY <1>5, <2>1 DEF IsOut
  <2>. QED  BY <2>2 DEF Sound, Unborn
<1>10. FlagsOK'
  BY <1>0, <1>1 DEF Sound, FlagsOK, Holding, AllocSteps, Alike, PutSteps
<1>11. Fits'
  BY <1>0, <1>1 DEF Sound, Fits, Alike, PutSteps, Chunk
<1>. QED  BY <1>1, <1>5, <1>6, <1>7, <1>8, <1>9, <1>o, <1>10, <1>11 DEF Sound

LEMMA AlikeSteps ==
  ASSUME TypeOK, LocalsOK, Sound, NEW t \in Threads,
         \/ FullInUse(t) \/ Recheck(t) \/ UnmarkFails(t) \/ TakeLock(t) \/ TakeTest(t)
         \/ TakeSwap(t) \/ PutLock(t) \/ PutTest(t) \/ PutAlone(t) \/ PutFull(t)
         \/ NoResize(t) \/ PutSwap(t) \/ MergeTest(t) \/ MergeCall(t) \/ Merge(t)
  PROVE  Sound'
<1>1. /\ heaps' = heaps /\ chunks' = chunks /\ ring' = ring /\ copy' = copy /\ history' = history
      /\ held' = held /\ heap' = heap /\ cur' = cur /\ blk' = blk /\ again' = again
  BY DEF FullInUse, Recheck, UnmarkFails, TakeLock, TakeTest, TakeSwap, PutLock, PutTest,
         PutAlone, PutFull, NoResize, PutSwap, MergeTest, MergeCall, Merge, indices, arrays,
         locals, client
<1>2. \E A \in Alike : pc[t] \in A /\ \E l \in A : pc' = [pc EXCEPT ![t] = l]
  <2>1. CASE FullInUse(t)
    BY <2>1 DEF FullInUse, Goto, Alike
  <2>2. CASE Recheck(t) \/ UnmarkFails(t) \/ TakeLock(t) \/ TakeTest(t) \/ TakeSwap(t)
    BY <2>2 DEF Recheck, UnmarkFails, TakeLock, TakeTest, TakeSwap, Goto, Alike
  <2>3. CASE \/ PutLock(t) \/ PutTest(t) \/ PutAlone(t) \/ PutFull(t) \/ NoResize(t)
             \/ PutSwap(t)
    <3>1. PICK A \in Alike : A = PutSteps
      BY DEF Alike
    <3>2. \E l \in PutSteps : pc' = [pc EXCEPT ![t] = l]
      <4>1. CASE PutLock(t) \/ PutAlone(t) \/ PutFull(t) \/ NoResize(t)
        BY <4>1 DEF PutLock, PutAlone, PutFull, NoResize, GoOnAlone, Goto, PutSteps
      <4>2. CASE PutTest(t)
        BY <4>2 DEF PutTest, Goto, PutSteps
      <4>3. CASE PutSwap(t)
        BY <4>3 DEF PutSwap, Goto, PutSteps
      <4>. QED  BY <2>3, <4>1, <4>2, <4>3
    <3>3. pc[t] \in A
      BY <2>3, <3>1 DEF PutLock, PutTest, PutAlone, PutFull, NoResize, PutSwap, PutSteps
    <3>. QED  BY <3>1, <3>2, <3>3
  <2>4. CASE MergeTest(t) \/ MergeCall(t) \/ Merge(t)
    BY <2>4 DEF MergeTest, MergeCall, Merge, Goto, Alike
  <2>. QED  BY <2>1, <2>2, <2>3, <2>4
<1>. QED  BY <1>1, <1>2, AlikeStep

\* What a resize copies: each word from a place of its own.
LEMMA MovedApart ==
  ASSUME TypeOK, OnePlace, ringMax = RingMax
  PROVE  LET M == Moved(freeSlide) IN
         /\ \A j \in Slots : M[j] = None \/ \E k \in Slots : M[j] = ring[k]
         /\ \A i, j \in Slots : M[i] = M[j] /\ M[i] \in Chunks => i = j
<1> DEFINE s == freeSlide
           M == Moved(s)
           Source(j) == IF j < s THEN j ELSE j - 2 * ringMax + 2 * s
           Copied(j) == j < s \/ j \in 2 * ringMax - s .. 2 * ringMax - 1
<1>1. /\ RingMax \in Nat /\ RingMax > 1 /\ ringMax = RingMax
      /\ s \in Nat /\ s < ringMax /\ Slots = 0 .. 4 * RingMax - 1
  BY Consts DEF TypeOK, Indices, Slots, MaxRing
<1>2. \A j \in Slots : M[j] = IF Copied(j) THEN ring[Source(j)] ELSE None
  BY <1>1 DEF Moved
<1>3. \A j \in Slots : Copied(j) => Source(j) \in Slots
  BY <1>1
<1>4. \A i, j \in Slots : Copied(i) /\ Copied(j) /\ Source(i) = Source(j) => i = j
  BY <1>1
<1>. HIDE DEF M, Source, Copied
<1>5. \A j \in Slots : M[j] = None \/ \E k \in Slots : M[j] = ring[k]
  BY <1>2, <1>3
<1>6. ASSUME NEW i \in Slots, NEW j \in Slots, M[i] = M[j], M[i] \in Chunks PROVE i = j
  <2>1. Copied(i) /\ Copied(j) /\ ring[Source(i)] = ring[Source(j)] /\ ring[Source(i)] \in Chunks
    BY <1>2, <1>6, Consts
  <2>. QED  BY <1>3, <1>4, <2>1 DEF OnePlace
<1>. QED  BY <1>5, <1>6 DEF M

LEMMA ResizeSound ==
  ASSUME TypeOK, LocalsOK, Sound, NEW t \in Threads, Resize(t)
  PROVE  Sound'
<1>1. PICK l \in {"put_copy", "put_stuck"} : pc' = [pc EXCEPT ![t] = l]
  BY DEF Resize, Goto
<1>2. /\ heaps' = heaps /\ chunks' = chunks /\ ring' = ring /\ history' = history
      /\ held' = held /\ heap' = heap /\ cur' = cur /\ blk' = blk /\ again' = again
      /\ pc[t] = "put_resize"
  BY DEF Resize, locals, client
<1>3. \A u \in Threads : Out(u)' <=> Out(u)
  BY <1>1, <1>2 DEF TypeOK, Out, PutSteps
<1>4. PutSteps \in Alike /\ pc[t] \in PutSteps /\ l \in PutSteps
  BY <1>2 DEF Alike, PutSteps
<1>5. CASE copy' = copy
  BY <1>1, <1>2, <1>4, <1>5, AlikeStep
<1>6. CASE ringMax = RingMax /\ copy' = Moved(freeSlide)
  <2>1. OnePlace
    BY DEF Sound
  <2>2. /\ \A j \in Slots : copy'[j] = None \/ \E k \in Slots : copy'[j] = ring[k]
        /\ \A i, j \in Slots : copy'[i] = copy'[j] /\ copy'[i] \in Chunks => i = j
    BY <1>6, <2>1, MovedApart
  <2>3. \A u \in Threads : Out(u) => cur[u] # None
    BY DEF LocalsOK, Out, Carrying
  <2>4. OnePlace'
    BY <1>2, <1>3, <2>1, <2>2, <2>3 DEF OnePlace
  <2>5. ASSUME NEW c \in Chunks, IsOut(c)' PROVE IsOut(c)
    BY <1>2, <1>3, <2>2, <2>5, Consts DEF IsOut
  <2>. QED  BY <1>1, <1>2, <1>4, <2>4, <2>5, AlikeStep
<1>. QED  BY <1>5, <1>6 DEF Resize

LEMMA ResizeDoneSound ==
  ASSUME TypeOK, LocalsOK, Sound, NEW t \in Threads, ResizeDone(t)
  PROVE  Sound'
<1>1. /\ pc' = [pc EXCEPT ![t] = "put_swap"] /\ pc[t] = "put_copy"
      /\ heaps' = heaps /\ chunks' = chunks /\ ring' = copy /\ copy' = Nothing
      /\ history' = history /\ held' = held /\ heap' = heap /\ cur' = cur /\ blk' = blk
      /\ again' = again
  BY DEF ResizeDone, GoOnAlone, Goto, locals, client
<1>2. \A u \in Threads : Out(u)' <=> Out(u)
  BY <1>1 DEF TypeOK, Out, PutSteps
<1>3. PutSteps \in Alike /\ pc[t] \in PutSteps /\ "put_swap" \in PutSteps
  BY <1>1 DEF Alike, PutSteps
<1>4. \A i \in Slots : copy'[i] = None
  BY <1>1 DEF Nothing
<1>5. \A u \in Threads : Out(u) => cur[u] # None
  BY DEF LocalsOK, Out, Carrying
<1>6. OnePlace'
  BY <1>1, <1>2, <1>4, <1>5, Consts DEF Sound, OnePlace
<1>7. ASSUME NEW c \in Chunks, IsOut(c)' PROVE IsOut(c)
  BY <1>1, <1>2, <1>4, <1>7, Consts DEF IsOut
<1>. QED  BY <1>1, <1>3, <1>6, <1>7, AlikeStep

LEMMA CallAllocSound ==
  ASSUME TypeOK, LocalsOK, Sound, NEW t \in Threads, CallAlloc(t)
  PROVE  Sound'
<1>0. /\ pc[t] = "idle" /\ pc' = [pc EXCEPT ![t] = "probe"]
      /\ heap' = [heap EXCEPT ![t] = 0]
      /\ again' = [again EXCEPT ![t] = FALSE]
      /\ flag' = flag /\ chunk' = chunk /\ created' = created /\ count' = count /\ recFlag' = recFlag
      /\ slide' = slide /\ ring' = ring /\ copy' = copy /\ cur' = cur /\ blk' = blk /\ held' = held
      /\ leaked' = leaked
  BY DEF CallAlloc, Goto, heaps, chunks, indices, arrays, locals, client, history, TypeOK
<1>1. /\ pc \in [Threads -> {"idle"} \cup AllocSteps \cup FreeSteps]
      /\ flag \in [Heaps -> Threads \cup {None}] /\ chunk \in [Heaps -> Chunks]
      /\ heap \in [Threads -> Heaps] /\ cur \in [Threads -> Chunks \cup {None}]
      /\ again \in [Threads -> BOOLEAN] /\ blk \in [Threads -> Blocks \cup {None}]
      /\ held \in [Threads -> SUBSET Blocks] /\ ring \in [Slots -> Words]
      /\ slide \in [Chunks -> 0 .. Cap] /\ count \in [Chunks -> Int] /\ at \in [Threads -> Indices]
      /\ recFlag \in [Chunks -> 0 .. 2]
  BY DEF TypeOK
<1>2. /\ heap[t] \in Heaps /\ Chunk(t) = chunk[heap[t]] /\ Chunk(t) \in Chunks
      /\ None \notin Threads /\ None \notin Chunks /\ None \notin Blocks
      /\ pc[t] \in Carrying => cur[t] \in Chunks
  BY Known
<1>3. ~ leaked /\ FlagsOK /\ CountOK /\ Apart /\ Cut /\ OnePlace /\ OutOK /\ Owners /\ Unborn /\ Fits
  BY DEF Sound
<1>o. \A u \in Threads : (Out(u)' <=> Out(u)) /\ (Out(u) => cur'[u] = cur[u])
  BY <1>0, <1>1 DEF Out, PutSteps
<1>p. OnePlace' /\ \A c : IsOut(c)' <=> IsOut(c)
  BY <1>0, <1>3, <1>o, PlaceFrame
<1>u. \A u \in Threads : InUse(u)' = InUse(u)
  BY <1>0, <1>1, <1>2 DEF InUse
<1>w. \A u \in Threads : \A c \in Chunks : Lowering(u, c)' <=> Lowering(u, c)
  BY <1>0, <1>1, <1>2 DEF Lowering, Chunk
<1>c. CountOK'
  BY <1>0, <1>3, <1>u, <1>w, UseFrame
<1>l. \A h \in Heaps : Leaving(h)' <=> Leaving(h)
  BY <1>0, <1>1, <1>2, <1>3 DEF Leaving, FlagsOK, Holding, AllocSteps
<1>n. Owners'
  BY <1>0, <1>3, <1>p, <1>l, OwnFrame
<1>a. Apart'
  BY <1>0, <1>1, <1>2, <1>3, <1>u DEF Apart, InUse
<1>k. Cut'
  BY <1>0, <1>3, <1>u DEF Cut
<1>z. OutOK'
  BY <1>0, <1>3, <1>p DEF OutOK
<1>b. Unborn'
  BY <1>0, <1>1, <1>2, <1>3 DEF Unborn
<1>f. FlagsOK'
  BY <1>0, <1>1, <1>2, <1>3 DEF FlagsOK, Holding, AllocSteps, FreeSteps
<1>t. Fits'
  BY <1>0, <1>1, <1>2, <1>3 DEF Fits, Chunk
<1>. QED  BY <1>0, <1>3, <1>p, <1>c, <1>n, <1>a, <1>k, <1>z, <1>b, <1>f, <1>t DEF Sound

LEMMA TakeHeapSound ==
  ASSUME TypeOK, LocalsOK, Sound, NEW t \in Threads, TakeHeap(t)
  PROVE  Sound'
<1>0. /\ pc[t] = "probe" /\ pc' = [pc EXCEPT ![t] = "malloc"]
      /\ flag[heap[t]] = None
      /\ flag' = [flag EXCEPT ![heap[t]] = t]
      /\ chunk' = chunk /\ created' = created /\ count' = count /\ recFlag' = recFlag /\ slide' = slide
      /\ ring' = ring /\ copy' = copy /\ heap' = heap /\ cur' = cur /\ blk' = blk /\ again' = again
      /\ held' = held /\ leaked' = leaked
  BY DEF TakeHeap, Goto, heaps, chunks, indices, arrays, locals, client, history, TypeOK
<1>1. /\ pc \in [Threads -> {"idle"} \cup AllocSteps \cup FreeSteps]
      /\ flag \in [Heaps -> Threads \cup {None}] /\ chunk \in [Heaps -> Chunks]
      /\ heap \in [Threads -> Heaps] /\ cur \in [Threads -> Chunks \cup {None}]
      /\ again \in [Threads -> BOOLEAN] /\ blk \in [Threads -> Blocks \cup {None}]
      /\ held \in [Threads -> SUBSET Blocks] /\ ring \in [Slots -> Words]
      /\ slide \in [Chunks -> 0 .. Cap] /\ count \in [Chunks -> Int] /\ at \in [Threads -> Indices]
      /\ recFlag \in [Chunks -> 0 .. 2]
  BY DEF TypeOK
<1>2. /\ heap[t] \in Heaps /\ Chunk(t) = chunk[heap[t]] /\ Chunk(t) \in Chunks
      /\ None \notin Threads /\ None \notin Chunks /\ None \notin Blocks
      /\ pc[t] \in Carrying => cur[t] \in Chunks
  BY Known
<1>3. ~ leaked /\ FlagsOK /\ CountOK /\ Apart /\ Cut /\ OnePlace /\ OutOK /\ Owners /\ Unborn /\ Fits
  BY DEF Sound
<1>o. \A u \in Threads : (Out(u)' <=> Out(u)) /\ (Out(u) => cur'[u] = cur[u])
  BY <1>0, <1>1 DEF Out, PutSteps
<1>p. OnePlace' /\ \A c : IsOut(c)' <=> IsOut(c)
  BY <1>0, <1>3, <1>o, PlaceFrame
<1>u. \A u \in Threads : InUse(u)' = InUse(u)
  BY <1>0, <1>1, <1>2 DEF InUse
<1>w. \A u \in Threads : \A c \in Chunks : Lowering(u, c)' <=> Lowering(u, c)
  BY <1>0, <1>1, <1>2 DEF Lowering, Chunk
<1>c. CountOK'
  BY <1>0, <1>3, <1>u, <1>w, UseFrame
<1>l. \A h \in Heaps : Leaving(h)' <=> Leaving(h)
  BY <1>0, <1>1, <1>2, <1>3 DEF Leaving, FlagsOK, Holding, AllocSteps
<1>n. Owners'
  BY <1>0, <1>3, <1>p, <1>l, OwnFrame
<1>a. Apart'
  BY <1>0, <1>1, <1>2, <1>3, <1>u DEF Apart, InUse
<1>k. Cut'
  BY <1>0, <1>3, <1>u DEF Cut
<1>z. OutOK'
  BY <1>0, <1>3, <1>p DEF OutOK
<1>b. Unborn'
  BY <1>0, <1>1, <1>2, <1>3 DEF Unborn
<1>f. FlagsOK'
  BY <1>0, <1>1, <1>2, <1>3 DEF FlagsOK, Holding, AllocSteps, FreeSteps
<1>t. Fits'
  BY <1>0, <1>1, <1>2, <1>3 DEF Fits, Chunk
<1>. QED  BY <1>0, <1>3, <1>p, <1>c, <1>n, <1>a, <1>k, <1>z, <1>b, <1>f, <1>t DEF Sound

LEMMA ClearHeapSound ==
  ASSUME TypeOK, LocalsOK, Sound, NEW t \in Threads, ClearHeap(t)
  PROVE  Sound'
<1>0. /\ pc[t] = "clear" /\ pc' = [pc EXCEPT ![t] = "idle"]
      /\ flag' = [flag EXCEPT ![heap[t]] = None]
      /\ held' = [held EXCEPT ![t] = @ \cup {blk[t]}]
      /\ blk' = [blk EXCEPT ![t] = None]
      /\ heap' = [heap EXCEPT ![t] = 0]
      /\ again' = [again EXCEPT ![t] = FALSE]
      /\ chunk' = chunk /\ created' = created /\ count' = count /\ recFlag' = recFlag /\ slide' = slide
      /\ ring' = ring /\ copy' = copy /\ cur' = cur /\ leaked' = leaked
  BY DEF ClearHeap, Goto, heaps, chunks, indices, arrays, locals, client, history, TypeOK
<1>1. /\ pc \in [Threads -> {"idle"} \cup AllocSteps \cup FreeSteps]
      /\ flag \in [Heaps -> Threads \cup {None}] /\ chunk \in [Heaps -> Chunks]
      /\ heap \in [Threads -> Heaps] /\ cur \in [Threads -> Chunks \cup {None}]
      /\ again \in [Threads -> BOOLEAN] /\ blk \in [Threads -> Blocks \cup {None}]
      /\ held \in [Threads -> SUBSET Blocks] /\ ring \in [Slots -> Words]
      /\ slide \in [Chunks -> 0 .. Cap] /\ count \in [Chunks -> Int] /\ at \in [Threads -> Indices]
      /\ recFlag \in [Chunks -> 0 .. 2]
  BY DEF TypeOK
<1>2. /\ heap[t] \in Heaps /\ Chunk(t) = chunk[heap[t]] /\ Chunk(t) \in Chunks
      /\ None \notin Threads /\ None \notin Chunks /\ None \notin Blocks
      /\ pc[t] \in Carrying => cur[t] \in Chunks
  BY Known
<1>3. ~ leaked /\ FlagsOK /\ CountOK /\ Apart /\ Cut /\ OnePlace /\ OutOK /\ Owners /\ Unborn /\ Fits
  BY DEF Sound
<1>o. \A u \in Threads : (Out(u)' <=> Out(u)) /\ (Out(u) => cur'[u] = cur[u])
  BY <1>0, <1>1 DEF Out, PutSteps
<1>p. OnePlace' /\ \A c : IsOut(c)' <=> IsOut(c)
  BY <1>0, <1>3, <1>o, PlaceFrame
<1>u. \A u \in Threads : InUse(u)' = InUse(u)
  <2>1. blk[t] # None
    BY <1>0 DEF LocalsOK
  <2>. QED  BY <1>0, <1>1, <2>1 DEF InUse
<1>w. \A u \in Threads : \A c \in Chunks : Lowering(u, c)' <=> Lowering(u, c)
  BY <1>0, <1>1, <1>2 DEF Lowering, Chunk
<1>c. CountOK'
  BY <1>0, <1>3, <1>u, <1>w, UseFrame
<1>l. \A h \in Heaps : Leaving(h)' <=> Leaving(h)
  BY <1>0, <1>1, <1>2, <1>3 DEF Leaving, FlagsOK, Holding, AllocSteps
<1>n. Owners'
  BY <1>0, <1>3, <1>p, <1>l, OwnFrame
<1>a. Apart'
  BY <1>0, <1>1, <1>2, <1>3, <1>u DEF Apart, InUse
<1>k. Cut'
  BY <1>0, <1>3, <1>u DEF Cut
<1>z. OutOK'
  BY <1>0, <1>3, <1>p DEF OutOK
<1>b. Unborn'
  BY <1>0, <1>1, <1>2, <1>3 DEF Unborn
<1>f. FlagsOK'
  BY <1>0, <1>1, <1>2, <1>3 DEF FlagsOK, Holding, AllocSteps, FreeSteps
<1>t. Fits'
  BY <1>0, <1>1, <1>2, <1>3 DEF Fits, Chunk
<1>. QED  BY <1>0, <1>3, <1>p, <1>c, <1>n, <1>a, <1>k, <1>z, <1>b, <1>f, <1>t DEF Sound

LEMMA MallocResetSound ==
  ASSUME TypeOK, LocalsOK, Sound, NEW t \in Threads, MallocReset(t)
  PROVE  Sound'
<1>0. /\ pc[t] = "malloc" /\ pc' = [pc EXCEPT ![t] = "count"]
      /\ slide' = IF count[Chunk(t)] = 0 THEN [slide EXCEPT ![Chunk(t)] = 0] ELSE slide
      /\ flag' = flag /\ chunk' = chunk /\ created' = created /\ count' = count /\ recFlag' = recFlag
      /\ ring' = ring /\ copy' = copy /\ heap' = heap /\ cur' = cur /\ blk' = blk /\ again' = again
      /\ held' = held /\ leaked' = leaked
  BY DEF MallocReset, Goto, heaps, chunks, indices, arrays, locals, client, history, TypeOK
<1>1. /\ pc \in [Threads -> {"idle"} \cup AllocSteps \cup FreeSteps]
      /\ flag \in [Heaps -> Threads \cup {None}] /\ chunk \in [Heaps -> Chunks]
      /\ heap \in [Threads -> Heaps] /\ cur \in [Threads -> Chunks \cup {None}]
      /\ again \in [Threads -> BOOLEAN] /\ blk \in [Threads -> Blocks \cup {None}]
      /\ held \in [Threads -> SUBSET Blocks] /\ ring \in [Slots -> Words]
      /\ slide \in [Chunks -> 0 .. Cap] /\ count \in [Chunks -> Int] /\ at \in [Threads -> Indices]
      /\ recFlag \in [Chunks -> 0 .. 2]
  BY DEF TypeOK
<1>2. /\ heap[t] \in Heaps /\ Chunk(t) = chunk[heap[t]] /\ Chunk(t) \in Chunks
      /\ None \notin Threads /\ None \notin Chunks /\ None \notin Blocks
      /\ pc[t] \in Carrying => cur[t] \in Chunks
  BY Known
<1>3. ~ leaked /\ FlagsOK /\ CountOK /\ Apart /\ Cut /\ OnePlace /\ OutOK /\ Owners /\ Unborn /\ Fits
  BY DEF Sound
<1>r. ASSUME NEW u \in Threads, NEW b \in InUse(u), count[Chunk(t)] = 0, Chunk(t) \in Chunks
      PROVE  b[1] # Chunk(t) /\ b[1] \in Chunks
  <2>1. b \in Blocks /\ b[1] \in Chunks
    BY Known, Consts
  <2>. QED  BY <1>3, <1>r, <2>1, NoUsers
<1>o. \A u \in Threads : (Out(u)' <=> Out(u)) /\ (Out(u) => cur'[u] = cur[u])
  BY <1>0, <1>1 DEF Out, PutSteps
<1>p. OnePlace' /\ \A c : IsOut(c)' <=> IsOut(c)
  BY <1>0, <1>3, <1>o, PlaceFrame
<1>u. \A u \in Threads : InUse(u)' = InUse(u)
  BY <1>0, <1>1, <1>2 DEF InUse
<1>w. \A u \in Threads : \A c \in Chunks : Lowering(u, c)' <=> Lowering(u, c)
  BY <1>0, <1>1, <1>2 DEF Lowering, Chunk
<1>c. CountOK'
  BY <1>0, <1>3, <1>u, <1>w, UseFrame
<1>l. \A h \in Heaps : Leaving(h)' <=> Leaving(h)
  BY <1>0, <1>1, <1>2, <1>3 DEF Leaving, FlagsOK, Holding, AllocSteps
<1>n. Owners'
  BY <1>0, <1>3, <1>p, <1>l, OwnFrame
<1>a. Apart'
  BY <1>0, <1>1, <1>2, <1>3, <1>u DEF Apart, InUse
<1>k. Cut'
  <2> SUFFICES ASSUME NEW u \in Threads, NEW b \in InUse(u) PROVE b[2] <= slide'[b[1]]
    BY <1>u DEF Cut
  <2>1. b[2] <= slide[b[1]]
    BY <1>3 DEF Cut
  <2>. QED  BY <1>0, <1>1, <1>2, <1>r, <2>1
<1>z. OutOK'
  BY <1>0, <1>3, <1>p DEF OutOK
<1>b. Unborn'
  BY <1>0, <1>1, <1>2, <1>3 DEF Unborn
<1>f. FlagsOK'
  BY <1>0, <1>1, <1>2, <1>3 DEF FlagsOK, Holding, AllocSteps, FreeSteps
<1>t. Fits'
  BY <1>0, <1>1, <1>2, <1>3 DEF Fits, Chunk
<1>. QED  BY <1>0, <1>3, <1>p, <1>c, <1>n, <1>a, <1>k, <1>z, <1>b, <1>f, <1>t DEF Sound

LEMMA FullButEmptySound ==
  ASSUME TypeOK, LocalsOK, Sound, NEW t \in Threads, FullButEmpty(t)
  PROVE  Sound'
<1>0. /\ pc[t] = "full" /\ pc' = [pc EXCEPT ![t] = "malloc"]
      /\ count[Chunk(t)] = 0
      /\ slide' = [slide EXCEPT ![Chunk(t)] = 0]
      /\ again' = [again EXCEPT ![t] = TRUE]
      /\ flag' = flag /\ chunk' = chunk /\ created' = created /\ count' = count /\ recFlag' = recFlag
      /\ ring' = ring /\ copy' = copy /\ heap' = heap /\ cur' = cur /\ blk' = blk /\ held' = held
      /\ leaked' = leaked
  BY DEF FullButEmpty, Goto, StartOver, heaps, chunks, indices, arrays, locals, client, history,
       TypeOK
<1>1. /\ pc \in [Threads -> {"idle"} \cup AllocSteps \cup FreeSteps]
      /\ flag \in [Heaps -> Threads \cup {None}] /\ chunk \in [Heaps -> Chunks]
      /\ heap \in [Threads -> Heaps] /\ cur \in [Threads -> Chunks \cup {None}]
      /\ again \in [Threads -> BOOLEAN] /\ blk \in [Threads -> Blocks \cup {None}]
      /\ held \in [Threads -> SUBSET Blocks] /\ ring \in [Slots -> Words]
      /\ slide \in [Chunks -> 0 .. Cap] /\ count \in [Chunks -> Int] /\ at \in [Threads -> Indices]
      /\ recFlag \in [Chunks -> 0 .. 2]
  BY DEF TypeOK
<1>2. /\ heap[t] \in Heaps /\ Chunk(t) = chunk[heap[t]] /\ Chunk(t) \in Chunks
      /\ None \notin Threads /\ None \notin Chunks /\ None \notin Blocks
      /\ pc[t] \in Carrying => cur[t] \in Chunks
  BY Known
<1>3. ~ leaked /\ FlagsOK /\ CountOK /\ Apart /\ Cut /\ OnePlace /\ OutOK /\ Owners /\ Unborn /\ Fits
  BY DEF Sound
<1>r. ASSUME NEW u \in Threads, NEW b \in InUse(u), count[Chunk(t)] = 0, Chunk(t) \in Chunks
      PROVE  b[1] # Chunk(t) /\ b[1] \in Chunks
  <2>1. b \in Blocks /\ b[1] \in Chunks
    BY Known, Consts
  <2>. QED  BY <1>3, <1>r, <2>1, NoUsers
<1>o. \A u \in Threads : (Out(u)' <=> Out(u)) /\ (Out(u) => cur'[u] = cur[u])
  BY <1>0, <1>1 DEF Out, PutSteps
<1>p. OnePlace' /\ \A c : IsOut(c)' <=> IsOut(c)
  BY <1>0, <1>3, <1>o, PlaceFrame
<1>u. \A u \in Threads : InUse(u)' = InUse(u)
  BY <1>0, <1>1, <1>2 DEF InUse
<1>w. \A u \in Threads : \A c \in Chunks : Lowering(u, c)' <=> Lowering(u, c)
  BY <1>0, <1>1, <1>2 DEF Lowering, Chunk
<1>c. CountOK'
  BY <1>0, <1>3, <1>u, <1>w, UseFrame
<1>l. \A h \in Heaps : Leaving(h)' <=> Leaving(h)
  BY <1>0, <1>1, <1>2, <1>3 DEF Leaving, FlagsOK, Holding, AllocSteps
<1>n. Owners'
  BY <1>0, <1>3, <1>p, <1>l, OwnFrame
<1>a. Apart'
  BY <1>0, <1>1, <1>2, <1>3, <1>u DEF Apart, InUse
<1>k. Cut'
  <2> SUFFICES ASSUME NEW u \in Threads, NEW b \in InUse(u) PROVE b[2] <= slide'[b[1]]
    BY <1>u DEF Cut
  <2>1. b[2] <= slide[b[1]]
    BY <1>3 DEF Cut
  <2>. QED  BY <1>0, <1>1, <1>2, <1>r, <2>1
<1>z. OutOK'
  BY <1>0, <1>3, <1>p DEF OutOK
<1>b. Unborn'
  BY <1>0, <1>1, <1>2, <1>3 DEF Unborn
<1>f. FlagsOK'
  BY <1>0, <1>1, <1>2, <1>3 DEF FlagsOK, Holding, AllocSteps, FreeSteps
<1>t. Fits'
  <2> SUFFICES ASSUME NEW u \in Threads, again'[u], u # t
               PROVE  /\ pc[u] \notin {"probe", "uncount"}
                      /\ pc[u] \in {"malloc", "count"} => slide'[Chunk(u)] = 0
    BY <1>0, <1>1, <1>2 DEF Fits, Chunk
  <2>1. again[u] /\ Chunk(u) \in Chunks
    BY <1>0, <1>1 DEF Chunk
  <2>. QED  BY <1>0, <1>1, <1>3, <2>1 DEF Fits
<1>. QED  BY <1>0, <1>3, <1>p, <1>c, <1>n, <1>a, <1>k, <1>z, <1>b, <1>f, <1>t DEF Sound

LEMMA MarkChunkSound ==
  ASSUME TypeOK, LocalsOK, Sound, NEW t \in Threads, MarkChunk(t)
  PROVE  Sound'
<1>0. /\ pc[t] = "mark" /\ pc' = [pc EXCEPT ![t] = "recheck"]
      /\ recFlag' = [recFlag EXCEPT ![Chunk(t)] = 1]
      /\ flag' = flag /\ chunk' = chunk /\ created' = created /\ count' = count /\ slide' = slide
      /\ ring' = ring /\ copy' = copy /\ heap' = heap /\ cur' = cur /\ blk' = blk /\ again' = again
      /\ held' = held /\ leaked' = leaked
  BY DEF MarkChunk, Goto, heaps, chunks, indices, arrays, locals, client, history, TypeOK
<1>1. /\ pc \in [Threads -> {"idle"} \cup AllocSteps \cup FreeSteps]
      /\ flag \in [Heaps -> Threads \cup {None}] /\ chunk \in [Heaps -> Chunks]
      /\ heap \in [Threads -> Heaps] /\ cur \in [Threads -> Chunks \cup {None}]
      /\ again \in [Threads -> BOOLEAN] /\ blk \in [Threads -> Blocks \cup {None}]
      /\ held \in [Threads -> SUBSET Blocks] /\ ring \in [Slots -> Words]
      /\ slide \in [Chunks -> 0 .. Cap] /\ count \in [Chunks -> Int] /\ at \in [Threads -> Indices]
      /\ recFlag \in [Chunks -> 0 .. 2]
  BY DEF TypeOK
<1>2. /\ heap[t] \in Heaps /\ Chunk(t) = chunk[heap[t]] /\ Chunk(t) \in Chunks
      /\ None \notin Threads /\ None \notin Chunks /\ None \notin Blocks
      /\ pc[t] \in Carrying => cur[t] \in Chunks
  BY Known
<1>3. ~ leaked /\ FlagsOK /\ CountOK /\ Apart /\ Cut /\ OnePlace /\ OutOK /\ Owners /\ Unborn /\ Fits
  BY DEF Sound
<1>m. \A h \in Heaps : flag[h] = t <=> h = heap[t]
  BY <1>0, <1>1, <1>2, <1>3 DEF FlagsOK, Holding, AllocSteps
<1>x. ~ Leaving(heap[t]) /\ ~ IsOut(Chunk(t))
  BY <1>0, <1>2, <1>3, <1>m DEF Leaving, Owners
<1>o. \A u \in Threads : (Out(u)' <=> Out(u)) /\ (Out(u) => cur'[u] = cur[u])
  BY <1>0, <1>1 DEF Out, PutSteps
<1>p. OnePlace' /\ \A c : IsOut(c)' <=> IsOut(c)
  BY <1>0, <1>3, <1>o, PlaceFrame
<1>u. \A u \in Threads : InUse(u)' = InUse(u)
  BY <1>0, <1>1, <1>2 DEF InUse
<1>w. \A u \in Threads : \A c \in Chunks : Lowering(u, c)' <=> Lowering(u, c)
  BY <1>0, <1>1, <1>2 DEF Lowering, Chunk
<1>c. CountOK'
  BY <1>0, <1>3, <1>u, <1>w, UseFrame
<1>l. \A h \in Heaps : Leaving(h)' <=> Leaving(h) \/ h = heap[t]
  <2> SUFFICES ASSUME NEW h \in Heaps PROVE Leaving(h)' <=> Leaving(h) \/ h = heap[t]
    OBVIOUS
  <2>1. CASE h = heap[t]
    BY <1>0, <1>1, <1>2, <1>m, <2>1 DEF Leaving
  <2>2. CASE h # heap[t]
    BY <1>0, <1>1, <1>2, <1>m, <2>2 DEF Leaving
  <2>. QED  BY <2>1, <2>2
<1>n. Owners'
  <2> SUFFICES ASSUME NEW h \in Heaps, ~ Leaving(h), h # heap[t]
               PROVE  /\ recFlag'[chunk[h]] = 0 /\ ~ IsOut(chunk[h])
                      /\ \A g \in Heaps \ {h} : chunk[g] = chunk[h] => Leaving(g)
    BY <1>0, <1>p, <1>l DEF Owners
  <2>1. chunk[h] # Chunk(t)
    BY <1>2, <1>3, <1>x DEF Owners
  <2>. QED  BY <1>0, <1>1, <1>3, <2>1 DEF Owners
<1>a. Apart'
  BY <1>0, <1>1, <1>2, <1>3, <1>u DEF Apart, InUse
<1>k. Cut'
  BY <1>0, <1>3, <1>u DEF Cut
<1>z. OutOK'
  BY <1>0, <1>1, <1>2, <1>3, <1>p, <1>x DEF OutOK
<1>b. Unborn'
  BY <1>0, <1>1, <1>2, <1>3 DEF Unborn
<1>f. FlagsOK'
  BY <1>0, <1>1, <1>2, <1>3 DEF FlagsOK, Holding, AllocSteps, FreeSteps
<1>t. Fits'
  BY <1>0, <1>1, <1>2, <1>3 DEF Fits, Chunk
<1>. QED  BY <1>0, <1>3, <1>p, <1>c, <1>n, <1>a, <1>k, <1>z, <1>b, <1>f, <1>t DEF Sound

LEMMA UnmarkSound ==
  ASSUME TypeOK, LocalsOK, Sound, NEW t \in Threads, Unmark(t), ~ stale'
  PROVE  Sound'
<1>0. /\ pc[t] = "unmark" /\ pc' = [pc EXCEPT ![t] = "malloc"]
      /\ recFlag[Chunk(t)] = 1 /\ count[Chunk(t)] = 0
      /\ recFlag' = [recFlag EXCEPT ![Chunk(t)] = 0]
      /\ slide' = [slide EXCEPT ![Chunk(t)] = 0]
      /\ again' = [again EXCEPT ![t] = TRUE]
      /\ flag' = flag /\ chunk' = chunk /\ created' = created /\ count' = count /\ ring' = ring /\ copy' = copy
      /\ heap' = heap /\ cur' = cur /\ blk' = blk /\ held' = held /\ leaked' = leaked
  BY DEF Unmark, Goto, StartOver, heaps, chunks, indices, arrays, locals, client, history, TypeOK
<1>1. /\ pc \in [Threads -> {"idle"} \cup AllocSteps \cup FreeSteps]
      /\ flag \in [Heaps -> Threads \cup {None}] /\ chunk \in [Heaps -> Chunks]
      /\ heap \in [Threads -> Heaps] /\ cur \in [Threads -> Chunks \cup {None}]
      /\ again \in [Threads -> BOOLEAN] /\ blk \in [Threads -> Blocks \cup {None}]
      /\ held \in [Threads -> SUBSET Blocks] /\ ring \in [Slots -> Words]
      /\ slide \in [Chunks -> 0 .. Cap] /\ count \in [Chunks -> Int] /\ at \in [Threads -> Indices]
      /\ recFlag \in [Chunks -> 0 .. 2]
  BY DEF TypeOK
<1>2. /\ heap[t] \in Heaps /\ Chunk(t) = chunk[heap[t]] /\ Chunk(t) \in Chunks
      /\ None \notin Threads /\ None \notin Chunks /\ None \notin Blocks
      /\ pc[t] \in Carrying => cur[t] \in Chunks
  BY Known
<1>3. ~ leaked /\ FlagsOK /\ CountOK /\ Apart /\ Cut /\ OnePlace /\ OutOK /\ Owners /\ Unborn /\ Fits
  BY DEF Sound
<1>r. ASSUME NEW u \in Threads, NEW b \in InUse(u), count[Chunk(t)] = 0, Chunk(t) \in Chunks
      PROVE  b[1] # Chunk(t) /\ b[1] \in Chunks
  <2>1. b \in Blocks /\ b[1] \in Chunks
    BY Known, Consts
  <2>. QED  BY <1>3, <1>r, <2>1, NoUsers
<1>m. \A h \in Heaps : flag[h] = t <=> h = heap[t]
  BY <1>0, <1>1, <1>2, <1>3 DEF FlagsOK, Holding, AllocSteps
<1>o. \A u \in Threads : (Out(u)' <=> Out(u)) /\ (Out(u) => cur'[u] = cur[u])
  BY <1>0, <1>1 DEF Out, PutSteps
<1>p. OnePlace' /\ \A c : IsOut(c)' <=> IsOut(c)
  BY <1>0, <1>3, <1>o, PlaceFrame
<1>u. \A u \in Threads : InUse(u)' = InUse(u)
  BY <1>0, <1>1, <1>2 DEF InUse
<1>w. \A u \in Threads : \A c \in Chunks : Lowering(u, c)' <=> Lowering(u, c)
  BY <1>0, <1>1, <1>2 DEF Lowering, Chunk
<1>c. CountOK'
  BY <1>0, <1>3, <1>u, <1>w, UseFrame
<1>l. \A h \in Heaps : Leaving(h)' <=> Leaving(h) /\ h # heap[t]
  <2> SUFFICES ASSUME NEW h \in Heaps PROVE Leaving(h)' <=> Leaving(h) /\ h # heap[t]
    OBVIOUS
  <2>1. CASE h = heap[t]
    BY <1>0, <1>1, <1>2, <1>m, <2>1 DEF Leaving
  <2>2. CASE h # heap[t]
    BY <1>0, <1>1, <1>2, <1>m, <2>2 DEF Leaving
  <2>. QED  BY <2>1, <2>2
<1>n. Owners'
  <2>1. \A g \in Heaps : ~ Leaving(g) => chunk[g] # Chunk(t)
    BY <1>0, <1>3 DEF Owners
  <2> SUFFICES ASSUME NEW h \in Heaps, ~ Leaving(h) \/ h = heap[t]
               PROVE  /\ recFlag'[chunk[h]] = 0 /\ ~ IsOut(chunk[h])
                      /\ \A g \in Heaps \ {h} : chunk[g] = chunk[h] => Leaving(g) /\ g # heap[t]
    BY <1>0, <1>p, <1>l DEF Owners
  <2>2. CASE h = heap[t]
    BY <1>0, <1>1, <1>2, <1>3, <2>1, <2>2 DEF OutOK
  <2>3. CASE h # heap[t]
    BY <1>0, <1>1, <1>2, <1>3, <2>1, <2>3 DEF Owners
  <2>. QED  BY <2>2, <2>3
<1>a. Apart'
  BY <1>0, <1>1, <1>2, <1>3, <1>u DEF Apart, InUse
<1>k. Cut'
  <2> SUFFICES ASSUME NEW u \in Threads, NEW b \in InUse(u) PROVE b[2] <= slide'[b[1]]
    BY <1>u DEF Cut
  <2>1. b[2] <= slide[b[1]]
    BY <1>3 DEF Cut
  <2>. QED  BY <1>0, <1>1, <1>2, <1>r, <2>1
<1>z. OutOK'
  BY <1>0, <1>3, <1>p DEF OutOK
<1>b. Unborn'
  BY <1>0, <1>1, <1>2, <1>3 DEF Unborn
<1>f. FlagsOK'
  BY <1>0, <1>1, <1>2, <1>3 DEF FlagsOK, Holding, AllocSteps, FreeSteps
<1>t. Fits'
  <2> SUFFICES ASSUME NEW u \in Threads, again'[u], u # t
               PROVE  /\ pc[u] \notin {"probe", "uncount"}
                      /\ pc[u] \in {"malloc", "count"} => slide'[Chunk(u)] = 0
    BY <1>0, <1>1, <1>2 DEF Fits, Chunk
  <2>1. again[u] /\ Chunk(u) \in Chunks
    BY <1>0, <1>1 DEF Chunk
  <2>. QED  BY <1>0, <1>1, <1>3, <2>1 DEF Fits
<1>. QED  BY <1>0, <1>3, <1>p, <1>c, <1>n, <1>a, <1>k, <1>z, <1>b, <1>f, <1>t DEF Sound

LEMMA CreateChunkSound ==
  ASSUME TypeOK, LocalsOK, Sound, NEW t \in Threads, CreateChunk(t), CreatedOK
  PROVE  Sound'
<1>0. /\ pc[t] = "take_test" /\ pc' = [pc EXCEPT ![t] = "install"]
      /\ created' = created + 1
      /\ cur' = [cur EXCEPT ![t] = created + 1]
      /\ flag' = flag /\ chunk' = chunk /\ count' = count /\ recFlag' = recFlag /\ slide' = slide
      /\ ring' = ring /\ copy' = copy /\ heap' = heap /\ blk' = blk /\ again' = again /\ held' = held
      /\ leaked' = leaked
  BY DEF CreateChunk, Goto, heaps, chunks, indices, arrays, locals, client, history, TypeOK
<1>1. /\ pc \in [Threads -> {"idle"} \cup AllocSteps \cup FreeSteps]
      /\ flag \in [Heaps -> Threads \cup {None}] /\ chunk \in [Heaps -> Chunks]
      /\ heap \in [Threads -> Heaps] /\ cur \in [Threads -> Chunks \cup {None}]
      /\ again \in [Threads -> BOOLEAN] /\ blk \in [Threads -> Blocks \cup {None}]
      /\ held \in [Threads -> SUBSET Blocks] /\ ring \in [Slots -> Words]
      /\ slide \in [Chunks -> 0 .. Cap] /\ count \in [Chunks -> Int] /\ at \in [Threads -> Indices]
      /\ recFlag \in [Chunks -> 0 .. 2]
  BY DEF TypeOK
<1>2. /\ heap[t] \in Heaps /\ Chunk(t) = chunk[heap[t]] /\ Chunk(t) \in Chunks
      /\ None \notin Threads /\ None \notin Chunks /\ None \notin Blocks
      /\ pc[t] \in Carrying => cur[t] \in Chunks
  BY Known
<1>3. ~ leaked /\ FlagsOK /\ CountOK /\ Apart /\ Cut /\ OnePlace /\ OutOK /\ Owners /\ Unborn /\ Fits
  BY DEF Sound
<1>x. /\ created + 1 \in Chunks /\ created + 1 > created /\ ~ IsOut(created + 1)
      /\ count[created + 1] = 0 /\ recFlag[created + 1] = 0
      /\ \A h \in Heaps : chunk[h] # created + 1
      /\ \A i \in Slots : ring[i] # created + 1 /\ copy[i] # created + 1
      /\ \A u \in Threads : cur[u] # created + 1
  <2>1. created + 1 \in Chunks /\ created + 1 > created
    BY RoomForChunk, Known
  <2>. QED  BY <1>3, <2>1 DEF Unborn, IsOut
<1>p. OnePlace'
  BY <1>0, <1>1, <1>2, <1>3, <1>x DEF OnePlace, Out, PutSteps
<1>q. \A c \in Chunks : IsOut(c)' <=> IsOut(c) \/ c = created + 1
  BY <1>0, <1>1, <1>2, <1>x DEF IsOut, Out, PutSteps
<1>u. \A u \in Threads : InUse(u)' = InUse(u)
  BY <1>0, <1>1, <1>2 DEF InUse
<1>w. \A u \in Threads : \A c \in Chunks : Lowering(u, c)' <=> Lowering(u, c)
  BY <1>0, <1>1, <1>2 DEF Lowering, Chunk
<1>c. CountOK'
  BY <1>0, <1>3, <1>u, <1>w, UseFrame
<1>l. \A h \in Heaps : Leaving(h)' <=> Leaving(h)
  BY <1>0, <1>1, <1>2, <1>3 DEF Leaving, FlagsOK, Holding, AllocSteps
<1>n. Owners'
  BY <1>0, <1>1, <1>3, <1>x, <1>q, <1>l DEF Owners
<1>a. Apart'
  BY <1>0, <1>1, <1>2, <1>3, <1>u DEF Apart, InUse
<1>k. Cut'
  BY <1>0, <1>3, <1>u DEF Cut
<1>z. OutOK'
  BY <1>0, <1>3, <1>x, <1>q DEF OutOK
<1>b. Unborn'
  <2> SUFFICES ASSUME NEW c \in Chunks, c > created + 1
               PROVE  /\ count[c] = 0 /\ recFlag[c] = 0
                      /\ \A h \in Heaps : chunk[h] # c
                      /\ \A i \in Slots : ring[i] # c /\ copy[i] # c
                      /\ \A u \in Threads : cur'[u] # c
    BY <1>0 DEF Unborn
  <2>1. c > created /\ c # created + 1
    BY Known
  <2>. QED  BY <1>0, <1>1, <1>3, <2>1 DEF Unborn
<1>f. FlagsOK'
  BY <1>0, <1>1, <1>2, <1>3 DEF FlagsOK, Holding, AllocSteps, FreeSteps
<1>t. Fits'
  BY <1>0, <1>1, <1>2, <1>3 DEF Fits, Chunk
<1>. QED  BY <1>0, <1>3, <1>p, <1>c, <1>n, <1>a, <1>k, <1>z, <1>b, <1>f, <1>t DEF Sound

LEMMA TakeChunkSound ==
  ASSUME TypeOK, LocalsOK, CopyOK, Sound, NEW t \in Threads, TakeChunk(t), ~ misread'
  PROVE  Sound'
<1>0. /\ pc[t] = "take_wait" /\ pc' = [pc EXCEPT ![t] = "install"]
      /\ flag' = flag /\ chunk' = chunk /\ created' = created /\ count' = count /\ recFlag' = recFlag
      /\ slide' = slide /\ heap' = heap /\ blk' = blk /\ again' = again /\ held' = held
      /\ leaked' = leaked /\ copy' = copy
  BY DEF TakeChunk, Goto, heaps, chunks, locals, client, TypeOK
<1>g. /\ ring[at[t]] # None /\ ring[at[t]] # Header /\ ~ Resizing
      /\ ring' = [ring EXCEPT ![at[t]] = None]
      /\ cur' = [cur EXCEPT ![t] = ring[at[t]]]
  <2>1. ring[at[t]] # None /\ TakenFor(t, ring[at[t]])
        /\ ring' = [ring EXCEPT ![at[t]] = None]
        /\ misread' = (misread \/ Resizing \/ ring[at[t]] = Header)
    BY DEF TakeChunk
  <2>2. ~ Resizing /\ ring[at[t]] # Header
    BY <2>1, Zenon
  <2>. QED  BY <2>1, <2>2 DEF TakenFor
<1>h. \A i \in Slots : copy[i] = None
  BY <1>g DEF CopyOK, Nothing
<1>1. /\ pc \in [Threads -> {"idle"} \cup AllocSteps \cup FreeSteps]
      /\ flag \in [Heaps -> Threads \cup {None}] /\ chunk \in [Heaps -> Chunks]
      /\ heap \in [Threads -> Heaps] /\ cur \in [Threads -> Chunks \cup {None}]
      /\ again \in [Threads -> BOOLEAN] /\ blk \in [Threads -> Blocks \cup {None}]
      /\ held \in [Threads -> SUBSET Blocks] /\ ring \in [Slots -> Words]
      /\ slide \in [Chunks -> 0 .. Cap] /\ count \in [Chunks -> Int] /\ at \in [Threads -> Indices]
      /\ recFlag \in [Chunks -> 0 .. 2]
  BY DEF TypeOK
<1>2. /\ heap[t] \in Heaps /\ Chunk(t) = chunk[heap[t]] /\ Chunk(t) \in Chunks
      /\ None \notin Threads /\ None \notin Chunks /\ None \notin Blocks
      /\ pc[t] \in Carrying => cur[t] \in Chunks
  BY Known
<1>3. ~ leaked /\ FlagsOK /\ CountOK /\ Apart /\ Cut /\ OnePlace /\ OutOK /\ Owners /\ Unborn /\ Fits
  BY DEF Sound
<1>x. PICK s \in Slots : s = at[t]
  <2>1. at[t] \in Indices
    BY <1>1
  <2>. QED  BY <2>1, WrapType, Types
<1>y. ring[s] \in Chunks /\ ring' = [ring EXCEPT ![s] = None] /\ cur' = [cur EXCEPT ![t] = ring[s]]
  BY <1>g, <1>1, <1>x DEF Words
<1>p. OnePlace'
  <2>1. \A i \in Slots : ring'[i] = IF i = s THEN None ELSE ring[i]
    BY <1>1, <1>y
  <2>2. \A u \in Threads : /\ cur'[u] = IF u = t THEN ring[s] ELSE cur[u]
                           /\ Out(u)' <=> Out(u) \/ u = t
    BY <1>0, <1>1, <1>y DEF Out, PutSteps
  <2>3. ~ Out(t) /\ \A u \in Threads : Out(u) => cur[u] # None
    BY <1>0 DEF Out, LocalsOK, Carrying, PutSteps
  <2>. QED  BY <1>0, <1>h, <1>2, <1>3, <1>y, <2>1, <2>2, <2>3 DEF OnePlace
<1>q. \A c \in Chunks : IsOut(c)' <=> IsOut(c)
  <2> SUFFICES ASSUME NEW c \in Chunks PROVE IsOut(c)' <=> IsOut(c)
    OBVIOUS
  <2>1. \A i \in Slots : ring'[i] = IF i = s THEN None ELSE ring[i]
    BY <1>1, <1>y
  <2>2. \A u \in Threads : /\ cur'[u] = IF u = t THEN ring[s] ELSE cur[u]
                           /\ Out(u)' <=> Out(u) \/ u = t
    BY <1>0, <1>1, <1>y DEF Out, PutSteps
  <2>3. ~ Out(t) /\ c # None
    BY <1>0, <1>2 DEF Out, PutSteps
  <2>. QED  BY <1>0, <1>h, <2>1, <2>2, <2>3 DEF IsOut
<1>u. \A u \in Threads : InUse(u)' = InUse(u)
  BY <1>0, <1>1, <1>2 DEF InUse
<1>w. \A u \in Threads : \A c \in Chunks : Lowering(u, c)' <=> Lowering(u, c)
  BY <1>0, <1>g, <1>1, <1>2 DEF Lowering, Chunk
<1>c. CountOK'
  BY <1>0, <1>3, <1>u, <1>w, UseFrame
<1>l. \A h \in Heaps : Leaving(h)' <=> Leaving(h)
  BY <1>0, <1>1, <1>2, <1>3 DEF Leaving, FlagsOK, Holding, AllocSteps
<1>n. Owners'
  BY <1>0, <1>1, <1>2, <1>3, <1>q, <1>l DEF Owners
<1>a. Apart'
  BY <1>0, <1>1, <1>2, <1>3, <1>u DEF Apart, InUse
<1>k. Cut'
  BY <1>0, <1>3, <1>u DEF Cut
<1>z. OutOK'
  BY <1>0, <1>3, <1>q DEF OutOK
<1>b. Unborn'
  BY <1>0, <1>1, <1>2, <1>3, <1>h, <1>y DEF Unborn
<1>f. FlagsOK'
  BY <1>0, <1>1, <1>2, <1>3 DEF FlagsOK, Holding, AllocSteps, FreeSteps
<1>t. Fits'
  BY <1>0, <1>1, <1>2, <1>3 DEF Fits, Chunk
<1>. QED  BY <1>0, <1>3, <1>p, <1>c, <1>n, <1>a, <1>k, <1>z, <1>b, <1>f, <1>t DEF Sound

LEMMA InstallSound ==
  ASSUME TypeOK, LocalsOK, Sound, NEW t \in Threads, Install(t)
  PROVE  Sound'
<1>0. /\ pc[t] = "install" /\ pc' = [pc EXCEPT ![t] = "malloc"]
      /\ count' = [count EXCEPT ![cur[t]] = 0]
      /\ recFlag' = [recFlag EXCEPT ![cur[t]] = 0]
      /\ slide' = [slide EXCEPT ![cur[t]] = 0]
      /\ chunk' = [chunk EXCEPT ![heap[t]] = cur[t]]
      /\ cur' = [cur EXCEPT ![t] = None]
      /\ again' = [again EXCEPT ![t] = TRUE]
      /\ flag' = flag /\ created' = created /\ ring' = ring /\ copy' = copy /\ heap' = heap /\ blk' = blk
      /\ held' = held /\ leaked' = leaked
  BY DEF Install, Goto, heaps, chunks, indices, arrays, locals, client, history, TypeOK
<1>1. /\ pc \in [Threads -> {"idle"} \cup AllocSteps \cup FreeSteps]
      /\ flag \in [Heaps -> Threads \cup {None}] /\ chunk \in [Heaps -> Chunks]
      /\ heap \in [Threads -> Heaps] /\ cur \in [Threads -> Chunks \cup {None}]
      /\ again \in [Threads -> BOOLEAN] /\ blk \in [Threads -> Blocks \cup {None}]
      /\ held \in [Threads -> SUBSET Blocks] /\ ring \in [Slots -> Words]
      /\ slide \in [Chunks -> 0 .. Cap] /\ count \in [Chunks -> Int] /\ at \in [Threads -> Indices]
      /\ recFlag \in [Chunks -> 0 .. 2]
  BY DEF TypeOK
<1>2. /\ heap[t] \in Heaps /\ Chunk(t) = chunk[heap[t]] /\ Chunk(t) \in Chunks
      /\ None \notin Threads /\ None \notin Chunks /\ None \notin Blocks
      /\ pc[t] \in Carrying => cur[t] \in Chunks
  BY Known
<1>3. ~ leaked /\ FlagsOK /\ CountOK /\ Apart /\ Cut /\ OnePlace /\ OutOK /\ Owners /\ Unborn /\ Fits
  BY DEF Sound
<1>m. \A h \in Heaps : flag[h] = t <=> h = heap[t]
  BY <1>0, <1>1, <1>2, <1>3 DEF FlagsOK, Holding, AllocSteps
<1>x. /\ cur[t] \in Chunks /\ Out(t) /\ IsOut(cur[t])
  BY <1>0, <1>2 DEF Carrying, PutSteps, Out, IsOut
<1>y. count[cur[t]] = 0 /\ count' = count
  BY <1>0, <1>1, <1>3, <1>x DEF OutOK
<1>r. ASSUME NEW u \in Threads, NEW b \in InUse(u), count[cur[t]] = 0, cur[t] \in Chunks
      PROVE  b[1] # cur[t] /\ b[1] \in Chunks
  <2>1. b \in Blocks /\ b[1] \in Chunks
    BY Known, Consts
  <2>. QED  BY <1>3, <1>r, <2>1, NoUsers
<1>v. ASSUME NEW u \in Threads, u # t, pc[u] \in Holding PROVE heap[u] # heap[t]
  BY <1>0, <1>1, <1>3, <1>v DEF FlagsOK, Holding, AllocSteps
<1>p. OnePlace'
  BY <1>0, <1>1, <1>2, <1>3 DEF OnePlace, Out, PutSteps
<1>q. \A c \in Chunks : IsOut(c)' <=> IsOut(c) /\ c # cur[t]
  <2> SUFFICES ASSUME NEW c \in Chunks PROVE IsOut(c)' <=> IsOut(c) /\ c # cur[t]
    OBVIOUS
  <2>1. \A u \in Threads : /\ Out(u)' <=> Out(u) /\ u # t
                           /\ u # t => cur'[u] = cur[u]
    BY <1>0, <1>1 DEF Out, PutSteps
  <2>. QED  BY <1>0, <1>3, <1>x, <2>1 DEF IsOut, OnePlace
<1>u. \A u \in Threads : InUse(u)' = InUse(u)
  BY <1>0, <1>1, <1>2 DEF InUse
<1>w. \A u \in Threads : \A c \in Chunks : Lowering(u, c)' <=> Lowering(u, c)
  <2> SUFFICES ASSUME NEW u \in Threads, NEW c \in Chunks
               PROVE  Lowering(u, c)' <=> Lowering(u, c)
    OBVIOUS
  <2>1. CASE u = t
    BY <1>0, <1>1, <2>1 DEF Lowering
  <2>2. CASE u # t
    <3>1. pc[u] = "uncount" => Chunk(u)' = Chunk(u)
      BY <1>0, <1>1, <1>v, <2>2 DEF Chunk, Holding, AllocSteps
    <3>. QED  BY <1>0, <1>1, <2>2, <3>1 DEF Lowering
  <2>. QED  BY <2>1, <2>2
<1>c. CountOK'
  BY <1>3, <1>u, <1>w, <1>y, UseFrame
<1>l. \A h \in Heaps : Leaving(h)' <=> Leaving(h) /\ h # heap[t]
  <2> SUFFICES ASSUME NEW h \in Heaps PROVE Leaving(h)' <=> Leaving(h) /\ h # heap[t]
    OBVIOUS
  <2>1. CASE h = heap[t]
    BY <1>0, <1>1, <1>2, <1>m, <2>1 DEF Leaving
  <2>2. CASE h # heap[t]
    BY <1>0, <1>1, <1>2, <1>m, <2>2 DEF Leaving
  <2>. QED  BY <2>1, <2>2
<1>n. Owners'
  <2>1. \A g \in Heaps : ~ Leaving(g) => chunk[g] # cur[t]
    BY <1>3, <1>x DEF Owners
  <2>2. \A g \in Heaps : chunk'[g] = IF g = heap[t] THEN cur[t] ELSE chunk[g]
    BY <1>0, <1>1, <1>2
  <2> SUFFICES ASSUME NEW h \in Heaps, ~ Leaving(h) \/ h = heap[t],
                      NEW c \in Chunks, c = chunk'[h]
               PROVE  /\ recFlag'[c] = 0 /\ ~ IsOut(c)'
                      /\ \A g \in Heaps \ {h} : chunk'[g] = c => Leaving(g) /\ g # heap[t]
    <3>1. \A h \in Heaps : chunk'[h] \in Chunks
      BY <1>1, <1>x, <2>2
    <3>2. \A h \in Heaps : \A c : c = chunk'[h] => (IsOut(chunk[h])' <=> IsOut(c)')
      BY DEF IsOut
    <3>. QED  BY <1>l, <3>1, <3>2 DEF Owners
  <2>3. CASE h = heap[t]
    <3>1. c = cur[t] /\ recFlag'[c] = 0 /\ ~ IsOut(c)'
      BY <1>0, <1>1, <1>q, <2>2, <2>3
    <3>. QED  BY <2>1, <2>2, <2>3, <3>1
  <2>4. CASE h # heap[t]
    <3>1. c = chunk[h] /\ c # cur[t] /\ ~ Leaving(h)
      BY <2>1, <2>2, <2>4
    <3>2. recFlag'[c] = recFlag[c]
      BY <1>0, <1>1, <3>1
    <3>. QED  BY <1>3, <1>q, <2>1, <2>2, <2>4, <3>1, <3>2 DEF Owners
  <2>. QED  BY <2>3, <2>4
<1>a. Apart'
  BY <1>0, <1>1, <1>2, <1>3, <1>u DEF Apart, InUse
<1>k. Cut'
  <2> SUFFICES ASSUME NEW u \in Threads, NEW b \in InUse(u) PROVE b[2] <= slide'[b[1]]
    BY <1>u DEF Cut
  <2>1. b[2] <= slide[b[1]]
    BY <1>3 DEF Cut
  <2>2. b[1] # cur[t] /\ b[1] \in Chunks
    BY <1>r, <1>x, <1>y
  <2>. QED  BY <1>0, <1>1, <2>1, <2>2
<1>z. OutOK'
  BY <1>0, <1>3, <1>q DEF OutOK
<1>b. Unborn'
  BY <1>0, <1>1, <1>2, <1>3 DEF Unborn
<1>f. FlagsOK'
  BY <1>0, <1>1, <1>2, <1>3 DEF FlagsOK, Holding, AllocSteps, FreeSteps
<1>t. Fits'
  <2> SUFFICES ASSUME NEW u \in Threads, again'[u], u # t
               PROVE  /\ pc[u] \notin {"probe", "uncount"}
                      /\ pc[u] \in {"malloc", "count"} => slide'[Chunk(u)'] = 0
    BY <1>0, <1>1, <1>2, <1>x DEF Fits, Chunk
  <2>1. again[u] /\ Chunk(u) \in Chunks
    BY <1>0, <1>1 DEF Chunk
  <2>2. pc[u] \in {"malloc", "count"} => Chunk(u)' = Chunk(u) /\ slide[Chunk(u)] = 0
    BY <1>0, <1>1, <1>3, <1>v, <2>1 DEF Fits, Chunk, Holding, AllocSteps
  <2>. QED  BY <1>0, <1>1, <1>3, <1>x, <2>1, <2>2 DEF Fits
<1>. QED  BY <1>0, <1>3, <1>p, <1>c, <1>n, <1>a, <1>k, <1>z, <1>b, <1>f, <1>t DEF Sound

LEMMA RecoverSound ==
  ASSUME TypeOK, LocalsOK, Sound, NEW t \in Threads, Recover(t), ~ stale'
  PROVE  Sound'
<1>0. /\ pc[t] = "recover" /\ pc' = [pc EXCEPT ![t] = "put_lock"]
      /\ recFlag[cur[t]] = 1 /\ count[cur[t]] = 0
      /\ recFlag' = [recFlag EXCEPT ![cur[t]] = 2]
      /\ flag' = flag /\ chunk' = chunk /\ created' = created /\ count' = count /\ slide' = slide
      /\ ring' = ring /\ copy' = copy /\ heap' = heap /\ cur' = cur /\ blk' = blk /\ again' = again
      /\ held' = held /\ leaked' = leaked
  BY DEF Recover, Goto, heaps, chunks, indices, arrays, locals, client, history, TypeOK
<1>1. /\ pc \in [Threads -> {"idle"} \cup AllocSteps \cup FreeSteps]
      /\ flag \in [Heaps -> Threads \cup {None}] /\ chunk \in [Heaps -> Chunks]
      /\ heap \in [Threads -> Heaps] /\ cur \in [Threads -> Chunks \cup {None}]
      /\ again \in [Threads -> BOOLEAN] /\ blk \in [Threads -> Blocks \cup {None}]
      /\ held \in [Threads -> SUBSET Blocks] /\ ring \in [Slots -> Words]
      /\ slide \in [Chunks -> 0 .. Cap] /\ count \in [Chunks -> Int] /\ at \in [Threads -> Indices]
      /\ recFlag \in [Chunks -> 0 .. 2]
  BY DEF TypeOK
<1>2. /\ heap[t] \in Heaps /\ Chunk(t) = chunk[heap[t]] /\ Chunk(t) \in Chunks
      /\ None \notin Threads /\ None \notin Chunks /\ None \notin Blocks
      /\ pc[t] \in Carrying => cur[t] \in Chunks
  BY Known
<1>3. ~ leaked /\ FlagsOK /\ CountOK /\ Apart /\ Cut /\ OnePlace /\ OutOK /\ Owners /\ Unborn /\ Fits
  BY DEF Sound
<1>x. cur[t] \in Chunks /\ ~ IsOut(cur[t]) /\ ~ Out(t)
  BY <1>0, <1>2, <1>3 DEF Carrying, PutSteps, OutOK, Out
<1>p. OnePlace'
  <2>1. \A u \in Threads : Out(u)' <=> Out(u) \/ u = t
    BY <1>0, <1>1 DEF Out, PutSteps
  <2>2. /\ \A u \in Threads : Out(u) => cur[u] # cur[t]
        /\ \A i \in Slots : ring[i] # cur[t] /\ copy[i] # cur[t]
    BY <1>x DEF IsOut
  <2>. QED  BY <1>0, <1>3, <2>1, <2>2 DEF OnePlace
<1>q. \A c \in Chunks : IsOut(c)' <=> IsOut(c) \/ c = cur[t]
  BY <1>0, <1>1, <1>2, <1>3 DEF IsOut, Out, PutSteps
<1>u. \A u \in Threads : InUse(u)' = InUse(u)
  BY <1>0, <1>1, <1>2 DEF InUse
<1>w. \A u \in Threads : \A c \in Chunks : Lowering(u, c)' <=> Lowering(u, c)
  BY <1>0, <1>1, <1>2 DEF Lowering, Chunk
<1>c. CountOK'
  BY <1>0, <1>3, <1>u, <1>w, UseFrame
<1>l. \A h \in Heaps : Leaving(h)' <=> Leaving(h)
  BY <1>0, <1>1, <1>2, <1>3 DEF Leaving, FlagsOK, Holding, AllocSteps
<1>n. Owners'
  BY <1>0, <1>1, <1>2, <1>3, <1>q, <1>l DEF Owners
<1>a. Apart'
  BY <1>0, <1>1, <1>2, <1>3, <1>u DEF Apart, InUse
<1>k. Cut'
  BY <1>0, <1>3, <1>u DEF Cut
<1>z. OutOK'
  BY <1>0, <1>1, <1>3, <1>q, <1>x DEF OutOK
<1>b. Unborn'
  BY <1>0, <1>1, <1>2, <1>3 DEF Unborn
<1>f. FlagsOK'
  BY <1>0, <1>1, <1>2, <1>3 DEF FlagsOK, Holding, AllocSteps, FreeSteps
<1>t. Fits'
  BY <1>0, <1>1, <1>2, <1>3 DEF Fits, Chunk
<1>. QED  BY <1>0, <1>3, <1>p, <1>c, <1>n, <1>a, <1>k, <1>z, <1>b, <1>f, <1>t DEF Sound

LEMMA NotMarkedSound ==
  ASSUME TypeOK, LocalsOK, Sound, NEW t \in Threads, NotMarked(t)
  PROVE  Sound'
<1>0. /\ pc[t] = "recover" /\ pc' = [pc EXCEPT ![t] = "idle"]
      /\ cur' = [cur EXCEPT ![t] = None]
      /\ flag' = flag /\ chunk' = chunk /\ created' = created /\ count' = count /\ recFlag' = recFlag
      /\ slide' = slide /\ ring' = ring /\ copy' = copy /\ heap' = heap /\ blk' = blk /\ again' = again
      /\ held' = held /\ leaked' = leaked
  BY DEF NotMarked, Goto, heaps, chunks, indices, arrays, locals, client, history, TypeOK
<1>1. /\ pc \in [Threads -> {"idle"} \cup AllocSteps \cup FreeSteps]
      /\ flag \in [Heaps -> Threads \cup {None}] /\ chunk \in [Heaps -> Chunks]
      /\ heap \in [Threads -> Heaps] /\ cur \in [Threads -> Chunks \cup {None}]
      /\ again \in [Threads -> BOOLEAN] /\ blk \in [Threads -> Blocks \cup {None}]
      /\ held \in [Threads -> SUBSET Blocks] /\ ring \in [Slots -> Words]
      /\ slide \in [Chunks -> 0 .. Cap] /\ count \in [Chunks -> Int] /\ at \in [Threads -> Indices]
      /\ recFlag \in [Chunks -> 0 .. 2]
  BY DEF TypeOK
<1>2. /\ heap[t] \in Heaps /\ Chunk(t) = chunk[heap[t]] /\ Chunk(t) \in Chunks
      /\ None \notin Threads /\ None \notin Chunks /\ None \notin Blocks
      /\ pc[t] \in Carrying => cur[t] \in Chunks
  BY Known
<1>3. ~ leaked /\ FlagsOK /\ CountOK /\ Apart /\ Cut /\ OnePlace /\ OutOK /\ Owners /\ Unborn /\ Fits
  BY DEF Sound
<1>o. \A u \in Threads : (Out(u)' <=> Out(u)) /\ (Out(u) => cur'[u] = cur[u])
  BY <1>0, <1>1 DEF Out, PutSteps
<1>p. OnePlace' /\ \A c : IsOut(c)' <=> IsOut(c)
  BY <1>0, <1>3, <1>o, PlaceFrame
<1>u. \A u \in Threads : InUse(u)' = InUse(u)
  BY <1>0, <1>1, <1>2 DEF InUse
<1>w. \A u \in Threads : \A c \in Chunks : Lowering(u, c)' <=> Lowering(u, c)
  BY <1>0, <1>1, <1>2 DEF Lowering, Chunk
<1>c. CountOK'
  BY <1>0, <1>3, <1>u, <1>w, UseFrame
<1>l. \A h \in Heaps : Leaving(h)' <=> Leaving(h)
  BY <1>0, <1>1, <1>2, <1>3 DEF Leaving, FlagsOK, Holding, AllocSteps
<1>n. Owners'
  BY <1>0, <1>3, <1>p, <1>l, OwnFrame
<1>a. Apart'
  BY <1>0, <1>1, <1>2, <1>3, <1>u DEF Apart, InUse
<1>k. Cut'
  BY <1>0, <1>3, <1>u DEF Cut
<1>z. OutOK'
  BY <1>0, <1>3, <1>p DEF OutOK
<1>b. Unborn'
  BY <1>0, <1>1, <1>2, <1>3 DEF Unborn
<1>f. FlagsOK'
  BY <1>0, <1>1, <1>2, <1>3 DEF FlagsOK, Holding, AllocSteps, FreeSteps
<1>t. Fits'
  BY <1>0, <1>1, <1>2, <1>3 DEF Fits, Chunk
<1>. QED  BY <1>0, <1>3, <1>p, <1>c, <1>n, <1>a, <1>k, <1>z, <1>b, <1>f, <1>t DEF Sound

LEMMA PutStoreSound ==
  ASSUME TypeOK, LocalsOK, Sound, NEW t \in Threads, PutStore(t)
  PROVE  Sound'
<1>0. /\ pc[t] = "put_store" /\ pc' = [pc EXCEPT ![t] = "merge_test"]
      /\ ring' = [ring EXCEPT ![at[t]] = cur[t]] \/ ring' = ring
      /\ cur' = [cur EXCEPT ![t] = None]
      /\ flag' = flag /\ chunk' = chunk /\ created' = created /\ count' = count /\ recFlag' = recFlag
      /\ slide' = slide /\ heap' = heap /\ blk' = blk /\ again' = again /\ held' = held
      /\ leaked' = leaked /\ copy' = copy
  BY DEF PutStore, Goto, heaps, chunks, indices, arrays, locals, client, history, TypeOK
<1>1. /\ pc \in [Threads -> {"idle"} \cup AllocSteps \cup FreeSteps]
      /\ flag \in [Heaps -> Threads \cup {None}] /\ chunk \in [Heaps -> Chunks]
      /\ heap \in [Threads -> Heaps] /\ cur \in [Threads -> Chunks \cup {None}]
      /\ again \in [Threads -> BOOLEAN] /\ blk \in [Threads -> Blocks \cup {None}]
      /\ held \in [Threads -> SUBSET Blocks] /\ ring \in [Slots -> Words]
      /\ slide \in [Chunks -> 0 .. Cap] /\ count \in [Chunks -> Int] /\ at \in [Threads -> Indices]
      /\ recFlag \in [Chunks -> 0 .. 2]
  BY DEF TypeOK
<1>2. /\ heap[t] \in Heaps /\ Chunk(t) = chunk[heap[t]] /\ Chunk(t) \in Chunks
      /\ None \notin Threads /\ None \notin Chunks /\ None \notin Blocks
      /\ pc[t] \in Carrying => cur[t] \in Chunks
  BY Known
<1>3. ~ leaked /\ FlagsOK /\ CountOK /\ Apart /\ Cut /\ OnePlace /\ OutOK /\ Owners /\ Unborn /\ Fits
  BY DEF Sound
<1>x. PICK s \in Slots : s = at[t]
  <2>1. at[t] \in Indices
    BY <1>1
  <2>. QED  BY <2>1, WrapType, Types
<1>y. \/ \A i \in Slots : ring'[i] = IF i = s THEN cur[t] ELSE ring[i]
      \/ \A i \in Slots : ring'[i] = ring[i]
  BY <1>0, <1>1, <1>x
<1>v. \A u \in Threads : /\ Out(u)' <=> Out(u) /\ u # t
                         /\ u # t => cur'[u] = cur[u]
  BY <1>0, <1>1 DEF Out, PutSteps
<1>e. Out(t) /\ cur[t] \in Chunks
  BY <1>0, <1>2 DEF Out, PutSteps, Carrying
<1>p. OnePlace'
  BY <1>0, <1>2, <1>3, <1>y, <1>v, <1>e DEF OnePlace
<1>q. \A c \in Chunks : IsOut(c)' => IsOut(c)
  BY <1>0, <1>3, <1>y, <1>v, <1>e DEF IsOut
<1>u. \A u \in Threads : InUse(u)' = InUse(u)
  BY <1>0, <1>1, <1>2 DEF InUse
<1>w. \A u \in Threads : \A c \in Chunks : Lowering(u, c)' <=> Lowering(u, c)
  BY <1>0, <1>1, <1>2 DEF Lowering, Chunk
<1>c. CountOK'
  BY <1>0, <1>3, <1>u, <1>w, UseFrame
<1>l. \A h \in Heaps : Leaving(h)' <=> Leaving(h)
  BY <1>0, <1>1, <1>2, <1>3 DEF Leaving, FlagsOK, Holding, AllocSteps
<1>n. Owners'
  BY <1>0, <1>1, <1>2, <1>3, <1>q, <1>l DEF Owners
<1>a. Apart'
  BY <1>0, <1>1, <1>2, <1>3, <1>u DEF Apart, InUse
<1>k. Cut'
  BY <1>0, <1>3, <1>u DEF Cut
<1>z. OutOK'
  BY <1>0, <1>3, <1>q DEF OutOK
<1>b. Unborn'
  BY <1>0, <1>1, <1>2, <1>3, <1>y DEF Unborn
<1>f. FlagsOK'
  BY <1>0, <1>1, <1>2, <1>3 DEF FlagsOK, Holding, AllocSteps, FreeSteps
<1>t. Fits'
  BY <1>0, <1>1, <1>2, <1>3 DEF Fits, Chunk
<1>. QED  BY <1>0, <1>3, <1>p, <1>c, <1>n, <1>a, <1>k, <1>z, <1>b, <1>f, <1>t DEF Sound

LEMMA HeapBusySound ==
  ASSUME TypeOK, LocalsOK, Sound, NEW t \in Threads, HeapBusy(t)
  PROVE  Sound'
<1>1. /\ pc \in [Threads -> {"idle"} \cup AllocSteps \cup FreeSteps]
      /\ flag \in [Heaps -> Threads \cup {None}] /\ heap \in [Threads -> Heaps]
      /\ again \in [Threads -> BOOLEAN]
  BY DEF TypeOK
<1>2. PICK h, l : /\ heap' = [heap EXCEPT ![t] = h]
                  /\ l \in {"probe", "idle"} /\ pc' = [pc EXCEPT ![t] = l]
  BY DEF HeapBusy, NextHeap, Goto
<1>3. /\ pc[t] = "probe" /\ flag' = flag /\ chunk' = chunk /\ created' = created
      /\ count' = count /\ recFlag' = recFlag /\ slide' = slide /\ ring' = ring /\ copy' = copy
      /\ cur' = cur /\ blk' = blk /\ again' = again /\ held' = held /\ leaked' = leaked
  BY DEF HeapBusy, heaps, chunks, indices, arrays, client
<1>4. ~ leaked /\ FlagsOK /\ CountOK /\ Apart /\ Cut /\ OnePlace /\ OutOK /\ Owners /\ Unborn /\ Fits
  BY DEF Sound
<1>5. \A u \in Threads : (Out(u)' <=> Out(u)) /\ InUse(u)' = InUse(u)
  BY <1>1, <1>2, <1>3 DEF Out, PutSteps, InUse
<1>6. \A u \in Threads : \A c \in Chunks : Lowering(u, c)' <=> Lowering(u, c)
  BY <1>1, <1>2, <1>3 DEF Lowering, Chunk
<1>7. \A g \in Heaps : Leaving(g)' <=> Leaving(g)
  BY <1>1, <1>2, <1>3 DEF Leaving
<1>8. OnePlace' /\ \A c : IsOut(c)' <=> IsOut(c)
  BY <1>3, <1>4, <1>5, PlaceFrame
<1>9. Owners'
  BY <1>3, <1>4, <1>7, <1>8, OwnFrame
<1>10. CountOK'
  BY <1>3, <1>4, <1>5, <1>6, UseFrame
<1>11. Apart' /\ Cut'
  BY <1>3, <1>4, <1>5 DEF Apart, Cut
<1>12. OutOK' /\ Unborn'
  BY <1>3, <1>4, <1>8 DEF OutOK, Unborn
<1>13. FlagsOK'
  BY <1>1, <1>2, <1>3, <1>4 DEF FlagsOK, Holding, AllocSteps
<1>14. Fits'
  BY <1>1, <1>2, <1>3, <1>4 DEF Fits, Chunk
<1>. QED
  BY <1>3, <1>4, <1>8, <1>9, <1>10, <1>11, <1>12, <1>13, <1>14 DEF Sound

\* A block that is cut is not in use: those of its chunk that are were cut
\* before it.
LEMMA MallocCountSound ==
  ASSUME TypeOK, LocalsOK, Sound, NEW t \in Threads, MallocCount(t)
  PROVE  Sound'
<1>1. /\ pc \in [Threads -> {"idle"} \cup AllocSteps \cup FreeSteps]
      /\ flag \in [Heaps -> Threads \cup {None}] /\ heap \in [Threads -> Heaps]
      /\ again \in [Threads -> BOOLEAN] /\ blk \in [Threads -> Blocks \cup {None}]
      /\ held \in [Threads -> SUBSET Blocks] /\ slide \in [Chunks -> 0 .. Cap]
      /\ chunk \in [Heaps -> Chunks] /\ count \in [Chunks -> Int]
  BY DEF TypeOK
<1>2. PICK c \in Chunks : c = Chunk(t)
  BY Known
<1>3. /\ pc[t] = "count" /\ flag' = flag /\ chunk' = chunk /\ created' = created
      /\ count' = [count EXCEPT ![c] = count[c] + 1] /\ recFlag' = recFlag
      /\ ring' = ring /\ copy' = copy /\ heap' = heap /\ cur' = cur /\ again' = again /\ held' = held
      /\ leaked' = leaked
  BY <1>2 DEF MallocCount, heaps, indices, arrays, client, history
<1>4. /\ ~ leaked /\ FlagsOK /\ CountOK /\ Apart /\ Cut /\ OnePlace /\ OutOK /\ Owners
      /\ Unborn /\ Fits
  BY DEF Sound
<1>5. PICK l \in {"clear", "uncount"} : pc' = [pc EXCEPT ![t] = l]
  BY DEF MallocCount, Goto
<1>6. flag[heap[t]] = t /\ ~ Leaving(heap[t]) /\ chunk[heap[t]] = c /\ heap[t] \in Heaps
  BY <1>1, <1>2, <1>3, <1>4 DEF FlagsOK, Holding, AllocSteps, Leaving, Chunk
<1>7. \A u \in Threads : (Out(u)' <=> Out(u))
  BY <1>1, <1>3, <1>5 DEF Out, PutSteps
<1>8. OnePlace' /\ \A d : IsOut(d)' <=> IsOut(d)
  BY <1>3, <1>4, <1>7, PlaceFrame
<1>9. \A h \in Heaps : Leaving(h)' <=> Leaving(h)
  <2> SUFFICES ASSUME NEW h \in Heaps, flag[h] # None PROVE Leaving(h)' <=> Leaving(h)
    BY <1>3 DEF Leaving
  <2>. QED  BY <1>1, <1>3, <1>5 DEF Leaving
<1>10. Owners'
  BY <1>3, <1>4, <1>8, <1>9, OwnFrame
<1>11. OutOK'
  <2>1. ~ IsOut(c)
    BY <1>4, <1>6 DEF Owners
  <2>. QED  BY <1>1, <1>3, <1>4, <1>8, <2>1 DEF OutOK
<1>12. Unborn'
  <2>1. ~ c > created
    BY <1>4, <1>6 DEF Unborn
  <2>. QED  BY <1>1, <1>3, <1>4, <2>1 DEF Unborn
<1>13. FlagsOK'
  BY <1>1, <1>3, <1>4, <1>5 DEF FlagsOK, Holding, AllocSteps
<1>14. blk[t] = None /\ None \notin Blocks
  BY <1>1, <1>3, Known DEF LocalsOK
<1>15. \A u \in Threads, d \in Chunks :
         Lowering(u, d)' <=> Lowering(u, d) \/ (u = t /\ d = c /\ l = "uncount")
  <2> SUFFICES ASSUME NEW u \in Threads, NEW d \in Chunks
               PROVE  Lowering(u, d)' <=> Lowering(u, d) \/ (u = t /\ d = c /\ l = "uncount")
    OBVIOUS
  <2>1. CASE u = t
    BY <1>1, <1>2, <1>3, <1>5, <2>1 DEF Lowering, Chunk
  <2>2. CASE u # t
    BY <1>1, <1>2, <1>3, <1>5, <2>2 DEF Lowering, Chunk
  <2>. QED  BY <2>1, <2>2
<1>16. CASE slide[c] < Cap
  <2>1. PICK b \in Blocks : b = <<c, slide[c] + 1>>
    <3>1. slide[c] + 1 \in 1 .. Cap
      BY <1>1, <1>16, SizesAssumption
    <3>. QED  BY <3>1 DEF Blocks
  <2>2. /\ slide' = [slide EXCEPT ![c] = slide[c] + 1] /\ blk' = [blk EXCEPT ![t] = b]
        /\ l = "clear"
    BY <1>1, <1>2, <1>5, <1>16, <2>1 DEF MallocCount, Goto
  <2>3. \A u \in Threads : b \notin InUse(u)
    <3>1. b[1] = c /\ b[2] = slide[c] + 1 /\ slide[c] \in Int
      BY <1>1, <2>1
    <3>. QED  BY <1>4, <3>1 DEF Cut
  <2>4. \A u \in Threads : InUse(u)' = IF u = t THEN InUse(u) \cup {b} ELSE InUse(u)
    BY <1>1, <1>3, <1>14, <2>2 DEF InUse
  <2>5. Apart'
    <3>1. \A u \in Threads : blk'[u] \notin held[u]
      BY <1>1, <1>4, <2>2, <2>3 DEF Apart, InUse
    <3>. QED  BY <1>3, <1>4, <2>3, <2>4, <3>1 DEF Apart
  <2>6. Cut'
    <3> SUFFICES ASSUME NEW u \in Threads, NEW d \in InUse(u) \cup {b}, d = b \/ d \in InUse(u)
                 PROVE  d[2] <= slide'[d[1]]
      BY <2>4 DEF Cut
    <3>1. CASE d = b
      BY <1>1, <2>1, <2>2, <3>1
    <3>2. CASE d \in InUse(u)
      <4>1. d[2] <= slide[d[1]] /\ d[1] \in Chunks /\ d[2] \in 1 .. Cap
        BY <1>4, <3>2, Known, Consts DEF Cut
      <4>2. slide'[d[1]] >= slide[d[1]] /\ slide[d[1]] \in Int /\ slide'[d[1]] \in Int
        BY <1>1, <2>2, <4>1
      <4>. QED  BY <4>1, <4>2, SizesAssumption
    <3>. QED  BY <3>1, <3>2
  <2>7. Users(c)' = Users(c) \cup {<<1, b>>}
    BY <1>15, <2>1, <2>2, <2>4 DEF Users
  <2>8. \A d \in Chunks \ {c} : Users(d)' = Users(d)
    BY <1>15, <2>1, <2>2, <2>4 DEF Users
  <2>9. <<1, b>> \notin Users(c)
    BY <2>3 DEF Users
  <2>10. CountOK'
    BY <1>3, <1>4, <2>7, <2>8, <2>9, OneMore
  <2>11. Fits'
    <3> SUFFICES ASSUME NEW u \in Threads, again[u], u # t
                 PROVE  /\ pc[u] \notin {"probe", "uncount"}
                        /\ pc[u] \in {"malloc", "count"} => slide'[Chunk(u)] = 0
      BY <1>1, <1>3, <1>5, <2>2 DEF Fits, Chunk
    <3>1. pc[u] \in {"malloc", "count"} => Chunk(u) # c
      <4> SUFFICES ASSUME pc[u] \in {"malloc", "count"} PROVE Chunk(u) # c
        OBVIOUS
      <4>1. flag[heap[u]] = u /\ ~ Leaving(heap[u]) /\ heap[u] \in Heaps /\ heap[u] # heap[t]
        BY <1>1, <1>4, <1>6 DEF FlagsOK, Holding, AllocSteps, Leaving
      <4>. QED  BY <1>4, <1>6, <4>1 DEF Owners, Chunk
    <3>. QED  BY <1>1, <1>4, <2>2, <3>1 DEF Fits
  <2>. QED
    BY <1>3, <1>4, <1>8, <1>10, <1>11, <1>12, <1>13, <2>5, <2>6, <2>10, <2>11 DEF Sound
<1>17. CASE ~ slide[c] < Cap
  <2>1. slide' = slide /\ blk' = blk /\ l = "uncount"
    BY <1>1, <1>2, <1>5, <1>17 DEF MallocCount, Goto
  <2>2. \A u \in Threads : InUse(u)' = InUse(u)
    BY <1>3, <2>1 DEF InUse
  <2>3. Apart' /\ Cut'
    BY <1>3, <1>4, <2>1, <2>2 DEF Apart, Cut
  <2>4. Users(c)' = Users(c) \cup {<<2, t>>}
    BY <1>15, <2>1, <2>2 DEF Users
  <2>5. \A d \in Chunks \ {c} : Users(d)' = Users(d)
    BY <1>15, <2>1, <2>2 DEF Users
  <2>6. <<2, t>> \notin Users(c)
    BY <1>3 DEF Users, Lowering
  <2>7. CountOK'
    BY <1>3, <1>4, <2>4, <2>5, <2>6, OneMore
  <2>8. ~ again[t]
    BY <1>1, <1>2, <1>3, <1>4, <1>17, SizesAssumption DEF Fits
  <2>9. Fits'
    BY <1>1, <1>3, <1>4, <1>5, <2>1, <2>8 DEF Fits, Chunk
  <2>. QED
    BY <1>3, <1>4, <1>8, <1>10, <1>11, <1>12, <1>13, <2>3, <2>7, <2>9 DEF Sound
<1>. QED  BY <1>16, <1>17

\* Only the first _malloc finds no room.
LEMMA MallocUncountSound ==
  ASSUME TypeOK, LocalsOK, Sound, NEW t \in Threads, MallocUncount(t)
  PROVE  Sound'
<1>1. /\ pc \in [Threads -> {"idle"} \cup AllocSteps \cup FreeSteps]
      /\ flag \in [Heaps -> Threads \cup {None}] /\ heap \in [Threads -> Heaps]
      /\ again \in [Threads -> BOOLEAN] /\ count \in [Chunks -> Int]
      /\ chunk \in [Heaps -> Chunks]
  BY DEF TypeOK
<1>2. PICK c \in Chunks : c = Chunk(t)
  BY Known
<1>3. ~ leaked /\ FlagsOK /\ CountOK /\ Apart /\ Cut /\ OnePlace /\ OutOK /\ Owners /\ Unborn /\ Fits
  BY DEF Sound
<1>4. pc[t] = "uncount" /\ ~ again[t]
  BY <1>3 DEF MallocUncount, Fits
<1>5. /\ pc' = [pc EXCEPT ![t] = "full"] /\ flag' = flag /\ chunk' = chunk
      /\ created' = created /\ count' = [count EXCEPT ![c] = count[c] - 1]
      /\ recFlag' = recFlag /\ slide' = slide /\ ring' = ring /\ copy' = copy /\ heap' = heap
      /\ cur' = cur /\ blk' = blk /\ again' = again /\ held' = held /\ ~ leaked'
  BY <1>2, <1>3, <1>4 DEF MallocUncount, Goto, heaps, indices, arrays, client
<1>6. flag[heap[t]] = t /\ ~ Leaving(heap[t]) /\ chunk[heap[t]] = c /\ heap[t] \in Heaps
  BY <1>1, <1>2, <1>3, <1>4 DEF FlagsOK, Holding, AllocSteps, Leaving, Chunk
<1>7. \A u \in Threads : (Out(u)' <=> Out(u)) /\ InUse(u)' = InUse(u)
  BY <1>1, <1>4, <1>5 DEF Out, PutSteps, InUse
<1>8. OnePlace' /\ \A d : IsOut(d)' <=> IsOut(d)
  BY <1>3, <1>5, <1>7, PlaceFrame
<1>9. \A h \in Heaps : Leaving(h)' <=> Leaving(h)
  <2> SUFFICES ASSUME NEW h \in Heaps, flag[h] # None PROVE Leaving(h)' <=> Leaving(h)
    BY <1>5 DEF Leaving
  <2>. QED  BY <1>1, <1>4, <1>5 DEF Leaving
<1>10. Owners'
  BY <1>3, <1>5, <1>8, <1>9, OwnFrame
<1>11. OutOK'
  <2>1. ~ IsOut(c)
    BY <1>3, <1>6 DEF Owners
  <2>. QED  BY <1>1, <1>3, <1>5, <1>8, <2>1 DEF OutOK
<1>12. Unborn'
  <2>1. ~ c > created
    BY <1>3, <1>6 DEF Unborn
  <2>. QED  BY <1>1, <1>3, <1>5, <2>1 DEF Unborn
<1>13. FlagsOK'
  BY <1>1, <1>3, <1>4, <1>5 DEF FlagsOK, Holding, AllocSteps
<1>14. \A u \in Threads, d \in Chunks : Lowering(u, d)' <=> Lowering(u, d) /\ u # t
  <2> SUFFICES ASSUME NEW u \in Threads, NEW d \in Chunks
               PROVE  Lowering(u, d)' <=> Lowering(u, d) /\ u # t
    OBVIOUS
  <2>1. CASE u = t
    BY <1>1, <1>5, <2>1 DEF Lowering
  <2>2. CASE u # t
    BY <1>1, <1>5, <2>2 DEF Lowering, Chunk
  <2>. QED  BY <2>1, <2>2
<1>15. Lowering(t, c) /\ \A d \in Chunks \ {c} : ~ Lowering(t, d)
  BY <1>2, <1>4 DEF Lowering
<1>16. Users(c)' = Users(c) \ {<<2, t>>}
  BY <1>7, <1>14 DEF Users
<1>17. \A d \in Chunks \ {c} : Users(d)' = Users(d)
  BY <1>7, <1>14, <1>15 DEF Users
<1>18. <<2, t>> \in Users(c)
  BY <1>15 DEF Users
<1>19. CountOK'
  BY <1>3, <1>5, <1>16, <1>17, <1>18, OneLess
<1>20. Apart' /\ Cut' /\ Fits'
  BY <1>1, <1>3, <1>4, <1>5, <1>7 DEF Apart, Cut, Fits, Chunk
<1>. QED
  BY <1>3, <1>5, <1>8, <1>10, <1>11, <1>12, <1>13, <1>19, <1>20 DEF Sound

\* The block is in use no more, and the thread is about to lower the count.
LEMMA CallFreeSound ==
  ASSUME TypeOK, LocalsOK, Sound, NEW t \in Threads, CallFree(t)
  PROVE  Sound'
<1>1. /\ pc \in [Threads -> {"idle"} \cup AllocSteps \cup FreeSteps]
      /\ flag \in [Heaps -> Threads \cup {None}] /\ heap \in [Threads -> Heaps]
      /\ again \in [Threads -> BOOLEAN] /\ blk \in [Threads -> Blocks \cup {None}]
      /\ held \in [Threads -> SUBSET Blocks] /\ cur \in [Threads -> Chunks \cup {None}]
      /\ count \in [Chunks -> Int]
  BY DEF TypeOK
<1>2. PICK b \in held[t] : /\ held' = [held EXCEPT ![t] = held[t] \ {b}]
                           /\ cur' = [cur EXCEPT ![t] = b[1]]
  BY <1>1 DEF CallFree
<1>3. PICK c \in Chunks : c = b[1]
  BY <1>1, <1>2, Consts
<1>4. /\ pc[t] = "idle" /\ pc' = [pc EXCEPT ![t] = "uncount_block"] /\ flag' = flag
      /\ chunk' = chunk /\ created' = created /\ count' = count /\ recFlag' = recFlag
      /\ slide' = slide /\ ring' = ring /\ copy' = copy /\ heap' = heap /\ blk' = blk /\ again' = again
      /\ leaked' = leaked
  BY DEF CallFree, Goto, heaps, chunks, indices, arrays, history
<1>5. ~ leaked /\ FlagsOK /\ CountOK /\ Apart /\ Cut /\ OnePlace /\ OutOK /\ Owners /\ Unborn /\ Fits
  BY DEF Sound
<1>6. \A u \in Threads : (Out(u)' <=> Out(u)) /\ (Out(u) => cur'[u] = cur[u])
  BY <1>1, <1>2, <1>4 DEF Out, PutSteps
<1>7. OnePlace' /\ \A d : IsOut(d)' <=> IsOut(d)
  BY <1>4, <1>5, <1>6, PlaceFrame
<1>8. \A h \in Heaps : Leaving(h)' <=> Leaving(h)
  <2> SUFFICES ASSUME NEW h \in Heaps, flag[h] # None PROVE Leaving(h)' <=> Leaving(h)
    BY <1>4 DEF Leaving
  <2>. QED  BY <1>1, <1>4 DEF Leaving
<1>9. Owners'
  BY <1>4, <1>5, <1>7, <1>8, OwnFrame
<1>10. OutOK'
  BY <1>4, <1>5, <1>7 DEF OutOK
<1>11. FlagsOK' /\ Fits'
  BY <1>1, <1>4, <1>5 DEF FlagsOK, Fits, Holding, AllocSteps, Chunk
<1>12. blk[t] = None /\ b # None /\ b \in Blocks /\ \A u \in Threads : blk[u] # b
  <2>1. blk[t] = None /\ b # None /\ b \in Blocks
    BY <1>1, <1>2, <1>4, Known DEF LocalsOK
  <2>2. ASSUME NEW u \in Threads, blk[u] = b PROVE FALSE
    BY <1>2, <1>5, <2>1, <2>2 DEF Apart, InUse
  <2>. QED  BY <2>1, <2>2
<1>13. \A u \in Threads : InUse(u)' = InUse(u) \ {b}
  <2> SUFFICES ASSUME NEW u \in Threads PROVE InUse(u)' = InUse(u) \ {b}
    OBVIOUS
  <2>1. CASE u = t
    BY <1>1, <1>2, <1>4, <1>12, <2>1 DEF InUse
  <2>2. CASE u # t
    <3>1. b \in InUse(t)
      BY <1>2 DEF InUse
    <3>. QED  BY <1>1, <1>2, <1>4, <1>5, <2>2, <3>1 DEF InUse, Apart
  <2>. QED  BY <2>1, <2>2
<1>14. Apart' /\ Cut'
  BY <1>1, <1>2, <1>4, <1>5, <1>13 DEF Apart, Cut
<1>15. \A u \in Threads, d \in Chunks : Lowering(u, d)' <=> Lowering(u, d) \/ (u = t /\ d = c)
  <2> SUFFICES ASSUME NEW u \in Threads, NEW d \in Chunks
               PROVE  Lowering(u, d)' <=> Lowering(u, d) \/ (u = t /\ d = c)
    OBVIOUS
  <2>1. CASE u = t
    BY <1>1, <1>2, <1>3, <1>4, <2>1 DEF Lowering
  <2>2. CASE u # t
    BY <1>1, <1>2, <1>4, <2>2 DEF Lowering, Chunk
  <2>. QED  BY <2>1, <2>2
<1>16. ~ Lowering(t, c)
  BY <1>4 DEF Lowering
<1>17. <<1, b>> \in Users(c) /\ <<2, t>> \notin Users(c)
  <2>1. b \in InUse(t)
    BY <1>2 DEF InUse
  <2>. QED  BY <1>3, <1>12, <1>16, <2>1 DEF Users
<1>18. Users(c)' = (Users(c) \ {<<1, b>>}) \cup {<<2, t>>}
  BY <1>3, <1>13, <1>15 DEF Users
<1>19. \A d \in Chunks \ {c} : Users(d)' = Users(d)
  BY <1>3, <1>13, <1>15 DEF Users
<1>20. CountOK'
  <2>1. IsFiniteSet(Users(c)) /\ count[c] = Cardinality(Users(c)) /\ count[c] \in Int
    BY <1>1, <1>5 DEF CountOK
  <2>2. /\ IsFiniteSet(Users(c) \ {<<1, b>>})
        /\ Cardinality(Users(c) \ {<<1, b>>}) = Cardinality(Users(c)) - 1
    BY <1>17, <2>1, FS_RemoveElement
  <2>3. /\ IsFiniteSet(Users(c)')
        /\ Cardinality(Users(c)') = Cardinality(Users(c) \ {<<1, b>>}) + 1
    <3>1. <<2, t>> \notin Users(c) \ {<<1, b>>}
      BY <1>17
    <3>2. /\ IsFiniteSet((Users(c) \ {<<1, b>>}) \cup {<<2, t>>})
          /\ Cardinality((Users(c) \ {<<1, b>>}) \cup {<<2, t>>})
               = Cardinality(Users(c) \ {<<1, b>>}) + 1
      BY <2>2, <3>1, FS_AddElement
    <3>. QED  BY <1>18, <3>2
  <2>4. IsFiniteSet(Users(c)') /\ count'[c] = Cardinality(Users(c)')
    BY <1>4, <2>1, <2>2, <2>3
  <2>5. \A d \in Chunks \ {c} : IsFiniteSet(Users(d)') /\ count'[d] = Cardinality(Users(d)')
    BY <1>4, <1>5, <1>19 DEF CountOK
  <2>. QED  BY <2>4, <2>5 DEF CountOK
<1>21. Unborn'
  <2>1. c > created => count[c] = 0
    BY <1>5 DEF Unborn
  <2>2. count[c] # 0
    <3>1. b \in InUse(t) /\ b \in Blocks
      BY <1>2, <1>12 DEF InUse
    <3>. QED  BY <1>3, <1>5, <3>1, NoUsers
  <2>. QED  BY <1>1, <1>2, <1>3, <1>4, <1>5, <2>1, <2>2 DEF Unborn
<1>. QED
  BY <1>4, <1>5, <1>7, <1>9, <1>10, <1>11, <1>14, <1>20, <1>21 DEF Sound

LEMMA UncountBlockSound ==
  ASSUME TypeOK, LocalsOK, Sound, NEW t \in Threads, UncountBlock(t)
  PROVE  Sound'
<1>1. /\ pc \in [Threads -> {"idle"} \cup AllocSteps \cup FreeSteps]
      /\ flag \in [Heaps -> Threads \cup {None}] /\ heap \in [Threads -> Heaps]
      /\ again \in [Threads -> BOOLEAN] /\ cur \in [Threads -> Chunks \cup {None}]
      /\ count \in [Chunks -> Int]
  BY DEF TypeOK
<1>2. pc[t] = "uncount_block"
  BY DEF UncountBlock
<1>3. PICK c \in Chunks : c = cur[t]
  BY <1>2, Known DEF Carrying
<1>4. PICK x \in {c, None}, l \in {"recover", "idle"} :
        pc' = [pc EXCEPT ![t] = l] /\ cur' = [cur EXCEPT ![t] = x]
  <2>1. CASE count[c] = 1
    <3>1. cur' = [cur EXCEPT ![t] = c] /\ pc' = [pc EXCEPT ![t] = "recover"]
      BY <1>1, <1>3, <2>1 DEF UncountBlock, Goto
    <3>. QED  BY <3>1
  <2>2. CASE count[c] # 1
    BY <1>3, <2>2 DEF UncountBlock, Goto
  <2>. QED  BY <2>1, <2>2
<1>5. /\ flag' = flag /\ chunk' = chunk /\ created' = created
      /\ count' = [count EXCEPT ![c] = count[c] - 1] /\ recFlag' = recFlag
      /\ slide' = slide /\ ring' = ring /\ copy' = copy /\ heap' = heap /\ blk' = blk /\ again' = again
      /\ held' = held /\ leaked' = leaked
  BY <1>3 DEF UncountBlock, heaps, indices, arrays, client, history
<1>6. ~ leaked /\ FlagsOK /\ CountOK /\ Apart /\ Cut /\ OnePlace /\ OutOK /\ Owners /\ Unborn /\ Fits
  BY DEF Sound
<1>7. Lowering(t, c) /\ \A d \in Chunks \ {c} : ~ Lowering(t, d)
  BY <1>2, <1>3 DEF Lowering
<1>8. count[c] # 0 /\ ~ c > created /\ ~ IsOut(c)
  <2>1. count[c] # 0
    BY <1>6, <1>7, NoUsers
  <2>. QED  BY <1>6, <2>1 DEF Unborn, OutOK
<1>9. \A u \in Threads : /\ Out(u)' <=> Out(u)
                         /\ Out(u) => cur'[u] = cur[u]
                         /\ InUse(u)' = InUse(u)
  BY <1>1, <1>2, <1>4, <1>5 DEF Out, PutSteps, InUse
<1>10. OnePlace' /\ \A d : IsOut(d)' <=> IsOut(d)
  BY <1>5, <1>6, <1>9, PlaceFrame
<1>11. \A h \in Heaps : Leaving(h)' <=> Leaving(h)
  <2> SUFFICES ASSUME NEW h \in Heaps, flag[h] # None PROVE Leaving(h)' <=> Leaving(h)
    BY <1>5 DEF Leaving
  <2>. QED  BY <1>1, <1>2, <1>4, <1>5 DEF Leaving
<1>12. Owners'
  BY <1>5, <1>6, <1>10, <1>11, OwnFrame
<1>13. OutOK'
  BY <1>1, <1>5, <1>6, <1>8, <1>10 DEF OutOK
<1>14. Unborn'
  BY <1>1, <1>4, <1>5, <1>6, <1>8, Known DEF Unborn
<1>15. FlagsOK' /\ Fits'
  BY <1>1, <1>2, <1>4, <1>5, <1>6 DEF FlagsOK, Fits, Holding, AllocSteps, Chunk
<1>16. Apart' /\ Cut'
  BY <1>5, <1>6, <1>9 DEF Apart, Cut
<1>17. \A u \in Threads, d \in Chunks : Lowering(u, d)' <=> Lowering(u, d) /\ u # t
  <2> SUFFICES ASSUME NEW u \in Threads, NEW d \in Chunks
               PROVE  Lowering(u, d)' <=> Lowering(u, d) /\ u # t
    OBVIOUS
  <2>1. CASE u = t
    BY <1>1, <1>4, <2>1 DEF Lowering
  <2>2. CASE u # t
    BY <1>1, <1>4, <1>5, <2>2 DEF Lowering, Chunk
  <2>. QED  BY <2>1, <2>2
<1>18. Users(c)' = Users(c) \ {<<2, t>>}
  BY <1>9, <1>17 DEF Users
<1>19. \A d \in Chunks \ {c} : Users(d)' = Users(d)
  BY <1>7, <1>9, <1>17 DEF Users
<1>20. <<2, t>> \in Users(c)
  BY <1>7 DEF Users
<1>21. CountOK'
  BY <1>5, <1>6, <1>18, <1>19, <1>20, OneLess
<1>. QED
  BY <1>5, <1>6, <1>10, <1>12, <1>13, <1>14, <1>15, <1>16, <1>21 DEF Sound

-----------------------------------------------------------------------------
LEMMA InitBlocks == Init => BlocksInv
<1> SUFFICES ASSUME Init PROVE BlocksInv
  OBVIOUS
<1>1. PICK n \in Nat : n >= NHeaps /\ Chunks = 1 .. n
  BY Consts
<1>2. \A h \in Heaps : h + 1 \in Chunks /\ h + 1 <= NHeaps /\ h + 1 \in Nat /\ h \in Nat
  BY <1>1, Consts
<1>3. NHeaps \in Chunks /\ 0 \in Int
  BY <1>1, Consts
<1>4. TypeOK
  <2>1. HeapTypes
    BY <1>2, <1>3, SizesAssumption DEF Init, HeapTypes
  <2>2. RingTypes
    BY Consts DEF Init, RingTypes, Words, Slots, MaxRing, Indices, Nothing
  <2>4. LocalTypes
    BY <2>2, Consts, WrapType DEF Init, LocalTypes
  <2>3. ClientTypes
    <3>1. 0 \in 0 .. MaxCalls
      BY BoundsAssumption
    <3>. QED  BY <3>1 DEF Init, ClientTypes
  <2>. QED  BY <2>1, <2>2, <2>3, <2>4, Types
<1>5. LocalsOK
  BY DEF Init, LocalsOK, Seeking, Carrying, AllocSteps, PutSteps
<1>6. CreatedOK
  <2>1. Created({})
    BY Consts, FS_EmptySet DEF Init, Created
  <2>. QED  BY <2>1 DEF CreatedOK
<1>7. \A u \in Threads : InUse(u) = {} /\ ~ Out(u) /\ \A c : ~ Lowering(u, c)
  BY DEF Init, InUse, Out, PutSteps, Lowering
<1>8. CountOK
  <2>1. \A c \in Chunks : Users(c) = {}
    BY <1>7 DEF Users
  <2>. QED  BY <2>1, FS_EmptySet DEF CountOK, Init
<1>9. Apart /\ Cut
  <2>1. \A u \in Threads : blk[u] \notin held[u]
    BY DEF Init
  <2>. QED  BY <1>7, <2>1 DEF Apart, Cut
<1>e. /\ \A i \in Slots : ring[i] \notin Chunks /\ copy[i] \notin Chunks
      /\ CopyOK
  BY Consts DEF Init, Nothing, CopyOK
<1>10. \A c \in Chunks : ~ IsOut(c)
  BY <1>7, <1>e DEF IsOut
<1>11. OnePlace /\ OutOK
  BY <1>7, <1>e, <1>10 DEF OnePlace, OutOK
<1>12. Owners
  BY <1>2, <1>10 DEF Owners, Init
<1>13. Unborn
  <2>1. \A c \in Chunks : c > NHeaps => \A h \in Heaps : h + 1 # c
    BY <1>2, Consts
  <2>. QED  BY <1>e, <2>1, Consts DEF Unborn, Init
<1>14. FlagsOK /\ Fits
  BY Consts DEF FlagsOK, Fits, Init, Holding, AllocSteps
<1>. QED
  BY <1>4, <1>5, <1>6, <1>e, <1>8, <1>9, <1>11, <1>12, <1>13, <1>14 DEF BlocksInv, Sound, Init

\* A gap that was met stays met.
LEMMA LateOrMisread ==
  ASSUME TypeOK, NEW t \in Threads, Alloc(t) \/ Free(t)
  PROVE  (~ stale' => ~ stale) /\ (~ misread' => ~ misread)
<1>1. Unmark(t) => stale' = (stale \/ count[Chunk(t)] # 0) /\ misread' = misread
  BY DEF Unmark
<1>2. Recover(t) => stale' = (stale \/ count[cur[t]] # 0) /\ misread' = misread
  BY DEF Recover
<1>3. TakeChunk(t) => /\ stale' = stale
                      /\ \/ misread' = (misread \/ Resizing \/ ring[at[t]] = Header)
                         \/ misread' = TRUE
  BY DEF TakeChunk
<1>4. \/ stale' = stale /\ misread' = misread
      \/ Unmark(t) \/ Recover(t) \/ TakeChunk(t)
  BY DEF Alloc, Malloc, AllocSmall, FindChunk, Free, RecoverChunk, CallAlloc, TakeHeap, HeapBusy,
         ClearHeap, MallocReset, MallocCount, MallocUncount, FullButEmpty, FullInUse, MarkChunk,
         Recheck, UnmarkFails, TakeLock, CreateChunk, TakeTest, TakeSwap, Install,
         CallFree, UncountBlock, NotMarked, PutLock, PutTest, PutAlone, PutFull, NoResize,
         Resize, ResizeDone, PutSwap, PutStore, MergeTest, MergeCall, Merge, history
<1>5. CASE Unmark(t) \/ Recover(t)
  <2>1. ASSUME ~ stale' PROVE ~ stale
    BY <1>1, <1>2, <1>5, <2>1
  <2>2. misread' = misread
    BY <1>1, <1>2, <1>5
  <2>. QED  BY <2>1, <2>2
<1>6. CASE TakeChunk(t)
  <2>1. stale' = stale
    BY <1>3, <1>6
  <2>2. CASE misread' = TRUE
    BY <2>1, <2>2
  <2>3. ASSUME misread' = (misread \/ Resizing \/ ring[at[t]] = Header), ~ misread'
        PROVE  ~ misread
    BY <2>3
  <2>. QED  BY <1>3, <1>6, <2>1, <2>2, <2>3
<1>7. CASE stale' = stale /\ misread' = misread
  BY <1>7
<1>. QED  BY <1>4, <1>5, <1>6, <1>7, Zenon

\* A step moves one thread.
LEMMA OthersStay ==
  ASSUME TypeOK, NEW t \in Threads, Alloc(t) \/ Free(t)
  PROVE  \A u \in Threads \ {t} : pc'[u] = pc[u]
<1>1. \E l : pc' = [pc EXCEPT ![t] = l]
  BY DEF Alloc, Malloc, AllocSmall, FindChunk, Free, RecoverChunk, NextHeap, StartOver, GoOnAlone,
         Goto, CallAlloc, TakeHeap, HeapBusy,
         ClearHeap, MallocReset, MallocCount, MallocUncount, FullButEmpty, FullInUse, MarkChunk,
         Recheck, Unmark, UnmarkFails, TakeLock, CreateChunk, TakeTest, TakeSwap, TakeChunk,
         Install,
         CallFree, UncountBlock, Recover, NotMarked, PutLock, PutTest, PutAlone, PutFull, NoResize,
         Resize, ResizeDone, PutSwap, PutStore, MergeTest, MergeCall, Merge
<1>. QED  BY <1>1 DEF TypeOK

\* The new array is filled by a thread at put_copy, which leaves it in use.
LEMMA CopyKept ==
  ASSUME TypeOK, CopyOK, NEW t \in Threads, Alloc(t) \/ Free(t)
  PROVE  CopyOK'
<1>1. CASE Resize(t)
  BY <1>1 DEF Resize, Goto, CopyOK, Resizing, TypeOK
<1>2. CASE ResizeDone(t)
  BY <1>2 DEF ResizeDone, CopyOK
<1>3. CASE copy' = copy /\ pc[t] # "put_copy"
  <2>1. \A u \in Threads \ {t} : pc'[u] = pc[u]
    BY <1>3, OthersStay
  <2>. QED  BY <1>3, <2>1 DEF CopyOK, Resizing, Nothing
<1>4. \/ copy' = copy /\ pc[t] # "put_copy"
      \/ Resize(t) \/ ResizeDone(t)
  BY DEF Alloc, Malloc, AllocSmall, FindChunk, Free, RecoverChunk, CallAlloc, TakeHeap, HeapBusy,
         ClearHeap, MallocReset, MallocCount, MallocUncount, FullButEmpty, FullInUse, MarkChunk,
         Recheck, Unmark, UnmarkFails, TakeLock, CreateChunk, TakeTest, TakeSwap, TakeChunk,
         Install,
         CallFree, UncountBlock, Recover, NotMarked, PutLock, PutTest, PutAlone, PutFull, NoResize,
         PutSwap, PutStore, MergeTest, MergeCall, Merge, indices, arrays
<1>. QED  BY <1>1, <1>2, <1>3, <1>4

LEMMA NextBlocks == BlocksInv /\ [Next]_vars => BlocksInv'
<1> SUFFICES ASSUME BlocksInv, [Next]_vars PROVE BlocksInv'
  OBVIOUS
<1>1. ASSUME NEW t \in Threads, Alloc(t) \/ Free(t) PROVE BlocksInv'
  <2>1. TypeOK' /\ LocalsOK' /\ CreatedOK'
    BY <1>1, TypeStep DEF BlocksInv
  <2>2. misread \in BOOLEAN /\ misread' \in BOOLEAN
    BY <2>1 DEF BlocksInv, TypeOK
  <2>3. (~ stale' => ~ stale) /\ (~ misread' => ~ misread)
    BY <1>1, <2>2, LateOrMisread DEF BlocksInv
  <2>4. ASSUME ~ stale', ~ misread' PROVE Sound'
    <3>1. TypeOK /\ LocalsOK /\ CreatedOK /\ CopyOK /\ Sound
      BY <2>3, <2>4 DEF BlocksInv
    <3>. HIDE DEF Sound
    <3>. QED
      BY <1>1, <2>4, <3>1, AlikeSteps, ResizeSound, ResizeDoneSound, CallAllocSound,
         TakeHeapSound, HeapBusySound, ClearHeapSound, MallocResetSound, MallocCountSound,
         MallocUncountSound, FullButEmptySound, MarkChunkSound, UnmarkSound, CreateChunkSound,
         TakeChunkSound, InstallSound, CallFreeSound, UncountBlockSound, RecoverSound,
         NotMarkedSound, PutStoreSound
      DEF Alloc, Malloc, AllocSmall, FindChunk, Free, RecoverChunk
  <2>5. CopyOK'
    BY <1>1, CopyKept DEF BlocksInv
  <2>. QED  BY <2>1, <2>4, <2>5 DEF BlocksInv
<1>2. CASE UNCHANGED vars
  <2>1. TypeOK' /\ LocalsOK' /\ CreatedOK' /\ CopyOK' /\ stale' = stale /\ misread' = misread
    BY <1>2 DEF vars, heaps, chunks, indices, arrays, locks, locals, client, history, BlocksInv,
         TypeOK, Indices, LocalsOK, CreatedOK, Created, Spent, CopyOK, Resizing
  <2>2. Sound => Sound'
    BY <1>2 DEF vars, heaps, chunks, indices, arrays, locks, locals, client, history, Sound,
         FlagsOK,
         CountOK, Users, Lowering, Chunk, InUse, Apart, Cut, OnePlace, Out, OutOK, IsOut, Owners,
         Leaving, Unborn, Fits
  <2>. QED  BY <2>1, <2>2 DEF BlocksInv
<1>. QED  BY <1>1, <1>2 DEF Next

LEMMA AlwaysBlocks == Spec => []BlocksInv
BY InitBlocks, NextBlocks, PTL DEF Spec

\* The blocks that angmalloc gave out and angfree did not take back are apart
\* (chunk.cpp:28-52, mirco_mempage_heap.cpp:66-85), unless a compare-and-swap
\* of rec_flag came too late or a word was taken for a chunk that a resize of
\* the ring (mempage_heap.cpp:398-419) had moved or copied from behind it.
THEOREM BlocksDoNotOverlap == Spec => []NoOverlap
<1>1. BlocksInv => NoOverlap
  BY DEF BlocksInv, Sound, Apart, NoOverlap
<1>. QED  BY <1>1, AlwaysBlocks, PTL

\* A function that is one to one maps a set onto as many values.
LEMMA OneToOne ==
  ASSUME NEW S, IsFiniteSet(S), NEW T, NEW f \in [S -> T],
         \A x, y \in S : f[x] = f[y] => x = y
  PROVE  /\ IsFiniteSet({f[x] : x \in S})
         /\ Cardinality({f[x] : x \in S}) = Cardinality(S)
<1>1. f \in Bijection(S, {f[x] : x \in S})
  BY DEF Bijection, Injection, Surjection, IsInjective
<1>. QED  BY <1>1, FS_Bijection DEF ExistsBijection

LEMMA OutIsApart == BlocksInv => RecoveredOnce
<1> SUFFICES ASSUME BlocksInv PROVE RecoveredOnce
  OBVIOUS
<1>1. SecondTryFits
  BY DEF SecondTryFits, BlocksInv, Sound
<1> SUFFICES ASSUME ~ stale, ~ misread
    PROVE  LET inRing == {i \in Slots : ring[i] \in Chunks}
               out == {ring[i] : i \in inRing} \cup {cur[t] : t \in {u \in Threads : Out(u)}}
           IN  /\ Cardinality(out) = Cardinality(inRing) + Cardinality({t \in Threads : Out(t)})
               /\ \A t \in Threads : \A b \in InUse(t) : b[1] \notin out
               /\ \A h \in Heaps : ~ Leaving(h) =>
                    /\ chunk[h] \notin out
                    /\ \A g \in Heaps \ {h} : chunk[g] = chunk[h] => Leaving(g)
  BY <1>1 DEF RecoveredOnce
<1> DEFINE inRing == {i \in Slots : ring[i] \in Chunks}
           outs == {u \in Threads : Out(u)}
           ringed == {ring[i] : i \in inRing}
           carried == {cur[t] : t \in outs}
<1>2. TypeOK /\ LocalsOK /\ CountOK /\ OnePlace /\ OutOK /\ Owners
  BY DEF BlocksInv, Sound
<1>3. /\ ring \in [Slots -> Words] /\ cur \in [Threads -> Chunks \cup {None}]
      /\ chunk \in [Heaps -> Chunks]
  BY <1>2 DEF TypeOK
<1>4. Cardinality(ringed) = Cardinality(inRing) /\ IsFiniteSet(ringed)
  <2>1. IsFiniteSet(inRing)
    <3>1. IsFiniteSet(Slots)
      <4>1. 4 * RingMax - 1 \in Int
        BY Consts
      <4>. QED  BY <4>1, FS_Interval DEF Slots, MaxRing
    <3>. QED  BY <3>1, FS_Subset
  <2> DEFINE f == [i \in inRing |-> ring[i]]
  <2>2. f \in [inRing -> Chunks] /\ \A i \in inRing : f[i] = ring[i]
    BY <1>3
  <2>3. \A i, j \in inRing : f[i] = f[j] => i = j
    BY <1>2, <2>2 DEF OnePlace
  <2>4. {f[i] : i \in inRing} = ringed
    BY <2>2
  <2>. HIDE DEF f, inRing, ringed
  <2>. QED  BY <2>1, <2>2, <2>3, <2>4, OneToOne
<1>5. Cardinality(carried) = Cardinality(outs) /\ IsFiniteSet(carried)
  <2>1. IsFiniteSet(outs)
    BY HeapsAssumption, FS_Subset
  <2> DEFINE f == [u \in outs |-> cur[u]]
  <2>2. f \in [outs -> Chunks \cup {None}] /\ \A u \in outs : f[u] = cur[u]
    BY <1>3
  <2>3. \A u, v \in outs : f[u] = f[v] => u = v
    BY <1>2, <2>2 DEF OnePlace
  <2>4. {f[u] : u \in outs} = carried
    BY <2>2
  <2>. HIDE DEF f, outs, carried
  <2>. QED  BY <2>1, <2>2, <2>3, <2>4, OneToOne
<1>6. ringed \cap carried = {}
  BY <1>2 DEF OnePlace
<1>7. Cardinality(ringed \cup carried) = Cardinality(inRing) + Cardinality(outs)
  <2>1. Cardinality(ringed) \in Nat /\ Cardinality(carried) \in Nat
    BY <1>4, <1>5, FS_CardinalityType
  <2>. HIDE DEF ringed, carried, inRing, outs
  <2>2. Cardinality(ringed \cup carried)
          = Cardinality(ringed) + Cardinality(carried) - Cardinality(ringed \cap carried)
    BY <1>4, <1>5, FS_Union
  <2>3. Cardinality(ringed \cap carried) = 0
    BY <1>6, FS_EmptySet
  <2>. QED  BY <1>4, <1>5, <2>1, <2>2, <2>3
<1>8. \A c \in ringed \cup carried : c \in Chunks /\ IsOut(c)
  <2>1. \A u \in outs : cur[u] # None
    BY <1>2 DEF LocalsOK, Out, Carrying
  <2>. QED  BY <1>3, <2>1 DEF IsOut
<1>9. \A t \in Threads : \A b \in InUse(t) : b[1] \notin ringed \cup carried
  <2> SUFFICES ASSUME NEW t \in Threads, NEW b \in InUse(t), b[1] \in ringed \cup carried
               PROVE  FALSE
    OBVIOUS
  <2>1. b[1] \in Chunks /\ count[b[1]] = 0
    BY <1>2, <1>8 DEF OutOK
  <2>2. b \in Blocks
    BY <1>2, Known
  <2>. QED  BY <1>2, <2>1, <2>2, NoUsers
<1>10. \A h \in Heaps : ~ Leaving(h) =>
         /\ chunk[h] \notin ringed \cup carried
         /\ \A g \in Heaps \ {h} : chunk[g] = chunk[h] => Leaving(g)
  BY <1>2, <1>8 DEF Owners
<1>. QED  BY <1>7, <1>9, <1>10

\* A chunk is recovered once, by one thread, and handed to one micro heap
\* (chunk.cpp:114-118, mirco_mempage_heap.cpp:68-80), with no block of it in
\* use; and the second _malloc always finds room.  The exceptions are the same.
THEOREM ChunksRecoveredOnce == Spec => []RecoveredOnce
BY OutIsApart, AlwaysBlocks, PTL
=============================================================================
