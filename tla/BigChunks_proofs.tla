--------------------------- MODULE BigChunks_proofs ---------------------------
(***************************************************************************)
(* Proofs about BigChunks.                                                 *)
(*                                                                         *)
(* For any number of micro heaps and calls of angfree and angrealloc, any  *)
(* sizes and any memory: the big chunks share no memory, and none is lost. *)
(* The chunks lie side by side in the memory that was handed out, before   *)
(* and after any merges, and each is in one place: the list, on its way    *)
(* there, or a heap's; or it is marked, and a block, a free() or a heap is *)
(* left that will see its count fall to 0.  What the list's operations do  *)
(* is shown first, for lists of any length.                                *)
(***************************************************************************)
EXTENDS BigChunks, FiniteSetTheorems, SequenceTheorems, WellFoundedInduction, TLAPS

(* Induction, as the argument of the least counterexample.                 *)

\* Induction over the natural numbers, for a set of them.
LEMMA NatSet ==
  ASSUME NEW G \in SUBSET Nat, 0 \in G, \A n \in G : n + 1 \in G
  PROVE  G = Nat
<1> SUFFICES ASSUME Nat \ G # {} PROVE FALSE
  OBVIOUS
<1>1. PICK x \in Nat \ G : \A y \in Nat \ G : ~ (<<y, x>> \in OpToRel(<, Nat))
  BY NatLessThanWellFounded, WFMin, Zenon
<1>2. \A y \in Nat \ G : ~ (y < x)
  BY <1>1 DEF OpToRel
<1>3. x # 0 /\ x - 1 \in Nat
  OBVIOUS
<1>4. x - 1 \in G
  BY <1>2, <1>3
<1> QED
  BY <1>4

\* The least number of a set of them is in it.
LEMMA MinIn ==
  ASSUME NEW I \in SUBSET Nat, I # {}
  PROVE  Min(I) \in I
<1>1. PICK x \in I : \A y \in I : ~ (<<y, x>> \in OpToRel(<, Nat))
  BY NatLessThanWellFounded, WFMin, Zenon
<1>2. \A y \in I : ~ (y < x)
  BY <1>1 DEF OpToRel
<1>3. \A y \in I : x <= y
  BY <1>2
<1> QED
  BY <1>3 DEF Min

-----------------------------------------------------------------------------

\* The chunks lie side by side up to t: those with a size, of the sizes sz.
Tiles(sz, t) ==
  /\ \A a \in Addr : sz[a] > 0 => a + sz[a] <= t
  /\ \A a, b \in Addr : a < b /\ sz[a] > 0 /\ sz[b] > 0 => a + sz[a] <= b
  /\ \A u \in 1 .. t - 1 : \E a \in Addr : a <= u /\ u < a + sz[a]

HeapSteps == {"idle", "malloc", "count", "uncount", "full", "mark", "recheck", "unmark", "put", "take"}
FreerSteps == {"idle", "recover", "put", "grow"}

\* What the variables hold
BigTypes ==
  /\ top \in 1 .. MaxMem + 1
  /\ size \in [Addr -> 0 .. MaxMem] /\ slide \in [Addr -> 0 .. MaxMem]
  /\ count \in [Addr -> Nat] /\ recFlag \in [Addr -> 0 .. 2]
  /\ big \in Seq(Addr) /\ chunk \in [Heaps -> Addr]
  /\ used \subseteq [chunk : Addr, at : Addr, len : Lengths, said : Lengths]
  /\ IsFiniteSet(used)
  /\ step \in [Procs -> HeapSteps \cup FreerSteps]
  /\ cur \in [Procs -> Addr \cup {Nothing}]
  /\ mem \in [Freers -> used \cup {Nothing}]
  /\ need \in [Procs -> Lengths \cup {0}]
  /\ again \in [Heaps -> BOOLEAN] /\ old \in [Heaps -> 0 .. MaxMem]
  /\ failed = FALSE /\ torn \in BOOLEAN

\* ... at each step
BigLocals ==
  /\ \A h \in Heaps : step[h] \in HeapSteps /\ (step[h] # "idle" => need[h] \in Lengths)
  /\ \A h \in Heaps : chunk[h] < top
  /\ \A f \in Freers : step[f] \in FreerSteps /\ (step[f] = "grow" <=> mem[f] # Nothing)
  /\ \A f \in Freers : step[f] = "grow" => need[f] \in Lengths /\ mem[f].said < need[f]
  /\ \A p \in Procs : step[p] \in {"put", "recover"} => cur[p] \in Addr
  /\ \A f, g \in Freers : mem[f] = mem[g] /\ mem[f] # Nothing => f = g

\* No chunk is in a list twice.
NoTwice(l) == \A i, j \in 1 .. Len(l) : l[i] = l[j] => i = j

BlocksOf(c) == {b \in used : b.chunk = c}
Empty(c) == \A b \in used : b.chunk # c
Putting(p, c) == step[p] = "put" /\ cur[p] = c
Owning(h, c) == ~Leaving(h) /\ chunk[h] = c
Testing(h, c) == step[h] \in {"recheck", "unmark"} /\ chunk[h] = c
Recovering(f, c) == step[f] = "recover" /\ cur[f] = c

\* A chunk is in one place: in the list, with whoever puts it there, or with a
\* heap; ...
InOnePlace ==
  /\ NoTwice(big)
  /\ \A c \in ToSet(big) :
       /\ size[c] > 0 /\ recFlag[c] # 1 /\ Empty(c)
       /\ \A p \in Procs : ~Putting(p, c)
       /\ \A h \in Heaps : ~Owning(h, c)
  /\ \A p \in Procs : step[p] = "put" =>
       /\ size[cur[p]] > 0 /\ recFlag[cur[p]] # 1 /\ Empty(cur[p])
       /\ \A q \in Procs : Putting(q, cur[p]) => q = p
       /\ \A h \in Heaps : ~Owning(h, cur[p])
  /\ \A h \in Heaps : ~Leaving(h) =>
       /\ size[chunk[h]] > 0 /\ recFlag[chunk[h]] = 0
       /\ \A g \in Heaps : Owning(g, chunk[h]) => g = h

\* ... or it is marked, and then somebody will see that its count is 0.
Placed(c) ==
  \/ c \in ToSet(big)
  \/ \E p \in Procs : Putting(p, c)
  \/ \E h \in Heaps : Owning(h, c)

CaredFor(c) ==
  \/ ~Empty(c)
  \/ \E f \in Freers : Recovering(f, c)
  \/ \E h \in Heaps : Testing(h, c)

SomewhereOK == \A c \in Addr : size[c] > 0 => Placed(c) \/ (recFlag[c] = 1 /\ CaredFor(c))

\* The count is that of the blocks, and of a _malloc that found no room.
CountsOK ==
  \A c \in Addr : count[c] = Cardinality(BlocksOf(c))
                    + (IF \E h \in Heaps : step[h] = "uncount" /\ chunk[h] = c THEN 1 ELSE 0)

\* The blocks of a chunk begin before its slide, each at a place of its own.
CutsOK ==
  /\ \A c \in Addr : size[c] > 0 => slide[c] <= size[c]
  /\ \A b \in used : size[b.chunk] > 0 /\ b.chunk <= b.at /\ b.at < b.chunk + slide[b.chunk]
  /\ \A b, d \in used : b.chunk = d.chunk /\ b.at = d.at => b = d

\* The second _malloc finds room.
RoomOK ==
  /\ \A h \in Heaps : again[h] /\ step[h] \in {"malloc", "count"} =>
       slide[chunk[h]] = 0 /\ Empty(chunk[h]) /\ need[h] <= size[chunk[h]]
  /\ \A h \in Heaps : step[h] = "uncount" => ~again[h]
  /\ \A h \in Heaps : step[h] \in {"full", "mark", "recheck", "unmark"} =>
       size[chunk[h]] = 0 \/ old[h] <= size[chunk[h]]

\* Blocks end before the slide and do not overlap, and those that grow fit.
BlocksOK ==
  /\ \A b \in used : b.said <= b.len /\ b.at + b.len <= b.chunk + slide[b.chunk]
  /\ \A b, d \in used : b.chunk = d.chunk /\ b # d => b.at + b.len <= d.at \/ d.at + d.len <= b.at
  /\ \A f \in Freers : step[f] = "grow" =>
       mem[f].at + need[f] < mem[f].chunk + size[mem[f].chunk]

Sound ==
  /\ BigTypes /\ BigLocals /\ Tiles(size, top) /\ InOnePlace /\ SomewhereOK
  /\ CountsOK /\ CutsOK /\ RoomOK /\ (~torn => BlocksOK)

BigInv == ~stale => Sound
-----------------------------------------------------------------------------
(* Recursion over 0 .. n, for a step that is a function. *)

HasSteps(n, S, b, g) ==
  \E f \in [0 .. n -> S] : f[0] = b /\ \A k \in 1 .. n : f[k] = g[<<k, f[k - 1]>>]

\* There is a function of which each value is made from the one before.
LEMMA StepsExist ==
  ASSUME NEW n \in Nat, NEW S, NEW b \in S, NEW g \in [(1 .. n) \X S -> S]
  PROVE  HasSteps(n, S, b, g)
<1> DEFINE Is(m, f) == f[0] = b /\ \A k \in 1 .. m : f[k] = g[<<k, f[k - 1]>>]
           G == {m \in Nat : m <= n => \E f \in [0 .. m -> S] : Is(m, f)}
<1>1. 0 \in G
  <2>1. [k \in 0 .. 0 |-> b] \in [0 .. 0 -> S] /\ Is(0, [k \in 0 .. 0 |-> b])
    OBVIOUS
  <2> QED
    BY <2>1
<1>2. ASSUME NEW m \in G PROVE m + 1 \in G
  <2> SUFFICES ASSUME m + 1 <= n PROVE \E f \in [0 .. m + 1 -> S] : Is(m + 1, f)
    OBVIOUS
  <2>1. PICK f \in [0 .. m -> S] : Is(m, f)
    OBVIOUS
  <2> DEFINE v == [k \in 0 .. m + 1 |-> IF k = m + 1 THEN g[<<m + 1, f[m]>>] ELSE f[k]]
  <2>2. m + 1 \in 1 .. n /\ m \in 0 .. m /\ f[m] \in S
    OBVIOUS
  <2>3. g[<<m + 1, f[m]>>] \in S
    BY <2>2
  <2>4. \A k \in 0 .. m : v[k] = f[k] /\ f[k] \in S
    OBVIOUS
  <2>5. v \in [0 .. m + 1 -> S]
    BY <2>3, <2>4
  <2>6. v[0] = b
    BY <2>1, <2>4
  <2>7. ASSUME NEW k \in 1 .. m + 1 PROVE v[k] = g[<<k, v[k - 1]>>]
    <3>1. CASE k = m + 1
      <4>1. v[m + 1] = g[<<m + 1, f[m]>>]
        OBVIOUS
      <4>2. k - 1 = m /\ v[m] = f[m]
        BY <2>2, <2>4, <3>1
      <4> HIDE DEF v
      <4> QED
        BY <3>1, <4>1, <4>2
    <3>2. CASE k # m + 1
      <4>1. k \in 1 .. m /\ k - 1 \in 0 .. m /\ k \in 0 .. m
        BY <3>2
      <4> HIDE DEF v
      <4> QED
        BY <2>1, <2>4, <4>1
    <3> QED
      BY <3>1, <3>2
  <2> HIDE DEF v
  <2> QED
    BY <2>5, <2>6, <2>7
<1>3. G = Nat
  <2> HIDE DEF G
  <2>1. G \in SUBSET Nat
    BY DEF G
  <2> QED
    BY <1>1, <1>2, <2>1, NatSet
<1> QED
  BY <1>3 DEF HasSteps

\* What a step keeps holds after all of them.
LEMMA StepsKeep ==
  ASSUME NEW n \in Nat, NEW f, NEW S, f[0] \in S, \A k \in 1 .. n : f[k - 1] \in S => f[k] \in S
  PROVE  \A k \in 0 .. n : f[k] \in S
<1> DEFINE G == {k \in Nat : k <= n => f[k] \in S}
<1>1. 0 \in G
  OBVIOUS
<1>2. ASSUME NEW k \in G PROVE k + 1 \in G
  <2> SUFFICES ASSUME k + 1 <= n PROVE f[k + 1] \in S
    OBVIOUS
  <2>1. k + 1 \in 1 .. n /\ (k + 1) - 1 = k
    OBVIOUS
  <2> QED
    BY <2>1
<1>3. G = Nat
  <2> HIDE DEF G
  <2>1. G \in SUBSET Nat
    BY DEF G
  <2> QED
    BY <1>1, <1>2, <2>1, NatSet
<1> QED
  BY <1>3

-----------------------------------------------------------------------------
(* The search by halves. *)

\* What it can be at after a probe: at a chunk that is large enough, at the end
\* without one, or in the middle.
Probed(l, sz, x) ==
  {r \in [over : BOOLEAN, at : -1 .. Len(l) - 1] :
     (~ r.over => r.at >= 0) /\ (r.over /\ r.at >= 0 => sz[l[r.at + 1]] >= x)}

\* A probe stays in the list.
LEMMA ProbeStays ==
  ASSUME NEW l \in Seq(Addr), NEW sz \in [Addr -> Nat], NEW x \in Nat, NEW i \in 0 .. Len(l) - 1
  PROVE  Probe(l, sz, x, i) \in Probed(l, sz, x)
<1> DEFINE n == Len(l)
           s == sz[l[i + 1]]
           u == sz[l[i]]
<1>1. n \in Nat /\ i \in Nat /\ i < n /\ i + 1 \in 1 .. n
  OBVIOUS
<1>2. s \in Nat /\ (i > 0 => u \in Nat)
  BY <1>1, ElementOfSeq
<1>3. Probe(l, sz, x, i) =
        CASE s = x -> [over |-> TRUE, at |-> i]
          [] s > x /\ i > 0 /\ u > x -> [over |-> FALSE, at |-> i \div 2]
          [] s > x /\ (i = 0 \/ u <= x) -> [over |-> TRUE, at |-> i]
          [] s < x /\ i < n - 1 -> [over |-> FALSE, at |-> (i + n) \div 2]
          [] s < x /\ i = n - 1 -> [over |-> TRUE, at |-> -1]
  BY DEF Probe
<1>4. i \div 2 \in 0 .. n - 1 /\ (i < n - 1 => (i + n) \div 2 \in 0 .. n - 1)
  BY <1>1
<1> DEFINE R == Probe(l, sz, x, i)
<1>5. \/ R = [over |-> TRUE, at |-> i] /\ s >= x
      \/ R = [over |-> FALSE, at |-> i \div 2]
      \/ R = [over |-> FALSE, at |-> (i + n) \div 2] /\ i < n - 1
      \/ R = [over |-> TRUE, at |-> -1]
  <2> HIDE DEF s, n, R, u
  <2>1. CASE s = x
    BY <1>2, <1>3, <2>1 DEF R
  <2>2. CASE s > x
    <3>1. CASE i > 0 /\ u > x
      <4>1. ~ (s = x) /\ ~ (s < x) /\ ~ (i = 0 \/ u <= x)
        BY <1>1, <1>2, <2>2, <3>1
      <4> QED
        BY <1>3, <2>2, <3>1, <4>1, Zenon DEF R
    <3>2. CASE i = 0 \/ u <= x
      <4>1. ~ (s = x) /\ ~ (s < x) /\ ~ (i > 0 /\ u > x) /\ s >= x
        BY <1>1, <1>2, <2>2, <3>2
      <4> QED
        BY <1>3, <2>2, <3>2, <4>1, Zenon DEF R
    <3> QED
      BY <1>1, <1>2, <3>1, <3>2
  <2>3. CASE s < x
    <3>1. CASE i < n - 1
      BY <1>1, <1>2, <1>3, <2>3, <3>1 DEF R
    <3>2. CASE i = n - 1
      BY <1>1, <1>2, <1>3, <2>3, <3>2 DEF R
    <3> QED
      BY <1>1, <3>1, <3>2
  <2> QED
    BY <1>2, <2>1, <2>2, <2>3
<1>6. \/ R = [over |-> TRUE, at |-> i] /\ sz[l[i + 1]] >= x
      \/ \E j \in 0 .. Len(l) - 1 : R = [over |-> FALSE, at |-> j]
      \/ R = [over |-> TRUE, at |-> -1]
  <2> HIDE DEF R
  <2> QED
    BY <1>4, <1>5
<1> HIDE DEF R
<1>7. CASE R = [over |-> TRUE, at |-> i] /\ sz[l[i + 1]] >= x
  <2>1. i \in -1 .. Len(l) - 1
    OBVIOUS
  <2> QED
    BY <1>7, <2>1 DEF Probed, R
<1>8. ASSUME NEW j \in 0 .. Len(l) - 1, R = [over |-> FALSE, at |-> j] PROVE R \in Probed(l, sz, x)
  <2>1. j \in -1 .. Len(l) - 1
    OBVIOUS
  <2> QED
    BY <1>8, <2>1 DEF Probed
<1>9. CASE R = [over |-> TRUE, at |-> -1]
  <2>1. -1 \in -1 .. Len(l) - 1
    BY <1>1
  <2> QED
    BY <1>9, <2>1 DEF Probed, R
<1> QED
  BY <1>6, <1>7, <1>8, <1>9 DEF R

\* The probes, as a function of their number
IsProbes(l, sz, x, f) ==
  f = [k \in 0 .. Len(l) + 1 |->
         IF k = 0 THEN [over |-> Len(l) = 0, at |-> IF Len(l) = 0 THEN -1 ELSE 0]
         ELSE IF f[k - 1].over THEN f[k - 1] ELSE Probe(l, sz, x, f[k - 1].at)]

LEMMA SearchIs ==
  ASSUME NEW l, NEW sz, NEW x
  PROVE  Search(l, sz, x) = (CHOOSE f : IsProbes(l, sz, x, f))[Len(l) + 1]
BY DEF Search, IsProbes

LEMMA SearchStays ==
  ASSUME NEW l \in Seq(Addr), NEW sz \in [Addr -> Nat], NEW x \in Nat
  PROVE  Search(l, sz, x) \in Probed(l, sz, x)
<1> DEFINE S == Probed(l, sz, x)
           N == Len(l) + 1
           b == [over |-> Len(l) = 0, at |-> IF Len(l) = 0 THEN -1 ELSE 0]
           Go(r) == IF r.over THEN r ELSE Probe(l, sz, x, r.at)
           g == [p \in (1 .. N) \X S |-> Go(p[2])]
<1>1. N \in Nat /\ Len(l) \in Nat
  OBVIOUS
<1>2. b \in S
  <2>1. b \in [over : BOOLEAN, at : -1 .. Len(l) - 1]
    <3>1. (IF Len(l) = 0 THEN -1 ELSE 0) \in -1 .. Len(l) - 1
      BY <1>1
    <3> QED
      BY <3>1
  <2>2. /\ b.over <=> Len(l) = 0
        /\ b.at = IF Len(l) = 0 THEN -1 ELSE 0
    OBVIOUS
  <2> QED
    BY <2>1, <2>2 DEF Probed
<1>3. ASSUME NEW r \in S PROVE Go(r) \in S
  <2>1. ~ r.over => r.at \in 0 .. Len(l) - 1
    BY <1>1 DEF Probed
  <2> QED
    BY <2>1, ProbeStays
<1>4. g \in [(1 .. N) \X S -> S]
  BY <1>3
<1> HIDE DEF S, Go
<1>5. PICK f \in [0 .. N -> S] : f[0] = b /\ \A k \in 1 .. N : f[k] = g[<<k, f[k - 1]>>]
  <2> HIDE DEF b, g, N
  <2>1. HasSteps(N, S, b, g)
    BY <1>1, <1>2, <1>4, StepsExist
  <2> QED
    BY <2>1 DEF HasSteps
<1>6. \A k \in 1 .. N : f[k] = Go(f[k - 1])
  <2> SUFFICES ASSUME NEW k \in 1 .. N PROVE f[k] = Go(f[k - 1])
    OBVIOUS
  <2> HIDE DEF N, b, g
  <2>1. k - 1 \in 0 .. N
    BY <1>1
  <2>2. <<k, f[k - 1]>> \in (1 .. N) \X S
    BY <2>1
  <2> QED
    BY <1>5, <2>2 DEF g
<1>7. IsProbes(l, sz, x, f)
  <2>1. f = [k \in 0 .. N |-> IF k = 0 THEN b ELSE Go(f[k - 1])]
    <3> HIDE DEF b
    <3>1. \A k \in 0 .. N : k # 0 => k \in 1 .. N
      BY <1>1
    <3> QED
      BY <1>5, <1>6, <3>1
  <2> QED
    BY <2>1 DEF IsProbes, Go
<1> DEFINE e == CHOOSE e : IsProbes(l, sz, x, e)
<1>8. IsProbes(l, sz, x, e)
  BY <1>7
<1> HIDE DEF e
<1>9. e[0] = b /\ \A k \in 1 .. N : e[k] = Go(e[k - 1])
  <2>1. e = [k \in 0 .. N |-> IF k = 0 THEN b ELSE Go(e[k - 1])]
    BY <1>8 DEF IsProbes, Go
  <2> HIDE DEF b
  <2>2. 0 \in 0 .. N /\ \A k \in 1 .. N : k \in 0 .. N /\ k # 0
    BY <1>1
  <2> QED
    BY <2>1, <2>2
<1>10. \A k \in 0 .. N : e[k] \in S
  <2> HIDE DEF b, N
  <2>1. \A k \in 1 .. N : e[k - 1] \in S => e[k] \in S
    BY <1>3, <1>9
  <2> QED
    BY <1>1, <1>2, <1>9, <2>1, StepsKeep
<1>11. Search(l, sz, x) = e[N]
  BY SearchIs DEF e
<1>12. N \in 0 .. N
  BY <1>1
<1> QED
  BY <1>10, <1>11, <1>12 DEF S

\* The search ends at a chunk that is large enough, or without one.
LEMMA SearchFinds ==
  ASSUME NEW l \in Seq(Addr), NEW sz \in [Addr -> Nat], NEW x \in Nat
  PROVE  /\ Bisearch(l, sz, x) \in -1 .. Len(l) - 1
         /\ Ends(l, sz, x) /\ Bisearch(l, sz, x) >= 0 => sz[l[Bisearch(l, sz, x) + 1]] >= x
BY SearchStays DEF Probed, Bisearch, Ends

-----------------------------------------------------------------------------
(* Sequences without repetitions, with one element less or more. *)

LEMMA RemovedAt ==
  ASSUME NEW D, NEW l \in Seq(D), NEW i \in 1 .. Len(l)
  PROVE  /\ RemoveAt(l, i) \in Seq(D) /\ Len(RemoveAt(l, i)) = Len(l) - 1
         /\ \A j \in 1 .. Len(l) - 1 : RemoveAt(l, i)[j] = IF j < i THEN l[j] ELSE l[j + 1]
<1> DEFINE a == SubSeq(l, 1, i - 1)
           b == SubSeq(l, i + 1, Len(l))
           n == Len(l)
<1>1. n \in Nat /\ i \in Nat /\ 1 <= i /\ i <= n
  OBVIOUS
<1>2. \A j \in 1 .. n : l[j] \in D
  BY ElementOfSeq
<1>3. a \in Seq(D) /\ Len(a) = i - 1 /\ \A j \in 1 .. i - 1 : a[j] = l[j]
  <2>1. \A j \in 1 .. i - 1 : l[j] \in D
    BY <1>1, <1>2
  <2>2. /\ a \in Seq(D) /\ Len(a) = IF 1 <= i - 1 THEN (i - 1) - 1 + 1 ELSE 0
        /\ \A j \in 1 .. (i - 1) - 1 + 1 : a[j] = l[1 + j - 1]
    BY <1>1, <2>1, SubSeqProperties
  <2> HIDE DEF a
  <2> QED
    BY <1>1, <2>2
<1>4. b \in Seq(D) /\ Len(b) = n - i /\ \A j \in 1 .. n - i : b[j] = l[i + j]
  <2>1. \A j \in i + 1 .. n : l[j] \in D
    BY <1>1, <1>2
  <2>2. /\ b \in Seq(D) /\ Len(b) = IF i + 1 <= n THEN n - (i + 1) + 1 ELSE 0
        /\ \A j \in 1 .. n - (i + 1) + 1 : b[j] = l[(i + 1) + j - 1]
    BY <1>1, <2>1, SubSeqProperties
  <2> HIDE DEF b
  <2>3. \A j \in 1 .. n - i : (i + 1) + j - 1 = i + j
    BY <1>1
  <2> QED
    BY <1>1, <2>2, <2>3
<1>5. RemoveAt(l, i) = a \o b
  BY DEF RemoveAt
<1> HIDE DEF a, b
<1>6. /\ a \o b \in Seq(D) /\ Len(a \o b) = Len(a) + Len(b)
      /\ \A j \in 1 .. Len(a) + Len(b) : (a \o b)[j] = IF j <= Len(a) THEN a[j] ELSE b[j - Len(a)]
  BY <1>3, <1>4, ConcatProperties
<1>7. Len(a) + Len(b) = n - 1
  BY <1>1, <1>3, <1>4
<1>8. ASSUME NEW j \in 1 .. n - 1 PROVE (a \o b)[j] = IF j < i THEN l[j] ELSE l[j + 1]
  <2>1. (a \o b)[j] = IF j <= Len(a) THEN a[j] ELSE b[j - Len(a)]
    BY <1>6, <1>7
  <2>2. CASE j < i
    <3>1. j <= Len(a) /\ j \in 1 .. i - 1
      BY <1>1, <1>3, <2>2
    <3> QED
      BY <1>3, <2>1, <2>2, <3>1
  <2>3. CASE ~ (j < i)
    <3>1. ~ (j <= Len(a)) /\ j - Len(a) \in 1 .. n - i /\ i + (j - Len(a)) = j + 1
      BY <1>1, <1>3, <2>3
    <3> QED
      BY <1>4, <2>1, <2>3, <3>1
  <2> QED
    BY <2>2, <2>3
<1> QED
  BY <1>5, <1>6, <1>7, <1>8

\* A sequence with one element more
LEMMA InsertedAt ==
  ASSUME NEW D, NEW l \in Seq(D), NEW i \in 1 .. Len(l) + 1, NEW e \in D
  PROVE  /\ InsertAt(l, i, e) \in Seq(D) /\ Len(InsertAt(l, i, e)) = Len(l) + 1
         /\ \A j \in 1 .. Len(l) + 1 :
              InsertAt(l, i, e)[j] = IF j < i THEN l[j] ELSE IF j = i THEN e ELSE l[j - 1]
<1> DEFINE a == SubSeq(l, 1, i - 1)
           b == SubSeq(l, i, Len(l))
           c == a \o <<e>>
           n == Len(l)
<1>1. n \in Nat /\ i \in Nat /\ 1 <= i /\ i <= n + 1
  OBVIOUS
<1>2. \A j \in 1 .. n : l[j] \in D
  BY ElementOfSeq
<1>3. a \in Seq(D) /\ Len(a) = i - 1 /\ \A j \in 1 .. i - 1 : a[j] = l[j]
  <2>1. \A j \in 1 .. i - 1 : l[j] \in D
    BY <1>1, <1>2
  <2>2. /\ a \in Seq(D) /\ Len(a) = IF 1 <= i - 1 THEN (i - 1) - 1 + 1 ELSE 0
        /\ \A j \in 1 .. (i - 1) - 1 + 1 : a[j] = l[1 + j - 1]
    BY <1>1, <2>1, SubSeqProperties
  <2> HIDE DEF a
  <2> QED
    BY <1>1, <2>2
<1>4. b \in Seq(D) /\ Len(b) = n - i + 1 /\ \A j \in 1 .. n - i + 1 : b[j] = l[i + j - 1]
  <2>1. \A j \in i .. n : l[j] \in D
    BY <1>1, <1>2
  <2>2. /\ b \in Seq(D) /\ Len(b) = IF i <= n THEN n - i + 1 ELSE 0
        /\ \A j \in 1 .. n - i + 1 : b[j] = l[i + j - 1]
    BY <1>1, <2>1, SubSeqProperties
  <2> HIDE DEF b
  <2>3. CASE i <= n
    BY <2>2, <2>3
  <2>4. CASE ~(i <= n)
    <3>1. n - i + 1 = 0
      BY <1>1, <2>4
    <3> QED
      BY <2>2, <2>4, <3>1
  <2> QED
    BY <2>3, <2>4
<1>5. InsertAt(l, i, e) = c \o b
  BY DEF InsertAt
<1> HIDE DEF a, b
<1>6. <<e>> \in Seq(D) /\ Len(<<e>>) = 1 /\ <<e>>[1] = e
  OBVIOUS
<1>7. /\ c \in Seq(D) /\ Len(c) = i
      /\ \A j \in 1 .. i : c[j] = IF j <= i - 1 THEN a[j] ELSE e
  <2>1. /\ c \in Seq(D) /\ Len(c) = Len(a) + Len(<<e>>)
        /\ \A j \in 1 .. Len(a) + Len(<<e>>) : c[j] = IF j <= Len(a) THEN a[j] ELSE <<e>>[j - Len(a)]
    BY <1>3, <1>6, ConcatProperties
  <2> HIDE DEF c
  <2>2. \A j \in 1 .. i : ~ (j <= i - 1) => j - (i - 1) = 1
    BY <1>1
  <2>3. Len(a) + Len(<<e>>) = i
    BY <1>1, <1>3, <1>6
  <2> QED
    BY <1>3, <1>6, <2>1, <2>2, <2>3
<1> HIDE DEF c
<1>8. /\ c \o b \in Seq(D) /\ Len(c \o b) = Len(c) + Len(b)
      /\ \A j \in 1 .. Len(c) + Len(b) : (c \o b)[j] = IF j <= Len(c) THEN c[j] ELSE b[j - Len(c)]
  BY <1>4, <1>7, ConcatProperties
<1>9. Len(c) + Len(b) = n + 1
  BY <1>1, <1>4, <1>7
<1>10. ASSUME NEW j \in 1 .. n + 1
       PROVE  (c \o b)[j] = IF j < i THEN l[j] ELSE IF j = i THEN e ELSE l[j - 1]
  <2>1. (c \o b)[j] = IF j <= i THEN c[j] ELSE b[j - i]
    BY <1>7, <1>8, <1>9
  <2>2. CASE j < i
    <3>1. j <= i /\ j <= i - 1 /\ j \in 1 .. i - 1 /\ j \in 1 .. i
      BY <1>1, <2>2
    <3> QED
      BY <1>3, <1>7, <2>1, <2>2, <3>1
  <2>3. CASE j = i
    <3>1. j <= i /\ ~ (j <= i - 1) /\ ~ (j < i) /\ j \in 1 .. i
      BY <1>1, <2>3
    <3> QED
      BY <1>7, <2>1, <2>3, <3>1
  <2>4. CASE j > i
    <3>1. ~ (j <= i) /\ j - i \in 1 .. n - i + 1 /\ i + (j - i) - 1 = j - 1 /\ ~ (j < i) /\ j # i
      BY <1>1, <2>4
    <3> QED
      BY <1>4, <2>1, <3>1
  <2>5. j < i \/ j = i \/ j > i
    BY <1>1
  <2> QED
    BY <2>2, <2>3, <2>4, <2>5
<1> QED
  BY <1>5, <1>8, <1>9, <1>10

\* A list without its element i
LEMMA BigErased ==
  ASSUME NEW D, NEW l \in Seq(D), NoTwice(l), NEW i \in 0 .. Len(l) - 1
  PROVE  /\ Erase(l, i) \in Seq(D) /\ NoTwice(Erase(l, i))
         /\ ToSet(Erase(l, i)) = ToSet(l) \ {l[i + 1]}
<1> DEFINE e == Erase(l, i)
           n == Len(l)
<1>1. n \in Nat /\ i \in Nat /\ i + 1 \in 1 .. n
  OBVIOUS
<1>2. /\ e \in Seq(D) /\ Len(e) = n - 1
      /\ \A j \in 1 .. n - 1 : e[j] = IF j < i + 1 THEN l[j] ELSE l[j + 1]
  BY <1>1, RemovedAt DEF Erase
<1> HIDE DEF e
<1>3. NoTwice(e)
  <2> SUFFICES ASSUME NEW j \in 1 .. n - 1, NEW k \in 1 .. n - 1, e[j] = e[k] PROVE j = k
    BY <1>2 DEF NoTwice
  <2>1. j \in 1 .. n /\ k \in 1 .. n /\ j + 1 \in 1 .. n /\ k + 1 \in 1 .. n
    BY <1>1
  <2>2. e[j] = (IF j < i + 1 THEN l[j] ELSE l[j + 1]) /\ e[k] = (IF k < i + 1 THEN l[k] ELSE l[k + 1])
    BY <1>2
  <2>3. CASE j < i + 1 /\ k < i + 1
    BY <2>1, <2>2, <2>3 DEF NoTwice
  <2>4. CASE j < i + 1 /\ ~ (k < i + 1)
    <3>1. l[j] = l[k + 1]
      BY <2>2, <2>4
    <3>2. j = k + 1
      BY <2>1, <3>1 DEF NoTwice
    <3> QED
      BY <1>1, <2>4, <3>2
  <2>5. CASE ~ (j < i + 1) /\ k < i + 1
    <3>1. l[j + 1] = l[k]
      BY <2>2, <2>5
    <3>2. j + 1 = k
      BY <2>1, <3>1 DEF NoTwice
    <3> QED
      BY <1>1, <2>5, <3>2
  <2>6. CASE ~ (j < i + 1) /\ ~ (k < i + 1)
    <3>1. l[j + 1] = l[k + 1]
      BY <2>2, <2>6
    <3>2. j + 1 = k + 1
      BY <2>1, <3>1 DEF NoTwice
    <3> QED
      BY <3>2
  <2> QED
    BY <2>3, <2>4, <2>5, <2>6
<1>4. ASSUME NEW x \in ToSet(e) PROVE x \in ToSet(l) \ {l[i + 1]}
  <2>1. PICK j \in 1 .. n - 1 : x = e[j]
    BY <1>2 DEF ToSet
  <2>2. e[j] = (IF j < i + 1 THEN l[j] ELSE l[j + 1])
    BY <1>2
  <2>3. j \in 1 .. n /\ j + 1 \in 1 .. n /\ (j < i + 1 => j # i + 1) /\ (~ (j < i + 1) => j + 1 # i + 1)
    BY <1>1
  <2> QED
    BY <1>1, <2>1, <2>2, <2>3 DEF NoTwice, ToSet
<1>5. ASSUME NEW x \in ToSet(l) \ {l[i + 1]} PROVE x \in ToSet(e)
  <2>1. PICK j \in 1 .. n : x = l[j]
    BY DEF ToSet
  <2>2. j # i + 1
    BY <2>1
  <2>3. CASE j < i + 1
    <3>1. j \in 1 .. n - 1
      BY <1>1, <2>3
    <3> QED
      BY <1>2, <2>1, <2>3, <3>1 DEF ToSet
  <2>4. CASE j > i + 1
    <3>1. j - 1 \in 1 .. n - 1 /\ ~ (j - 1 < i + 1) /\ (j - 1) + 1 = j
      BY <1>1, <2>4
    <3>2. e[j - 1] = l[j]
      BY <1>2, <3>1
    <3> QED
      BY <1>2, <2>1, <3>1, <3>2 DEF ToSet
  <2> QED
    BY <1>1, <2>2, <2>3, <2>4
<1> QED
  BY <1>2, <1>3, <1>4, <1>5 DEF e

\* A list with one chunk more
LEMMA Inserted ==
  ASSUME NEW D, NEW l \in Seq(D), NoTwice(l), NEW i \in 1 .. Len(l) + 1, NEW c \in D, c \notin ToSet(l)
  PROVE  /\ InsertAt(l, i, c) \in Seq(D) /\ NoTwice(InsertAt(l, i, c))
         /\ ToSet(InsertAt(l, i, c)) = ToSet(l) \cup {c}
<1> DEFINE e == InsertAt(l, i, c)
           n == Len(l)
<1>1. n \in Nat /\ i \in Nat /\ i \in 1 .. n + 1
  OBVIOUS
<1>2. /\ e \in Seq(D) /\ Len(e) = n + 1
      /\ \A j \in 1 .. n + 1 : e[j] = IF j < i THEN l[j] ELSE IF j = i THEN c ELSE l[j - 1]
  <2>1. /\ InsertAt(l, i, c) \in Seq(D) /\ Len(InsertAt(l, i, c)) = Len(l) + 1
        /\ \A j \in 1 .. Len(l) + 1 :
             InsertAt(l, i, c)[j] = IF j < i THEN l[j] ELSE IF j = i THEN c ELSE l[j - 1]
    BY ONLY InsertedAt, l \in Seq(D), i \in 1 .. Len(l) + 1, c \in D
  <2> QED
    BY <2>1
<1> HIDE DEF e
<1>3. \A j \in 1 .. n : l[j] # c /\ l[j] \in ToSet(l)
  BY DEF ToSet
<1>4. NoTwice(e)
  <2> SUFFICES ASSUME NEW j \in 1 .. n + 1, NEW k \in 1 .. n + 1, e[j] = e[k] PROVE j = k
    BY <1>2 DEF NoTwice
  <2>1. /\ j < i => j \in 1 .. n
        /\ k < i => k \in 1 .. n
        /\ ~ (j < i) /\ j # i => j - 1 \in 1 .. n
        /\ ~ (k < i) /\ k # i => k - 1 \in 1 .. n
    BY <1>1
  <2>2. /\ e[j] = (IF j < i THEN l[j] ELSE IF j = i THEN c ELSE l[j - 1])
        /\ e[k] = (IF k < i THEN l[k] ELSE IF k = i THEN c ELSE l[k - 1])
    BY <1>2
  <2>3. \A a, b \in 1 .. n : l[a] = l[b] => a = b
    BY DEF NoTwice
  <2>4. CASE j = i \/ k = i
    <3>1. e[j] = c /\ e[k] = c
      <4>1. e[i] = c
        BY <1>1, <1>2
      <4> QED
        BY <2>4, <4>1
    <3>2. j < i => l[j] = c
      BY <2>2, <3>1
    <3>3. ~ (j < i) /\ j # i => l[j - 1] = c
      BY <2>2, <3>1
    <3>4. k < i => l[k] = c
      BY <2>2, <3>1
    <3>5. ~ (k < i) /\ k # i => l[k - 1] = c
      BY <2>2, <3>1
    <3>6. j = i /\ k = i
      BY <1>3, <2>1, <3>2, <3>3, <3>4, <3>5
    <3> QED
      BY <3>6
  <2>5. CASE j # i /\ k # i
    <3>1. CASE j < i /\ k < i
      BY <2>1, <2>2, <2>3, <3>1
    <3>2. CASE j < i /\ ~ (k < i)
      <4>1. j = k - 1
        BY <2>1, <2>2, <2>3, <2>5, <3>2
      <4> QED
        BY <1>1, <2>5, <3>2, <4>1
    <3>3. CASE ~ (j < i) /\ k < i
      <4>1. j - 1 = k
        BY <2>1, <2>2, <2>3, <2>5, <3>3
      <4> QED
        BY <1>1, <2>5, <3>3, <4>1
    <3>4. CASE ~ (j < i) /\ ~ (k < i)
      <4>1. j - 1 = k - 1
        BY <2>1, <2>2, <2>3, <2>5, <3>4
      <4> QED
        BY <4>1
    <3> QED
      BY <3>1, <3>2, <3>3, <3>4
  <2> QED
    BY <2>4, <2>5
<1>5. ASSUME NEW x \in ToSet(e) PROVE x \in ToSet(l) \cup {c}
  <2>1. PICK j \in 1 .. n + 1 : x = e[j]
    BY <1>2 DEF ToSet
  <2>2. e[j] = (IF j < i THEN l[j] ELSE IF j = i THEN c ELSE l[j - 1])
    BY <1>2
  <2>3. (j < i => j \in 1 .. n) /\ (~ (j < i) /\ j # i => j - 1 \in 1 .. n)
    BY <1>1
  <2> QED
    BY <1>3, <2>1, <2>2, <2>3
<1>6. ASSUME NEW x \in ToSet(l) PROVE x \in ToSet(e)
  <2>1. PICK j \in 1 .. n : x = l[j]
    BY DEF ToSet
  <2>2. CASE j < i
    <3>1. j \in 1 .. n + 1
      BY <1>1
    <3>2. e[j] = x
      BY <1>2, <2>1, <2>2, <3>1
    <3>3. j \in DOMAIN e
      BY <1>2, <3>1
    <3> QED
      BY <3>2, <3>3 DEF ToSet
  <2>3. CASE ~ (j < i)
    <3>1. j + 1 \in 1 .. n + 1 /\ ~ (j + 1 < i) /\ j + 1 # i /\ (j + 1) - 1 = j
      BY <1>1, <2>3
    <3>2. e[j + 1] = l[j]
      BY <1>2, <3>1
    <3>3. j + 1 \in DOMAIN e
      BY <1>2, <3>1
    <3> QED
      BY <2>1, <3>2, <3>3 DEF ToSet
  <2> QED
    BY <2>2, <2>3
<1>7. c \in ToSet(e)
  <2>1. e[i] = c /\ i \in 1 .. Len(e)
    BY <1>1, <1>2
  <2> QED
    BY <2>1 DEF ToSet
<1> QED
  BY <1>2, <1>4, <1>5, <1>6, <1>7 DEF e


-----------------------------------------------------------------------------
(* A merge keeps the chunks side by side. *)

Upper(c, d) == IF c < d THEN d ELSE c

\* How the sizes are after a merge of c and d
MergedRight(sz, t, c, d) ==
  /\ Tiles(Grown(sz, c, d), t)
  /\ Lower(c, d) \in {c, d} /\ Upper(c, d) \in {c, d} /\ Lower(c, d) # Upper(c, d)
  /\ Grown(sz, c, d)[Lower(c, d)] > sz[Lower(c, d)]
  /\ Grown(sz, c, d)[Upper(c, d)] = 0
  /\ \A a \in Addr : a \notin {c, d} => Grown(sz, c, d)[a] = sz[a]

\* After a merge of c and d the chunks lie side by side as before.
LEMMA TilesMerged ==
  ASSUME NEW t \in 1 .. MaxMem + 1, NEW sz \in [Addr -> Nat], Tiles(sz, t),
         NEW c \in Addr, NEW d \in Addr, c # d, sz[c] > 0, sz[d] > 0, Meet(sz, c, d)
  PROVE  MergedRight(sz, t, c, d)
<1> DEFINE lo == Lower(c, d)
           hi == Upper(c, d)
           new == Grown(sz, c, d)
<1> USE BigAssumption DEF Addr
<1>1. /\ lo \in Addr /\ hi \in Addr /\ {lo, hi} = {c, d} /\ lo < hi
      /\ sz[lo] > 0 /\ sz[hi] > 0 /\ sz[lo] \in Nat /\ sz[hi] \in Nat
  BY DEF Lower, Upper
<1>2. hi = lo + sz[lo]
  BY DEF Lower, Upper, Meet
<1>3. new = [a \in Addr |-> IF a = lo THEN sz[lo] + sz[hi] ELSE IF a = hi THEN 0 ELSE sz[a]]
  <2>1. sz[c] + sz[d] = sz[lo] + sz[hi] /\ sz[lo] + sz[hi] \in Nat
    BY <1>1 DEF Lower, Upper
  <2>2. new = [[[sz EXCEPT ![c] = 0] EXCEPT ![d] = 0] EXCEPT ![lo] = sz[c] + sz[d]]
    BY DEF Grown
  <2> HIDE DEF lo, hi, new
  <2> QED
    BY <1>1, <2>1, <2>2
<1> HIDE DEF lo, hi, new
<1>4. new[lo] = sz[lo] + sz[hi] /\ new[hi] = 0 /\ \A a \in Addr : a \notin {lo, hi} => new[a] = sz[a]
  BY <1>1, <1>3
<1>6. ASSUME NEW a \in Addr, new[a] > 0 PROVE a + new[a] <= t
  <2>1. a # hi
    BY <1>4, <1>6
  <2>2. CASE a = lo
    <3>1. hi + sz[hi] <= t
      BY <1>1 DEF Tiles
    <3> QED
      BY <1>1, <1>2, <1>4, <2>2, <3>1, SMTT(30)
  <2>3. CASE a # lo
    BY <1>4, <1>6, <2>1, <2>3 DEF Tiles
  <2> QED
    BY <2>2, <2>3
<1>7. ASSUME NEW a \in Addr, NEW b \in Addr, a < b, new[a] > 0, new[b] > 0 PROVE a + new[a] <= b
  <2>1. a # hi /\ b # hi
    BY <1>4, <1>7
  <2>2. CASE a = lo
    <3>1. b \notin {lo, hi} /\ sz[b] > 0
      BY <1>4, <1>7, <2>1, <2>2
    <3>2. lo + sz[lo] <= b
      BY <1>1, <1>7, <2>2, <3>1 DEF Tiles
    <3>3. hi < b
      BY <1>2, <3>1, <3>2
    <3>4. hi + sz[hi] <= b
      BY <1>1, <3>1, <3>3 DEF Tiles
    <3>5. lo + (sz[lo] + sz[hi]) = hi + sz[hi]
      BY <1>1, <1>2
    <3> QED
      BY <1>4, <2>2, <3>4, <3>5
  <2>3. CASE a # lo
    <3>1. new[a] = sz[a] /\ sz[b] > 0
      BY <1>1, <1>4, <1>7, <2>1, <2>3
    <3> QED
      BY <1>7, <3>1 DEF Tiles
  <2> QED
    BY <2>2, <2>3
<1>8. ASSUME NEW u \in 1 .. t - 1 PROVE \E a \in Addr : a <= u /\ u < a + new[a]
  <2>1. PICK a \in Addr : a <= u /\ u < a + sz[a]
    BY DEF Tiles
  <2>2. CASE a \in {lo, hi}
    <3>1. lo <= u /\ u < lo + new[lo]
      <4>1. lo + new[lo] = hi + sz[hi]
        BY <1>1, <1>2, <1>4
      <4>2. CASE a = lo
        <5>1. u < hi
          BY <1>2, <2>1, <4>2
        <5> QED
          BY <1>1, <2>1, <4>1, <4>2, <5>1, SMTT(30)
      <4>3. CASE a = hi
        BY <1>1, <2>1, <4>1, <4>3
      <4> QED
        BY <2>2, <4>2, <4>3
    <3> QED
      BY <1>1, <3>1
  <2>3. CASE a \notin {lo, hi}
    BY <1>4, <2>1, <2>3
  <2> QED
    BY <2>2, <2>3
<1>9. Tiles(new, t)
  BY <1>6, <1>7, <1>8 DEF Tiles
<1>10. new[lo] > sz[lo]
  BY <1>1, <1>4
<1>11. lo \in {c, d} /\ hi \in {c, d} /\ lo # hi
  BY <1>1 DEF Lower, Upper, lo, hi
<1>12. \A a \in Addr : a \notin {c, d} => new[a] = sz[a]
  BY <1>1, <1>4
<1> QED
  BY <1>4, <1>9, <1>10, <1>11, <1>12 DEF lo, hi, new, MergedRight

-----------------------------------------------------------------------------
(* The loop of _merge_bigfree. *)

Acc == [tmp : Seq(Addr), sz : [Addr -> Nat]]

\* One chunk is kept, or merged with one that it meets.
LEMMA MergeOneIs ==
  ASSUME NEW acc \in Acc, NEW c \in Addr
  PROVE  \/ MergeOne(acc, c) = [tmp |-> Append(acc.tmp, c), sz |-> acc.sz]
         \/ \E j \in 1 .. Len(acc.tmp) :
              /\ Meet(acc.sz, c, acc.tmp[j])
              /\ MergeOne(acc, c) = [tmp |-> [acc.tmp EXCEPT ![j] = Lower(c, acc.tmp[j])],
                                     sz |-> Grown(acc.sz, c, acc.tmp[j])]
<1> DEFINE I == {i \in 1 .. Len(acc.tmp) : Meet(acc.sz, c, acc.tmp[i])}
           j == IF I # {} THEN Min(I) ELSE 0
<1>1. MergeOne(acc, c) =
        IF j = 0 THEN [acc EXCEPT !.tmp = Append(@, c)]
        ELSE [tmp |-> [acc.tmp EXCEPT ![j] = Lower(c, @)], sz |-> Grown(acc.sz, c, acc.tmp[j])]
  BY DEF MergeOne, SelectInSeq
<1>2. CASE I = {}
  <2>1. MergeOne(acc, c) = [acc EXCEPT !.tmp = Append(@, c)]
    <3>1. j = 0
      BY <1>2
    <3> HIDE DEF j
    <3> QED
      BY <1>1, <3>1
  <2>2. [acc EXCEPT !.tmp = Append(@, c)] = [tmp |-> Append(acc.tmp, c), sz |-> acc.sz]
    <3>1. acc = [tmp |-> acc.tmp, sz |-> acc.sz]
      BY DEF Acc
    <3> QED
      BY <3>1
  <2> QED
    BY <2>1, <2>2
<1>3. CASE I # {}
  <2>1. I \in SUBSET Nat
    OBVIOUS
  <2>2. j \in I
    BY <1>3, <2>1, MinIn
  <2> HIDE DEF j
  <2>3. j # 0 /\ j \in 1 .. Len(acc.tmp) /\ Meet(acc.sz, c, acc.tmp[j])
    BY <2>2
  <2>4. [acc.tmp EXCEPT ![j] = Lower(c, @)] = [acc.tmp EXCEPT ![j] = Lower(c, acc.tmp[j])]
    OBVIOUS
  <2> QED
    BY <1>1, <2>3, <2>4
<1> QED
  BY <1>2, <1>3

LEMMA MergeOneStays ==
  ASSUME NEW acc \in Acc, NEW c \in Addr
  PROVE  MergeOne(acc, c) \in Acc
<1>1. acc.tmp \in Seq(Addr) /\ acc.sz \in [Addr -> Nat]
  BY DEF Acc
<1>2. CASE MergeOne(acc, c) = [tmp |-> Append(acc.tmp, c), sz |-> acc.sz]
  BY <1>1, <1>2 DEF Acc
<1>3. ASSUME NEW j \in 1 .. Len(acc.tmp),
             MergeOne(acc, c) = [tmp |-> [acc.tmp EXCEPT ![j] = Lower(c, acc.tmp[j])],
                                 sz |-> Grown(acc.sz, c, acc.tmp[j])]
      PROVE  MergeOne(acc, c) \in Acc
  <2>1. acc.tmp[j] \in Addr /\ Lower(c, acc.tmp[j]) \in Addr
    BY <1>1, ElementOfSeq DEF Lower
  <2>2. [acc.tmp EXCEPT ![j] = Lower(c, acc.tmp[j])] \in Seq(Addr)
    BY <1>1, <2>1, ExceptSeq
  <2>3. Grown(acc.sz, c, acc.tmp[j]) \in [Addr -> Nat]
    <3> DEFINE d == acc.tmp[j]
    <3>1. acc.sz[c] + acc.sz[d] \in Nat
      BY <1>1, <2>1
    <3> HIDE DEF d
    <3> QED
      BY <1>1, <3>1 DEF Grown, d
  <2> QED
    BY <1>3, <2>2, <2>3 DEF Acc
<1> QED
  BY <1>2, <1>3, MergeOneIs

IsMerge(order, sz, acc) ==
  acc = [k \in 0 .. Len(order) |->
          IF k = 0 THEN [tmp |-> <<>>, sz |-> sz] ELSE MergeOne(acc[k - 1], order[k])]

LEMMA MergeStepsAre ==
  ASSUME NEW order \in Seq(Addr), NEW sz \in [Addr -> Nat]
  PROVE  LET f == MergeSteps(order, sz) IN
         /\ f[0] = [tmp |-> <<>>, sz |-> sz]
         /\ \A k \in 1 .. Len(order) : f[k] = MergeOne(f[k - 1], order[k])
<1> DEFINE N == Len(order)
           b == [tmp |-> <<>>, sz |-> sz]
           g == [p \in (1 .. N) \X Acc |-> MergeOne(p[2], order[p[1]])]
<1>1. N \in Nat /\ \A k \in 1 .. N : order[k] \in Addr
  BY ElementOfSeq
<1>2. b \in Acc
  BY DEF Acc
<1>3. g \in [(1 .. N) \X Acc -> Acc]
  BY <1>1, MergeOneStays
<1>4. PICK f \in [0 .. N -> Acc] : f[0] = b /\ \A k \in 1 .. N : f[k] = g[<<k, f[k - 1]>>]
  <2> HIDE DEF b, g, N
  <2>1. HasSteps(N, Acc, b, g)
    BY <1>1, <1>2, <1>3, StepsExist
  <2> QED
    BY <2>1 DEF HasSteps
<1>5. \A k \in 1 .. N : f[k] = MergeOne(f[k - 1], order[k])
  <2> SUFFICES ASSUME NEW k \in 1 .. N PROVE f[k] = MergeOne(f[k - 1], order[k])
    OBVIOUS
  <2> HIDE DEF N, b, g
  <2>1. k - 1 \in 0 .. N
    BY <1>1
  <2>2. <<k, f[k - 1]>> \in (1 .. N) \X Acc
    BY <2>1
  <2> QED
    BY <1>4, <2>2 DEF g
<1>6. IsMerge(order, sz, f)
  <2>1. f = [k \in 0 .. N |-> IF k = 0 THEN b ELSE MergeOne(f[k - 1], order[k])]
    <3> HIDE DEF b
    <3>1. \A k \in 0 .. N : k # 0 => k \in 1 .. N
      BY <1>1
    <3> QED
      BY <1>4, <1>5, <3>1
  <2> QED
    BY <2>1 DEF IsMerge
<1> DEFINE e == CHOOSE e : IsMerge(order, sz, e)
<1>7. IsMerge(order, sz, e)
  BY <1>6
<1>8. MergeSteps(order, sz) = e
  BY DEF MergeSteps, IsMerge
<1> HIDE DEF e
<1>9. e[0] = b /\ \A k \in 1 .. N : e[k] = MergeOne(e[k - 1], order[k])
  <2>1. e = [k \in 0 .. N |-> IF k = 0 THEN b ELSE MergeOne(e[k - 1], order[k])]
    BY <1>7 DEF IsMerge
  <2> HIDE DEF b
  <2>2. 0 \in 0 .. N /\ \A k \in 1 .. N : k \in 0 .. N /\ k # 0
    BY <1>1
  <2> QED
    BY <2>1, <2>2
<1> QED
  BY <1>8, <1>9

\* A list with one more at its end
LEMMA AppendedTo ==
  ASSUME NEW D, NEW l \in Seq(D), NoTwice(l), NEW c \in D, c \notin ToSet(l)
  PROVE  NoTwice(Append(l, c)) /\ ToSet(Append(l, c)) = ToSet(l) \cup {c}
<1> DEFINE e == Append(l, c)
           n == Len(l)
<1>1. n \in Nat /\ Len(e) = n + 1 /\ e[n + 1] = c /\ \A i \in 1 .. n : e[i] = l[i]
  OBVIOUS
<1>2. DOMAIN e = 1 .. n + 1 /\ DOMAIN l = 1 .. n
  OBVIOUS
<1> HIDE DEF e
<1>3. \A i \in 1 .. n + 1 : i \in 1 .. n \/ i = n + 1
  BY <1>1
<1>4. \A i \in 1 .. n : l[i] # c
  BY <1>2 DEF ToSet
<1>5. ASSUME NEW i \in 1 .. n + 1, NEW j \in 1 .. n + 1, e[i] = e[j] PROVE i = j
  <2>1. CASE i \in 1 .. n /\ j \in 1 .. n
    BY <1>1, <1>5, <2>1 DEF NoTwice
  <2>2. CASE i = n + 1 /\ j \in 1 .. n
    BY <1>1, <1>4, <1>5, <2>2
  <2>3. CASE j = n + 1 /\ i \in 1 .. n
    BY <1>1, <1>4, <1>5, <2>3
  <2> QED
    BY <1>3, <2>1, <2>2, <2>3
<1>6. ToSet(e) = ToSet(l) \cup {c}
  <2>1. \A i \in 1 .. n + 1 : e[i] \in ToSet(l) \cup {c}
    BY <1>1, <1>2, <1>3 DEF ToSet
  <2>2. \A i \in 1 .. n : l[i] \in ToSet(e)
    <3> SUFFICES ASSUME NEW i \in 1 .. n PROVE l[i] \in ToSet(e)
      OBVIOUS
    <3>1. i \in 1 .. n + 1 /\ e[i] = l[i]
      BY <1>1
    <3> QED
      BY <1>2, <3>1 DEF ToSet
  <2>3. c \in ToSet(e)
    <3>1. n + 1 \in 1 .. n + 1
      BY <1>1
    <3> QED
      BY <1>1, <1>2, <3>1 DEF ToSet
  <2> QED
    BY <1>2, <2>1, <2>2, <2>3 DEF ToSet
<1> QED
  BY <1>1, <1>5, <1>6 DEF NoTwice, e

ReplacedRight(l, j, c) ==
  /\ NoTwice([l EXCEPT ![j] = c])
  /\ ToSet([l EXCEPT ![j] = c]) = (ToSet(l) \ {l[j]}) \cup {c}

\* A list with c in the place of another chunk
LEMMA Replaced ==
  ASSUME NEW D, NEW l \in Seq(D), NoTwice(l), NEW c \in D, c \notin ToSet(l), NEW j \in 1 .. Len(l)
  PROVE  ReplacedRight(l, j, c)
<1> DEFINE e == [l EXCEPT ![j] = c]
           n == Len(l)
<1>1. n \in Nat /\ DOMAIN l = 1 .. n /\ Len(e) = n /\ DOMAIN e = 1 .. n
  OBVIOUS
<1>2. e[j] = c /\ \A i \in 1 .. n : i # j => e[i] = l[i]
  OBVIOUS
<1> HIDE DEF e
<1>3. \A i \in 1 .. n : l[i] # c
  BY <1>1 DEF ToSet
<1>4. \A a, b \in 1 .. n : l[a] = l[b] => a = b
  BY DEF NoTwice
<1>5. ASSUME NEW a \in 1 .. n, NEW b \in 1 .. n, e[a] = e[b] PROVE a = b
  BY <1>2, <1>3, <1>4, <1>5
<1>6. ASSUME NEW x PROVE x \in ToSet(e) <=> x \in (ToSet(l) \ {l[j]}) \cup {c}
  <2>1. x \in ToSet(e) <=> \E i \in 1 .. n : x = e[i]
    BY <1>1 DEF ToSet
  <2>2. x \in ToSet(l) <=> \E i \in 1 .. n : x = l[i]
    BY <1>1 DEF ToSet
  <2> QED
    BY <1>2, <1>3, <1>4, <2>1, <2>2
<1> QED
  <2>1. NoTwice(e) /\ ToSet(e) = (ToSet(l) \ {l[j]}) \cup {c}
    BY <1>1, <1>5, <1>6 DEF NoTwice
  <2> QED
    BY <2>1, Zenon DEF ReplacedRight, e

\* What there is after k chunks: those of them that were not merged into another
Before(order, k) == {order[i] : i \in 1 .. k}

MergedSo(order, sz, t, k, acc) ==
  /\ acc \in Acc /\ Tiles(acc.sz, t) /\ NoTwice(acc.tmp)
  /\ ToSet(acc.tmp) = {c \in Before(order, k) : acc.sz[c] > 0}
  /\ \A a \in Addr \ Before(order, k) : acc.sz[a] = sz[a]
  /\ \A a \in Addr : acc.sz[a] # 0 => acc.sz[a] >= sz[a] /\ sz[a] > 0

\* One more chunk of the list is merged or kept.
LEMMA MergeOneKeeps ==
  ASSUME NEW order \in Seq(Addr), NoTwice(order), NEW sz \in [Addr -> Nat],
         NEW t \in 1 .. MaxMem + 1, \A c \in ToSet(order) : sz[c] > 0,
         NEW k \in 1 .. Len(order), NEW acc, MergedSo(order, sz, t, k - 1, acc)
  PROVE  MergedSo(order, sz, t, k, MergeOne(acc, order[k]))
<1> DEFINE c == order[k]
           n == Len(order)
<1>1. /\ n \in Nat /\ DOMAIN order = 1 .. n /\ c \in Addr /\ c \in ToSet(order)
      /\ \A i \in 1 .. n : order[i] \in Addr
  BY ElementOfSeq DEF ToSet
<1>2. Before(order, k) = Before(order, k - 1) \cup {c}
  BY DEF Before
<1>3. c \notin Before(order, k - 1)
  <2>1. \A i \in 1 .. k - 1 : i \in 1 .. n /\ i # k
    BY <1>1
  <2> QED
    BY <2>1 DEF Before, NoTwice
<1>4. Before(order, k - 1) \subseteq Addr
  <2>1. \A i \in 1 .. k - 1 : i \in 1 .. n
    BY <1>1
  <2> QED
    BY <1>1, <2>1 DEF Before
<1>5. acc.sz[c] = sz[c] /\ sz[c] > 0 /\ c \notin ToSet(acc.tmp)
  BY <1>1, <1>3 DEF MergedSo
<1>6. /\ acc.tmp \in Seq(Addr) /\ acc.sz \in [Addr -> Nat] /\ acc \in Acc
      /\ Tiles(acc.sz, t) /\ NoTwice(acc.tmp)
  BY DEF MergedSo, Acc
<1> DEFINE new == MergeOne(acc, c)
<1> HIDE DEF c, n, new
<1>7. new \in Acc
  BY <1>1, <1>6, MergeOneStays DEF new
<1>8. ASSUME new = [tmp |-> Append(acc.tmp, c), sz |-> acc.sz] PROVE MergedSo(order, sz, t, k, new)
  <2>1. new.sz = acc.sz /\ new.tmp = Append(acc.tmp, c)
    BY <1>8
  <2>2. NoTwice(new.tmp) /\ ToSet(new.tmp) = ToSet(acc.tmp) \cup {c}
    BY <1>1, <1>5, <1>6, <2>1, AppendedTo
  <2>3. ToSet(new.tmp) = {d \in Before(order, k) : new.sz[d] > 0}
    BY <1>2, <1>5, <2>1, <2>2 DEF MergedSo
  <2>4. \A a \in Addr \ Before(order, k) : new.sz[a] = sz[a]
    BY <1>2, <2>1 DEF MergedSo
  <2>5. \A a \in Addr : new.sz[a] # 0 => new.sz[a] >= sz[a] /\ sz[a] > 0
    BY <2>1 DEF MergedSo
  <2>6. Tiles(new.sz, t)
    BY <1>6, <2>1
  <2> QED
    BY <1>7, <2>2, <2>3, <2>4, <2>5, <2>6, Zenon DEF MergedSo
<1>9. ASSUME NEW j \in 1 .. Len(acc.tmp), Meet(acc.sz, c, acc.tmp[j]),
             new = [tmp |-> [acc.tmp EXCEPT ![j] = Lower(c, acc.tmp[j])],
                    sz |-> Grown(acc.sz, c, acc.tmp[j])]
      PROVE  MergedSo(order, sz, t, k, new)
  <2> DEFINE d == acc.tmp[j]
             lo == Lower(c, d)
             hi == Upper(c, d)
  <2>1. d \in ToSet(acc.tmp)
    <3>1. j \in DOMAIN acc.tmp
      BY <1>6
    <3> QED
      BY <3>1, Zenon DEF ToSet
  <2>2. d \in Before(order, k - 1) /\ acc.sz[d] > 0 /\ c # d /\ d \in Addr
    BY <1>3, <1>4, <2>1 DEF MergedSo
  <2>3. new.sz = Grown(acc.sz, c, d) /\ new.tmp = [acc.tmp EXCEPT ![j] = lo]
    BY <1>9
  <2>4. Meet(acc.sz, c, d) /\ acc.sz[c] > 0
    BY <1>5, <1>9
  <2> HIDE DEF d
  <2>5. /\ Tiles(new.sz, t) /\ lo \in {c, d} /\ hi \in {c, d} /\ lo # hi
        /\ new.sz[lo] > acc.sz[lo] /\ new.sz[hi] = 0
        /\ \A a \in Addr : a \notin {c, d} => new.sz[a] = acc.sz[a]
    <3>1. t \in 1 .. MaxMem + 1
      OBVIOUS
    <3>2. /\ Tiles(Grown(acc.sz, c, d), t)
          /\ Lower(c, d) \in {c, d} /\ Upper(c, d) \in {c, d} /\ Lower(c, d) # Upper(c, d)
          /\ Grown(acc.sz, c, d)[Lower(c, d)] > acc.sz[Lower(c, d)]
          /\ Grown(acc.sz, c, d)[Upper(c, d)] = 0
          /\ \A a \in Addr : a \notin {c, d} => Grown(acc.sz, c, d)[a] = acc.sz[a]
      <4>1. MergedRight(acc.sz, t, c, d)
        BY <1>1, <1>6, <2>2, <2>4, <3>1, TilesMerged
      <4> QED
        BY <4>1, Zenon DEF MergedRight
    <3> QED
      BY <2>3, <3>2, Zenon
  <2>6. NoTwice(new.tmp) /\ ToSet(new.tmp) = (ToSet(acc.tmp) \cup {c}) \ {hi}
    <3>1. CASE lo = c
      <4>1. new.tmp = [acc.tmp EXCEPT ![j] = c]
        BY <2>3, <3>1
      <4>2. NoTwice(new.tmp) /\ ToSet(new.tmp) = (ToSet(acc.tmp) \ {d}) \cup {c}
        <5>1. /\ NoTwice([acc.tmp EXCEPT ![j] = c])
              /\ ToSet([acc.tmp EXCEPT ![j] = c]) = (ToSet(acc.tmp) \ {acc.tmp[j]}) \cup {c}
          <6>1. ReplacedRight(acc.tmp, j, c)
            BY <1>1, <1>5, <1>6, Replaced
          <6> QED
            BY <6>1, Zenon DEF ReplacedRight
        <5> QED
          BY <4>1, <5>1 DEF d
      <4>3. hi = d
        BY <2>5, <3>1
      <4> QED
        BY <2>2, <4>2, <4>3
    <3>2. CASE lo = d
      <4>1. new.tmp = acc.tmp
        BY <1>6, <2>3, <3>2 DEF d
      <4>2. hi = c
        BY <2>5, <3>2
      <4> QED
        BY <1>5, <1>6, <4>1, <4>2
    <3> QED
      BY <2>5, <3>1, <3>2
  <2> HIDE DEF lo, hi
  <2>7. new.sz \in [Addr -> Nat] /\ lo \in Addr /\ hi \in Addr /\ acc.sz[lo] > 0 /\ {lo, hi} = {c, d}
    BY <1>1, <1>7, <2>2, <2>4, <2>5 DEF Acc
  <2>8. ASSUME NEW a \in Addr PROVE a \in ToSet(new.tmp) <=> a \in Before(order, k) /\ new.sz[a] > 0
    <3>1. CASE a = hi
      BY <2>5, <2>6, <3>1
    <3>2. CASE a = lo
      <4>1. a \in ToSet(acc.tmp) \cup {c}
        BY <2>1, <2>5, <3>2
      <4>2. a \in Before(order, k)
        BY <1>2, <2>2, <2>5, <3>2
      <4>3. new.sz[lo] > 0
        <5>1. acc.sz[lo] \in Nat /\ new.sz[lo] \in Nat /\ new.sz[lo] > acc.sz[lo]
          BY <1>6, <2>5, <2>7
        <5> QED
          BY <5>1
      <4> QED
        BY <2>5, <2>6, <3>2, <4>1, <4>2, <4>3
    <3>3. CASE a \notin {c, d}
      <4>1. new.sz[a] = acc.sz[a]
        BY <2>5, <3>3
      <4> QED
        BY <1>2, <2>5, <2>6, <3>3, <4>1 DEF MergedSo
    <3> QED
      BY <2>7, <3>1, <3>2, <3>3
  <2>9. ToSet(new.tmp) = {a \in Before(order, k) : new.sz[a] > 0}
    <3>1. ToSet(new.tmp) \subseteq Addr /\ Before(order, k) \subseteq Addr
      BY <1>1, <1>2, <1>4, <2>6 DEF MergedSo
    <3> QED
      BY <2>8, <3>1
  <2>10. \A a \in Addr \ Before(order, k) : new.sz[a] = sz[a]
    BY <1>2, <2>2, <2>5 DEF MergedSo
  <2>11. \A a \in Addr : new.sz[a] # 0 => new.sz[a] >= sz[a] /\ sz[a] > 0
    <3> SUFFICES ASSUME NEW a \in Addr, new.sz[a] # 0 PROVE new.sz[a] >= sz[a] /\ sz[a] > 0
      OBVIOUS
    <3>1. CASE a = lo
      <4>1. acc.sz[lo] >= sz[lo] /\ sz[lo] > 0
        <5>1. \A b \in Addr : acc.sz[b] # 0 => acc.sz[b] >= sz[b] /\ sz[b] > 0
          BY DEF MergedSo
        <5>2. lo \in Addr /\ acc.sz[lo] # 0
          BY <2>7, SMTT(30)
        <5> QED
          BY <5>1, <5>2
      <4>2. acc.sz[lo] \in Nat /\ new.sz[lo] \in Nat /\ new.sz[lo] > acc.sz[lo] /\ sz[lo] \in Nat
        BY <1>6, <2>5, <2>7
      <4> QED
        BY <3>1, <4>1, <4>2
    <3>2. CASE a \notin {c, d}
      BY <2>5, <3>2 DEF MergedSo
    <3> QED
      BY <2>5, <2>7, <3>1, <3>2
  <2> QED
    BY <1>7, <2>5, <2>6, <2>9, <2>10, <2>11 DEF MergedSo
<1> QED
  BY <1>1, <1>6, <1>8, <1>9, MergeOneIs DEF new, c

\* The whole loop
LEMMA Merged ==
  ASSUME NEW order \in Seq(Addr), NoTwice(order), NEW sz \in [Addr -> Nat],
         NEW t \in 1 .. MaxMem + 1, Tiles(sz, t), \A c \in ToSet(order) : sz[c] > 0
  PROVE  MergedSo(order, sz, t, Len(order), MergeSteps(order, sz)[Len(order)])
<1> DEFINE f == MergeSteps(order, sz)
           N == Len(order)
           G == {k \in Nat : k <= N => MergedSo(order, sz, t, k, f[k])}
<1>1. f[0] = [tmp |-> <<>>, sz |-> sz] /\ \A k \in 1 .. N : f[k] = MergeOne(f[k - 1], order[k])
  BY MergeStepsAre
<1> HIDE DEF f
<1>2. N \in Nat
  OBVIOUS
<1>3. 0 \in G
  <2>1. f[0].tmp = <<>> /\ f[0].sz = sz /\ f[0] \in Acc
    BY <1>1 DEF Acc
  <2>2. NoTwice(<<>>) /\ ToSet(<<>>) = {} /\ Before(order, 0) = {}
    BY DEF NoTwice, ToSet, Before
  <2>3. \A a \in Addr : sz[a] # 0 => sz[a] >= sz[a] /\ sz[a] > 0
    OBVIOUS
  <2> QED
    BY <2>1, <2>2, <2>3 DEF MergedSo
<1>4. ASSUME NEW k \in G PROVE k + 1 \in G
  <2> SUFFICES ASSUME k + 1 <= N PROVE MergedSo(order, sz, t, k + 1, f[k + 1])
    OBVIOUS
  <2>1. k + 1 \in 1 .. N /\ (k + 1) - 1 = k /\ MergedSo(order, sz, t, k, f[k])
    BY <1>2
  <2>2. f[k + 1] = MergeOne(f[k], order[k + 1])
    BY <1>1, <2>1
  <2> HIDE DEF N
  <2>3. MergedSo(order, sz, t, (k + 1) - 1, f[k])
    BY <2>1
  <2>4. MergedSo(order, sz, t, k + 1, MergeOne(f[k], order[k + 1]))
    BY <2>1, <2>3, MergeOneKeeps DEF N
  <2> QED
    BY <2>2, <2>4
<1>5. G = Nat
  <2> HIDE DEF G
  <2>1. G \in SUBSET Nat
    BY DEF G
  <2> QED
    BY <1>3, <1>4, <2>1, NatSet
<1> QED
  BY <1>2, <1>5 DEF f

-----------------------------------------------------------------------------
(* The order of the merges has the same chunks. *)

LEMMA OrderIs ==
  ASSUME NEW l \in Seq(Addr), NoTwice(l)
  PROVE  /\ MergeOrder(l) \in Seq(Addr) /\ Len(MergeOrder(l)) = Len(l)
         /\ NoTwice(MergeOrder(l)) /\ ToSet(MergeOrder(l)) = ToSet(l)
<1> DEFINE n == Len(l)
           P(k) == CASE k = 1 -> n [] k = 2 -> 1 [] OTHER -> n + 2 - k
           m == MergeOrder(l)
<1>1. n \in Nat /\ DOMAIN l = 1 .. n /\ \A i \in 1 .. n : l[i] \in Addr
  BY ElementOfSeq
<1>2. m = [k \in 1 .. n |-> l[P(k)]]
  BY DEF MergeOrder
<1>3. \A k \in 1 .. n : P(k) = IF k = 1 THEN n ELSE IF k = 2 THEN 1 ELSE n + 2 - k
  OBVIOUS
<1> HIDE DEF P, m
<1>4. \A k \in 1 .. n : P(k) \in 1 .. n
  BY <1>1, <1>3
<1>5. ASSUME NEW i \in 1 .. n, NEW j \in 1 .. n, P(i) = P(j) PROVE i = j
  <2>1. n \in Nat /\ i \in 1 .. n /\ j \in 1 .. n
    OBVIOUS
  <2>2. /\ (i = 1 => P(i) = n) /\ (i = 2 => P(i) = 1) /\ (i > 2 => P(i) = n + 2 - i)
        /\ (j = 1 => P(j) = n) /\ (j = 2 => P(j) = 1) /\ (j > 2 => P(j) = n + 2 - j)
    <3>1. i > 2 => i # 1 /\ i # 2
      OBVIOUS
    <3>2. j > 2 => j # 1 /\ j # 2
      OBVIOUS
    <3> QED
      BY <1>3, <3>1, <3>2
  <2> DEFINE p == P(i)
  <2>3. /\ (i = 1 => p = n) /\ (i = 2 => p = 1) /\ (i > 2 => p = n + 2 - i)
        /\ (j = 1 => p = n) /\ (j = 2 => p = 1) /\ (j > 2 => p = n + 2 - j)
    BY <1>5, <2>2
  <2> HIDE DEF p, n
  <2> QED
    BY ONLY <2>1, <2>3
<1>6. ASSUME NEW i \in 1 .. n PROVE \E k \in 1 .. n : P(k) = i
  <2>1. CASE i = n
    <3>1. 1 \in 1 .. n /\ P(1) = i
      BY <1>1, <1>3, <2>1
    <3> QED
      BY <3>1
  <2>2. CASE i # n /\ i = 1
    <3>1. 2 \in 1 .. n /\ P(2) = i
      BY <1>1, <1>3, <2>2
    <3> QED
      BY <3>1
  <2>3. CASE i # n /\ i # 1
    <3>1. n + 2 - i \in 1 .. n /\ n + 2 - i # 1 /\ n + 2 - i # 2 /\ n + 2 - (n + 2 - i) = i
      <4>1. i > 1 /\ i < n /\ i \in Nat /\ n \in Nat
        BY <2>3
      <4> QED
        BY <4>1
    <3>2. P(n + 2 - i) = i
      BY <1>3, <3>1
    <3> QED
      BY <3>1, <3>2
  <2> QED
    BY <2>1, <2>2, <2>3
<1>7. m \in Seq(Addr) /\ Len(m) = n /\ DOMAIN m = 1 .. n
  <2>1. m \in [1 .. n -> Addr]
    BY <1>1, <1>2, <1>4
  <2> QED
    BY <1>1, <2>1
<1>8. NoTwice(m)
  <2> SUFFICES ASSUME NEW i \in 1 .. n, NEW j \in 1 .. n, m[i] = m[j] PROVE i = j
    BY <1>7 DEF NoTwice
  <2>1. l[P(i)] = l[P(j)]
    BY <1>2
  <2>2. P(i) = P(j)
    BY <1>4, <2>1 DEF NoTwice
  <2> QED
    BY <1>5, <2>2
<1>9. \A x \in ToSet(m) : x \in ToSet(l)
  BY <1>1, <1>2, <1>4, <1>7 DEF ToSet
<1>10. \A x \in ToSet(l) : x \in ToSet(m)
  <2> SUFFICES ASSUME NEW i \in 1 .. n PROVE l[i] \in ToSet(m)
    BY <1>1 DEF ToSet
  <2>1. PICK k \in 1 .. n : P(k) = i
    BY <1>6
  <2>2. m[k] = l[i]
    BY <1>2, <2>1
  <2> QED
    BY <1>7, <2>2 DEF ToSet
<1> QED
  BY <1>7, <1>8, <1>9, <1>10 DEF m

-----------------------------------------------------------------------------
(* The chunks that are left are put into a new list. *)

LEMMA InsertRight ==
  ASSUME NEW l \in Seq(Addr), NEW sz \in [Addr -> Nat], NEW c \in Addr
  PROVE  \E i \in 1 .. Len(l) + 1 : Insert(l, sz, c) = InsertAt(l, i, c)
<1> DEFINE b == Bisearch(l, sz, sz[c])
           i == IF b = -1 THEN Len(l) + 1 ELSE b + 1
<1>1. sz[c] \in Nat /\ Len(l) \in Nat
  OBVIOUS
<1>2. b \in -1 .. Len(l) - 1
  BY <1>1, SearchFinds
<1>3. Insert(l, sz, c) = InsertAt(l, i, c)
  BY DEF Insert
<1> HIDE DEF b
<1>4. i \in 1 .. Len(l) + 1
  BY <1>1, <1>2
<1> QED
  BY <1>3, <1>4

LEMMA InsertStays ==
  ASSUME NEW l \in Seq(Addr), NEW sz \in [Addr -> Nat], NEW c \in Addr
  PROVE  Insert(l, sz, c) \in Seq(Addr)
<1>1. PICK i \in 1 .. Len(l) + 1 : Insert(l, sz, c) = InsertAt(l, i, c)
  BY InsertRight
<1>2. InsertAt(l, i, c) \in Seq(Addr)
  BY InsertedAt
<1> QED
  BY <1>1, <1>2

\* One more chunk is put into the new list.
LEMMA InsertOne ==
  ASSUME NEW l \in Seq(Addr), NoTwice(l), NEW sz \in [Addr -> Nat], NEW c \in Addr, c \notin ToSet(l)
  PROVE  /\ Insert(l, sz, c) \in Seq(Addr) /\ NoTwice(Insert(l, sz, c))
         /\ ToSet(Insert(l, sz, c)) = ToSet(l) \cup {c}
<1>1. PICK i \in 1 .. Len(l) + 1 : Insert(l, sz, c) = InsertAt(l, i, c)
  BY InsertRight
<1>2. /\ InsertAt(l, i, c) \in Seq(Addr) /\ NoTwice(InsertAt(l, i, c))
      /\ ToSet(InsertAt(l, i, c)) = ToSet(l) \cup {c}
  BY Inserted
<1> QED
  BY <1>1, <1>2

IsInsert(tmp, sz, list) ==
  list = [k \in 0 .. Len(tmp) |-> IF k = 0 THEN <<>> ELSE Insert(list[k - 1], sz, tmp[k])]

LEMMA InsertStepsAre ==
  ASSUME NEW tmp \in Seq(Addr), NEW sz \in [Addr -> Nat]
  PROVE  LET f == InsertSteps(tmp, sz) IN
         f[0] = <<>> /\ \A k \in 1 .. Len(tmp) : f[k] = Insert(f[k - 1], sz, tmp[k])
<1> DEFINE N == Len(tmp)
           S == Seq(Addr)
           b == <<>>
           g == [p \in (1 .. N) \X S |-> Insert(p[2], sz, tmp[p[1]])]
<1>1. N \in Nat /\ \A k \in 1 .. N : tmp[k] \in Addr
  BY ElementOfSeq
<1>2. b \in S
  OBVIOUS
<1>3. g \in [(1 .. N) \X S -> S]
  BY <1>1, InsertStays
<1>4. PICK f \in [0 .. N -> S] : f[0] = b /\ \A k \in 1 .. N : f[k] = g[<<k, f[k - 1]>>]
  <2> HIDE DEF b, g, N, S
  <2>1. HasSteps(N, S, b, g)
    BY <1>1, <1>2, <1>3, StepsExist
  <2> QED
    BY <2>1 DEF HasSteps
<1>5. \A k \in 1 .. N : f[k] = Insert(f[k - 1], sz, tmp[k])
  <2> SUFFICES ASSUME NEW k \in 1 .. N PROVE f[k] = Insert(f[k - 1], sz, tmp[k])
    OBVIOUS
  <2> HIDE DEF N, b, g, S
  <2>1. k - 1 \in 0 .. N
    BY <1>1
  <2>2. <<k, f[k - 1]>> \in (1 .. N) \X S
    BY <2>1
  <2> QED
    BY <1>4, <2>2 DEF g
<1>6. IsInsert(tmp, sz, f)
  <2>1. f = [k \in 0 .. N |-> IF k = 0 THEN b ELSE Insert(f[k - 1], sz, tmp[k])]
    <3> HIDE DEF b, S
    <3>1. \A k \in 0 .. N : k # 0 => k \in 1 .. N
      BY <1>1
    <3> QED
      BY <1>4, <1>5, <3>1
  <2> QED
    BY <2>1 DEF IsInsert
<1> DEFINE e == CHOOSE e : IsInsert(tmp, sz, e)
<1>7. IsInsert(tmp, sz, e)
  BY <1>6
<1>8. InsertSteps(tmp, sz) = e
  BY DEF InsertSteps, IsInsert
<1> HIDE DEF e
<1>9. e[0] = b /\ \A k \in 1 .. N : e[k] = Insert(e[k - 1], sz, tmp[k])
  <2>1. e = [k \in 0 .. N |-> IF k = 0 THEN b ELSE Insert(e[k - 1], sz, tmp[k])]
    BY <1>7 DEF IsInsert
  <2> HIDE DEF b
  <2>2. 0 \in 0 .. N /\ \A k \in 1 .. N : k \in 0 .. N /\ k # 0
    BY <1>1
  <2> QED
    BY <2>1, <2>2
<1> QED
  BY <1>8, <1>9

\* In the end they are all there.
LEMMA AllInserted ==
  ASSUME NEW tmp \in Seq(Addr), NoTwice(tmp), NEW sz \in [Addr -> Nat]
  PROVE  LET list == InsertSteps(tmp, sz)[Len(tmp)] IN
         list \in Seq(Addr) /\ NoTwice(list) /\ ToSet(list) = ToSet(tmp)
<1> DEFINE f == InsertSteps(tmp, sz)
           N == Len(tmp)
           In(k) == f[k] \in Seq(Addr) /\ NoTwice(f[k]) /\ ToSet(f[k]) = Before(tmp, k)
           G == {k \in Nat : k <= N => In(k)}
<1>1. f[0] = <<>> /\ \A k \in 1 .. N : f[k] = Insert(f[k - 1], sz, tmp[k])
  BY InsertStepsAre
<1> HIDE DEF f
<1>2. N \in Nat /\ DOMAIN tmp = 1 .. N /\ \A k \in 1 .. N : tmp[k] \in Addr
  BY ElementOfSeq
<1>3. 0 \in G
  <2>1. <<>> \in Seq(Addr) /\ NoTwice(<<>>) /\ ToSet(<<>>) = {} /\ Before(tmp, 0) = {}
    BY DEF NoTwice, ToSet, Before
  <2> QED
    BY <1>1, <2>1
<1>4. ASSUME NEW k \in G PROVE k + 1 \in G
  <2> SUFFICES ASSUME k + 1 <= N PROVE In(k + 1)
    OBVIOUS
  <2>1. k + 1 \in 1 .. N /\ In(k)
    BY <1>2
  <2>2. f[k + 1] = Insert(f[k], sz, tmp[k + 1])
    <3>1. (k + 1) - 1 = k
      OBVIOUS
    <3> QED
      BY <1>1, <2>1, <3>1
  <2>3. tmp[k + 1] \notin Before(tmp, k)
    <3>1. \A i \in 1 .. k : i \in 1 .. N /\ i # k + 1
      BY <1>2
    <3> QED
      BY <2>1, <3>1 DEF Before, NoTwice
  <2>4. Before(tmp, k + 1) = Before(tmp, k) \cup {tmp[k + 1]}
    BY DEF Before
  <2> DEFINE l == f[k]
             c == tmp[k + 1]
  <2>5. l \in Seq(Addr) /\ NoTwice(l) /\ ToSet(l) = Before(tmp, k) /\ c \in Addr /\ c \notin ToSet(l)
    BY <1>2, <2>1, <2>3
  <2> HIDE DEF l, c
  <2>6. /\ Insert(l, sz, c) \in Seq(Addr) /\ NoTwice(Insert(l, sz, c))
        /\ ToSet(Insert(l, sz, c)) = ToSet(l) \cup {c}
    BY <2>5, InsertOne, SMTT(30)
  <2> QED
    BY <2>2, <2>4, <2>5, <2>6 DEF l, c
<1>5. G = Nat
  <2> HIDE DEF G
  <2>1. G \in SUBSET Nat
    BY DEF G
  <2> QED
    BY <1>3, <1>4, <2>1, NatSet
<1>6. Before(tmp, N) = ToSet(tmp)
  BY <1>2 DEF Before, ToSet
<1> QED
  BY <1>2, <1>5, <1>6 DEF f

-----------------------------------------------------------------------------
(* _chunk_from_bigfree as a whole. *)

\* A list of the chunks of big that are left, and sizes that grew or went
ListRight(list, sz) ==
  /\ sz \in [Addr -> 0 .. MaxMem] /\ Tiles(sz, top)
  /\ list \in Seq(Addr) /\ NoTwice(list)
  /\ ToSet(list) = {c \in ToSet(big) : sz[c] > 0}
  /\ \A a \in Addr \ ToSet(big) : sz[a] = size[a]
  /\ \A a \in Addr : sz[a] # 0 => sz[a] >= size[a] /\ size[a] > 0

\* The list after a merge has the chunks that are left.
LEMMA MergeBigRight ==
  ASSUME big \in Seq(Addr), NoTwice(big), size \in [Addr -> 0 .. MaxMem],
         top \in 1 .. MaxMem + 1, Tiles(size, top), \A c \in ToSet(big) : size[c] > 0
  PROVE  ListRight(MergeBig(big, size).list, MergeBig(big, size).sz)
<1> DEFINE order == MergeOrder(big)
           acc == MergeSteps(order, size)[Len(order)]
           list == InsertSteps(acc.tmp, acc.sz)[Len(acc.tmp)]
<1>1. /\ order \in Seq(Addr) /\ Len(order) = Len(big)
      /\ NoTwice(order) /\ ToSet(order) = ToSet(big)
  BY OrderIs
<1>2. size \in [Addr -> Nat]
  BY BigAssumption
<1>3. MergedSo(order, size, top, Len(order), acc)
  <2> HIDE DEF order
  <2> QED
    BY <1>1, <1>2, Merged
<1>4. MergeBig(big, size).list = list /\ MergeBig(big, size).sz = acc.sz
  <2>1. acc = MergeSteps(MergeOrder(big), size)[Len(big)]
    BY <1>1
  <2> QED
    BY <2>1, Zenon DEF MergeBig, PutBack
<1>5. Before(order, Len(order)) = ToSet(big)
  <2>1. DOMAIN order = 1 .. Len(order)
    BY <1>1
  <2> QED
    BY <1>1, <2>1 DEF Before, ToSet
<1> HIDE DEF acc, order
<1>6. /\ acc.tmp \in Seq(Addr) /\ acc.sz \in [Addr -> Nat] /\ Tiles(acc.sz, top) /\ NoTwice(acc.tmp)
      /\ ToSet(acc.tmp) = {c \in ToSet(big) : acc.sz[c] > 0}
      /\ \A a \in Addr \ ToSet(big) : acc.sz[a] = size[a]
      /\ \A a \in Addr : acc.sz[a] # 0 => acc.sz[a] >= size[a] /\ size[a] > 0
  BY <1>3, <1>5 DEF MergedSo, Acc
<1>7. list \in Seq(Addr) /\ NoTwice(list) /\ ToSet(list) = ToSet(acc.tmp)
  BY <1>6, AllInserted
<1>8. acc.sz \in [Addr -> 0 .. MaxMem]
  <2> SUFFICES ASSUME NEW a \in Addr PROVE acc.sz[a] \in 0 .. MaxMem
    BY <1>6
  <2>1. acc.sz[a] \in Nat /\ (acc.sz[a] > 0 => a + acc.sz[a] <= top)
    BY <1>6 DEF Tiles
  <2> QED
    BY <2>1, BigAssumption DEF Addr
<1> HIDE DEF list
<1>9. ListRight(list, acc.sz)
  BY <1>6, <1>7, <1>8 DEF ListRight
<1> QED
  BY <1>4, <1>9

FoundRight(from, x) ==
  /\ from.sz \in [Addr -> 0 .. MaxMem] /\ Tiles(from.sz, top)
  /\ from.list \in Seq(Addr) /\ NoTwice(from.list)
  /\ \A c \in ToSet(from.list) : c \in ToSet(big) /\ from.sz[c] > 0
  /\ \A a \in Addr \ ToSet(big) : from.sz[a] = size[a]
  /\ \A a \in Addr : from.sz[a] # 0 => from.sz[a] >= size[a] /\ size[a] > 0
  /\ from.ends /\ from.c # Nothing =>
       /\ from.c \in ToSet(big) /\ from.c \notin ToSet(from.list)
       /\ from.sz[from.c] >= x /\ from.sz[from.c] > 0
  /\ \A a \in ToSet(big) : from.sz[a] > 0 => a \in ToSet(from.list) \/ a = from.c

\* A chunk that is found is taken out of the list.
LEMMA TakenOut ==
  ASSUME NEW list, NEW sz, ListRight(list, sz), NEW x \in Nat, NEW j, NEW from,
         j = Bisearch(list, sz, x) \/ j = -1,
         from.list = IF j >= 0 THEN Erase(list, j) ELSE list,
         from.sz = sz,
         from.c = IF j >= 0 THEN list[j + 1] ELSE Nothing,
         from.ends => Ends(list, sz, x) \/ j = -1
  PROVE  FoundRight(from, x)
<1>1. /\ list \in Seq(Addr) /\ NoTwice(list) /\ sz \in [Addr -> 0 .. MaxMem] /\ sz \in [Addr -> Nat]
      /\ \A c : c \in ToSet(list) <=> c \in ToSet(big) /\ sz[c] > 0
  BY BigAssumption DEF ListRight
<1>2. j \in -1 .. Len(list) - 1 /\ Len(list) \in Nat
  <2>1. Len(list) \in Nat
    BY <1>1, LenProperties
  <2>2. Bisearch(list, sz, x) \in -1 .. Len(list) - 1
    BY <1>1, SearchFinds
  <2> QED
    BY <2>1, <2>2
<1>3. Ends(list, sz, x) /\ j >= 0 => sz[list[j + 1]] >= x
  <2> SUFFICES ASSUME Ends(list, sz, x), j >= 0 PROVE sz[list[j + 1]] >= x
    OBVIOUS
  <2>1. j = Bisearch(list, sz, x)
    BY <1>2
  <2>2. Bisearch(list, sz, x) >= 0
    BY <2>1
  <2>3. sz[list[Bisearch(list, sz, x) + 1]] >= x
    BY <1>1, <2>2, SearchFinds
  <2> QED
    BY <2>1, <2>3
<1>4. CASE j >= 0
  <2> DEFINE c == list[j + 1]
  <2>1. j \in 0 .. Len(list) - 1 /\ j + 1 \in DOMAIN list /\ j # -1
    BY <1>1, <1>2, <1>4
  <2>2. /\ Erase(list, j) \in Seq(Addr) /\ NoTwice(Erase(list, j))
        /\ ToSet(Erase(list, j)) = ToSet(list) \ {c}
    BY <1>1, <2>1, BigErased
  <2>3. c \in ToSet(list)
    BY <2>1 DEF ToSet
  <2>4. from.list = Erase(list, j) /\ from.c = c
    BY <1>4
  <2>5. from.ends => sz[c] >= x
    BY <1>3, <1>4, <2>1
  <2> HIDE DEF c
  <2>6. /\ from.c \in ToSet(big) /\ from.c \notin ToSet(from.list) /\ from.sz[from.c] > 0
        /\ (from.ends => from.sz[from.c] >= x)
    BY <1>1, <2>2, <2>3, <2>4, <2>5
  <2>7. \A a \in ToSet(big) : from.sz[a] > 0 => a \in ToSet(from.list) \/ a = from.c
    BY <1>1, <2>2, <2>4
  <2>8. \A a \in ToSet(from.list) : a \in ToSet(big) /\ from.sz[a] > 0
    BY <1>1, <2>2, <2>4
  <2>9. /\ from.sz \in [Addr -> 0 .. MaxMem] /\ Tiles(from.sz, top)
        /\ \A a \in Addr \ ToSet(big) : from.sz[a] = size[a]
        /\ \A a \in Addr : from.sz[a] # 0 => from.sz[a] >= size[a] /\ size[a] > 0
    BY DEF ListRight
  <2>10. from.list \in Seq(Addr) /\ NoTwice(from.list)
    BY <2>2, <2>4
  <2> QED
    BY <2>6, <2>7, <2>8, <2>9, <2>10, Zenon DEF FoundRight
<1>5. CASE ~ (j >= 0)
  <2>1. from.list = list /\ from.c = Nothing
    BY <1>5
  <2>2. /\ from.sz \in [Addr -> 0 .. MaxMem] /\ Tiles(from.sz, top)
        /\ \A a \in Addr \ ToSet(big) : from.sz[a] = size[a]
        /\ \A a \in Addr : from.sz[a] # 0 => from.sz[a] >= size[a] /\ size[a] > 0
    BY DEF ListRight
  <2>3. /\ \A a \in ToSet(from.list) : a \in ToSet(big) /\ from.sz[a] > 0
        /\ \A a \in ToSet(big) : from.sz[a] > 0 => a \in ToSet(from.list)
    BY <1>1, <2>1
  <2> QED
    BY <1>1, <2>1, <2>2, <2>3, Zenon DEF FoundRight
<1> QED
  BY <1>4, <1>5

\* What _chunk_from_bigfree returns is out of the list, and large enough.
LEMMA FromBigRight ==
  ASSUME NEW x \in Nat, big \in Seq(Addr), NoTwice(big), size \in [Addr -> 0 .. MaxMem],
         top \in 1 .. MaxMem + 1, Tiles(size, top), \A c \in ToSet(big) : size[c] > 0
  PROVE  FoundRight(FromBig(x), x)
<1> DEFINE i == Bisearch(big, size, x)
           keep == i >= 0 \/ Len(big) <= Cardinality(Heaps)
           m == IF keep THEN [list |-> big, sz |-> size, ends |-> TRUE] ELSE MergeBig(big, size)
           shorter == Len(m.list) < Len(big)
           j == IF shorter THEN Bisearch(m.list, m.sz, x) ELSE i
           from == [list |-> IF j >= 0 THEN Erase(m.list, j) ELSE m.list,
                    sz |-> m.sz,
                    c |-> IF j >= 0 THEN m.list[j + 1] ELSE Nothing,
                    ends |-> Ends(big, size, x) /\ m.ends /\ (shorter => Ends(m.list, m.sz, x))]
<1>1. FromBig(x) = from
  BY DEF FromBig, TakeOut
<1>2. size \in [Addr -> Nat] /\ Len(big) \in Nat
  BY BigAssumption
<1>3. ListRight(big, size)
  <2>1. ToSet(big) = {c \in ToSet(big) : size[c] > 0}
    OBVIOUS
  <2>2. \A a \in Addr : size[a] # 0 => size[a] >= size[a] /\ size[a] > 0
    BY <1>2
  <2> QED
    BY <2>1, <2>2 DEF ListRight
<1>4. i \in -1 .. Len(big) - 1
  BY <1>2, SearchFinds
<1>5. ListRight(m.list, m.sz)
  <2>1. CASE keep
    <3>1. m.list = big /\ m.sz = size
      BY <2>1
    <3> QED
      BY <1>3, <3>1
  <2>2. CASE ~keep
    <3>1. m.list = MergeBig(big, size).list /\ m.sz = MergeBig(big, size).sz
      BY <2>2
    <3> QED
      BY <3>1, MergeBigRight
  <2> QED
    BY <2>1, <2>2
<1>6. /\ j = Bisearch(m.list, m.sz, x) \/ j = -1
      /\ from.ends => Ends(m.list, m.sz, x) \/ j = -1
  <2>1. CASE keep
    <3>1. m.list = big /\ m.sz = size
      BY <2>1
    <3>2. ~shorter
      BY <1>2, <3>1
    <3>3. j = Bisearch(m.list, m.sz, x)
      BY <3>1, <3>2
    <3>4. from.ends => Ends(big, size, x)
      OBVIOUS
    <3> QED
      BY <3>1, <3>3, <3>4
  <2>2. CASE ~keep
    <3>1. i = -1
      BY <1>4, <2>2
    <3>2. CASE shorter
      <4>1. j = Bisearch(m.list, m.sz, x)
        BY <3>2
      <4>2. from.ends => Ends(m.list, m.sz, x)
        BY <3>2
      <4> QED
        BY <4>1, <4>2
    <3>3. CASE ~shorter
      <4>1. j = -1
        BY <3>1, <3>3
      <4> QED
        BY <4>1
    <3> QED
      BY <3>2, <3>3
  <2> QED
    BY <2>1, <2>2
<1>7. /\ from.list = IF j >= 0 THEN Erase(m.list, j) ELSE m.list
      /\ from.sz = m.sz
      /\ from.c = IF j >= 0 THEN m.list[j + 1] ELSE Nothing
  OBVIOUS
<1> DEFINE list == m.list
           sz == m.sz
<1>8. /\ ListRight(list, sz) /\ (j = Bisearch(list, sz, x) \/ j = -1)
      /\ from.list = (IF j >= 0 THEN Erase(list, j) ELSE list) /\ from.sz = sz
      /\ from.c = (IF j >= 0 THEN list[j + 1] ELSE Nothing)
      /\ (from.ends => Ends(list, sz, x) \/ j = -1)
  BY <1>5, <1>6, <1>7
<1> HIDE DEF m, j, from, list, sz
<1>9. FoundRight(from, x)
  BY <1>8, TakenOut
<1> QED
  BY <1>1, <1>9

-----------------------------------------------------------------------------
(* Steps that leave the chunks where they are. *)

LEMMA WhoIs ==
  /\ Heaps \subseteq Procs /\ Freers \subseteq Procs /\ Procs = Heaps \cup Freers
  /\ \A h \in Heaps : h \notin Freers
  /\ Nothing \notin Addr /\ Addr \subseteq Nat /\ MaxMem \in Nat
  /\ \A n \in Lengths : n \in Nat /\ n > 0
  /\ First \in Nat /\ First > 0
BY BigAssumption DEF Procs, Addr

LEMMA SizesAre ==
  ASSUME BigTypes
  PROVE  /\ \A a \in Addr : size[a] \in Nat /\ slide[a] \in Nat /\ size[a] <= MaxMem
         /\ \A h \in Heaps : chunk[h] \in Addr /\ old[h] \in Nat
         /\ top \in Nat /\ top <= MaxMem + 1
         /\ \A b \in used : /\ b.chunk \in Addr /\ b.at \in Nat /\ b.len \in Nat /\ b.said \in Nat
                            /\ b.chunk \in Nat
<1>1. \A a \in Addr : size[a] \in Nat /\ slide[a] \in Nat /\ size[a] <= MaxMem
  BY WhoIs DEF BigTypes
<1>2. \A h \in Heaps : chunk[h] \in Addr /\ old[h] \in Nat
  BY WhoIs DEF BigTypes
<1>3. top \in Nat /\ top <= MaxMem + 1
  BY WhoIs DEF BigTypes
<1>4. \A b \in used : b.chunk \in Addr /\ b.at \in Addr /\ b.len \in Lengths /\ b.said \in Lengths
  BY DEF BigTypes
<1> QED
  BY <1>1, <1>2, <1>3, <1>4, WhoIs

\* Nobody takes a chunk or leaves it, and a chunk has blocks as before, or is a
\* heap's.
SameWhere ==
  /\ size' = size /\ big' = big /\ chunk' = chunk /\ recFlag' = recFlag
  /\ \A p \in Procs : (step'[p] = "put" <=> step[p] = "put") /\ (step[p] = "put" => cur'[p] = cur[p])
  /\ \A h \in Heaps : /\ Leaving(h)' <=> Leaving(h)
                      /\ step'[h] \in {"recheck", "unmark"} <=> step[h] \in {"recheck", "unmark"}
  /\ \A f \in Freers : step[f] = "recover" => step'[f] = "recover" /\ cur'[f] = cur[f]
  /\ \A b \in used' : (\E h \in Heaps : Owning(h, b.chunk)) \/ \E d \in used : d.chunk = b.chunk
  /\ \A d \in used : \E b \in used' : b.chunk = d.chunk

\* Then each chunk is where it was.
LEMMA WhereKept ==
  ASSUME InOnePlace, SomewhereOK, SameWhere
  PROVE  InOnePlace' /\ SomewhereOK'
<1>1. ASSUME NEW c, Empty(c), \A h \in Heaps : ~Owning(h, c) PROVE Empty(c)'
  BY <1>1 DEF SameWhere, Empty
<1>2. ASSUME NEW p \in Procs, NEW c PROVE Putting(p, c)' <=> Putting(p, c)
  BY DEF SameWhere, Putting
<1>3. ASSUME NEW h \in Heaps, NEW c PROVE Owning(h, c)' <=> Owning(h, c)
  BY DEF SameWhere, Owning
<1>4. ASSUME NEW h \in Heaps, NEW c PROVE Testing(h, c)' <=> Testing(h, c)
  BY DEF SameWhere, Testing
<1>5. ASSUME NEW f \in Freers, NEW c, Recovering(f, c) PROVE Recovering(f, c)'
  BY <1>5 DEF SameWhere, Recovering
<1>6. ASSUME NEW c, ~Empty(c) PROVE ~Empty(c)'
  BY <1>6 DEF SameWhere, Empty
<1>7. InOnePlace'
  <2>1. NoTwice(big)'
    BY DEF SameWhere, InOnePlace
  <2>2. ASSUME NEW c \in ToSet(big')
        PROVE  /\ size'[c] > 0 /\ recFlag'[c] # 1 /\ Empty(c)'
               /\ \A p \in Procs : ~Putting(p, c)'
               /\ \A h \in Heaps : ~Owning(h, c)'
    <3>1. /\ c \in ToSet(big) /\ size[c] > 0 /\ recFlag[c] # 1 /\ Empty(c)
          /\ \A p \in Procs : ~Putting(p, c)
          /\ \A h \in Heaps : ~Owning(h, c)
      BY DEF SameWhere, InOnePlace
    <3> QED
      BY <1>1, <1>2, <1>3, <3>1 DEF SameWhere
  <2>3. ASSUME NEW p \in Procs, step'[p] = "put"
        PROVE  (/\ size[cur[p]] > 0 /\ recFlag[cur[p]] # 1 /\ Empty(cur[p])
                /\ \A q \in Procs : Putting(q, cur[p]) => q = p
                /\ \A h \in Heaps : ~Owning(h, cur[p]))'
    <3>1. step[p] = "put" /\ cur'[p] = cur[p]
      BY <2>3 DEF SameWhere
    <3>2. /\ size[cur[p]] > 0 /\ recFlag[cur[p]] # 1 /\ Empty(cur[p])
          /\ \A q \in Procs : Putting(q, cur[p]) => q = p
          /\ \A h \in Heaps : ~Owning(h, cur[p])
      BY <3>1 DEF InOnePlace
    <3> DEFINE c == cur[p]
    <3>3. /\ Empty(c) /\ \A h \in Heaps : ~Owning(h, c)
          /\ \A q \in Procs : step'[q] = "put" /\ cur'[q] = c => q = p
      BY <3>2 DEF SameWhere, Putting
    <3>4. \A b \in used' : b.chunk # c
      BY <3>3 DEF Empty, SameWhere
    <3>5. \A h \in Heaps : ~(~Leaving(h)' /\ chunk'[h] = c)
      BY <3>3 DEF SameWhere, Owning
    <3> QED
      BY <3>1, <3>2, <3>3, <3>4, <3>5 DEF SameWhere, Empty, Owning, Putting
  <2>4. ASSUME NEW h \in Heaps, ~Leaving(h)'
        PROVE  (/\ size[chunk[h]] > 0 /\ recFlag[chunk[h]] = 0
                /\ \A g \in Heaps : Owning(g, chunk[h]) => g = h)'
    <3>1. ~Leaving(h) /\ chunk'[h] = chunk[h]
      BY <2>4 DEF SameWhere
    <3>2. /\ size[chunk[h]] > 0 /\ recFlag[chunk[h]] = 0
          /\ \A g \in Heaps : Owning(g, chunk[h]) => g = h
      BY <3>1 DEF InOnePlace
    <3> QED
      BY <3>1, <3>2 DEF SameWhere, Owning
  <2> QED
    BY <2>1, <2>2, <2>3, <2>4 DEF InOnePlace
<1>8. SomewhereOK'
  <2> SUFFICES ASSUME NEW c \in Addr, size'[c] > 0
               PROVE  Placed(c)' \/ (recFlag'[c] = 1 /\ CaredFor(c)')
    BY DEF SomewhereOK
  <2>1. Placed(c) \/ (recFlag[c] = 1 /\ CaredFor(c))
    BY DEF SameWhere, SomewhereOK
  <2>2. Placed(c) => Placed(c)'
    BY <1>2, <1>3 DEF SameWhere, Placed
  <2>3. CaredFor(c) => CaredFor(c)'
    BY <1>4, <1>5, <1>6 DEF CaredFor
  <2> QED
    BY <2>1, <2>2, <2>3 DEF SameWhere
<1> QED
  BY <1>7, <1>8

LEMMA CountsKept ==
  ASSUME CountsOK, used' = used, count' = count,
         \A h \in Heaps : /\ step'[h] = "uncount" <=> step[h] = "uncount"
                          /\ step[h] = "uncount" => chunk'[h] = chunk[h]
  PROVE  CountsOK'
<1> SUFFICES ASSUME NEW c \in Addr
             PROVE  count'[c] = Cardinality(BlocksOf(c)')
                      + (IF \E h \in Heaps : step'[h] = "uncount" /\ chunk'[h] = c THEN 1 ELSE 0)
  BY DEF CountsOK
<1>1. BlocksOf(c)' = BlocksOf(c)
  BY DEF BlocksOf
<1>2. (\E h \in Heaps : step'[h] = "uncount" /\ chunk'[h] = c)
        <=> (\E h \in Heaps : step[h] = "uncount" /\ chunk[h] = c)
  OBVIOUS
<1>3. count[c] = Cardinality(BlocksOf(c))
                    + (IF \E h \in Heaps : step[h] = "uncount" /\ chunk[h] = c THEN 1 ELSE 0)
  BY DEF CountsOK
<1> QED
  BY <1>1, <1>2, <1>3, Zenon

LEMMA CutsKept ==
  ASSUME CutsOK, UNCHANGED <<used, size, slide>>
  PROVE  CutsOK'
BY DEF CutsOK

LEMMA BlocksKept ==
  ASSUME torn => torn', ~torn => BlocksOK, UNCHANGED <<used, size, slide>>,
         \A f \in Freers : step'[f] = "grow" =>
            step[f] = "grow" /\ mem'[f] = mem[f] /\ need'[f] = need[f]
  PROVE  ~torn' => BlocksOK'
BY DEF BlocksOK

\* A count of 0, of a chunk that no heap is about to count down
LEMMA CountIs ==
  ASSUME BigTypes, CountsOK, NEW c \in Addr
  PROVE  /\ IsFiniteSet(BlocksOf(c)) /\ Cardinality(BlocksOf(c)) \in Nat
         /\ Cardinality(BlocksOf(c)) = 0 <=> Empty(c)
         /\ count[c] = 0 => Empty(c) /\ \A h \in Heaps : step[h] = "uncount" => chunk[h] # c
<1>1. IsFiniteSet(BlocksOf(c))
  BY FS_Subset DEF BigTypes, BlocksOf
<1>2. Cardinality(BlocksOf(c)) \in Nat /\ (Cardinality(BlocksOf(c)) = 0 <=> BlocksOf(c) = {})
  BY <1>1, FS_CardinalityType, FS_EmptySet
<1>3. BlocksOf(c) = {} <=> Empty(c)
  BY DEF BlocksOf, Empty
<1>4. count[c] = Cardinality(BlocksOf(c))
                    + (IF \E h \in Heaps : step[h] = "uncount" /\ chunk[h] = c THEN 1 ELSE 0)
  BY DEF CountsOK
<1> QED
  BY <1>1, <1>2, <1>3, <1>4

-----------------------------------------------------------------------------
(* The steps of an allocation that keeps its chunk. *)

LEMMA AllocKeeps ==
  ASSUME Sound, NEW h \in Heaps, Alloc(h)
  PROVE  Sound'
<1> USE WhoIs DEF Sound
<1>1. /\ step[h] = "idle" /\ need'[h] \in Lengths
      /\ \A p \in Procs : step'[p] = IF p = h THEN "malloc" ELSE step[p]
      /\ \A p \in Procs : p # h => need'[p] = need[p]
      /\ again'[h] = FALSE /\ \A g \in Heaps : g # h => again'[g] = again[g]
      /\ UNCHANGED <<top, size, count, recFlag, slide, big, chunk, used, cur, mem, old, torn, failed>>
  BY DEF Alloc, StepTo, BigTypes, header, history
<1>2. BigTypes'
  BY <1>1 DEF Alloc, StepTo, BigTypes, HeapSteps
<1>3. BigLocals'
  BY <1>1 DEF BigLocals, HeapSteps
<1>4. SameWhere
  BY <1>1 DEF SameWhere, Leaving
<1>5. InOnePlace' /\ SomewhereOK'
  BY <1>4, WhereKept
<1>6. CountsOK'
  BY <1>1, CountsKept
<1>7. CutsOK'
  BY <1>1, CutsKept
<1>8. RoomOK'
  BY <1>1 DEF RoomOK, Empty
<1>9. ~torn' => BlocksOK'
  BY <1>1, BlocksKept
<1>10. Tiles(size, top)'
  BY <1>1 DEF Tiles
<1> QED
  BY <1>2, <1>3, <1>5, <1>6, <1>7, <1>8, <1>9, <1>10

\* A chunk without blocks may be used from its start.
LEMMA MallocResetKeeps ==
  ASSUME Sound, NEW h \in Heaps, MallocReset(h)
  PROVE  Sound'
<1> USE WhoIs DEF Sound
<1> DEFINE c == chunk[h]
<1>1. /\ step[h] = "malloc" /\ c \in Addr
      /\ \A p \in Procs : step'[p] = IF p = h THEN "count" ELSE step[p]
      /\ \A a \in Addr : slide'[a] = IF a = c /\ count[c] = 0 THEN 0 ELSE slide[a]
      /\ UNCHANGED <<top, size, count, recFlag, big, chunk, used, cur, mem, need, again, old, torn, failed>>
  BY DEF MallocReset, StepTo, BigTypes, locals, history
<1>2. BigTypes'
  BY <1>1 DEF MallocReset, StepTo, BigTypes, HeapSteps
<1>3. BigLocals'
  BY <1>1 DEF BigLocals, HeapSteps
<1>4. SameWhere
  BY <1>1 DEF SameWhere, Leaving
<1>5. InOnePlace' /\ SomewhereOK'
  BY <1>4, WhereKept
<1>6. CountsOK'
  BY <1>1, CountsKept
<1>7. count[c] = 0 => Empty(c)
  BY <1>1, CountIs
<1>8. \A b \in used : b.chunk \in Addr /\ slide'[b.chunk] = slide[b.chunk]
  BY <1>1, <1>7 DEF Empty, BigTypes
<1>9. CutsOK'
  <2>1. \A a \in Addr : size[a] > 0 => slide'[a] <= size[a]
    BY <1>1, SizesAre DEF CutsOK
  <2> QED
    BY <1>1, <1>8, <2>1 DEF CutsOK
<1>10. RoomOK'
  <2>1. \A g \in Heaps : chunk[g] \in Addr /\ (slide[chunk[g]] = 0 => slide'[chunk[g]] = 0)
    BY <1>1 DEF BigTypes
  <2> QED
    BY <1>1, <2>1 DEF RoomOK, Empty
<1>11. ~torn' => BlocksOK'
  BY <1>1, <1>8 DEF BlocksOK
<1>12. Tiles(size, top)'
  BY <1>1 DEF Tiles
<1> QED
  BY <1>2, <1>3, <1>5, <1>6, <1>9, <1>10, <1>11, <1>12

\* The second _malloc does not come here.
LEMMA MallocUncountKeeps ==
  ASSUME Sound, NEW h \in Heaps, MallocUncount(h)
  PROVE  Sound'
<1> USE WhoIs DEF Sound
<1> DEFINE c == chunk[h]
<1>1. /\ step[h] = "uncount" /\ c \in Addr /\ ~again[h] /\ old'[h] = size[c]
      /\ \A p \in Procs : step'[p] = IF p = h THEN "full" ELSE step[p]
      /\ \A a \in Addr : count'[a] = IF a = c THEN count[c] - 1 ELSE count[a]
      /\ \A g \in Heaps : g # h => old'[g] = old[g]
      /\ failed' = FALSE
      /\ UNCHANGED <<top, size, recFlag, slide, big, chunk, used, cur, mem, need, again, torn>>
  BY DEF MallocUncount, StepTo, BigTypes, RoomOK
<1>2. \A g \in Heaps : step[g] = "uncount" /\ chunk[g] = c => g = h
  BY <1>1 DEF InOnePlace, Owning, Leaving
<1>3. /\ IsFiniteSet(BlocksOf(c)) /\ Cardinality(BlocksOf(c)) \in Nat
      /\ count[c] = Cardinality(BlocksOf(c)) + 1
  <2>1. \E g \in Heaps : step[g] = "uncount" /\ chunk[g] = c
    BY <1>1
  <2> QED
    BY <1>1, <2>1, CountIs DEF CountsOK
<1>4. BigTypes'
  <2>1. count' \in [Addr -> Nat]
    <3>1. count' = [count EXCEPT ![c] = @ - 1]
      BY DEF MallocUncount
    <3> QED
      BY <1>1, <1>3, <3>1 DEF BigTypes
  <2>2. step' \in [Procs -> HeapSteps \cup FreerSteps] /\ old' \in [Heaps -> 0 .. MaxMem]
    BY <1>1 DEF MallocUncount, StepTo, BigTypes, HeapSteps
  <2> QED
    BY <1>1, <2>1, <2>2 DEF BigTypes
<1>5. BigLocals'
  BY <1>1 DEF BigLocals, HeapSteps
<1>6. SameWhere
  BY <1>1 DEF SameWhere, Leaving
<1>7. InOnePlace' /\ SomewhereOK'
  BY <1>6, WhereKept
<1>8. CountsOK'
  <2> SUFFICES ASSUME NEW a \in Addr
               PROVE  count'[a] = Cardinality(BlocksOf(a)')
                        + (IF \E g \in Heaps : step'[g] = "uncount" /\ chunk'[g] = a THEN 1 ELSE 0)
    BY DEF CountsOK
  <2>1. BlocksOf(a)' = BlocksOf(a)
    BY <1>1 DEF BlocksOf
  <2>2. CASE a = c
    <3>1. ~ \E g \in Heaps : step'[g] = "uncount" /\ chunk'[g] = a
      BY <1>1, <1>2, <2>2
    <3>2. count'[a] = Cardinality(BlocksOf(a))
      BY <1>1, <1>3, <2>2
    <3> QED
      BY <1>3, <2>1, <2>2, <3>1, <3>2
  <2>3. CASE a # c
    <3>1. (\E g \in Heaps : step'[g] = "uncount" /\ chunk'[g] = a)
             <=> (\E g \in Heaps : step[g] = "uncount" /\ chunk[g] = a)
      BY <1>1, <2>3
    <3>2. count'[a] = count[a]
      BY <1>1, <2>3
    <3>3. count[a] = Cardinality(BlocksOf(a))
                        + (IF \E g \in Heaps : step[g] = "uncount" /\ chunk[g] = a THEN 1 ELSE 0)
      BY DEF CountsOK
    <3> QED
      BY <2>1, <3>1, <3>2, <3>3, Zenon
  <2> QED
    BY <2>2, <2>3
<1>9. CutsOK'
  BY <1>1, CutsKept
<1>10. RoomOK'
  <2>1. size[c] \in Nat
    BY <1>1, SizesAre
  <2> QED
    BY <1>1, <2>1 DEF RoomOK, Empty
<1>11. ~torn' => BlocksOK'
  BY <1>1, BlocksKept
<1>12. Tiles(size, top)'
  BY <1>1 DEF Tiles
<1> QED
  BY <1>4, <1>5, <1>7, <1>8, <1>9, <1>10, <1>11, <1>12

\* A chunk in use is marked next.
LEMMA FullInUseKeeps ==
  ASSUME Sound, NEW h \in Heaps, FullInUse(h)
  PROVE  Sound'
<1> USE WhoIs DEF Sound
<1>1. /\ step[h] = "full"
      /\ \A p \in Procs : step'[p] = IF p = h THEN "mark" ELSE step[p]
      /\ UNCHANGED <<top, size, count, recFlag, slide, big, chunk, used, cur, mem, need, again, old,
                     torn, failed>>
  BY DEF FullInUse, StepTo, BigTypes, header, locals, history
<1>2. BigTypes'
  BY <1>1 DEF FullInUse, StepTo, BigTypes, HeapSteps
<1>3. BigLocals'
  BY <1>1 DEF BigLocals, HeapSteps
<1>4. SameWhere
  BY <1>1 DEF SameWhere, Leaving
<1>5. InOnePlace' /\ SomewhereOK'
  BY <1>4, WhereKept
<1>6. CountsOK'
  BY <1>1, CountsKept
<1>7. CutsOK'
  BY <1>1, CutsKept
<1>8. RoomOK'
  BY <1>1 DEF RoomOK, Empty
<1>9. ~torn' => BlocksOK'
  BY <1>1, BlocksKept
<1>10. Tiles(size, top)'
  BY <1>1 DEF Tiles
<1> QED
  BY <1>2, <1>3, <1>5, <1>6, <1>7, <1>8, <1>9, <1>10

\* An empty one is used again, as it has room then.
LEMMA FullButEmptyKeeps ==
  ASSUME Sound, NEW h \in Heaps, FullButEmpty(h)
  PROVE  Sound'
<1> USE WhoIs DEF Sound
<1> DEFINE c == chunk[h]
<1>1. /\ step[h] = "full" /\ c \in Addr /\ count[c] = 0 /\ 2 * need[h] <= old[h]
      /\ \A p \in Procs : step'[p] = IF p = h THEN "malloc" ELSE step[p]
      /\ \A a \in Addr : slide'[a] = IF a = c THEN 0 ELSE slide[a]
      /\ again'[h] = TRUE /\ old'[h] = 0
      /\ \A g \in Heaps : g # h => again'[g] = again[g] /\ old'[g] = old[g]
      /\ UNCHANGED <<top, size, count, recFlag, big, chunk, used, cur, mem, need, torn, failed>>
  BY DEF FullButEmpty, StartOver, SecondMalloc, SameSize, StepTo, BigTypes, history
<1>2. BigTypes'
  <2>1. step' \in [Procs -> HeapSteps \cup FreerSteps] /\ again' \in [Heaps -> BOOLEAN]
    BY DEF FullButEmpty, StartOver, SecondMalloc, StepTo, BigTypes, HeapSteps
  <2>2. old' \in [Heaps -> 0 .. MaxMem] /\ slide' \in [Addr -> 0 .. MaxMem]
    BY DEF FullButEmpty, StartOver, SecondMalloc, BigTypes
  <2> QED
    BY <1>1, <2>1, <2>2 DEF BigTypes
<1>3. BigLocals'
  BY <1>1 DEF BigLocals, HeapSteps
<1>4. SameWhere
  BY <1>1 DEF SameWhere, Leaving
<1>5. InOnePlace' /\ SomewhereOK'
  BY <1>4, WhereKept
<1>6. CountsOK'
  BY <1>1, CountsKept
<1>7. Empty(c)
  BY <1>1, CountIs
<1>8. \A b \in used : b.chunk \in Addr /\ slide'[b.chunk] = slide[b.chunk]
  BY <1>1, <1>7, SizesAre DEF Empty
<1>9. CutsOK'
  <2>1. \A a \in Addr : size[a] > 0 => slide'[a] <= size[a]
    BY <1>1, SizesAre DEF CutsOK
  <2> QED
    BY <1>1, <1>8, <2>1 DEF CutsOK
<1>10. RoomOK'
  <2>1. \A g \in Heaps : chunk[g] \in Addr /\ (slide[chunk[g]] = 0 => slide'[chunk[g]] = 0)
    BY <1>1, SizesAre
  <2>2. need[h] <= size[c]
    <3>1. need[h] \in Nat
      BY <1>1 DEF BigLocals
    <3>2. size[c] > 0 /\ (size[c] = 0 \/ old[h] <= size[c])
      BY <1>1 DEF InOnePlace, Leaving, RoomOK
    <3>3. 2 * need[h] <= old[h] /\ old[h] <= size[c] /\ old[h] \in Nat /\ size[c] \in Nat
      <4>1. old[h] \in Nat /\ size[c] \in Nat
        BY SizesAre
      <4>2. 2 * need[h] <= old[h]
        BY <1>1
      <4> QED
        BY <3>2, <4>1, <4>2
    <3> QED
      BY <3>1, <3>3
  <2>3. slide'[c] = 0
    BY <1>1
  <2> QED
    BY <1>1, <1>7, <2>1, <2>2, <2>3 DEF RoomOK, Empty
<1>11. ~torn' => BlocksOK'
  <2>1. UNCHANGED <<used, size, mem, need, torn>> /\ \A f \in Freers : step'[f] = step[f]
    BY <1>1
  <2> QED
    BY <1>8, <2>1 DEF BlocksOK
<1>12. Tiles(size, top)'
  BY <1>1 DEF Tiles
<1> QED
  BY <1>2, <1>3, <1>5, <1>6, <1>9, <1>10, <1>11, <1>12

\* A new block ends the others.
LEMMA MallocCountKeeps ==
  ASSUME Sound, NEW h \in Heaps, MallocCount(h)
  PROVE  Sound'
<1> USE WhoIs DEF Sound
<1> DEFINE c == chunk[h]
           n == need[h]
           fits == slide[c] + n <= size[c]
           new == [chunk |-> c, at |-> c + slide[c], len |-> n, said |-> n]
<1>1. /\ step[h] = "count" /\ c \in Addr /\ n \in Lengths /\ n \in Nat /\ n > 0
      /\ size[c] > 0 /\ ~Leaving(h)
      /\ \A p \in Procs : step'[p] = IF p = h THEN (IF fits THEN "idle" ELSE "uncount") ELSE step[p]
      /\ \A a \in Addr : count'[a] = IF a = c THEN count[c] + 1 ELSE count[a]
      /\ \A a \in Addr : slide'[a] = IF a = c /\ fits THEN slide[c] + n ELSE slide[a]
      /\ used' = IF fits THEN used \cup {new} ELSE used
      /\ UNCHANGED <<top, size, recFlag, big, chunk, cur, mem, need, again, old, torn, failed>>
  <2>1. step[h] = "count" /\ c \in Addr /\ n \in Lengths
    BY DEF MallocCount, BigTypes, BigLocals
  <2>2. n \in Nat /\ n > 0
    BY <2>1
  <2>3. ~Leaving(h) /\ size[c] > 0
    BY <2>1 DEF InOnePlace, Leaving
  <2>4. /\ UNCHANGED <<top, size, recFlag, big, chunk, cur, mem, need, again, old, torn, failed>>
        /\ \A a \in Addr : count'[a] = IF a = c THEN count[c] + 1 ELSE count[a]
        /\ used' = IF fits THEN used \cup {new} ELSE used
    BY DEF MallocCount, BigTypes, locals, history
  <2>5. \A p \in Procs : step'[p] = IF p = h THEN (IF fits THEN "idle" ELSE "uncount") ELSE step[p]
    BY DEF MallocCount, BigTypes, StepTo
  <2>6. \A a \in Addr : slide'[a] = IF a = c /\ fits THEN slide[c] + n ELSE slide[a]
    BY <2>1 DEF MallocCount, BigTypes
  <2> QED
    BY <2>1, <2>2, <2>3, <2>4, <2>5, <2>6
<1> HIDE DEF new
<1>2. \A g \in Heaps : ~Leaving(g) /\ chunk[g] = c => g = h
  BY <1>1 DEF InOnePlace, Owning
<1>3. \A g \in Heaps : ~(step[g] = "uncount" /\ chunk[g] = c)
  BY <1>1, <1>2 DEF Leaving
<1>4. fits => new \in [chunk : Addr, at : Addr, len : Lengths, said : Lengths]
  <2> SUFFICES ASSUME fits PROVE new \in [chunk : Addr, at : Addr, len : Lengths, said : Lengths]
    OBVIOUS
  <2>1. c + size[c] <= top
    BY <1>1 DEF Tiles
  <2>2. c + slide[c] \in Addr
    BY <1>1, <2>1, SizesAre DEF Addr
  <2> QED
    BY <1>1, <2>2 DEF new
<1>5. new.chunk = c /\ new.at = c + slide[c] /\ new.len = n /\ new.said = n
  BY DEF new
<1>6. new \notin used
  BY <1>1, <1>5, SizesAre DEF CutsOK
<1>7. BigTypes'
  <2>1. count' \in [Addr -> Nat]
    <3>1. count' = [count EXCEPT ![c] = @ + 1] /\ count \in [Addr -> Nat]
      BY DEF MallocCount, BigTypes
    <3>2. count[c] + 1 \in Nat
      <4>1. c \in Addr
        BY <1>1
      <4>2. count[c] \in Nat
        BY <3>1, <4>1
      <4> QED
        BY <4>2
    <3> QED
      BY <3>1, <3>2
  <2>2. slide' \in [Addr -> 0 .. MaxMem]
    <3>1. fits => slide[c] + n \in 0 .. MaxMem
      <4>1. slide[c] \in Nat /\ size[c] \in Nat /\ size[c] <= MaxMem /\ n \in Nat
        BY <1>1, SizesAre
      <4> QED
        BY <4>1
    <3>2. slide' = IF fits THEN [slide EXCEPT ![c] = slide[c] + n] ELSE slide
      BY DEF MallocCount
    <3> QED
      BY <1>1, <3>1, <3>2 DEF BigTypes
  <2>3. step' \in [Procs -> HeapSteps \cup FreerSteps]
    BY DEF MallocCount, StepTo, BigTypes, HeapSteps
  <2>4. /\ used' \subseteq [chunk : Addr, at : Addr, len : Lengths, said : Lengths]
        /\ IsFiniteSet(used') /\ used \subseteq used'
    BY <1>1, <1>4, FS_AddElement DEF BigTypes
  <2> QED
    BY <1>1, <2>1, <2>2, <2>3, <2>4 DEF BigTypes
<1>8. BigLocals'
  BY <1>1 DEF BigLocals, HeapSteps
<1>9. SameWhere
  <2>1. \A b \in used' : (\E g \in Heaps : Owning(g, b.chunk)) \/ \E d \in used : d.chunk = b.chunk
    BY <1>1, <1>5 DEF Owning
  <2>2. \A d \in used : \E b \in used' : b.chunk = d.chunk
    BY <1>1
  <2> QED
    BY <1>1, <2>1, <2>2 DEF SameWhere, Leaving
<1>10. InOnePlace' /\ SomewhereOK'
  BY <1>9, WhereKept
<1>11. CountsOK'
  <2> SUFFICES ASSUME NEW a \in Addr
               PROVE  count'[a] = Cardinality(BlocksOf(a)')
                        + (IF \E g \in Heaps : step'[g] = "uncount" /\ chunk'[g] = a THEN 1 ELSE 0)
    BY DEF CountsOK
  <2>0. count[a] = Cardinality(BlocksOf(a))
                      + (IF \E g \in Heaps : step[g] = "uncount" /\ chunk[g] = a THEN 1 ELSE 0)
    BY DEF CountsOK
  <2>1. CASE a = c /\ fits
    <3>1. BlocksOf(a)' = BlocksOf(a) \cup {new} /\ new \notin BlocksOf(a)
      BY <1>1, <1>5, <1>6, <2>1 DEF BlocksOf
    <3>2. Cardinality(BlocksOf(a)') = Cardinality(BlocksOf(a)) + 1 /\ Cardinality(BlocksOf(a)) \in Nat
      BY <3>1, CountIs, FS_AddElement
    <3>3. ~ \E g \in Heaps : step'[g] = "uncount" /\ chunk'[g] = a
      BY <1>1, <1>3, <2>1
    <3>4. ~ \E g \in Heaps : step[g] = "uncount" /\ chunk[g] = a
      BY <1>3, <2>1
    <3>5. count[a] = Cardinality(BlocksOf(a)) /\ count'[a] = count[a] + 1
      BY <1>1, <2>0, <2>1, <3>2, <3>4
    <3> QED
      BY <3>2, <3>3, <3>5
  <2>2. CASE a = c /\ ~fits
    <3>1. BlocksOf(a)' = BlocksOf(a)
      BY <1>1, <2>2 DEF BlocksOf
    <3>2. Cardinality(BlocksOf(a)) \in Nat
      BY CountIs
    <3>3. \E g \in Heaps : step'[g] = "uncount" /\ chunk'[g] = a
      BY <1>1, <2>2
    <3>4. ~ \E g \in Heaps : step[g] = "uncount" /\ chunk[g] = a
      BY <1>3, <2>2
    <3>5. count[a] = Cardinality(BlocksOf(a)) /\ count'[a] = count[a] + 1
      BY <1>1, <2>0, <2>2, <3>2, <3>4
    <3> QED
      BY <3>1, <3>2, <3>3, <3>5
  <2>3. CASE a # c
    <3>1. BlocksOf(a)' = BlocksOf(a)
      BY <1>1, <1>5, <2>3 DEF BlocksOf
    <3>2. (\E g \in Heaps : step'[g] = "uncount" /\ chunk'[g] = a)
             <=> (\E g \in Heaps : step[g] = "uncount" /\ chunk[g] = a)
      BY <1>1, <2>3
    <3>3. count'[a] = count[a]
      BY <1>1, <2>3
    <3> QED
      BY <2>0, <3>1, <3>2, <3>3, Zenon
  <2> QED
    BY <2>1, <2>2, <2>3
<1>12. \A b \in used : b.chunk = c => b.at < c + slide[c]
  BY DEF CutsOK
<1>13. \A a \in Addr : slide[a] <= slide'[a]
  BY <1>1, SizesAre
<1>14. CutsOK'
  <2>1. \A a \in Addr : size[a] > 0 => slide'[a] <= size[a]
    BY <1>1, SizesAre DEF CutsOK
  <2>2. ASSUME NEW b \in used'
        PROVE  size[b.chunk] > 0 /\ b.chunk <= b.at /\ b.at < b.chunk + slide'[b.chunk]
    <3>1. CASE b \in used
      <4>1. size[b.chunk] > 0 /\ b.chunk <= b.at /\ b.at < b.chunk + slide[b.chunk]
        BY <3>1 DEF CutsOK
      <4>2. slide[b.chunk] \in Nat /\ slide'[b.chunk] \in Nat /\ slide[b.chunk] <= slide'[b.chunk]
        BY <1>1, <1>13, <3>1, SizesAre
      <4> QED
        BY <3>1, <4>1, <4>2, SizesAre
    <3>2. CASE b = new /\ fits
      <4>1. slide'[c] = slide[c] + n /\ slide[c] \in Nat /\ c \in Nat
        BY <1>1, <3>2, SizesAre
      <4> QED
        BY <1>1, <1>5, <3>2, <4>1
    <3> QED
      BY <1>1, <3>1, <3>2
  <2>3. ASSUME NEW b \in used', NEW d \in used', b.chunk = d.chunk, b.at = d.at PROVE b = d
    <3>1. CASE b \in used /\ d \in used
      BY <2>3, <3>1 DEF CutsOK
    <3>2. CASE b = new /\ d \in used
      BY <1>1, <1>5, <1>12, <2>3, <3>2, SizesAre
    <3>3. CASE d = new /\ b \in used
      BY <1>1, <1>5, <1>12, <2>3, <3>3, SizesAre
    <3> QED
      BY <1>1, <3>1, <3>2, <3>3
  <2> QED
    BY <1>1, <2>1, <2>2, <2>3 DEF CutsOK
<1>15. RoomOK'
  <2>1. ASSUME NEW g \in Heaps, again'[g], step'[g] \in {"malloc", "count"}
        PROVE  (slide[chunk[g]] = 0 /\ Empty(chunk[g]) /\ need[g] <= size[chunk[g]])'
    <3>1. g # h /\ again[g] /\ step[g] \in {"malloc", "count"}
      BY <1>1, <2>1
    <3>2. slide[chunk[g]] = 0 /\ Empty(chunk[g]) /\ need[g] <= size[chunk[g]]
      BY <3>1 DEF RoomOK
    <3>3. chunk[g] # c /\ chunk[g] \in Addr
      BY <1>2, <3>1, SizesAre DEF Leaving
    <3> QED
      BY <1>1, <1>5, <3>2, <3>3 DEF Empty
  <2>2. ASSUME again[h] PROVE fits
    <3>1. slide[c] = 0 /\ n <= size[c]
      BY <1>1, <2>2 DEF RoomOK
    <3> QED
      BY <1>1, <3>1, SizesAre
  <2>3. \A g \in Heaps : step'[g] = "uncount" => ~again'[g]
    BY <1>1, <2>2 DEF RoomOK
  <2>4. \A g \in Heaps : step'[g] \in {"full", "mark", "recheck", "unmark"} =>
          size'[chunk'[g]] = 0 \/ old'[g] <= size'[chunk'[g]]
    BY <1>1 DEF RoomOK
  <2> QED
    BY <2>1, <2>3, <2>4 DEF RoomOK
<1>16. ~torn' => BlocksOK'
  <2> SUFFICES ASSUME ~torn PROVE BlocksOK'
    BY <1>1
  <2>1. BlocksOK
    OBVIOUS
  <2>2. ASSUME NEW b \in used' PROVE b.said <= b.len /\ b.at + b.len <= b.chunk + slide'[b.chunk]
    <3>1. CASE b \in used
      <4>1. b.said <= b.len /\ b.at + b.len <= b.chunk + slide[b.chunk]
        BY <2>1, <3>1 DEF BlocksOK
      <4>2. slide[b.chunk] \in Nat /\ slide'[b.chunk] \in Nat /\ slide[b.chunk] <= slide'[b.chunk]
        BY <1>1, <1>13, <3>1, SizesAre
      <4> QED
        BY <3>1, <4>1, <4>2, SizesAre
    <3>2. CASE b = new /\ fits
      <4>1. slide'[c] = slide[c] + n /\ slide[c] \in Nat /\ c \in Nat
        BY <1>1, <3>2, SizesAre
      <4> QED
        BY <1>1, <1>5, <3>2, <4>1
    <3> QED
      BY <1>1, <3>1, <3>2
  <2>3. ASSUME NEW b \in used', NEW d \in used', b.chunk = d.chunk, b # d
        PROVE  b.at + b.len <= d.at \/ d.at + d.len <= b.at
    <3>1. CASE b \in used /\ d \in used
      BY <2>1, <2>3, <3>1 DEF BlocksOK
    <3>2. CASE b = new /\ d \in used
      BY <1>5, <2>1, <2>3, <3>2, SizesAre DEF BlocksOK
    <3>3. CASE d = new /\ b \in used
      BY <1>5, <2>1, <2>3, <3>3, SizesAre DEF BlocksOK
    <3> QED
      BY <1>1, <2>3, <3>1, <3>2, <3>3
  <2>4. \A f \in Freers : step'[f] = "grow" =>
          mem'[f].at + need'[f] < mem'[f].chunk + size'[mem'[f].chunk]
    BY <1>1, <2>1 DEF BlocksOK
  <2> QED
    BY <2>2, <2>3, <2>4 DEF BlocksOK
<1>17. Tiles(size, top)'
  BY <1>1 DEF Tiles
<1> QED
  BY <1>7, <1>8, <1>10, <1>11, <1>14, <1>15, <1>16, <1>17

-----------------------------------------------------------------------------
(* The steps of a heap that leaves its chunk. *)

LEMMA TooSmallKeeps ==
  ASSUME Sound, NEW h \in Heaps, TooSmall(h)
  PROVE  Sound'
<1> USE WhoIs DEF Sound
<1> DEFINE c == chunk[h]
<1>1. /\ step[h] = "full" /\ c \in Addr /\ count[c] = 0
      /\ \A p \in Procs : step'[p] = IF p = h THEN "put" ELSE step[p]
      /\ \A p \in Procs : cur'[p] = IF p = h THEN c ELSE cur[p]
      /\ UNCHANGED <<top, size, count, recFlag, slide, big, chunk, used, mem, need, again, old,
                     torn, failed>>
  BY DEF TooSmall, StepTo, BigTypes, header, history
<1>2. Empty(c)
  BY <1>1, CountIs
<1>3. /\ size[c] > 0 /\ recFlag[c] = 0 /\ c \notin ToSet(big)
      /\ \A g \in Heaps : Owning(g, c) => g = h
      /\ \A p \in Procs : ~Putting(p, c)
  <2>1. Owning(h, c)
    BY <1>1 DEF Owning, Leaving
  <2>2. size[c] > 0 /\ recFlag[c] = 0 /\ \A g \in Heaps : Owning(g, c) => g = h
    BY <2>1 DEF InOnePlace, Owning
  <2>3. c \notin ToSet(big)
    BY <2>1 DEF InOnePlace
  <2>4. \A p \in Procs : ~Putting(p, c)
    BY <2>1 DEF InOnePlace, Putting
  <2> QED
    BY <2>2, <2>3, <2>4
<1>4. BigTypes'
  <2>1. step' \in [Procs -> HeapSteps \cup FreerSteps] /\ cur' \in [Procs -> Addr \cup {Nothing}]
    BY <1>1 DEF TooSmall, StepTo, BigTypes, HeapSteps
  <2> QED
    BY <1>1, <2>1 DEF BigTypes
<1>5. BigLocals'
  BY <1>1 DEF BigLocals, HeapSteps
<1>6. \A p \in Procs, a \in Addr : Putting(p, a)' <=> IF p = h THEN a = c ELSE Putting(p, a)
  BY <1>1 DEF Putting
<1>7. \A g \in Heaps, a \in Addr : Owning(g, a)' <=> g # h /\ Owning(g, a)
  BY <1>1 DEF Owning, Leaving
<1>8. InOnePlace'
  <2>1. NoTwice(big)'
    BY <1>1 DEF InOnePlace
  <2>2. ASSUME NEW a \in ToSet(big')
        PROVE  (/\ size[a] > 0 /\ recFlag[a] # 1 /\ Empty(a)
                /\ \A p \in Procs : ~Putting(p, a)
                /\ \A g \in Heaps : ~Owning(g, a))'
    BY <1>1, <1>3 DEF InOnePlace, Empty, Putting, Owning, Leaving
  <2>3. ASSUME NEW p \in Procs, step'[p] = "put"
        PROVE  (/\ size[cur[p]] > 0 /\ recFlag[cur[p]] # 1 /\ Empty(cur[p])
                /\ \A q \in Procs : Putting(q, cur[p]) => q = p
                /\ \A g \in Heaps : ~Owning(g, cur[p]))'
    BY <1>1, <1>2, <1>3, <2>3 DEF InOnePlace, Empty, Putting, Owning, Leaving
  <2>4. ASSUME NEW g \in Heaps, ~Leaving(g)'
        PROVE  (/\ size[chunk[g]] > 0 /\ recFlag[chunk[g]] = 0
                /\ \A k \in Heaps : Owning(k, chunk[g]) => k = g)'
    BY <1>1, <2>4 DEF InOnePlace, Owning, Leaving
  <2> QED
    BY <2>1, <2>2, <2>3, <2>4 DEF InOnePlace
<1>9. SomewhereOK'
  <2> SUFFICES ASSUME NEW a \in Addr, size'[a] > 0
               PROVE  Placed(a)' \/ (recFlag'[a] = 1 /\ CaredFor(a)')
    BY DEF SomewhereOK
  <2>1. Placed(a) \/ (recFlag[a] = 1 /\ CaredFor(a))
    BY <1>1 DEF SomewhereOK
  <2>2. Placed(a) => Placed(a)'
    <3>1. CASE a = c
      BY <1>6, <3>1 DEF Placed
    <3>2. CASE a # c
      BY <1>1, <1>6, <1>7, <3>2 DEF Placed, Putting, Owning
    <3> QED
      BY <3>1, <3>2
  <2>3. CaredFor(a) => CaredFor(a)'
    BY <1>1 DEF CaredFor, Empty, Recovering, Testing
  <2> QED
    BY <1>1, <2>1, <2>2, <2>3
<1>10. CountsOK'
  BY <1>1, CountsKept
<1>11. CutsOK'
  BY <1>1, CutsKept
<1>12. RoomOK'
  BY <1>1 DEF RoomOK, Empty
<1>13. ~torn' => BlocksOK'
  BY <1>1, BlocksKept
<1>14. Tiles(size, top)'
  BY <1>1 DEF Tiles
<1> QED
  BY <1>4, <1>5, <1>8, <1>9, <1>10, <1>11, <1>12, <1>13, <1>14

\* A chunk that is marked is no heap's any more, and has a block, or the heap
\* to look after it.
LEMMA MarkKeeps ==
  ASSUME Sound, NEW h \in Heaps, Mark(h)
  PROVE  Sound'
<1> USE WhoIs DEF Sound
<1> DEFINE c == chunk[h]
<1>1. /\ step[h] = "mark" /\ c \in Addr
      /\ \A p \in Procs : step'[p] = IF p = h THEN "recheck" ELSE step[p]
      /\ \A a \in Addr : recFlag'[a] = IF a = c THEN 1 ELSE recFlag[a]
      /\ UNCHANGED <<top, size, count, slide, big, chunk, used, cur, mem, need, again, old,
                     torn, failed>>
  BY DEF Mark, StepTo, BigTypes, locals, history
<1>2. /\ c \notin ToSet(big)
      /\ \A g \in Heaps : Owning(g, c) => g = h
      /\ \A p \in Procs : ~Putting(p, c)
  <2>1. Owning(h, c)
    BY <1>1 DEF Owning, Leaving
  <2>2. \A g \in Heaps : Owning(g, c) => g = h
    BY <2>1 DEF InOnePlace, Owning
  <2>3. c \notin ToSet(big)
    BY <2>1 DEF InOnePlace
  <2>4. \A p \in Procs : ~Putting(p, c)
    BY <2>1 DEF InOnePlace, Putting
  <2> QED
    BY <2>2, <2>3, <2>4
<1>3. BigTypes'
  <2>1. step' \in [Procs -> HeapSteps \cup FreerSteps] /\ recFlag' \in [Addr -> 0 .. 2]
    BY <1>1 DEF Mark, StepTo, BigTypes, HeapSteps
  <2> QED
    BY <1>1, <2>1 DEF BigTypes
<1>4. BigLocals'
  BY <1>1 DEF BigLocals, HeapSteps
<1>5. InOnePlace'
  <2>1. NoTwice(big)'
    BY <1>1 DEF InOnePlace
  <2>2. ASSUME NEW a \in ToSet(big')
        PROVE  (/\ size[a] > 0 /\ recFlag[a] # 1 /\ Empty(a)
                /\ \A p \in Procs : ~Putting(p, a)
                /\ \A g \in Heaps : ~Owning(g, a))'
    <3>1. a \in Addr
      BY <1>1 DEF BigTypes, ToSet
    <3> QED
      BY <1>1, <1>2, <3>1 DEF InOnePlace, Empty, Putting, Owning, Leaving
  <2>3. ASSUME NEW p \in Procs, step'[p] = "put"
        PROVE  (/\ size[cur[p]] > 0 /\ recFlag[cur[p]] # 1 /\ Empty(cur[p])
                /\ \A q \in Procs : Putting(q, cur[p]) => q = p
                /\ \A g \in Heaps : ~Owning(g, cur[p]))'
    <3>1. step[p] = "put" /\ cur[p] \in Addr /\ cur[p] # c
      BY <1>1, <1>2, <2>3 DEF BigLocals, Putting
    <3> QED
      BY <1>1, <3>1, ZenonT(30) DEF InOnePlace, Empty, Putting, Owning, Leaving
  <2>4. ASSUME NEW g \in Heaps, ~Leaving(g)'
        PROVE  (/\ size[chunk[g]] > 0 /\ recFlag[chunk[g]] = 0
                /\ \A k \in Heaps : Owning(k, chunk[g]) => k = g)'
    <3>1. g # h /\ ~Leaving(g) /\ chunk[g] # c /\ chunk[g] \in Addr
      BY <1>1, <1>2, <2>4, SizesAre DEF Owning, Leaving
    <3> QED
      BY <1>1, <3>1 DEF InOnePlace, Owning, Leaving
  <2> QED
    BY <2>1, <2>2, <2>3, <2>4 DEF InOnePlace
<1>6. SomewhereOK'
  <2> SUFFICES ASSUME NEW a \in Addr, size'[a] > 0
               PROVE  Placed(a)' \/ (recFlag'[a] = 1 /\ CaredFor(a)')
    BY DEF SomewhereOK
  <2>1. CASE a = c
    BY <1>1, <2>1 DEF CaredFor, Testing
  <2>2. CASE a # c
    <3>1. Placed(a) \/ (recFlag[a] = 1 /\ CaredFor(a))
      BY <1>1 DEF SomewhereOK
    <3>2. Placed(a) => Placed(a)'
      BY <1>1, <2>2 DEF Placed, Putting, Owning, Leaving
    <3>3. CaredFor(a) => CaredFor(a)'
      BY <1>1 DEF CaredFor, Empty, Recovering, Testing
    <3> QED
      BY <1>1, <2>2, <3>1, <3>2, <3>3
  <2> QED
    BY <2>1, <2>2
<1>7. CountsOK'
  BY <1>1, CountsKept
<1>8. CutsOK'
  BY <1>1, CutsKept
<1>9. RoomOK'
  BY <1>1 DEF RoomOK, Empty
<1>10. ~torn' => BlocksOK'
  BY <1>1, BlocksKept
<1>11. Tiles(size, top)'
  BY <1>1 DEF Tiles
<1> QED
  BY <1>3, <1>4, <1>5, <1>6, <1>7, <1>8, <1>9, <1>10, <1>11

\* A heap that gives a marked chunk up does so for its blocks, or because it is
\* somewhere else by now.
LEMMA LeftAlone ==
  ASSUME Sound, NEW h \in Heaps, Testing(h, chunk[h]),
         recFlag[chunk[h]] # 1 \/ count[chunk[h]] # 0,
         \A p \in Procs : step'[p] = IF p = h THEN "take" ELSE step[p],
         UNCHANGED <<size, recFlag, big, chunk, used, cur>>
  PROVE  InOnePlace' /\ SomewhereOK'
<1> USE WhoIs DEF Sound
<1> DEFINE c == chunk[h]
<1>1. c \in Addr /\ Leaving(h)
  BY SizesAre DEF Testing, Leaving
<1>2. \A p \in Procs, a \in Addr : Putting(p, a)' <=> Putting(p, a)
  BY DEF Putting, Testing
<1>3. \A g \in Heaps : (Leaving(g)' <=> Leaving(g)) /\ \A a \in Addr : Owning(g, a)' <=> Owning(g, a)
  BY <1>1 DEF Owning, Leaving
<1>4. InOnePlace'
  <2>1. NoTwice(big)'
    BY DEF InOnePlace
  <2>2. ASSUME NEW a \in ToSet(big')
        PROVE  (/\ size[a] > 0 /\ recFlag[a] # 1 /\ Empty(a)
                /\ \A p \in Procs : ~Putting(p, a)
                /\ \A g \in Heaps : ~Owning(g, a))'
    <3>1. a \in Addr
      BY DEF BigTypes, ToSet
    <3> QED
      BY <1>2, <1>3, <3>1 DEF InOnePlace, Empty
  <2>3. ASSUME NEW p \in Procs, step'[p] = "put"
        PROVE  (/\ size[cur[p]] > 0 /\ recFlag[cur[p]] # 1 /\ Empty(cur[p])
                /\ \A q \in Procs : Putting(q, cur[p]) => q = p
                /\ \A g \in Heaps : ~Owning(g, cur[p]))'
    <3>1. p # h /\ step[p] = "put"
      BY <2>3
    <3> QED
      BY <1>3, <3>1 DEF InOnePlace, Empty, Putting, Owning
  <2>4. ASSUME NEW g \in Heaps, ~Leaving(g)'
        PROVE  (/\ size[chunk[g]] > 0 /\ recFlag[chunk[g]] = 0
                /\ \A k \in Heaps : Owning(k, chunk[g]) => k = g)'
    BY <1>3, <2>4 DEF InOnePlace, Owning
  <2> QED
    BY <2>1, <2>2, <2>3, <2>4 DEF InOnePlace
<1>5. SomewhereOK'
  <2> SUFFICES ASSUME NEW a \in Addr, size'[a] > 0
               PROVE  Placed(a)' \/ (recFlag'[a] = 1 /\ CaredFor(a)')
    BY DEF SomewhereOK
  <2>1. Placed(a) \/ (recFlag[a] = 1 /\ CaredFor(a))
    BY DEF SomewhereOK
  <2>2. Placed(a) => Placed(a)'
    BY <1>2, <1>3 DEF Placed
  <2>3. CASE a # c
    <3>1. CaredFor(a) => CaredFor(a)'
      BY <2>3 DEF CaredFor, Empty, Recovering, Testing
    <3> QED
      BY <2>1, <2>2, <3>1
  <2>4. CASE a = c
    <3>1. CASE Placed(c)
      BY <2>2, <2>4, <3>1
    <3>2. CASE ~Placed(c)
      <4>1. recFlag[c] = 1 /\ count[c] # 0
        BY <2>1, <2>4, <3>2
      <4>2. ~ \E g \in Heaps : step[g] = "uncount" /\ chunk[g] = c
        BY <3>2 DEF Placed, Owning, Leaving
      <4>3. count[c] = Cardinality(BlocksOf(c)) /\ Cardinality(BlocksOf(c)) \in Nat
        <5>1. count[c] = Cardinality(BlocksOf(c))
                + (IF \E g \in Heaps : step[g] = "uncount" /\ chunk[g] = c THEN 1 ELSE 0)
          BY <1>1 DEF CountsOK
        <5>2. Cardinality(BlocksOf(c)) \in Nat
          BY <1>1, CountIs
        <5> QED
          BY <4>2, <5>1, <5>2
      <4>4. ~Empty(c)
        BY <1>1, <4>1, <4>3, CountIs
      <4> QED
        BY <2>4, <4>1, <4>4 DEF CaredFor, Empty
    <3> QED
      BY <3>1, <3>2
  <2> QED
    BY <2>3, <2>4
<1> QED
  BY <1>4, <1>5

\* The heap looks at the count again.
LEMMA RecheckKeeps ==
  ASSUME Sound, NEW h \in Heaps, Recheck(h)
  PROVE  Sound'
<1> USE WhoIs DEF Sound
<1>1. /\ step[h] = "recheck"
      /\ \A p \in Procs : step'[p] = IF p = h THEN (IF count[chunk[h]] = 0 THEN "unmark" ELSE "take")
                                     ELSE step[p]
      /\ UNCHANGED <<top, size, count, recFlag, slide, big, chunk, used, cur, mem, need, again, old,
                     torn, failed>>
  BY DEF Recheck, StepTo, BigTypes, header, locals, history
<1>2. BigTypes'
  <2>1. step' \in [Procs -> HeapSteps \cup FreerSteps]
    BY DEF Recheck, StepTo, BigTypes, HeapSteps
  <2> QED
    BY <1>1, <2>1 DEF BigTypes
<1>3. BigLocals'
  BY <1>1 DEF BigLocals, HeapSteps
<1>4. InOnePlace' /\ SomewhereOK'
  <2>1. CASE count[chunk[h]] = 0
    <3>1. SameWhere
      BY <1>1, <2>1 DEF SameWhere, Leaving
    <3> QED
      BY <3>1, WhereKept
  <2>2. CASE count[chunk[h]] # 0
    BY <1>1, <2>2, LeftAlone DEF Testing
  <2> QED
    BY <2>1, <2>2
<1>5. CountsOK'
  BY <1>1, CountsKept
<1>6. CutsOK'
  BY <1>1, CutsKept
<1>7. RoomOK'
  BY <1>1 DEF RoomOK, Empty
<1>8. ~torn' => BlocksOK'
  BY <1>1, BlocksKept
<1>9. Tiles(size, top)'
  BY <1>1 DEF Tiles
<1> QED
  BY <1>2, <1>3, <1>4, <1>5, <1>6, <1>7, <1>8, <1>9

\* A free() recovered the chunk.
LEMMA UnmarkFailsKeeps ==
  ASSUME Sound, NEW h \in Heaps, UnmarkFails(h)
  PROVE  Sound'
<1> USE WhoIs DEF Sound
<1>1. /\ step[h] = "unmark" /\ recFlag[chunk[h]] # 1
      /\ \A p \in Procs : step'[p] = IF p = h THEN "take" ELSE step[p]
      /\ UNCHANGED <<top, size, count, recFlag, slide, big, chunk, used, cur, mem, need, again, old,
                     torn, failed>>
  BY DEF UnmarkFails, StepTo, BigTypes, header, locals, history
<1>2. BigTypes'
  <2>1. step' \in [Procs -> HeapSteps \cup FreerSteps]
    BY DEF UnmarkFails, StepTo, BigTypes, HeapSteps
  <2> QED
    BY <1>1, <2>1 DEF BigTypes
<1>3. BigLocals'
  BY <1>1 DEF BigLocals, HeapSteps
<1>4. InOnePlace' /\ SomewhereOK'
  BY <1>1, LeftAlone DEF Testing
<1>5. CountsOK'
  BY <1>1, CountsKept
<1>6. CutsOK'
  BY <1>1, CutsKept
<1>7. RoomOK'
  BY <1>1 DEF RoomOK, Empty
<1>8. ~torn' => BlocksOK'
  BY <1>1, BlocksKept
<1>9. Tiles(size, top)'
  BY <1>1 DEF Tiles
<1> QED
  BY <1>2, <1>3, <1>4, <1>5, <1>6, <1>7, <1>8, <1>9

\* A marked chunk whose count is 0 is nowhere.
LEMMA Nowhere ==
  ASSUME Sound, NEW c \in Addr, recFlag[c] = 1, count[c] = 0
  PROVE  /\ c \notin ToSet(big) /\ Empty(c)
         /\ \A p \in Procs : ~Putting(p, c)
         /\ \A h \in Heaps : ~Owning(h, c)
<1> USE DEF Sound
<1>1. Empty(c)
  BY CountIs
<1>2. c \notin ToSet(big)
  BY DEF InOnePlace
<1>3. \A p \in Procs : ~Putting(p, c)
  BY DEF InOnePlace, Putting
<1>4. \A h \in Heaps : ~Owning(h, c)
  BY DEF InOnePlace, Owning
<1> QED
  BY <1>1, <1>2, <1>3, <1>4

\* Whoever sees that is the one who recovers it.
LEMMA RecoveredBy ==
  ASSUME Sound, NEW q \in Procs, NEW c \in Addr, recFlag[c] = 1, count[c] = 0, size[c] > 0,
         step[q] # "put", q \in Heaps => Leaving(q),
         \A a \in Addr : recFlag'[a] = IF a = c THEN 2 ELSE recFlag[a],
         \A p \in Procs : step'[p] = IF p = q THEN "put" ELSE step[p],
         cur'[q] = c, \A p \in Procs : p # q => cur'[p] = cur[p],
         \A h \in Heaps : h = q => chunk[h] = c,
         q \in Freers => cur[q] = c,
         UNCHANGED <<size, big, chunk, used>>
  PROVE  InOnePlace' /\ SomewhereOK'
<1> USE WhoIs DEF Sound
<1>1. /\ c \notin ToSet(big) /\ Empty(c)
      /\ \A p \in Procs : ~Putting(p, c)
      /\ \A h \in Heaps : ~Owning(h, c)
  BY Nowhere
<1>2. \A h \in Heaps : Leaving(h)' <=> Leaving(h)
  BY DEF Leaving
<1>3. InOnePlace'
  <2>1. NoTwice(big)'
    BY DEF InOnePlace
  <2>2. ASSUME NEW a \in ToSet(big')
        PROVE  (/\ size[a] > 0 /\ recFlag[a] # 1 /\ Empty(a)
                /\ \A p \in Procs : ~Putting(p, a)
                /\ \A h \in Heaps : ~Owning(h, a))'
    <3>1. a \in Addr /\ a \in ToSet(big) /\ a # c
      BY <1>1 DEF BigTypes, ToSet
    <3>2. /\ size[a] > 0 /\ recFlag[a] # 1 /\ Empty(a)
          /\ \A p \in Procs : ~Putting(p, a)
          /\ \A h \in Heaps : ~Owning(h, a)
      BY <3>1 DEF InOnePlace
    <3>3. \A p \in Procs : ~(step'[p] = "put" /\ cur'[p] = a)
      BY <3>1, <3>2 DEF Putting
    <3>4. \A h \in Heaps : ~(~Leaving(h)' /\ chunk'[h] = a)
      BY <1>2, <3>2 DEF Owning
    <3>5. Empty(a)'
      BY <3>2 DEF Empty
    <3>6. size'[a] > 0 /\ recFlag'[a] # 1
      BY <3>1, <3>2
    <3> QED
      BY <3>3, <3>4, <3>5, <3>6 DEF Putting, Owning
  <2>3. ASSUME NEW p \in Procs, step'[p] = "put"
        PROVE  (/\ size[cur[p]] > 0 /\ recFlag[cur[p]] # 1 /\ Empty(cur[p])
                /\ \A r \in Procs : Putting(r, cur[p]) => r = p
                /\ \A h \in Heaps : ~Owning(h, cur[p]))'
    <3>1. CASE p = q
      BY <1>1, <1>2, <3>1 DEF Empty, Putting, Owning
    <3>2. CASE p # q
      <4>1. step[p] = "put" /\ cur'[p] = cur[p] /\ cur[p] \in Addr /\ cur[p] # c
        BY <1>1, <2>3, <3>2 DEF BigLocals, Putting
      <4> DEFINE a == cur[p]
      <4>2. /\ size[a] > 0 /\ recFlag[a] # 1 /\ Empty(a)
            /\ \A r \in Procs : Putting(r, a) => r = p
            /\ \A h \in Heaps : ~Owning(h, a)
        BY <4>1 DEF InOnePlace
      <4>3. \A r \in Procs : step'[r] = "put" /\ cur'[r] = a => r = p
        BY <4>1, <4>2 DEF Putting
      <4>4. \A h \in Heaps : ~(~Leaving(h)' /\ chunk'[h] = a)
        BY <1>2, <4>2 DEF Owning
      <4>5. Empty(a)'
        BY <4>1, <4>2 DEF Empty
      <4>6. size'[a] > 0 /\ recFlag'[a] # 1
        BY <4>1, <4>2
      <4> QED
        BY <4>1, <4>3, <4>4, <4>5, <4>6 DEF Putting, Owning, Empty
    <3> QED
      BY <3>1, <3>2
  <2>4. ASSUME NEW g \in Heaps, ~Leaving(g)'
        PROVE  (/\ size[chunk[g]] > 0 /\ recFlag[chunk[g]] = 0
                /\ \A k \in Heaps : Owning(k, chunk[g]) => k = g)'
    <3>1. ~Leaving(g) /\ chunk[g] # c /\ chunk[g] \in Addr
      BY <1>1, <1>2, <2>4, SizesAre DEF Owning
    <3> QED
      BY <1>2, <3>1, ZenonT(30) DEF InOnePlace, Owning
  <2> QED
    BY <2>1, <2>2, <2>3, <2>4 DEF InOnePlace
<1>4. SomewhereOK'
  <2> SUFFICES ASSUME NEW a \in Addr, size'[a] > 0
               PROVE  Placed(a)' \/ (recFlag'[a] = 1 /\ CaredFor(a)')
    BY DEF SomewhereOK
  <2>1. CASE a = c
    BY <2>1 DEF Placed, Putting
  <2>2. CASE a # c
    <3>1. Placed(a) \/ (recFlag[a] = 1 /\ CaredFor(a))
      BY DEF SomewhereOK
    <3>2. Placed(a) => Placed(a)'
      BY <1>2 DEF Placed, Putting, Owning
    <3>3. CaredFor(a) => CaredFor(a)'
      BY <2>2 DEF CaredFor, Empty, Recovering, Testing
    <3> QED
      BY <2>2, <3>1, <3>2, <3>3
  <2> QED
    BY <2>1, <2>2
<1> QED
  BY <1>3, <1>4

\* A free() recovers the chunk, ...
LEMMA RecoverKeeps ==
  ASSUME Sound, NEW f \in Freers, Recover(f), ~stale'
  PROVE  Sound'
<1> USE WhoIs DEF Sound
<1> DEFINE c == cur[f]
<1>1. /\ step[f] = "recover" /\ c \in Addr /\ count[c] = 0 /\ size[c] > 0 /\ recFlag[c] = 1
      /\ \A p \in Procs : step'[p] = IF p = f THEN "put" ELSE step[p]
      /\ \A a \in Addr : recFlag'[a] = IF a = c THEN 2 ELSE recFlag[a]
      /\ UNCHANGED <<top, size, count, slide, big, chunk, used, cur, mem, need, again, old,
                     torn, failed>>
  <2>1. step[f] = "recover" /\ c \in Addr
    BY DEF Recover, BigLocals
  <2>2. count[c] = 0 /\ size[c] > 0 /\ recFlag[c] = 1
    <3>1. ~(count[c] # 0) /\ ~(size[c] = 0) /\ (recFlag[c] = 1 \/ size[c] = 0)
      BY Zenon DEF Recover
    <3>2. size[c] \in Nat
      BY <2>1, SizesAre
    <3> QED
      BY ONLY <3>1, <3>2
  <2> QED
    BY <2>1, <2>2 DEF Recover, StepTo, BigTypes, locals
<1>2. BigTypes'
  <2>1. step' \in [Procs -> HeapSteps \cup FreerSteps] /\ recFlag' \in [Addr -> 0 .. 2]
    BY <1>1 DEF Recover, StepTo, BigTypes, FreerSteps
  <2> QED
    BY <1>1, <2>1 DEF BigTypes
<1>3. BigLocals'
  BY <1>1 DEF BigLocals, FreerSteps
<1>4. InOnePlace' /\ SomewhereOK'
  <2>1. f \in Procs /\ f \notin Heaps /\ \A h \in Heaps : h # f
    OBVIOUS
  <2>2. /\ step[f] # "put" /\ cur'[f] = c /\ \A p \in Procs : p # f => cur'[p] = cur[p]
        /\ \A p \in Procs : step'[p] = IF p = f THEN "put" ELSE step[p]
    BY <1>1
  <2>3. /\ c \in Addr /\ recFlag[c] = 1 /\ count[c] = 0 /\ size[c] > 0
        /\ \A a \in Addr : recFlag'[a] = IF a = c THEN 2 ELSE recFlag[a]
        /\ UNCHANGED <<size, big, chunk, used>>
    BY <1>1
  <2>4. cur[f] = c
    OBVIOUS
  <2> HIDE DEF c, Sound
  <2> QED
    BY ONLY Sound, f \in Freers, <2>1, <2>2, <2>3, <2>4, RecoveredBy
<1>5. CountsOK'
  BY <1>1, CountsKept
<1>6. CutsOK'
  BY <1>1, CutsKept
<1>7. RoomOK'
  BY <1>1 DEF RoomOK, Empty
<1>8. ~torn' => BlocksOK'
  BY <1>1, BlocksKept
<1>9. Tiles(size, top)'
  BY <1>1 DEF Tiles
<1> QED
  BY <1>2, <1>3, <1>4, <1>5, <1>6, <1>7, <1>8, <1>9

\* ... or the heap does, or keeps it.
LEMMA UnmarkKeeps ==
  ASSUME Sound, NEW h \in Heaps, Unmark(h), ~stale'
  PROVE  Sound'
<1> USE WhoIs DEF Sound
<1> DEFINE c == chunk[h]
<1>1. /\ step[h] = "unmark" /\ c \in Addr /\ count[c] = 0 /\ size[c] > 0 /\ recFlag[c] = 1
      /\ UNCHANGED <<top, size, count, big, chunk, used, mem, need, torn, failed>>
  <2>1. step[h] = "unmark" /\ c \in Addr
    BY SizesAre DEF Unmark
  <2>2. count[c] = 0 /\ size[c] > 0 /\ recFlag[c] = 1
    <3>1. ~(count[c] # 0) /\ ~(size[c] = 0) /\ (recFlag[c] = 1 \/ size[c] = 0)
      BY Zenon DEF Unmark
    <3>2. size[c] \in Nat
      BY <2>1, SizesAre
    <3> QED
      BY ONLY <3>1, <3>2
  <2> QED
    BY <2>1, <2>2 DEF Unmark
<1>2. /\ c \notin ToSet(big) /\ Empty(c)
      /\ \A p \in Procs : ~Putting(p, c)
      /\ \A g \in Heaps : ~Owning(g, c)
  BY <1>1, Nowhere
<1>3. CASE ~SameSize(h)
  <2>1. /\ \A p \in Procs : step'[p] = IF p = h THEN "put" ELSE step[p]
        /\ \A a \in Addr : recFlag'[a] = IF a = c THEN 2 ELSE recFlag[a]
        /\ cur'[h] = c /\ \A p \in Procs : p # h => cur'[p] = cur[p]
        /\ UNCHANGED <<slide, again, old>>
    BY <1>3 DEF Unmark, StepTo, BigTypes
  <2>2. BigTypes'
    <3>1. step' \in [Procs -> HeapSteps \cup FreerSteps] /\ recFlag' \in [Addr -> 0 .. 2]
      <4>1. step' = [step EXCEPT ![h] = "put"] /\ recFlag' = [recFlag EXCEPT ![c] = 2]
        BY <1>3 DEF Unmark, StepTo
      <4>2. "put" \in HeapSteps /\ 2 \in 0 .. 2
        BY DEF HeapSteps
      <4> QED
        BY <1>1, <4>1, <4>2 DEF BigTypes
    <3>2. cur' \in [Procs -> Addr \cup {Nothing}]
      BY <1>1, <1>3 DEF Unmark, BigTypes
    <3> QED
      BY <1>1, <2>1, <3>1, <3>2 DEF BigTypes
  <2>3. BigLocals'
    BY <1>1, <2>1 DEF BigLocals, HeapSteps
  <2>4. InOnePlace' /\ SomewhereOK'
    <3>1. step[h] # "put" /\ Leaving(h) /\ h \in Procs /\ h \notin Freers
      BY <1>1 DEF Leaving
    <3> QED
      BY <1>1, <2>1, <3>1, RecoveredBy
  <2>5. CountsOK'
    BY <1>1, <2>1, CountsKept
  <2>6. CutsOK'
    BY <1>1, <2>1, CutsKept
  <2>7. RoomOK'
    BY <1>1, <2>1 DEF RoomOK, Empty
  <2>8. ~torn' => BlocksOK'
    BY <1>1, <2>1, BlocksKept
  <2>9. Tiles(size, top)'
    BY <1>1 DEF Tiles
  <2> QED
    BY <2>2, <2>3, <2>4, <2>5, <2>6, <2>7, <2>8, <2>9
<1>4. CASE SameSize(h)
  <2>1. /\ \A p \in Procs : step'[p] = IF p = h THEN "malloc" ELSE step[p]
        /\ \A a \in Addr : recFlag'[a] = IF a = c THEN 0 ELSE recFlag[a]
        /\ \A a \in Addr : slide'[a] = IF a = c THEN 0 ELSE slide[a]
        /\ again'[h] = TRUE /\ old'[h] = 0
        /\ \A g \in Heaps : g # h => again'[g] = again[g] /\ old'[g] = old[g]
        /\ cur' = cur
    BY <1>4 DEF Unmark, StartOver, SecondMalloc, StepTo, BigTypes
  <2>2. BigTypes'
    <3>1. step' \in [Procs -> HeapSteps \cup FreerSteps] /\ recFlag' \in [Addr -> 0 .. 2]
      <4>1. step' = [step EXCEPT ![h] = "malloc"] /\ recFlag' = [recFlag EXCEPT ![c] = 0]
        BY <1>4 DEF Unmark, StartOver, SecondMalloc, StepTo
      <4>2. "malloc" \in HeapSteps /\ 0 \in 0 .. 2
        BY DEF HeapSteps
      <4> QED
        BY <1>1, <4>1, <4>2 DEF BigTypes
    <3>2. again' \in [Heaps -> BOOLEAN] /\ old' \in [Heaps -> 0 .. MaxMem] /\ slide' \in [Addr -> 0 .. MaxMem]
      <4>1. /\ again' = [again EXCEPT ![h] = TRUE] /\ old' = [old EXCEPT ![h] = 0]
            /\ slide' = [slide EXCEPT ![c] = 0]
        BY <1>4 DEF Unmark, StartOver, SecondMalloc
      <4>2. TRUE \in BOOLEAN /\ 0 \in 0 .. MaxMem
        OBVIOUS
      <4> QED
        BY <1>1, <4>1, <4>2 DEF BigTypes
    <3> QED
      BY <1>1, <2>1, <3>1, <3>2 DEF BigTypes
  <2>3. BigLocals'
    BY <1>1, <2>1 DEF BigLocals, HeapSteps
  <2>4. \A p \in Procs, a \in Addr : Putting(p, a)' <=> Putting(p, a)
    BY <1>1, <2>1 DEF Putting
  <2>5. \A g \in Heaps : (Leaving(g)' <=> g # h /\ Leaving(g))
    BY <1>1, <2>1 DEF Leaving
  <2>6. InOnePlace'
    <3>1. NoTwice(big)'
      BY <1>1 DEF InOnePlace
    <3>2. ASSUME NEW a \in ToSet(big')
          PROVE  (/\ size[a] > 0 /\ recFlag[a] # 1 /\ Empty(a)
                  /\ \A p \in Procs : ~Putting(p, a)
                  /\ \A g \in Heaps : ~Owning(g, a))'
      <4>1. a \in Addr /\ a \in ToSet(big) /\ a # c
        BY <1>1, <1>2 DEF BigTypes, ToSet
      <4> QED
        BY <1>1, <2>1, <2>4, <2>5, <4>1 DEF InOnePlace, Empty, Owning
    <3>3. ASSUME NEW p \in Procs, step'[p] = "put"
          PROVE  (/\ size[cur[p]] > 0 /\ recFlag[cur[p]] # 1 /\ Empty(cur[p])
                  /\ \A q \in Procs : Putting(q, cur[p]) => q = p
                  /\ \A g \in Heaps : ~Owning(g, cur[p]))'
      <4>1. step[p] = "put" /\ cur[p] \in Addr /\ cur[p] # c
        BY <1>2, <2>1, <3>3 DEF BigLocals, Putting
      <4> DEFINE a == cur[p]
      <4>2. /\ size[a] > 0 /\ recFlag[a] # 1 /\ Empty(a)
            /\ \A r \in Procs : Putting(r, a) => r = p
            /\ \A g \in Heaps : ~Owning(g, a)
        BY <4>1 DEF InOnePlace
      <4>3. \A r \in Procs : step'[r] = "put" /\ cur'[r] = a => r = p
        BY <1>1, <2>1, <4>1, <4>2 DEF Putting
      <4>4. \A g \in Heaps : ~(~Leaving(g)' /\ chunk'[g] = a)
        BY <1>1, <2>5, <4>1, <4>2 DEF Owning
      <4>5. Empty(a)'
        BY <1>1, <2>1, <4>1, <4>2 DEF Empty
      <4>6. size'[a] > 0 /\ recFlag'[a] # 1
        BY <1>1, <2>1, <4>1, <4>2
      <4> QED
        BY <2>1, <4>3, <4>4, <4>5, <4>6 DEF Putting, Owning, Empty
    <3>4. ASSUME NEW g \in Heaps, ~Leaving(g)'
          PROVE  (/\ size[chunk[g]] > 0 /\ recFlag[chunk[g]] = 0
                  /\ \A k \in Heaps : Owning(k, chunk[g]) => k = g)'
      <4>1. CASE g = h
        BY <1>1, <1>2, <2>1, <2>5, <4>1 DEF Owning
      <4>2. CASE g # h
        <5>1. ~Leaving(g) /\ chunk[g] # c /\ chunk[g] \in Addr
          BY <1>2, <2>5, <3>4, <4>2, SizesAre DEF Owning
        <5> QED
          BY <1>1, <2>1, <2>5, <5>1, ZenonT(30) DEF InOnePlace, Owning
      <4> QED
        BY <4>1, <4>2
    <3> QED
      BY <3>1, <3>2, <3>3, <3>4 DEF InOnePlace
  <2>7. SomewhereOK'
    <3> SUFFICES ASSUME NEW a \in Addr, size'[a] > 0
                 PROVE  Placed(a)' \/ (recFlag'[a] = 1 /\ CaredFor(a)')
      BY DEF SomewhereOK
    <3>1. CASE a = c
      BY <1>1, <2>5, <3>1 DEF Placed, Owning
    <3>2. CASE a # c
      <4>1. Placed(a) \/ (recFlag[a] = 1 /\ CaredFor(a))
        BY <1>1 DEF SomewhereOK
      <4>2. Placed(a) => Placed(a)'
        BY <1>1, <2>4, <2>5 DEF Placed, Owning
      <4>3. CaredFor(a) => CaredFor(a)'
        BY <1>1, <2>1, <3>2 DEF CaredFor, Empty, Recovering, Testing
      <4> QED
        BY <2>1, <3>2, <4>1, <4>2, <4>3
    <3> QED
      BY <3>1, <3>2
  <2>8. CountsOK'
    BY <1>1, <2>1, CountsKept
  <2>9. \A b \in used : b.chunk \in Addr /\ slide'[b.chunk] = slide[b.chunk]
    BY <1>2, <2>1, SizesAre DEF Empty
  <2>10. CutsOK'
    <3>1. \A a \in Addr : size[a] > 0 => slide'[a] <= size[a]
      BY <2>1, SizesAre DEF CutsOK
    <3> QED
      BY <1>1, <2>9, <3>1 DEF CutsOK
  <2>11. RoomOK'
    <3>1. \A g \in Heaps : chunk[g] \in Addr /\ (slide[chunk[g]] = 0 => slide'[chunk[g]] = 0)
      BY <2>1, SizesAre
    <3>2. need[h] <= size[c]
      <4>1. need[h] \in Nat
        BY <1>1 DEF BigLocals
      <4>2. 2 * need[h] <= old[h] /\ old[h] <= size[c]
        BY <1>1, <1>4 DEF SameSize, RoomOK
      <4>3. old[h] \in Nat /\ size[c] \in Nat
        BY SizesAre
      <4> QED
        BY <4>1, <4>2, <4>3
    <3>3. slide'[c] = 0
      BY <1>1, <2>1
    <3> QED
      BY <1>1, <1>2, <2>1, <3>1, <3>2, <3>3 DEF RoomOK, Empty
  <2>12. ~torn' => BlocksOK'
    <3>1. UNCHANGED <<used, size, mem, need, torn>> /\ \A f \in Freers : step'[f] = step[f]
      BY <1>1, <2>1
    <3> QED
      BY <2>9, <3>1 DEF BlocksOK
  <2>13. Tiles(size, top)'
    BY <1>1 DEF Tiles
  <2> QED
    BY <2>2, <2>3, <2>6, <2>7, <2>8, <2>10, <2>11, <2>12, <2>13
<1> QED
  BY <1>3, <1>4

-----------------------------------------------------------------------------
(* The steps of a free(), and the end of a recovery. *)

\* The heap was first, or has the chunk still.
LEMMA NotMarkedKeeps ==
  ASSUME Sound, NEW f \in Freers, NotMarked(f)
  PROVE  Sound'
<1> USE WhoIs DEF Sound
<1> DEFINE c == cur[f]
<1>1. /\ step[f] = "recover" /\ recFlag[c] # 1
      /\ \A p \in Procs : step'[p] = IF p = f THEN "idle" ELSE step[p]
      /\ \A p \in Procs : cur'[p] = IF p = f THEN Nothing ELSE cur[p]
      /\ UNCHANGED <<top, size, count, recFlag, slide, big, chunk, used, mem, need, again, old,
                     torn, failed>>
  BY DEF NotMarked, StepTo, BigTypes, header, history
<1>2. BigTypes'
  <2>1. step' \in [Procs -> HeapSteps \cup FreerSteps] /\ cur' \in [Procs -> Addr \cup {Nothing}]
    BY DEF NotMarked, StepTo, BigTypes, HeapSteps
  <2> QED
    BY <1>1, <2>1 DEF BigTypes
<1>3. BigLocals'
  BY <1>1 DEF BigLocals, FreerSteps
<1>4. \A h \in Heaps : (Leaving(h)' <=> Leaving(h))
  BY <1>1 DEF Leaving
<1>5. \A p \in Procs : (step'[p] = "put" <=> step[p] = "put") /\ (step[p] = "put" => cur'[p] = cur[p])
  BY <1>1
<1>6. InOnePlace'
  <2>1. NoTwice(big)'
    BY <1>1 DEF InOnePlace
  <2>2. ASSUME NEW a \in ToSet(big')
        PROVE  (/\ size[a] > 0 /\ recFlag[a] # 1 /\ Empty(a)
                /\ \A p \in Procs : ~Putting(p, a)
                /\ \A h \in Heaps : ~Owning(h, a))'
    BY <1>1, <1>4, <1>5 DEF InOnePlace, Empty, Putting, Owning
  <2>3. ASSUME NEW p \in Procs, step'[p] = "put"
        PROVE  (/\ size[cur[p]] > 0 /\ recFlag[cur[p]] # 1 /\ Empty(cur[p])
                /\ \A r \in Procs : Putting(r, cur[p]) => r = p
                /\ \A h \in Heaps : ~Owning(h, cur[p]))'
    <3>1. step[p] = "put" /\ cur'[p] = cur[p]
      BY <1>5, <2>3
    <3> QED
      BY <1>1, <1>4, <1>5, <3>1 DEF InOnePlace, Empty, Putting, Owning
  <2>4. ASSUME NEW g \in Heaps, ~Leaving(g)'
        PROVE  (/\ size[chunk[g]] > 0 /\ recFlag[chunk[g]] = 0
                /\ \A k \in Heaps : Owning(k, chunk[g]) => k = g)'
    BY <1>1, <1>4, <2>4 DEF InOnePlace, Owning
  <2> QED
    BY <2>1, <2>2, <2>3, <2>4 DEF InOnePlace
<1>7. SomewhereOK'
  <2> SUFFICES ASSUME NEW a \in Addr, size'[a] > 0
               PROVE  Placed(a)' \/ (recFlag'[a] = 1 /\ CaredFor(a)')
    BY DEF SomewhereOK
  <2>1. Placed(a) \/ (recFlag[a] = 1 /\ CaredFor(a))
    BY <1>1 DEF SomewhereOK
  <2>2. Placed(a) => Placed(a)'
    BY <1>1, <1>4, <1>5 DEF Placed, Putting, Owning
  <2>3. CASE a = c
    BY <1>1, <2>1, <2>2, <2>3
  <2>4. CASE a # c
    <3>1. CaredFor(a) => CaredFor(a)'
      BY <1>1, <2>4 DEF CaredFor, Empty, Recovering, Testing
    <3> QED
      BY <1>1, <2>1, <2>2, <3>1
  <2> QED
    BY <2>3, <2>4
<1>8. CountsOK'
  BY <1>1, CountsKept
<1>9. CutsOK'
  BY <1>1, CutsKept
<1>10. RoomOK'
  BY <1>1 DEF RoomOK, Empty
<1>11. ~torn' => BlocksOK'
  BY <1>1, BlocksKept
<1>12. Tiles(size, top)'
  BY <1>1 DEF Tiles
<1> QED
  BY <1>2, <1>3, <1>6, <1>7, <1>8, <1>9, <1>10, <1>11, <1>12

\* Who frees the last block of a marked chunk will see to it.
LEMMA FreeBlockKeeps ==
  ASSUME Sound, NEW f \in Freers, FreeBlock(f)
  PROVE  Sound'
<1> USE WhoIs DEF Sound
<1>1. PICK b \in used \ {mem[g] : g \in Freers} :
        /\ step[f] = "idle"
        /\ used' = used \ {b}
        /\ count' = [count EXCEPT ![b.chunk] = @ - 1]
        /\ IF count[b.chunk] = 1
           THEN cur' = [cur EXCEPT ![f] = b.chunk] /\ StepTo(f, "recover")
           ELSE UNCHANGED <<cur, step>>
  BY DEF FreeBlock
<1> DEFINE c == b.chunk
           last == count[c] = 1
<1>2. /\ b \in used /\ c \in Addr /\ step[f] = "idle" /\ used' = used \ {b}
      /\ \A p \in Procs : step'[p] = IF p = f /\ last THEN "recover" ELSE step[p]
      /\ \A p \in Procs : cur'[p] = IF p = f /\ last THEN c ELSE cur[p]
      /\ \A a \in Addr : count'[a] = IF a = c THEN count[c] - 1 ELSE count[a]
      /\ UNCHANGED <<top, size, recFlag, slide, big, chunk, mem, need, again, old, torn, failed>>
  <2>1. b \in used /\ c \in Addr
    BY <1>1, SizesAre
  <2>2. UNCHANGED <<top, size, recFlag, slide, big, chunk, mem, need, again, old, torn, failed>>
    BY DEF FreeBlock, history
  <2>3. \A a \in Addr : count'[a] = IF a = c THEN count[c] - 1 ELSE count[a]
    BY <1>1, <2>1 DEF BigTypes
  <2>4. /\ \A p \in Procs : step'[p] = IF p = f /\ last THEN "recover" ELSE step[p]
        /\ \A p \in Procs : cur'[p] = IF p = f /\ last THEN c ELSE cur[p]
    <3>1. step \in [Procs -> HeapSteps \cup FreerSteps] /\ cur \in [Procs -> Addr \cup {Nothing}]
      BY DEF BigTypes
    <3>2. CASE last
      BY <1>1, <3>1, <3>2 DEF StepTo
    <3>3. CASE ~last
      BY <1>1, <3>3
    <3> QED
      BY <3>2, <3>3
  <2> QED
    BY <1>1, <2>1, <2>2, <2>3, <2>4
<1>3. \A a \in Addr : IsFiniteSet(BlocksOf(a)) /\ Cardinality(BlocksOf(a)) \in Nat
  BY CountIs
<1>4. /\ BlocksOf(c)' = BlocksOf(c) \ {b} /\ b \in BlocksOf(c)
      /\ Cardinality(BlocksOf(c)') = Cardinality(BlocksOf(c)) - 1 /\ Cardinality(BlocksOf(c)) > 0
      /\ Cardinality(BlocksOf(c)') \in Nat
  <2>1. (BlocksOf(c) \ {b} = {d \in used' : d.chunk = c}) /\ b \in BlocksOf(c)
    BY <1>2 DEF BlocksOf
  <2>2. Cardinality(BlocksOf(c) \ {b}) = Cardinality(BlocksOf(c)) - 1
    BY <1>2, <1>3, <2>1, FS_RemoveElement
  <2>3. IsFiniteSet(BlocksOf(c) \ {b})
    BY <1>2, <1>3, FS_Subset
  <2>4. Cardinality(BlocksOf(c) \ {b}) \in Nat
    BY <2>3, FS_CardinalityType
  <2>5. BlocksOf(c)' = BlocksOf(c) \ {b}
    BY <1>2 DEF BlocksOf
  <2>6. Cardinality(BlocksOf(c)) \in Nat /\ Cardinality(BlocksOf(c)) # 0
    <3>1. ~Empty(c) /\ c \in Addr
      BY <1>2 DEF Empty
    <3> QED
      BY <1>3, <3>1, CountIs
  <2>7. Cardinality(BlocksOf(c)) > 0
    BY <2>6
  <2>8. Cardinality(BlocksOf(c)') = Cardinality(BlocksOf(c)) - 1 /\ Cardinality(BlocksOf(c)') \in Nat
    BY <2>2, <2>4, <2>5, Zenon
  <2> QED
    BY <2>1, <2>5, <2>7, <2>8, Zenon
<1>5. count[c] >= 1
  <2>1. count[c] = Cardinality(BlocksOf(c))
                      + (IF \E h \in Heaps : step[h] = "uncount" /\ chunk[h] = c THEN 1 ELSE 0)
    BY <1>2 DEF CountsOK
  <2>2. Cardinality(BlocksOf(c)) \in Nat /\ Cardinality(BlocksOf(c)) > 0
    BY <1>2, <1>3, <1>4
  <2> DEFINE n == Cardinality(BlocksOf(c))
  <2> HIDE DEF n
  <2>3. (count[c] = n \/ count[c] = n + 1) /\ n \in Nat /\ n > 0
    BY <2>1, <2>2 DEF n
  <2> QED
    BY ONLY <2>3
<1>6. BigTypes'
  <2>1. count' \in [Addr -> Nat]
    <3>1. count[c] \in Nat /\ count[c] - 1 \in Nat
      <4>1. count[c] \in Nat
        BY <1>2 DEF BigTypes
      <4> QED
        BY <1>5, <4>1
    <3> QED
      BY <1>1, <1>2, <3>1 DEF BigTypes
  <2>2. step' \in [Procs -> HeapSteps \cup FreerSteps]
    <3>1. "recover" \in FreerSteps
      BY DEF FreerSteps
    <3>2. step' = [step EXCEPT ![f] = "recover"] \/ step' = step
      BY <1>1 DEF StepTo
    <3>3. step \in [Procs -> HeapSteps \cup FreerSteps] /\ f \in Procs
      BY DEF BigTypes
    <3> QED
      BY ONLY <3>1, <3>2, <3>3
  <2>3. cur' \in [Procs -> Addr \cup {Nothing}]
    BY <1>1, <1>2 DEF BigTypes
  <2>4. IsFiniteSet(used')
    BY <1>2, FS_Subset DEF BigTypes
  <2>5. mem' \in [Freers -> used' \cup {Nothing}]
    <3>1. \A g \in Freers : mem[g] \in used' \cup {Nothing}
      BY <1>1, <1>2 DEF BigTypes
    <3> QED
      BY <1>2, <3>1 DEF BigTypes
  <2> QED
    BY <1>2, <2>1, <2>2, <2>3, <2>4, <2>5 DEF BigTypes
<1>7. BigLocals'
  BY <1>2 DEF BigLocals, FreerSteps
<1>8. \A h \in Heaps : (Leaving(h)' <=> Leaving(h))
  BY <1>2 DEF Leaving
<1>9. \A p \in Procs : (step'[p] = "put" <=> step[p] = "put") /\ (step[p] = "put" => cur'[p] = cur[p])
  BY <1>2
<1>10. InOnePlace'
  <2>1. NoTwice(big)'
    BY <1>2 DEF InOnePlace
  <2>2. ASSUME NEW a \in ToSet(big')
        PROVE  (/\ size[a] > 0 /\ recFlag[a] # 1 /\ Empty(a)
                /\ \A p \in Procs : ~Putting(p, a)
                /\ \A h \in Heaps : ~Owning(h, a))'
    BY <1>2, <1>8, <1>9 DEF InOnePlace, Empty, Putting, Owning
  <2>3. ASSUME NEW p \in Procs, step'[p] = "put"
        PROVE  (/\ size[cur[p]] > 0 /\ recFlag[cur[p]] # 1 /\ Empty(cur[p])
                /\ \A r \in Procs : Putting(r, cur[p]) => r = p
                /\ \A h \in Heaps : ~Owning(h, cur[p]))'
    <3>1. step[p] = "put" /\ cur'[p] = cur[p]
      BY <1>9, <2>3
    <3> QED
      BY <1>2, <1>8, <1>9, <3>1 DEF InOnePlace, Empty, Putting, Owning
  <2>4. ASSUME NEW g \in Heaps, ~Leaving(g)'
        PROVE  (/\ size[chunk[g]] > 0 /\ recFlag[chunk[g]] = 0
                /\ \A k \in Heaps : Owning(k, chunk[g]) => k = g)'
    BY <1>2, <1>8, <2>4 DEF InOnePlace, Owning
  <2> QED
    BY <2>1, <2>2, <2>3, <2>4 DEF InOnePlace
<1>11. SomewhereOK'
  <2> SUFFICES ASSUME NEW a \in Addr, size'[a] > 0
               PROVE  Placed(a)' \/ (recFlag'[a] = 1 /\ CaredFor(a)')
    BY DEF SomewhereOK
  <2>1. Placed(a) \/ (recFlag[a] = 1 /\ CaredFor(a))
    BY <1>2 DEF SomewhereOK
  <2>2. Placed(a) => Placed(a)'
    BY <1>2, <1>8, <1>9 DEF Placed, Putting, Owning
  <2>3. CASE a # c
    <3>1. CaredFor(a) => CaredFor(a)'
      BY <1>2, <2>3 DEF CaredFor, Empty, Recovering, Testing
    <3> QED
      BY <1>2, <2>1, <2>2, <3>1
  <2>4. CASE a = c /\ ~Placed(a)
    <3>1. ~ \E h \in Heaps : step[h] = "uncount" /\ chunk[h] = c
      BY <2>4 DEF Placed, Owning, Leaving
    <3>2. count[c] = Cardinality(BlocksOf(c))
      <4>1. count[c] = Cardinality(BlocksOf(c))
                         + (IF \E h \in Heaps : step[h] = "uncount" /\ chunk[h] = c THEN 1 ELSE 0)
        BY <1>2 DEF CountsOK
      <4>2. Cardinality(BlocksOf(c)) \in Nat
        BY <1>2, <1>3
      <4> QED
        BY <3>1, <4>1, <4>2
    <3>3. CASE last
      <4>1. Recovering(f, a)'
        BY <1>2, <2>4, <3>3 DEF Recovering
      <4> QED
        BY <1>2, <2>1, <2>4, <4>1 DEF CaredFor
    <3>4. CASE ~last
      <4>1. Cardinality(BlocksOf(c)') # 0
        BY <1>3, <1>4, <3>2, <3>4
      <4>2. BlocksOf(c)' # {}
        BY <4>1, FS_EmptySet
      <4>3. \E d \in used' : d.chunk = c
        BY <1>2, <4>2 DEF BlocksOf
      <4>4. CaredFor(a)'
        BY <2>4, <4>3 DEF CaredFor, Empty
      <4> QED
        BY <1>2, <2>1, <2>4, <4>4
    <3> QED
      BY <3>3, <3>4
  <2> QED
    BY <2>2, <2>3, <2>4
<1>12. CountsOK'
  <2> SUFFICES ASSUME NEW a \in Addr
               PROVE  count'[a] = Cardinality(BlocksOf(a)')
                        + (IF \E h \in Heaps : step'[h] = "uncount" /\ chunk'[h] = a THEN 1 ELSE 0)
    BY DEF CountsOK
  <2>1. (\E h \in Heaps : step'[h] = "uncount" /\ chunk'[h] = a)
           <=> (\E h \in Heaps : step[h] = "uncount" /\ chunk[h] = a)
    BY <1>2
  <2>2. count[a] = Cardinality(BlocksOf(a))
                      + (IF \E h \in Heaps : step[h] = "uncount" /\ chunk[h] = a THEN 1 ELSE 0)
    BY DEF CountsOK
  <2>3. CASE a = c
    <3>1. count'[a] = count[a] - 1 /\ Cardinality(BlocksOf(a)') = Cardinality(BlocksOf(a)) - 1
      BY <1>2, <1>4, <2>3
    <3> QED
      BY <1>3, <2>1, <2>2, <3>1
  <2>4. CASE a # c
    <3>1. BlocksOf(a)' = BlocksOf(a)
      BY <1>2, <2>4 DEF BlocksOf
    <3>2. count'[a] = count[a]
      BY <1>2, <2>4
    <3> QED
      BY <2>1, <2>2, <3>1, <3>2, Zenon
  <2> QED
    BY <2>3, <2>4
<1>13. CutsOK'
  BY <1>2 DEF CutsOK
<1>14. RoomOK'
  BY <1>2 DEF RoomOK, Empty
<1>15. ~torn' => BlocksOK'
  BY <1>2 DEF BlocksOK
<1>16. Tiles(size, top)'
  BY <1>2 DEF Tiles
<1> QED
  BY <1>6, <1>7, <1>10, <1>11, <1>12, <1>13, <1>14, <1>15, <1>16

\* A chunk goes into the list once.
LEMMA PutKeeps ==
  ASSUME Sound, NEW p \in Procs, Put(p)
  PROVE  Sound'
<1> USE WhoIs DEF Sound
<1> DEFINE c == cur[p]
           then == IF p \in Heaps THEN "take" ELSE "idle"
<1>1. /\ step[p] = "put" /\ c \in Addr
      /\ big' = Insert(big, size, c)
      /\ \A q \in Procs : step'[q] = IF q = p THEN then ELSE step[q]
      /\ \A q \in Procs : cur'[q] = IF q = p THEN Nothing ELSE cur[q]
      /\ UNCHANGED <<top, size, count, recFlag, slide, chunk, used, mem, need, again, old, torn, failed>>
  <2>1. step[p] = "put" /\ c \in Addr
    BY DEF Put, BigLocals
  <2> QED
    BY <2>1 DEF Put, StepTo, BigTypes, header, history
<1>2. /\ size[c] > 0 /\ recFlag[c] # 1 /\ Empty(c) /\ c \notin ToSet(big)
      /\ \A q \in Procs : Putting(q, c) => q = p
      /\ \A h \in Heaps : ~Owning(h, c)
  <2>1. Putting(p, c)
    BY <1>1 DEF Putting
  <2>2. c \notin ToSet(big)
    BY <2>1 DEF InOnePlace
  <2> QED
    BY <1>1, <2>2 DEF InOnePlace
<1>3. big' \in Seq(Addr) /\ NoTwice(big') /\ ToSet(big') = ToSet(big) \cup {c}
  <2>1. big \in Seq(Addr) /\ NoTwice(big) /\ size \in [Addr -> Nat]
    BY DEF BigTypes, InOnePlace
  <2> HIDE DEF c
  <2> QED
    BY <1>1, <1>2, <2>1, InsertOne
<1>4. BigTypes'
  <2>1. step' \in [Procs -> HeapSteps \cup FreerSteps] /\ cur' \in [Procs -> Addr \cup {Nothing}]
    <3>1. then \in HeapSteps
      BY DEF HeapSteps
    <3> QED
      BY <3>1 DEF Put, StepTo, BigTypes
  <2> QED
    BY <1>1, <1>3, <2>1 DEF BigTypes
<1>5. BigLocals'
  BY <1>1 DEF BigLocals, HeapSteps, FreerSteps
<1>6. \A h \in Heaps : (Leaving(h)' <=> Leaving(h))
  BY <1>1 DEF Leaving
<1>7. InOnePlace'
  <2>1. NoTwice(big)'
    BY <1>3
  <2>2. ASSUME NEW a \in ToSet(big')
        PROVE  (/\ size[a] > 0 /\ recFlag[a] # 1 /\ Empty(a)
                /\ \A q \in Procs : ~Putting(q, a)
                /\ \A h \in Heaps : ~Owning(h, a))'
    <3>1. /\ size[a] > 0 /\ recFlag[a] # 1 /\ Empty(a)
          /\ \A q \in Procs : Putting(q, a) => q = p
          /\ \A h \in Heaps : ~Owning(h, a)
      BY <1>2, <1>3 DEF InOnePlace
    <3>2. \A q \in Procs : ~(step'[q] = "put" /\ cur'[q] = a)
      BY <1>1, <3>1 DEF Putting
    <3> QED
      BY <1>1, <1>6, <3>1, <3>2 DEF Empty, Putting, Owning
  <2>3. ASSUME NEW q \in Procs, step'[q] = "put"
        PROVE  (/\ size[cur[q]] > 0 /\ recFlag[cur[q]] # 1 /\ Empty(cur[q])
                /\ \A r \in Procs : Putting(r, cur[q]) => r = q
                /\ \A h \in Heaps : ~Owning(h, cur[q]))'
    <3> DEFINE a == cur[q]
    <3>1. step[q] = "put" /\ q # p /\ cur'[q] = a
      BY <1>1, <2>3
    <3>2. /\ size[a] > 0 /\ recFlag[a] # 1 /\ Empty(a)
          /\ \A r \in Procs : Putting(r, a) => r = q
          /\ \A h \in Heaps : ~Owning(h, a)
      BY <3>1 DEF InOnePlace
    <3>3. \A r \in Procs : step'[r] = "put" /\ cur'[r] = a => r = q
      BY <1>1, <3>2 DEF Putting
    <3> QED
      BY <1>1, <1>6, <3>1, <3>2, <3>3 DEF Empty, Putting, Owning
  <2>4. ASSUME NEW g \in Heaps, ~Leaving(g)'
        PROVE  (/\ size[chunk[g]] > 0 /\ recFlag[chunk[g]] = 0
                /\ \A k \in Heaps : Owning(k, chunk[g]) => k = g)'
    BY <1>1, <1>6, <2>4 DEF InOnePlace, Owning
  <2> QED
    BY <2>1, <2>2, <2>3, <2>4 DEF InOnePlace
<1>8. SomewhereOK'
  <2> SUFFICES ASSUME NEW a \in Addr, size'[a] > 0
               PROVE  Placed(a)' \/ (recFlag'[a] = 1 /\ CaredFor(a)')
    BY DEF SomewhereOK
  <2>1. CASE a = c
    BY <1>3, <2>1 DEF Placed
  <2>2. CASE a # c
    <3>1. Placed(a) \/ (recFlag[a] = 1 /\ CaredFor(a))
      BY <1>1 DEF SomewhereOK
    <3>2. Placed(a) => Placed(a)'
      BY <1>1, <1>3, <1>6, <2>2 DEF Placed, Putting, Owning
    <3>3. CaredFor(a) => CaredFor(a)'
      BY <1>1 DEF CaredFor, Empty, Recovering, Testing
    <3> QED
      BY <1>1, <3>1, <3>2, <3>3
  <2> QED
    BY <2>1, <2>2
<1>9. CountsOK'
  BY <1>1, CountsKept
<1>10. CutsOK'
  BY <1>1, CutsKept
<1>11. RoomOK'
  BY <1>1 DEF RoomOK, Empty
<1>12. ~torn' => BlocksOK'
  BY <1>1, BlocksKept
<1>13. Tiles(size, top)'
  BY <1>1 DEF Tiles
<1> QED
  BY <1>4, <1>5, <1>7, <1>8, <1>9, <1>10, <1>11, <1>12, <1>13

-----------------------------------------------------------------------------
(* The steps of angrealloc. *)

\* Writing slide as it is may only be a race.
LEMMA RewriteKeeps ==
  ASSUME Sound, NEW f \in Freers, Rewrite(f)
  PROVE  Sound'
<1>1. /\ UNCHANGED <<top, size, count, recFlag, slide, big, chunk, used, step, cur, mem, need,
                     again, old, failed>>
      /\ torn' \in BOOLEAN /\ (torn => torn')
  BY DEF Rewrite, header, locals, Sound, BigTypes
<1>2. BigTypes' /\ BigLocals' /\ Tiles(size, top)' /\ CutsOK' /\ (~torn' => BlocksOK')
  BY <1>1 DEF Sound, BigTypes, BigLocals, Tiles, CutsOK, BlocksOK
<1>3. InOnePlace' /\ SomewhereOK'
  <2>1. SameWhere
    BY <1>1 DEF SameWhere, Leaving
  <2> QED
    BY <2>1, WhereKept DEF Sound
<1>4. CountsOK'
  BY <1>1, CountsKept DEF Sound
<1>5. RoomOK'
  BY <1>1 DEF Sound, RoomOK, Empty
<1> QED
  BY <1>2, <1>3, <1>4, <1>5 DEF Sound

\* A block that is about to grow is at the end of its chunk, with room.
LEMMA GrowKeeps ==
  ASSUME Sound, NEW f \in Freers, Grow(f)
  PROVE  Sound'
<1> USE WhoIs DEF Sound
<1>1. PICK b \in used \ {mem[g] : g \in Freers}, s \in Lengths :
        /\ b.said < s /\ Ending(b) /\ s - b.said < size[b.chunk] - slide[b.chunk]
        /\ mem' = [mem EXCEPT ![f] = b]
        /\ need' = [need EXCEPT ![f] = s]
  BY DEF Grow
<1>2. /\ b \in used /\ b.said < s /\ s \in Nat /\ step[f] = "idle"
      /\ \A p \in Procs : step'[p] = IF p = f THEN "grow" ELSE step[p]
      /\ \A p \in Procs : need'[p] = IF p = f THEN s ELSE need[p]
      /\ \A g \in Freers : mem'[g] = IF g = f THEN b ELSE mem[g]
      /\ \A g \in Freers : mem[g] # b
      /\ UNCHANGED <<top, size, count, recFlag, slide, big, chunk, used, cur, again, old, torn, failed>>
  <2>1. UNCHANGED <<top, size, count, recFlag, slide, big, chunk, used, cur, again, old, torn, failed>>
    BY DEF Grow, header, history
  <2>2. \A p \in Procs : step'[p] = IF p = f THEN "grow" ELSE step[p]
    BY DEF Grow, StepTo, BigTypes
  <2>3. /\ \A p \in Procs : need'[p] = IF p = f THEN s ELSE need[p]
        /\ \A g \in Freers : mem'[g] = IF g = f THEN b ELSE mem[g]
    BY <1>1 DEF BigTypes
  <2> QED
    BY <1>1, <2>1, <2>2, <2>3 DEF Grow
<1>3. b # Nothing
  <2>1. mem[f] = Nothing
    BY <1>2 DEF BigLocals
  <2> QED
    BY <1>2, <2>1
<1>4. BigTypes'
  <2>1. step' \in [Procs -> HeapSteps \cup FreerSteps]
    BY DEF Grow, StepTo, BigTypes, FreerSteps
  <2>2. mem' \in [Freers -> used \cup {Nothing}] /\ need' \in [Procs -> Lengths \cup {0}]
    BY <1>1, <1>2 DEF BigTypes
  <2> QED
    BY <1>2, <2>1, <2>2 DEF BigTypes
<1>5. BigLocals'
  BY <1>2, <1>3 DEF BigLocals, FreerSteps
<1>6. SameWhere
  BY <1>2 DEF SameWhere, Leaving
<1>7. InOnePlace' /\ SomewhereOK'
  BY <1>6, WhereKept
<1>8. CountsOK'
  BY <1>2, CountsKept
<1>9. CutsOK'
  BY <1>2, CutsKept
<1>10. RoomOK'
  BY <1>2 DEF RoomOK, Empty
<1>11. ~torn' => BlocksOK'
  <2>1. b.at + s < b.chunk + size[b.chunk]
    <3>1. b.at + b.said = b.chunk + slide[b.chunk] /\ s - b.said < size[b.chunk] - slide[b.chunk]
      BY <1>1 DEF Ending
    <3>2. /\ b.at \in Nat /\ b.said \in Nat /\ b.chunk \in Nat
          /\ size[b.chunk] \in Nat /\ slide[b.chunk] \in Nat
      BY <1>2, SizesAre
    <3> QED
      BY <1>2, <3>1, <3>2
  <2> QED
    BY <1>2, <2>1 DEF BlocksOK
<1>12. Tiles(size, top)'
  BY <1>2 DEF Tiles
<1> QED
  BY <1>4, <1>5, <1>7, <1>8, <1>9, <1>10, <1>11, <1>12

\* It still is, or the heap cut another meanwhile.
LEMMA BrkKeeps ==
  ASSUME Sound, NEW f \in Freers, Brk(f)
  PROVE  Sound'
<1> USE WhoIs DEF Sound
<1> DEFINE b == mem[f]
           c == b.chunk
           n == need[f]
           end == slide[c] + n - b.said
           new == [b EXCEPT !.len = n]
<1>1. /\ step[f] = "grow" /\ b # Nothing /\ b \in used /\ n \in Lengths /\ n \in Nat
      /\ b.said < n /\ c \in Addr
      /\ used' = (used \ {b}) \cup {new}
      /\ \A p \in Procs : step'[p] = IF p = f THEN "idle" ELSE step[p]
      /\ \A p \in Procs : need'[p] = IF p = f THEN 0 ELSE need[p]
      /\ \A g \in Freers : mem'[g] = IF g = f THEN Nothing ELSE mem[g]
      /\ \A a \in Addr : slide'[a] = IF a = c /\ end <= size[c] THEN end ELSE slide[a]
      /\ UNCHANGED <<top, size, count, recFlag, big, chunk, cur, again, old, failed>>
  <2>1. step[f] = "grow" /\ b # Nothing /\ b \in used /\ n \in Lengths /\ b.said < n
    BY DEF Brk, BigLocals, BigTypes
  <2>2. c \in Addr
    BY <2>1, SizesAre
  <2>3. /\ used' = (used \ {b}) \cup {new}
        /\ UNCHANGED <<top, size, count, recFlag, big, chunk, cur, again, old, failed>>
    BY DEF Brk
  <2>4. \A a \in Addr : slide'[a] = IF a = c /\ end <= size[c] THEN end ELSE slide[a]
    BY <2>2 DEF Brk, BigTypes
  <2>5. /\ \A p \in Procs : step'[p] = IF p = f THEN "idle" ELSE step[p]
        /\ \A p \in Procs : need'[p] = IF p = f THEN 0 ELSE need[p]
        /\ \A g \in Freers : mem'[g] = IF g = f THEN Nothing ELSE mem[g]
    BY DEF Brk, StepTo, BigTypes
  <2> QED
    BY <2>1, <2>2, <2>3, <2>4, <2>5
<1>2. /\ b \in [chunk : Addr, at : Addr, len : Lengths, said : Lengths]
      /\ new \in [chunk : Addr, at : Addr, len : Lengths, said : Lengths]
      /\ new.chunk = c /\ new.at = b.at /\ new.len = n /\ new.said = b.said
  <2>1. b \in [chunk : Addr, at : Addr, len : Lengths, said : Lengths] /\ n \in Lengths
    BY <1>1 DEF BigTypes
  <2> HIDE DEF b, n
  <2> QED
    BY <2>1 DEF c
<1>3. /\ b.at \in Nat /\ b.said \in Nat /\ b.len \in Nat /\ c \in Nat
      /\ size[c] \in Nat /\ slide[c] \in Nat /\ size[c] <= MaxMem
  BY <1>1, SizesAre
<1>4. end \in Nat /\ end > slide[c]
  BY <1>1, <1>3
<1>5. UNCHANGED torn \/ torn' = TRUE
  BY DEF Brk, BigTypes
<1>6. ~torn' => ~torn /\ b.at + b.said = c + slide[c]
  <2>1. ~torn' => ~torn /\ Ending(b)
    BY Zenon DEF Brk
  <2> QED
    BY <2>1 DEF Ending
<1> HIDE DEF b, new, n, end
<1>7. \A g \in Freers : g # f => mem[g] # b
  BY <1>1 DEF BigLocals, b
<1>8. \A d \in used' : d = new \/ (d \in used /\ d # b)
  BY <1>1
<1>9. \A a \in Addr : slide[a] \in Nat /\ slide'[a] \in Nat /\ slide[a] <= slide'[a]
  BY <1>1, <1>3, <1>4, SizesAre
<1>10. BigTypes'
  <2>1. step' \in [Procs -> HeapSteps \cup FreerSteps] /\ need' \in [Procs -> Lengths \cup {0}]
    BY DEF Brk, StepTo, BigTypes, FreerSteps
  <2>2. /\ used' \subseteq [chunk : Addr, at : Addr, len : Lengths, said : Lengths]
        /\ IsFiniteSet(used')
    <3>1. IsFiniteSet(used) /\ used \ {b} \subseteq used
      BY DEF BigTypes
    <3>2. IsFiniteSet(used \ {b})
      BY <3>1, FS_Subset
    <3>3. IsFiniteSet((used \ {b}) \cup {new})
      BY <3>2, FS_AddElement
    <3> QED
      BY <1>1, <1>2, <3>3 DEF BigTypes
  <2>3. mem' \in [Freers -> used' \cup {Nothing}]
    <3>1. \A g \in Freers : mem'[g] \in used' \cup {Nothing}
      BY <1>1, <1>7 DEF BigTypes
    <3>2. mem' = [mem EXCEPT ![f] = Nothing]
      BY DEF Brk
    <3>3. mem' = [g \in Freers |-> mem'[g]]
      BY <3>2 DEF BigTypes
    <3> QED
      BY <3>1, <3>3
  <2>4. slide' \in [Addr -> 0 .. MaxMem]
    <3>1. \A a \in Addr : slide'[a] \in 0 .. MaxMem
      <4> SUFFICES ASSUME NEW a \in Addr PROVE slide'[a] \in 0 .. MaxMem
        OBVIOUS
      <4>1. slide[a] \in 0 .. MaxMem
        BY DEF BigTypes
      <4>2. CASE a = c /\ end <= size[c]
        BY <1>1, <1>3, <1>4, <4>2
      <4>3. CASE ~(a = c /\ end <= size[c])
        BY <1>1, <4>1, <4>3
      <4> QED
        BY <4>2, <4>3
    <3>2. slide' = [a \in Addr |-> slide'[a]]
      <4>1. slide' = [slide EXCEPT ![c] = end] \/ slide' = slide
        BY DEF Brk, b, n, end
      <4> QED
        BY <4>1 DEF BigTypes
    <3> QED
      BY <3>1, <3>2
  <2>5. torn' \in BOOLEAN
    BY <1>5 DEF BigTypes
  <2> QED
    BY <1>1, <2>1, <2>2, <2>3, <2>4, <2>5 DEF BigTypes
<1>11. BigLocals'
  BY <1>1 DEF BigLocals, FreerSteps
<1>12. SameWhere
  <2>1. \A d \in used' : \E e \in used : e.chunk = d.chunk
    BY <1>1, <1>2, <1>8
  <2>2. \A d \in used : \E e \in used' : e.chunk = d.chunk
    BY <1>1, <1>2
  <2> QED
    BY <1>1, <2>1, <2>2 DEF SameWhere, Leaving
<1>13. InOnePlace' /\ SomewhereOK'
  BY <1>12, WhereKept
<1>14. \A d \in used : d # b /\ d.chunk = c => d.at # b.at
  BY <1>1 DEF CutsOK
<1>15. CountsOK'
  <2> SUFFICES ASSUME NEW a \in Addr
               PROVE  count'[a] = Cardinality(BlocksOf(a)')
                        + (IF \E h \in Heaps : step'[h] = "uncount" /\ chunk'[h] = a THEN 1 ELSE 0)
    BY DEF CountsOK
  <2>1. (\E h \in Heaps : step'[h] = "uncount" /\ chunk'[h] = a)
           <=> (\E h \in Heaps : step[h] = "uncount" /\ chunk[h] = a)
    BY <1>1
  <2>2. count[a] = Cardinality(BlocksOf(a))
                      + (IF \E h \in Heaps : step[h] = "uncount" /\ chunk[h] = a THEN 1 ELSE 0)
    BY DEF CountsOK
  <2>3. Cardinality(BlocksOf(a)') = Cardinality(BlocksOf(a))
    <3>1. IsFiniteSet(BlocksOf(a)) /\ Cardinality(BlocksOf(a)) \in Nat
      BY CountIs
    <3>2. CASE a = c
      <4> DEFINE B == BlocksOf(a)
                 R == B \ {b}
      <4>1. b \in B /\ B = {d \in used : d.chunk = c}
        BY <1>1, <3>2 DEF BlocksOf
      <4>2. new \notin R
        BY <1>2, <1>14, <4>1
      <4>3. BlocksOf(a)' = R \cup {new}
        BY <1>1, <1>2, <3>2 DEF BlocksOf
      <4> HIDE DEF B
      <4>4. IsFiniteSet(B) /\ Cardinality(B) \in Nat
        BY <3>1 DEF B
      <4>5. Cardinality(R) = Cardinality(B) - 1 /\ IsFiniteSet(R)
        BY <4>1, <4>4, FS_RemoveElement, FS_Subset
      <4> HIDE DEF R
      <4>6. Cardinality(R \cup {new}) = Cardinality(R) + 1
        BY <4>2, <4>5, FS_AddElement
      <4>7. Cardinality(R \cup {new}) = Cardinality(B)
        BY <4>4, <4>5, <4>6
      <4> QED
        BY <4>3, <4>7, Zenon DEF B
    <3>3. CASE a # c
      <4>1. BlocksOf(a)' = BlocksOf(a)
        BY <1>1, <1>2, <3>3 DEF BlocksOf
      <4> QED
        BY <4>1
    <3> QED
      BY <3>2, <3>3
  <2> QED
    BY <1>1, <2>1, <2>2, <2>3, Zenon
<1>16. CutsOK'
  <2>1. \A a \in Addr : size[a] > 0 => slide'[a] <= size[a]
    BY <1>1, SizesAre DEF CutsOK
  <2>2. ASSUME NEW d \in used'
        PROVE  size[d.chunk] > 0 /\ d.chunk <= d.at /\ d.at < d.chunk + slide'[d.chunk]
    <3>1. PICK e \in used : e.chunk = d.chunk /\ e.at = d.at
      BY <1>1, <1>2, <1>8
    <3>2. size[e.chunk] > 0 /\ e.chunk <= e.at /\ e.at < e.chunk + slide[e.chunk]
      BY DEF CutsOK
    <3>3. e.chunk \in Addr /\ e.at \in Nat /\ e.chunk \in Nat
      BY SizesAre
    <3>4. slide[e.chunk] \in Nat /\ slide'[e.chunk] \in Nat /\ slide[e.chunk] <= slide'[e.chunk]
      BY <1>9, <3>3
    <3> QED
      BY <3>1, <3>2, <3>3, <3>4
  <2>3. ASSUME NEW d \in used', NEW e \in used', d.chunk = e.chunk, d.at = e.at PROVE d = e
    BY <1>2, <1>8, <1>14, <2>3 DEF CutsOK
  <2> QED
    BY <1>1, <2>1, <2>2, <2>3 DEF CutsOK
<1>17. RoomOK'
  <2>1. ASSUME NEW h \in Heaps, again'[h], step'[h] \in {"malloc", "count"}
        PROVE  (slide[chunk[h]] = 0 /\ Empty(chunk[h]) /\ need[h] <= size[chunk[h]])'
    <3>1. h # f /\ again[h] /\ step[h] \in {"malloc", "count"}
      BY <1>1, <2>1
    <3>2. slide[chunk[h]] = 0 /\ Empty(chunk[h]) /\ need[h] <= size[chunk[h]]
      BY <3>1 DEF RoomOK
    <3>3. chunk[h] # c /\ chunk[h] \in Addr
      BY <1>1, <3>2, SizesAre DEF Empty
    <3>4. slide'[chunk[h]] = 0 /\ need'[h] = need[h]
      BY <1>1, <3>1, <3>2, <3>3
    <3>5. \A d \in used' : d.chunk # chunk[h]
      BY <1>2, <1>8, <3>2, <3>3 DEF Empty
    <3> QED
      BY <1>1, <3>2, <3>4, <3>5 DEF Empty
  <2>2. \A h \in Heaps : step'[h] = "uncount" => ~again'[h]
    BY <1>1 DEF RoomOK
  <2>3. \A h \in Heaps : step'[h] \in {"full", "mark", "recheck", "unmark"} =>
          size'[chunk'[h]] = 0 \/ old'[h] <= size'[chunk'[h]]
    BY <1>1 DEF RoomOK
  <2> QED
    BY <2>1, <2>2, <2>3 DEF RoomOK
<1>18. ~torn' => BlocksOK'
  <2> SUFFICES ASSUME ~torn' PROVE BlocksOK'
    OBVIOUS
  <2>1. BlocksOK /\ b.at + b.said = c + slide[c]
    BY <1>6
  <2>2. b.said <= b.len /\ b.at + n < c + size[c]
    BY <1>1, <2>1 DEF BlocksOK, b, n
  <2>3. slide'[c] = end /\ b.at + n = c + end
    <3>1. b.at + n = c + end
      BY <1>1, <1>3, <2>1 DEF end
    <3>2. end <= size[c]
      BY <1>1, <1>3, <1>4, <2>2, <3>1
    <3> QED
      BY <1>1, <3>1, <3>2
  <2>4. ASSUME NEW d \in used, d.chunk = c, d # b PROVE d.at + d.len <= b.at
    <3>1. d.at + d.len <= b.at \/ b.at + b.len <= d.at
      BY <1>1, <2>1, <2>4 DEF BlocksOK
    <3>2. d.at < d.chunk + slide[d.chunk]
      BY DEF CutsOK
    <3>3. d.at \in Nat /\ d.len \in Nat
      BY SizesAre
    <3> QED
      BY <1>3, <2>1, <2>2, <2>4, <3>1, <3>2, <3>3
  <2>5. ASSUME NEW d \in used' PROVE d.said <= d.len /\ d.at + d.len <= d.chunk + slide'[d.chunk]
    <3>1. CASE d = new
      BY <1>1, <1>2, <1>3, <1>4, <2>3, <3>1
    <3>2. CASE d \in used
      <4>1. d.said <= d.len /\ d.at + d.len <= d.chunk + slide[d.chunk]
        BY <2>1, <3>2 DEF BlocksOK
      <4>2. d.chunk \in Addr /\ d.at \in Nat /\ d.chunk \in Nat /\ d.len \in Nat
        BY <3>2, SizesAre
      <4>3. slide[d.chunk] \in Nat /\ slide'[d.chunk] \in Nat /\ slide[d.chunk] <= slide'[d.chunk]
        BY <1>9, <4>2
      <4> QED
        BY <4>1, <4>2, <4>3
    <3> QED
      BY <1>8, <3>1, <3>2
  <2>6. ASSUME NEW d \in used', NEW e \in used', d.chunk = e.chunk, d # e
        PROVE  d.at + d.len <= e.at \/ e.at + e.len <= d.at
    <3>1. CASE d = new
      <4>1. e \in used /\ e # b /\ e.chunk = c
        BY <1>2, <1>8, <2>6, <3>1
      <4> QED
        BY <1>2, <2>4, <3>1, <4>1
    <3>2. CASE e = new
      <4>1. d \in used /\ d # b /\ d.chunk = c
        BY <1>2, <1>8, <2>6, <3>2
      <4> QED
        BY <1>2, <2>4, <3>2, <4>1
    <3>3. CASE d \in used /\ e \in used
      BY <2>1, <2>6, <3>3 DEF BlocksOK
    <3> QED
      BY <1>8, <3>1, <3>2, <3>3
  <2>7. \A g \in Freers : step'[g] = "grow" =>
          mem'[g].at + need'[g] < mem'[g].chunk + size'[mem'[g].chunk]
    BY <1>1, <2>1 DEF BlocksOK
  <2> QED
    BY <2>5, <2>6, <2>7 DEF BlocksOK
<1>19. Tiles(size, top)'
  BY <1>1 DEF Tiles
<1> QED
  BY <1>10, <1>11, <1>13, <1>15, <1>16, <1>17, <1>18, <1>19

-----------------------------------------------------------------------------
(* The steps that give a heap its next chunk. *)

\* The size that a heap asks for, which its block fits
LEMMA NextIs ==
  ASSUME Sound, NEW h \in Heaps, step[h] = "take"
  PROVE  /\ NextSize(h) \in Nat /\ NextSize(h) > 0
         /\ need[h] \in Nat /\ need[h] <= NextSize(h)
<1>1. need[h] \in Nat /\ need[h] > 0 /\ old[h] \in Nat
  BY WhoIs, SizesAre DEF Sound, BigLocals
<1> QED
  BY <1>1 DEF NextSize, SameSize

\* What FromBig returns
LEMMA FromIs ==
  ASSUME Sound, NEW h \in Heaps, step[h] = "take"
  PROVE  FoundRight(FromBig(NextSize(h)), NextSize(h))
<1>1. NextSize(h) \in Nat
  BY NextIs
<1> QED
  BY <1>1, FromBigRight DEF Sound, BigTypes, InOnePlace

\* The chunk c becomes the heap's, and the sizes and the list change.
LEMMA Installed ==
  ASSUME Sound, NEW h \in Heaps, step[h] = "take", NEW c \in Addr,
         Install(h, c),
         size' \in [Addr -> 0 .. MaxMem], top' \in 1 .. MaxMem + 1, top <= top', Tiles(size, top)',
         big' \in Seq(Addr), NoTwice(big'), c \notin ToSet(big'), c < top',
         \A a \in ToSet(big') : a \in ToSet(big) /\ size'[a] > 0,
         \A a \in Addr : a # c /\ a \notin ToSet(big) => size'[a] = size[a],
         \A a \in Addr : a # c /\ size'[a] # 0 => size'[a] >= size[a] /\ size[a] > 0,
         \A a \in ToSet(big) : a # c /\ size'[a] > 0 => a \in ToSet(big'),
         size'[c] > 0, size'[c] >= need[h], need[h] \in Nat,
         Empty(c), \A p \in Procs : ~Putting(p, c), \A g \in Heaps : ~Owning(g, c),
         \A g \in Heaps : chunk[g] = c => size'[c] >= size[c] /\ size[c] > 0
  PROVE  Sound'
<1> USE WhoIs DEF Sound
<1>1. /\ \A p \in Procs : step'[p] = IF p = h THEN "malloc" ELSE step[p]
      /\ \A a \in Addr : count'[a] = IF a = c THEN 0 ELSE count[a]
      /\ \A a \in Addr : recFlag'[a] = IF a = c THEN 0 ELSE recFlag[a]
      /\ \A a \in Addr : slide'[a] = IF a = c THEN 0 ELSE slide[a]
      /\ \A g \in Heaps : chunk'[g] = IF g = h THEN c ELSE chunk[g]
      /\ again'[h] = TRUE /\ old'[h] = 0
      /\ \A g \in Heaps : g # h => again'[g] = again[g] /\ old'[g] = old[g]
      /\ UNCHANGED <<used, cur, mem, need, torn, failed>>
  BY DEF Install, SecondMalloc, StepTo, BigTypes, history
<1>2. BigTypes'
  <2>1. /\ count' = [count EXCEPT ![c] = 0] /\ recFlag' = [recFlag EXCEPT ![c] = 0]
        /\ slide' = [slide EXCEPT ![c] = 0] /\ chunk' = [chunk EXCEPT ![h] = c]
        /\ again' = [again EXCEPT ![h] = TRUE] /\ old' = [old EXCEPT ![h] = 0]
        /\ step' = [step EXCEPT ![h] = "malloc"]
    BY DEF Install, SecondMalloc, StepTo
  <2>2. 0 \in 0 .. MaxMem /\ 0 \in 0 .. 2 /\ 0 \in Nat /\ TRUE \in BOOLEAN /\ "malloc" \in HeapSteps
    BY DEF HeapSteps
  <2>3. count' \in [Addr -> Nat] /\ recFlag' \in [Addr -> 0 .. 2] /\ slide' \in [Addr -> 0 .. MaxMem]
    BY <2>1, <2>2 DEF BigTypes
  <2>4. chunk' \in [Heaps -> Addr] /\ again' \in [Heaps -> BOOLEAN] /\ old' \in [Heaps -> 0 .. MaxMem]
    BY <2>1, <2>2 DEF BigTypes
  <2>5. step' \in [Procs -> HeapSteps \cup FreerSteps]
    BY <2>1, <2>2 DEF BigTypes
  <2> QED
    BY <1>1, <2>3, <2>4, <2>5 DEF BigTypes
<1>3. BigLocals'
  <2>1. \A g \in Heaps : chunk'[g] < top'
    <3> SUFFICES ASSUME NEW g \in Heaps PROVE chunk'[g] < top'
      OBVIOUS
    <3>1. CASE g = h
      BY <1>1, <3>1
    <3>2. CASE g # h
      <4>1. chunk'[g] = chunk[g] /\ chunk[g] < top
        BY <1>1, <3>2 DEF BigLocals
      <4>2. chunk[g] \in Addr /\ top \in 1 .. MaxMem + 1 /\ MaxMem \in Nat
        BY SizesAre, BigAssumption DEF BigTypes
      <4>3. chunk[g] \in Nat /\ top \in Nat /\ top' \in Nat
        BY <4>2 DEF Addr
      <4> QED
        BY <4>1, <4>3
    <3> QED
      BY <3>1, <3>2
  <2>2. \A g \in Heaps : step'[g] \in HeapSteps /\ (step'[g] # "idle" => need'[g] \in Lengths)
    BY <1>1 DEF BigLocals, HeapSteps
  <2>3. /\ \A f \in Freers : step'[f] \in FreerSteps /\ (step'[f] = "grow" <=> mem'[f] # Nothing)
        /\ \A f \in Freers : step'[f] = "grow" => need'[f] \in Lengths /\ mem'[f].said < need'[f]
        /\ \A p \in Procs : step'[p] \in {"put", "recover"} => cur'[p] \in Addr
        /\ \A f, g \in Freers : mem'[f] = mem'[g] /\ mem'[f] # Nothing => f = g
    BY <1>1 DEF BigLocals
  <2> QED
    BY <2>1, <2>2, <2>3 DEF BigLocals
<1>4. \A p \in Procs : (step'[p] = "put" <=> step[p] = "put") /\ cur'[p] = cur[p]
  BY <1>1
<1>5. \A g \in Heaps : /\ Leaving(g)' <=> g # h /\ Leaving(g)
                       /\ g # h => chunk'[g] = chunk[g]
  BY <1>1 DEF Leaving
<1>6. chunk'[h] = c /\ Leaving(h) /\ ~Leaving(h)'
  BY <1>1 DEF Leaving
<1>7. InOnePlace'
  <2>1. ASSUME NEW a \in ToSet(big')
        PROVE  (/\ size[a] > 0 /\ recFlag[a] # 1 /\ Empty(a)
                /\ \A q \in Procs : ~Putting(q, a)
                /\ \A g \in Heaps : ~Owning(g, a))'
    <3>1. a \in ToSet(big) /\ size'[a] > 0 /\ a # c /\ a \in Addr
      BY DEF ToSet
    <3>2. /\ recFlag[a] # 1 /\ Empty(a)
          /\ \A q \in Procs : ~Putting(q, a)
          /\ \A g \in Heaps : ~Owning(g, a)
      BY <3>1 DEF InOnePlace
    <3>3. \A g \in Heaps : ~(~Leaving(g)' /\ chunk'[g] = a)
      BY <1>5, <1>6, <3>1, <3>2 DEF Owning
    <3>4. \A q \in Procs : ~(step'[q] = "put" /\ cur'[q] = a)
      BY <1>4, <3>2 DEF Putting
    <3>5. recFlag'[a] # 1 /\ Empty(a)'
      BY <1>1, <3>1, <3>2 DEF Empty
    <3> QED
      BY <3>1, <3>3, <3>4, <3>5 DEF Putting, Owning
  <2>2. ASSUME NEW q \in Procs, step'[q] = "put"
        PROVE  (/\ size[cur[q]] > 0 /\ recFlag[cur[q]] # 1 /\ Empty(cur[q])
                /\ \A r \in Procs : Putting(r, cur[q]) => r = q
                /\ \A g \in Heaps : ~Owning(g, cur[q]))'
    <3> DEFINE a == cur[q]
    <3>1. step[q] = "put" /\ cur'[q] = a /\ a \in Addr /\ a # c
      BY <1>4, <2>2 DEF BigLocals, Putting
    <3>2. /\ size[a] > 0 /\ recFlag[a] # 1 /\ Empty(a)
          /\ \A r \in Procs : Putting(r, a) => r = q
          /\ \A g \in Heaps : ~Owning(g, a)
      BY <3>1 DEF InOnePlace
    <3>3. a \notin ToSet(big)
      BY <3>1 DEF InOnePlace, Putting
    <3>4. size'[a] > 0 /\ recFlag'[a] # 1 /\ Empty(a)'
      BY <1>1, <3>1, <3>2, <3>3 DEF Empty
    <3>5. \A r \in Procs : step'[r] = "put" /\ cur'[r] = a => r = q
      BY <1>4, <3>2 DEF Putting
    <3>6. \A g \in Heaps : ~(~Leaving(g)' /\ chunk'[g] = a)
      BY <1>5, <1>6, <3>1, <3>2 DEF Owning
    <3> QED
      BY <1>1, <3>1, <3>4, <3>5, <3>6 DEF Putting, Owning, Empty
  <2>3. ASSUME NEW g \in Heaps, ~Leaving(g)'
        PROVE  (/\ size[chunk[g]] > 0 /\ recFlag[chunk[g]] = 0
                /\ \A k \in Heaps : Owning(k, chunk[g]) => k = g)'
    <3>1. CASE g = h
      <4>1. \A k \in Heaps : ~Leaving(k)' /\ chunk'[k] = c => k = h
        BY <1>5 DEF Owning
      <4> QED
        BY <1>1, <1>6, <3>1, <4>1 DEF Owning
    <3>2. CASE g # h
      <4> DEFINE a == chunk[g]
      <4>1. ~Leaving(g) /\ chunk'[g] = a /\ a \in Addr /\ a # c
        BY <1>5, <2>3, <3>2, SizesAre DEF Owning
      <4>2. size[a] > 0 /\ recFlag[a] = 0 /\ \A k \in Heaps : Owning(k, a) => k = g
        BY <4>1 DEF InOnePlace
      <4>3. a \notin ToSet(big)
        BY <4>1 DEF InOnePlace, Owning
      <4>4. size'[a] > 0 /\ recFlag'[a] = 0
        BY <1>1, <4>1, <4>2, <4>3
      <4>5. \A k \in Heaps : ~Leaving(k)' /\ chunk'[k] = a => k = g
        BY <1>5, <1>6, <4>1, <4>2 DEF Owning
      <4> QED
        BY <4>1, <4>4, <4>5 DEF Owning
    <3> QED
      BY <3>1, <3>2
  <2> QED
    BY <2>1, <2>2, <2>3 DEF InOnePlace
<1>8. SomewhereOK'
  <2> SUFFICES ASSUME NEW a \in Addr, size'[a] > 0
               PROVE  Placed(a)' \/ (recFlag'[a] = 1 /\ CaredFor(a)')
    BY DEF SomewhereOK
  <2>1. CASE a = c
    BY <1>6, <2>1 DEF Placed, Owning
  <2>2. CASE a # c
    <3>1. size[a] > 0 /\ recFlag'[a] = recFlag[a]
      BY <1>1, <2>2
    <3>2. Placed(a) \/ (recFlag[a] = 1 /\ CaredFor(a))
      BY <3>1 DEF SomewhereOK
    <3>3. Placed(a) => Placed(a)'
      <4>1. CASE a \in ToSet(big)
        BY <2>2, <4>1 DEF Placed
      <4>2. CASE \E p \in Procs : Putting(p, a)
        BY <1>4, <4>2 DEF Placed, Putting
      <4>3. CASE \E g \in Heaps : Owning(g, a)
        BY <1>5, <1>6, <4>3 DEF Placed, Owning
      <4> QED
        BY <4>1, <4>2, <4>3 DEF Placed
    <3>4. CaredFor(a) => CaredFor(a)'
      BY <1>1 DEF CaredFor, Empty, Recovering, Testing
    <3> QED
      BY <3>1, <3>2, <3>3, <3>4
  <2> QED
    BY <2>1, <2>2
<1>9. CountsOK'
  <2> SUFFICES ASSUME NEW a \in Addr
               PROVE  count'[a] = Cardinality(BlocksOf(a)')
                        + (IF \E g \in Heaps : step'[g] = "uncount" /\ chunk'[g] = a THEN 1 ELSE 0)
    BY DEF CountsOK
  <2>1. BlocksOf(a)' = BlocksOf(a)
    BY <1>1 DEF BlocksOf
  <2>2. (\E g \in Heaps : step'[g] = "uncount" /\ chunk'[g] = a)
           <=> (\E g \in Heaps : step[g] = "uncount" /\ chunk[g] = a)
    BY <1>1
  <2>3. CASE a = c
    <3>1. Cardinality(BlocksOf(a)) = 0
      BY <2>3, CountIs
    <3>2. ~ \E g \in Heaps : step[g] = "uncount" /\ chunk[g] = a
      BY <2>3 DEF Owning, Leaving
    <3>3. count'[a] = 0
      BY <1>1, <2>3
    <3> QED
      BY <2>1, <2>2, <3>1, <3>2, <3>3
  <2>4. CASE a # c
    <3>1. count[a] = Cardinality(BlocksOf(a))
                        + (IF \E g \in Heaps : step[g] = "uncount" /\ chunk[g] = a THEN 1 ELSE 0)
      BY DEF CountsOK
    <3>2. count'[a] = count[a]
      BY <1>1, <2>4
    <3> QED
      BY <2>1, <2>2, <3>1, <3>2, Zenon
  <2> QED
    BY <2>3, <2>4
<1>10. \A b \in used : /\ b.chunk \in Addr /\ b.chunk # c
                       /\ size'[b.chunk] = size[b.chunk] /\ slide'[b.chunk] = slide[b.chunk]
  <2> SUFFICES ASSUME NEW b \in used
               PROVE  /\ b.chunk \in Addr /\ b.chunk # c
                      /\ size'[b.chunk] = size[b.chunk] /\ slide'[b.chunk] = slide[b.chunk]
    OBVIOUS
  <2>1. b.chunk \in Addr /\ b.chunk # c /\ b.chunk \notin ToSet(big)
    BY SizesAre DEF Empty, InOnePlace
  <2> QED
    BY <1>1, <2>1
<1>11. CutsOK'
  <2>1. \A a \in Addr : size'[a] > 0 => slide'[a] <= size'[a]
    <3> SUFFICES ASSUME NEW a \in Addr, size'[a] > 0 PROVE slide'[a] <= size'[a]
      OBVIOUS
    <3>1. CASE a = c
      BY <1>1, <3>1
    <3>2. CASE a # c
      <4>1. size'[a] >= size[a] /\ slide[a] <= size[a] /\ slide'[a] = slide[a]
        BY <1>1, <3>2 DEF CutsOK
      <4>2. size'[a] \in Nat /\ size[a] \in Nat /\ slide[a] \in Nat
        BY SizesAre
      <4> QED
        BY <4>1, <4>2
    <3> QED
      BY <3>1, <3>2
  <2> QED
    BY <1>1, <1>10, <2>1 DEF CutsOK
<1>12. RoomOK'
  <2>1. ASSUME NEW g \in Heaps, again'[g], step'[g] \in {"malloc", "count"}
        PROVE  (slide[chunk[g]] = 0 /\ Empty(chunk[g]) /\ need[g] <= size[chunk[g]])'
    <3>1. CASE g = h
      BY <1>1, <3>1 DEF Empty
    <3>2. CASE g # h
      <4>1. again[g] /\ step[g] \in {"malloc", "count"} /\ chunk'[g] = chunk[g]
        BY <1>1, <2>1, <3>2
      <4>2. slide[chunk[g]] = 0 /\ Empty(chunk[g]) /\ need[g] <= size[chunk[g]]
        BY <4>1 DEF RoomOK
      <4>3. chunk[g] # c /\ chunk[g] \in Addr /\ chunk[g] \notin ToSet(big)
        BY <4>1, SizesAre DEF InOnePlace, Owning, Leaving
      <4>4. slide'[chunk[g]] = 0 /\ size'[chunk[g]] = size[chunk[g]]
        BY <1>1, <4>2, <4>3
      <4> QED
        BY <1>1, <4>1, <4>2, <4>4 DEF Empty
    <3> QED
      BY <3>1, <3>2
  <2>2. \A g \in Heaps : step'[g] = "uncount" => ~again'[g]
    BY <1>1 DEF RoomOK
  <2>3. ASSUME NEW g \in Heaps, step'[g] \in {"full", "mark", "recheck", "unmark"}
        PROVE  size'[chunk'[g]] = 0 \/ old'[g] <= size'[chunk'[g]]
    <3> DEFINE a == chunk[g]
    <3>1. /\ g # h /\ chunk'[g] = a /\ old'[g] = old[g] /\ a \in Addr
          /\ size[a] = 0 \/ old[g] <= size[a]
      BY <1>1, <2>3, SizesAre DEF RoomOK
    <3>2. size'[a] \in Nat /\ size[a] \in Nat /\ old[g] \in Nat
      BY <3>1, SizesAre
    <3>3. size'[a] # 0 => size'[a] >= size[a] /\ size[a] > 0
      BY <3>1
    <3> QED
      BY <3>1, <3>2, <3>3
  <2> QED
    BY <2>1, <2>2, <2>3 DEF RoomOK
<1>13. ~torn' => BlocksOK'
  <2> SUFFICES ASSUME ~torn PROVE BlocksOK'
    BY <1>1
  <2>1. BlocksOK
    OBVIOUS
  <2>2. \A f \in Freers : step'[f] = "grow" =>
          mem'[f].at + need'[f] < mem'[f].chunk + size'[mem'[f].chunk]
    <3> SUFFICES ASSUME NEW f \in Freers, step'[f] = "grow"
                 PROVE  mem'[f].at + need'[f] < mem'[f].chunk + size'[mem'[f].chunk]
      OBVIOUS
    <3>2. step[f] = "grow" /\ mem'[f] = mem[f] /\ need'[f] = need[f]
      BY <1>1
    <3>3. mem[f] # Nothing
      BY <3>2 DEF BigLocals
    <3>4. mem[f] \in used \cup {Nothing}
      BY DEF BigTypes
    <3>1. step[f] = "grow" /\ mem[f] \in used /\ mem'[f] = mem[f] /\ need'[f] = need[f]
      BY <3>2, <3>3, <3>4
    <3> QED
      BY <1>10, <2>1, <3>1 DEF BlocksOK
  <2> QED
    BY <1>1, <1>10, <2>1, <2>2 DEF BlocksOK
<1> QED
  BY <1>2, <1>3, <1>7, <1>8, <1>9, <1>11, <1>12, <1>13

\* A chunk of the list becomes the heap's.
LEMMA TakeKeeps ==
  ASSUME Sound, NEW h \in Heaps, Take(h)
  PROVE  Sound'
<1> DEFINE x == NextSize(h)
           from == FromBig(x)
           c == from.c
<1>1. /\ step[h] = "take" /\ from.ends /\ c # Nothing
      /\ big' = from.list /\ size' = from.sz /\ top' = top
      /\ Install(h, c)
  BY DEF Take
<1>2. x \in Nat /\ x > 0 /\ need[h] \in Nat /\ need[h] <= x
  BY <1>1, NextIs
<1>3. FoundRight(from, x)
  BY <1>1, FromIs
<1> HIDE DEF x, from
<1>4. /\ c \in ToSet(big) /\ c \notin ToSet(big')
      /\ size'[c] >= x /\ size'[c] > 0
  BY <1>1, <1>3 DEF FoundRight
<1>5. c \in Addr /\ ToSet(big) \subseteq Addr
  BY <1>4 DEF Sound, BigTypes, ToSet
<1>6. /\ size' \in [Addr -> 0 .. MaxMem] /\ top' \in 1 .. MaxMem + 1 /\ top <= top'
      /\ big' \in Seq(Addr) /\ NoTwice(big')
  BY <1>1, <1>3 DEF FoundRight, Sound, BigTypes
<1>7. Tiles(size, top)'
  BY <1>1, <1>3 DEF FoundRight, Tiles
<1>8. size'[c] \in Nat /\ c \in Nat /\ top' \in Nat
  <2>1. MaxMem \in Nat /\ Addr \subseteq Nat
    BY WhoIs
  <2>2. size'[c] \in 0 .. MaxMem
    BY <1>5, <1>6
  <2>3. top' \in 1 .. MaxMem + 1
    BY <1>6
  <2>4. top' \in Nat
    BY <2>1, <2>3
  <2>5. c \in Nat
    BY <1>5, <2>1
  <2>6. \A n \in 0 .. MaxMem : n \in Nat
    BY <2>1
  <2> HIDE DEF c
  <2>7. size'[c] \in Nat
    BY <2>2, <2>6
  <2> QED
    BY <2>4, <2>5, <2>7
<1>9. c < top'
  <2>1. c + size'[c] <= top'
    BY <1>4, <1>5, <1>7 DEF Tiles
  <2> QED
    BY <1>4, <1>8, <2>1
<1>10. /\ \A a \in ToSet(big') : a \in ToSet(big) /\ size'[a] > 0
       /\ \A a \in Addr : a # c /\ a \notin ToSet(big) => size'[a] = size[a]
       /\ \A a \in Addr : size'[a] # 0 => size'[a] >= size[a] /\ size[a] > 0
       /\ \A a \in ToSet(big) : a # c /\ size'[a] > 0 => a \in ToSet(big')
  BY <1>1, <1>3 DEF FoundRight
<1>11. size'[c] >= need[h]
  BY <1>2, <1>4, <1>8
<1>12. /\ Empty(c) /\ \A p \in Procs : ~Putting(p, c)
       /\ \A g \in Heaps : ~Owning(g, c)
  BY <1>4 DEF Sound, InOnePlace
<1>13. size'[c] # 0 => size'[c] >= size[c] /\ size[c] > 0
  BY <1>5, <1>10
<1>14. \A g \in Heaps : chunk[g] = c => size'[c] >= size[c] /\ size[c] > 0
  BY <1>4, <1>8, <1>13
<1> HIDE DEF c
<1> QED
  BY <1>1, <1>2, <1>4, <1>5, <1>6, <1>7, <1>9, <1>10, <1>11, <1>12, <1>14, Installed

\* A new chunk, above all others, becomes the heap's.
LEMMA CreateKeeps ==
  ASSUME Sound, NEW h \in Heaps, Create(h)
  PROVE  Sound'
<1> DEFINE x == NextSize(h)
           from == FromBig(x)
<1>1. /\ step[h] = "take" /\ from.ends /\ from.c = Nothing /\ top + x <= MaxMem + 1
      /\ big' = from.list /\ size' = [from.sz EXCEPT ![top] = x] /\ top' = top + x
      /\ Install(h, top)
  BY DEF Create
<1>2. x \in Nat /\ x > 0 /\ need[h] \in Nat /\ need[h] <= x
  BY <1>1, NextIs
<1>3. FoundRight(from, x)
  BY <1>1, FromIs
<1> HIDE DEF x, from
<1>4. top \in Nat /\ top > 0 /\ MaxMem \in Nat
  BY WhoIs DEF Sound, BigTypes
<1>5. top \in Addr /\ x \in 0 .. MaxMem /\ top' \in 1 .. MaxMem + 1 /\ top < top' /\ top' \in Nat
  BY <1>1, <1>2, <1>4 DEF Addr
<1>6. size[top] = 0
  <2>1. size[top] \in Nat
    BY <1>5, SizesAre DEF Sound
  <2>2. size[top] > 0 => top + size[top] <= top
    BY <1>5 DEF Sound, Tiles
  <2> QED
    BY <1>4, <2>1, <2>2
<1>7. /\ top \notin ToSet(big) /\ Empty(top)
      /\ \A p \in Procs : ~Putting(p, top)
      /\ \A g \in Heaps : ~Owning(g, top)
  BY <1>6 DEF Sound, InOnePlace, CutsOK, Empty, Putting, Owning
<1>8. \A g \in Heaps : chunk[g] # top
  <2> SUFFICES ASSUME NEW g \in Heaps PROVE chunk[g] # top
    OBVIOUS
  <2>1. chunk[g] < top
    BY DEF Sound, BigLocals
  <2> QED
    BY <1>4, <2>1
<1>9. /\ from.sz \in [Addr -> 0 .. MaxMem] /\ from.sz[top] = 0
      /\ big' \in Seq(Addr) /\ NoTwice(big')
  BY <1>1, <1>3, <1>5, <1>6, <1>7 DEF FoundRight
<1>10. \A a \in Addr : size'[a] = IF a = top THEN x ELSE from.sz[a]
  BY <1>1, <1>5, <1>9
<1>11. size' \in [Addr -> 0 .. MaxMem]
  BY <1>1, <1>5, <1>9
<1>12. ToSet(big) \subseteq Addr /\ ToSet(big') \subseteq ToSet(big)
  <2>1. ToSet(big) \subseteq Addr
    BY DEF Sound, BigTypes, ToSet
  <2>2. \A a \in ToSet(big') : a \in ToSet(big)
    BY <1>1, <1>3 DEF FoundRight
  <2> QED
    BY <2>1, <2>2
<1>13. Tiles(size, top)'
  <2>1. Tiles(from.sz, top)
    BY <1>3 DEF FoundRight
  <2>2. \A a \in Addr : from.sz[a] \in Nat /\ a \in Nat
    BY <1>4, <1>9 DEF Addr
  <2>3. ASSUME NEW a \in Addr, size'[a] > 0 PROVE a + size'[a] <= top'
    <3>1. CASE a = top
      BY <1>1, <1>2, <1>4, <1>10, <3>1
    <3>2. CASE a # top
      <4>1. size'[a] = from.sz[a] /\ a + from.sz[a] <= top
        BY <1>10, <2>1, <2>3, <3>2 DEF Tiles
      <4>2. a \in Nat /\ from.sz[a] \in Nat
        BY <2>2
      <4> QED
        BY <1>4, <1>5, <4>1, <4>2
    <3> QED
      BY <3>1, <3>2
  <2>4. ASSUME NEW a \in Addr, NEW b \in Addr, a < b, size'[a] > 0, size'[b] > 0
        PROVE  a + size'[a] <= b
    <3>1. a \in Nat /\ b \in Nat /\ from.sz[a] \in Nat /\ from.sz[b] \in Nat
      BY <2>2
    <3>2. CASE a = top
      <4>1. b # top /\ from.sz[b] > 0
        BY <1>10, <2>4, <3>1, <3>2
      <4>2. b + from.sz[b] <= top
        BY <2>1, <4>1 DEF Tiles
      <4> QED
        BY <2>4, <1>4, <3>1, <3>2, <4>1, <4>2
    <3>3. CASE b = top
      <4>1. a # top /\ size'[a] = from.sz[a]
        BY <1>10, <2>4, <3>1, <3>3
      <4> QED
        BY <2>1, <2>4, <3>3, <4>1 DEF Tiles
    <3>4. CASE a # top /\ b # top
      BY <1>10, <2>1, <2>4, <3>4 DEF Tiles
    <3> QED
      BY <3>2, <3>3, <3>4
  <2>5. ASSUME NEW u \in 1 .. top' - 1 PROVE \E a \in Addr : a <= u /\ u < a + size'[a]
    <3>1. CASE u < top
      <4>1. PICK a \in Addr : a <= u /\ u < a + from.sz[a]
        BY <1>4, <2>1, <3>1 DEF Tiles
      <4>2. a # top
        BY <1>4, <3>1, <4>1
      <4> QED
        BY <1>10, <4>1, <4>2
    <3>2. CASE ~(u < top)
      <4>1. top <= u /\ u < top + x
        BY <1>1, <1>2, <1>4, <3>2
      <4> QED
        BY <1>5, <1>10, <4>1
    <3> QED
      BY <3>1, <3>2
  <2> QED
    BY <2>3, <2>4, <2>5 DEF Tiles
<1>14. /\ \A a \in ToSet(big') : a \in ToSet(big) /\ size'[a] > 0
       /\ \A a \in Addr : a # top /\ a \notin ToSet(big) => size'[a] = size[a]
       /\ \A a \in Addr : a # top /\ size'[a] # 0 => size'[a] >= size[a] /\ size[a] > 0
       /\ \A a \in ToSet(big) : a # top /\ size'[a] > 0 => a \in ToSet(big')
  <2>1. \A a \in ToSet(big) : a \in Addr /\ a # top /\ a # Nothing /\ size'[a] = from.sz[a]
    BY <1>7, <1>10, <1>12, WhoIs
  <2> QED
    BY <1>1, <1>3, <1>10, <2>1 DEF FoundRight
<1>15. size'[top] > 0 /\ size'[top] >= need[h] /\ top \notin ToSet(big') /\ top <= top'
  BY <1>2, <1>4, <1>5, <1>7, <1>10, <1>12
<1> QED
  BY <1>1, <1>2, <1>5, <1>7, <1>8, <1>9, <1>11, <1>13, <1>14, <1>15, Installed

-----------------------------------------------------------------------------
(* The first chunks, one for each heap. *)

\* Chunks of the size f, one after the other, leave no gap.
LEMMA RowCovers ==
  ASSUME NEW f \in Nat, f > 0
  PROVE  \A n \in Nat : \A u \in 1 .. f * n : \E i \in 1 .. n : 1 + f * i - f <= u /\ u < 1 + f * i
<1> DEFINE In(u, i) == 1 + f * i - f <= u /\ u < 1 + f * i
           G == {n \in Nat : \A u \in 1 .. f * n : \E i \in 1 .. n : In(u, i)}
<1>1. 0 \in G
  <2>1. f * 0 = 0
    OBVIOUS
  <2> QED
    BY <2>1
<1>2. ASSUME NEW n \in G PROVE n + 1 \in G
  <2>1. n \in Nat /\ n + 1 \in Nat /\ f * (n + 1) = f * n + f /\ f * n \in Nat
    OBVIOUS
  <2>2. ASSUME NEW u \in 1 .. f * (n + 1) PROVE \E i \in 1 .. n + 1 : In(u, i)
    <3>1. CASE u \in 1 .. f * n
      <4>1. PICK i \in 1 .. n : In(u, i)
        BY <3>1
      <4>2. i \in 1 .. n + 1
        BY <2>1
      <4> QED
        BY <4>1, <4>2
    <3>2. CASE u \notin 1 .. f * n
      <4>1. 1 + f * n <= u /\ u < 1 + f * n + f
        BY <2>1, <3>2
      <4>2. 1 + f * (n + 1) - f = 1 + f * n /\ 1 + f * (n + 1) = 1 + f * n + f
        BY <2>1
      <4>3. In(u, n + 1)
        BY <4>1, <4>2
      <4>4. n + 1 \in 1 .. n + 1
        BY <2>1
      <4> QED
        BY <4>3, <4>4
    <3> QED
      BY <3>1, <3>2
  <2> HIDE DEF In
  <2> QED
    BY <2>1, <2>2
<1> HIDE DEF In
<1>3. G = Nat
  <2>1. G \in SUBSET Nat
    OBVIOUS
  <2> HIDE DEF G
  <2> QED
    BY <1>1, <1>2, <2>1, NatSet
<1> QED
  BY <1>3 DEF In

\* An order of the heaps has each of them once.
LEMMA OrderHas ==
  ASSUME NEW order \in SetToSeqs(Heaps)
  PROVE  /\ order \in Seq(Heaps) /\ Len(order) \in Nat /\ Len(order) = Cardinality(Heaps)
         /\ DOMAIN order = 1 .. Len(order)
         /\ \A h \in Heaps : /\ (CHOOSE i \in DOMAIN order : order[i] = h) \in 1 .. Len(order)
                             /\ order[CHOOSE i \in DOMAIN order : order[i] = h] = h
         /\ \A i \in 1 .. Len(order) :
              order[i] \in Heaps /\ (CHOOSE j \in DOMAIN order : order[j] = order[i]) = i
<1> DEFINE n == Cardinality(Heaps)
<1>1. n \in Nat /\ IsFiniteSet(1 .. n) /\ Cardinality(1 .. n) = n
  BY FS_CardinalityType, FS_Interval, BigAssumption
<1>2. order \in [1 .. n -> Heaps] /\ \A i, j \in 1 .. n : order[i] = order[j] => i = j
  BY DEF SetToSeqs
<1>3. order \in Injection(1 .. n, Heaps)
  BY <1>2 DEF Injection, IsInjective
<1>4. order \in Surjection(1 .. n, Heaps)
  BY <1>1, <1>3, FS_Injection, BigAssumption
<1>5. \A h \in Heaps : \E i \in 1 .. n : order[i] = h
  BY <1>4 DEF Surjection
<1>6. order \in Seq(Heaps) /\ Len(order) = n /\ DOMAIN order = 1 .. n
  BY <1>1, <1>2
<1> QED
  BY <1>1, <1>2, <1>5, <1>6

\* A product is not less than that of a smaller number.
LEMMA TimesMore ==
  ASSUME NEW f \in Nat, NEW i \in Nat, NEW j \in Nat, i < j
  PROVE  f * i + f <= f * j /\ f * i \in Nat /\ f * j \in Nat
<1>1. j - (i + 1) \in Nat /\ f * i \in Nat /\ f * j \in Nat
  OBVIOUS
<1>2. f * (j - (i + 1)) \in Nat
  BY <1>1
<1>3. f * (j - (i + 1)) = f * j - (f * i + f)
  OBVIOUS
<1> QED
  BY <1>1, <1>2, <1>3

\* The first chunks fill the memory that was handed out.
LEMMA InitSound ==
  ASSUME BigInit
  PROVE  Sound /\ ~stale
<1> USE WhoIs
<1>1. PICK order \in SetToSeqs(Heaps) :
        /\ chunk = [h \in Heaps |-> 1 + First * (CHOOSE i \in DOMAIN order : order[i] = h) - First]
        /\ top = 1 + First * Len(order)
        /\ size = [a \in Addr |-> IF \E h \in Heaps : chunk[h] = a THEN First ELSE 0]
        /\ count = [a \in Addr |-> 0] /\ recFlag = [a \in Addr |-> 0] /\ slide = [a \in Addr |-> 0]
        /\ big = <<>> /\ used = {}
        /\ step = [p \in Procs |-> "idle"] /\ cur = [p \in Procs |-> Nothing]
        /\ need = [p \in Procs |-> 0] /\ mem = [f \in Freers |-> Nothing]
        /\ again = [h \in Heaps |-> FALSE] /\ old = [h \in Heaps |-> 0]
        /\ torn = FALSE /\ failed = FALSE /\ stale = FALSE
  BY DEF BigInit
<1> DEFINE n == Len(order)
           at(h) == CHOOSE i \in DOMAIN order : order[i] = h
           pos(i) == 1 + First * i - First
<1>2. /\ n \in Nat /\ n = Cardinality(Heaps)
      /\ \A h \in Heaps : at(h) \in 1 .. n /\ order[at(h)] = h
      /\ \A i \in 1 .. n : order[i] \in Heaps /\ at(order[i]) = i
  BY OrderHas
<1>3. First * n \in Nat /\ First * n <= MaxMem
  BY <1>2, BigAssumption
<1> HIDE DEF n, at
<1>4. \A h \in Heaps : chunk[h] = pos(at(h))
  BY <1>1, Zenon DEF at
<1>5. top = 1 + First * n
  BY <1>1 DEF n
<1>6. \A i \in 1 .. n : pos(i) \in Nat /\ pos(i) > 0 /\ pos(i) + First <= top
  <2> SUFFICES ASSUME NEW i \in 1 .. n PROVE pos(i) \in Nat /\ pos(i) > 0 /\ pos(i) + First <= top
    OBVIOUS
  <2>1. i - 1 \in Nat /\ i - 1 < n /\ First * (i - 1) = First * i - First
    BY <1>2
  <2>2. First * (i - 1) + First <= First * n /\ First * (i - 1) \in Nat
    BY <1>2, <2>1, TimesMore
  <2> QED
    BY <1>3, <1>5, <2>1, <2>2
<1>7. \A i, j \in 1 .. n : i < j => pos(i) + First <= pos(j)
  <2> SUFFICES ASSUME NEW i \in 1 .. n, NEW j \in 1 .. n, i < j PROVE pos(i) + First <= pos(j)
    OBVIOUS
  <2>1. i \in Nat /\ j \in Nat
    BY <1>2
  <2>2. First * i + First <= First * j /\ First * i \in Nat /\ First * j \in Nat
    BY <2>1, TimesMore
  <2> QED
    BY <2>2
<1> HIDE DEF pos
<1>8. \A i \in 1 .. n : pos(i) \in Addr
  BY <1>3, <1>5, <1>6 DEF Addr
<1>9. \A h \in Heaps : chunk[h] \in Addr /\ chunk[h] \in Nat /\ chunk[h] < top
  <2> SUFFICES ASSUME NEW h \in Heaps PROVE chunk[h] \in Addr /\ chunk[h] \in Nat /\ chunk[h] < top
    OBVIOUS
  <2>1. chunk[h] \in Addr /\ chunk[h] \in Nat /\ chunk[h] + First <= top
    BY <1>2, <1>4, <1>6, <1>8
  <2> QED
    BY <1>3, <1>5, <2>1
<1>10. \A a \in Addr : size[a] = IF \E h \in Heaps : chunk[h] = a THEN First ELSE 0
  BY <1>1
<1>11. \A a \in Addr : size[a] > 0 => size[a] = First /\ \E i \in 1 .. n : a = pos(i)
  BY <1>2, <1>4, <1>10
<1>12. \A i \in 1 .. n : size[pos(i)] = First
  <2> SUFFICES ASSUME NEW i \in 1 .. n PROVE size[pos(i)] = First
    OBVIOUS
  <2>1. order[i] \in Heaps /\ chunk[order[i]] = pos(i)
    BY <1>2, <1>4
  <2> QED
    BY <1>8, <1>10, <2>1
<1>13. First <= MaxMem
  <2>1. n > 0
    <3>1. Cardinality(Heaps) # 0
      BY FS_EmptySet, BigAssumption
    <3> QED
      BY <1>2, <3>1
  <2>2. 0 \in Nat /\ 0 < n
    BY <2>1
  <2>3. First * 0 + First <= First * n
    BY <1>2, <2>2, TimesMore
  <2> QED
    BY <1>3, <2>3
<1>14. Tiles(size, top)
  <2>1. ASSUME NEW a \in Addr, size[a] > 0 PROVE a + size[a] <= top
    BY <1>6, <1>11, <2>1
  <2>2. ASSUME NEW a \in Addr, NEW b \in Addr, a < b, size[a] > 0, size[b] > 0
        PROVE  a + size[a] <= b
    <3>1. PICK i \in 1 .. n : a = pos(i)
      BY <1>11, <2>2
    <3>2. PICK j \in 1 .. n : b = pos(j)
      BY <1>11, <2>2
    <3>3. size[a] = First /\ a \in Nat /\ b \in Nat
      BY <1>11, <2>2
    <3>4. CASE i < j
      BY <1>7, <3>1, <3>2, <3>3, <3>4
    <3>5. CASE ~(i < j)
      <4>1. i = j \/ j < i
        BY <1>2, <3>5
      <4>2. j < i => b + First <= a
        BY <1>7, <3>1, <3>2
      <4> QED
        BY <2>2, <3>1, <3>2, <3>3, <4>1, <4>2
    <3> QED
      BY <3>4, <3>5
  <2>3. ASSUME NEW u \in 1 .. top - 1 PROVE \E a \in Addr : a <= u /\ u < a + size[a]
    <3>1. u \in 1 .. First * n
      BY <1>3, <1>5
    <3>2. PICK i \in 1 .. n : 1 + First * i - First <= u /\ u < 1 + First * i
      BY <1>2, <3>1, RowCovers
    <3>3. First * i \in Nat
      BY <1>2
    <3>4. pos(i) <= u /\ u < pos(i) + First
      BY <3>2, <3>3 DEF pos
    <3> QED
      BY <1>8, <1>12, <3>4
  <2> QED
    BY <2>1, <2>2, <2>3 DEF Tiles
<1>15. BigTypes
  <2>1. top \in 1 .. MaxMem + 1
    BY <1>3, <1>5
  <2>2. 0 \in 0 .. MaxMem /\ 0 \in 0 .. 2 /\ 0 \in Nat /\ First \in 0 .. MaxMem
    BY <1>13
  <2>3. size \in [Addr -> 0 .. MaxMem] /\ slide \in [Addr -> 0 .. MaxMem]
    BY <1>1, <2>2
  <2>4. count \in [Addr -> Nat] /\ recFlag \in [Addr -> 0 .. 2]
    BY <1>1, <2>2
  <2>5. chunk \in [Heaps -> Addr]
    <3>1. chunk = [h \in Heaps |-> chunk[h]]
      BY <1>1
    <3> QED
      BY <1>9, <3>1
  <2>6. big \in Seq(Addr) /\ IsFiniteSet(used)
        /\ used \subseteq [chunk : Addr, at : Addr, len : Lengths, said : Lengths]
    BY <1>1, FS_EmptySet
  <2>7. step \in [Procs -> HeapSteps \cup FreerSteps] /\ cur \in [Procs -> Addr \cup {Nothing}]
    BY <1>1 DEF HeapSteps
  <2>8. mem \in [Freers -> used \cup {Nothing}] /\ need \in [Procs -> Lengths \cup {0}]
    BY <1>1
  <2>9. again \in [Heaps -> BOOLEAN] /\ old \in [Heaps -> 0 .. MaxMem]
    BY <1>1, <2>2
  <2> QED
    BY <1>1, <2>1, <2>3, <2>4, <2>5, <2>6, <2>7, <2>8, <2>9 DEF BigTypes
<1>16. \A p \in Procs : step[p] = "idle"
  BY <1>1
<1>17. BigLocals
  <2>1. \A f \in Freers : mem[f] = Nothing
    BY <1>1
  <2> QED
    BY <1>9, <1>16, <2>1 DEF BigLocals, HeapSteps, FreerSteps
<1>18. \A h \in Heaps : ~Leaving(h)
  BY <1>16 DEF Leaving
<1>19. \A g, h \in Heaps : chunk[g] = chunk[h] => g = h
  <2> SUFFICES ASSUME NEW g \in Heaps, NEW h \in Heaps, chunk[g] = chunk[h] PROVE g = h
    OBVIOUS
  <2>1. at(g) \in 1 .. n /\ at(h) \in 1 .. n /\ pos(at(g)) = pos(at(h))
    BY <1>2, <1>4
  <2>2. pos(at(g)) \in Nat
    BY <1>6, <2>1
  <2>3. at(g) = at(h)
    <3>1. ~(at(g) < at(h)) /\ ~(at(h) < at(g))
      BY <1>7, <2>1, <2>2
    <3> QED
      BY <1>2, <2>1, <3>1
  <2> QED
    BY <1>2, <2>3
<1>20. InOnePlace
  <2>1. NoTwice(big) /\ ToSet(big) = {}
    BY <1>1 DEF NoTwice, ToSet
  <2>2. \A h \in Heaps : size[chunk[h]] > 0 /\ recFlag[chunk[h]] = 0
    BY <1>1, <1>9, <1>10
  <2>3. \A g, h \in Heaps : Owning(g, chunk[h]) => g = h
    BY <1>19 DEF Owning
  <2> QED
    BY <1>16, <2>1, <2>2, <2>3 DEF InOnePlace
<1>21. SomewhereOK
  BY <1>10, <1>18 DEF SomewhereOK, Placed, Owning
<1>22. CountsOK
  <2> SUFFICES ASSUME NEW a \in Addr
               PROVE  count[a] = Cardinality(BlocksOf(a))
                        + (IF \E h \in Heaps : step[h] = "uncount" /\ chunk[h] = a THEN 1 ELSE 0)
    BY DEF CountsOK
  <2>1. BlocksOf(a) = {} /\ count[a] = 0
    BY <1>1 DEF BlocksOf
  <2>2. Cardinality(BlocksOf(a)) = 0
    BY <2>1, FS_EmptySet
  <2>3. ~ \E h \in Heaps : step[h] = "uncount" /\ chunk[h] = a
    BY <1>16
  <2> QED
    BY <2>1, <2>2, <2>3
<1>23. CutsOK
  <2>1. \A a \in Addr : slide[a] = 0
    BY <1>1
  <2> QED
    BY <1>1, <2>1 DEF CutsOK
<1>24. RoomOK /\ BlocksOK
  BY <1>1, <1>16 DEF RoomOK, BlocksOK
<1> QED
  BY <1>1, <1>14, <1>15, <1>17, <1>20, <1>21, <1>22, <1>23, <1>24 DEF Sound

-----------------------------------------------------------------------------

\* Once stale, always.
LEMMA StaleStays ==
  ASSUME [BigNext]_bigVars, stale \in BOOLEAN, ~stale'
  PROVE  ~stale
<1>1. CASE BigNext
  <2>1. ASSUME NEW h \in Heaps, AllocBig(h) PROVE ~stale
    <3>1. CASE Unmark(h)
      BY <3>1 DEF Unmark
    <3>2. CASE MallocUncount(h)
      BY <3>2 DEF MallocUncount
    <3>3. CASE Take(h) \/ Create(h)
      BY <3>3 DEF Take, Create, Install, history
    <3> QED
      BY <2>1, <3>1, <3>2, <3>3
         DEF AllocBig, Alloc, MallocReset, MallocCount, FullButEmpty, TooSmall, FullInUse, Mark,
             Recheck, UnmarkFails, history
  <2>2. ASSUME NEW f \in Freers,
               FreeBlock(f) \/ Recover(f) \/ NotMarked(f) \/ Rewrite(f) \/ Grow(f) \/ Brk(f)
        PROVE  ~stale
    BY <2>2 DEF FreeBlock, Recover, NotMarked, Rewrite, Grow, Brk, history
  <2>3. ASSUME NEW p \in Procs, Put(p) PROVE ~stale
    BY <2>3 DEF Put, history
  <2> QED
    BY <1>1, <2>1, <2>2, <2>3 DEF BigNext
<1>2. CASE UNCHANGED bigVars
  BY <1>2 DEF bigVars, history
<1> QED
  BY <1>1, <1>2

\* A step that changes nothing
LEMMA NothingMoves ==
  ASSUME Sound, UNCHANGED bigVars
  PROVE  Sound'
<1>1. UNCHANGED <<top, size, count, recFlag, slide, big, chunk, used, step, cur, mem, need,
                  again, old, torn, failed>>
  BY DEF bigVars, header, locals, history
<1>2. /\ BigTypes' /\ BigLocals' /\ Tiles(size, top)' /\ CutsOK' /\ (~torn' => BlocksOK')
  BY <1>1 DEF Sound, BigTypes, BigLocals, Tiles, CutsOK, BlocksOK
<1>3. InOnePlace' /\ SomewhereOK'
  <2>1. SameWhere
    BY <1>1 DEF SameWhere, Leaving
  <2> QED
    BY <2>1, WhereKept DEF Sound
<1>4. CountsOK'
  BY <1>1, CountsKept DEF Sound
<1>5. RoomOK'
  BY <1>1 DEF Sound, RoomOK, Empty
<1> QED
  BY <1>2, <1>3, <1>4, <1>5 DEF Sound

\* The induction step
LEMMA SoundStays ==
  ASSUME Sound, [BigNext]_bigVars, ~stale'
  PROVE  Sound'
<1>1. CASE BigNext
  <2>1. ASSUME NEW h \in Heaps, AllocBig(h) PROVE Sound'
    BY <2>1, AllocKeeps, MallocResetKeeps, MallocCountKeeps, MallocUncountKeeps,
       FullButEmptyKeeps, TooSmallKeeps, FullInUseKeeps, MarkKeeps, RecheckKeeps, UnmarkKeeps,
       UnmarkFailsKeeps, TakeKeeps, CreateKeeps DEF AllocBig
  <2>2. ASSUME NEW f \in Freers,
               FreeBlock(f) \/ Recover(f) \/ NotMarked(f) \/ Rewrite(f) \/ Grow(f) \/ Brk(f)
        PROVE  Sound'
    BY <2>2, FreeBlockKeeps, RecoverKeeps, NotMarkedKeeps, RewriteKeeps, GrowKeeps, BrkKeeps
  <2>3. ASSUME NEW p \in Procs, Put(p) PROVE Sound'
    BY <2>3, PutKeeps
  <2> QED
    BY <1>1, <2>1, <2>2, <2>3 DEF BigNext
<1>2. CASE UNCHANGED bigVars
  BY <1>2, NothingMoves
<1> QED
  BY <1>1, <1>2

\* stale is a Boolean all along.
LEMMA StaleIsBoolean ==
  BigSpec => [](stale \in BOOLEAN)
<1>1. BigInit => stale \in BOOLEAN
  BY DEF BigInit
<1>2. stale \in BOOLEAN /\ [BigNext]_bigVars => (stale \in BOOLEAN)'
  <2> SUFFICES ASSUME stale \in BOOLEAN, [BigNext]_bigVars PROVE stale' \in BOOLEAN
    OBVIOUS
  <2>1. CASE UNCHANGED bigVars
    BY <2>1 DEF bigVars, history
  <2>2. CASE stale' = stale
    BY <2>2
  <2>3. CASE \E h \in Heaps : Unmark(h)
    BY <2>3 DEF Unmark
  <2>4. CASE \E f \in Freers : Recover(f)
    BY <2>4 DEF Recover
  <2>5. CASE BigNext /\ ~(\E h \in Heaps : Unmark(h)) /\ ~(\E f \in Freers : Recover(f))
    <3>1. ASSUME NEW h \in Heaps, AllocBig(h), ~Unmark(h) PROVE stale' = stale
      <4>1. CASE Take(h) \/ Create(h)
        BY <4>1 DEF Take, Create, Install, history
      <4> QED
        BY <3>1, <4>1
           DEF AllocBig, Alloc, MallocReset, MallocCount, MallocUncount, FullButEmpty, TooSmall,
               FullInUse, Mark, Recheck, UnmarkFails, history
    <3>2. ASSUME NEW f \in Freers,
                 FreeBlock(f) \/ NotMarked(f) \/ Rewrite(f) \/ Grow(f) \/ Brk(f)
          PROVE  stale' = stale
      BY <3>2 DEF FreeBlock, NotMarked, Rewrite, Grow, Brk, history
    <3>3. ASSUME NEW p \in Procs, Put(p) PROVE stale' = stale
      BY <3>3 DEF Put, history
    <3> QED
      BY <2>2, <2>5, <3>1, <3>2, <3>3 DEF BigNext
  <2> QED
    BY <2>1, <2>3, <2>4, <2>5
<1> QED
  BY <1>1, <1>2, PTL DEF BigSpec

\* As long as no compare-and-swap was stale, a chunk is in one place, the chunks
\* fill the memory that was handed out, and the counts, the marks and the cuts
\* are right.
THEOREM BigInvariant ==
  BigSpec => []BigInv
<1>1. BigInit => BigInv
  BY InitSound DEF BigInv
<1>2. BigInv /\ stale \in BOOLEAN /\ [BigNext]_bigVars => BigInv'
  BY StaleStays, SoundStays DEF BigInv
<1> QED
  BY <1>1, <1>2, StaleIsBoolean, PTL DEF BigSpec

-----------------------------------------------------------------------------
(* What it means for the properties of BigChunks. *)

\* The chunks of ChunksApart are chunks.
LEMMA KeptAre ==
  ASSUME Sound
  PROVE  ToSet(big) \cup KeptChunks \subseteq Addr
<1>1. ToSet(big) \subseteq Addr /\ \A h \in Heaps : chunk[h] \in Addr
  BY SizesAre DEF Sound, BigTypes, ToSet
<1>2. \A b \in used : b.chunk \in Addr
  BY SizesAre DEF Sound
<1>3. \A p \in Procs : step[p] \in {"put", "recover"} => cur[p] \in Addr
  BY DEF Sound, BigLocals
<1> QED
  BY <1>1, <1>2, <1>3, WhoIs DEF KeptChunks

\* Different chunks share no memory, ...
LEMMA UnitsApart ==
  ASSUME Sound, NEW c \in Addr, NEW d \in Addr, c # d
  PROVE  Units(c, size[c]) \cap Units(d, size[d]) = {}
<1>1. c \in Nat /\ d \in Nat /\ size[c] \in Nat /\ size[d] \in Nat
  BY WhoIs, SizesAre DEF Sound
<1>2. /\ c < d /\ size[c] > 0 /\ size[d] > 0 => c + size[c] <= d
      /\ d < c /\ size[c] > 0 /\ size[d] > 0 => d + size[d] <= c
  BY DEF Sound, Tiles
<1> QED
  BY <1>1, <1>2 DEF Units

\* ... blocks are inside their chunks, ...
LEMMA BlockInside ==
  ASSUME Sound, ~torn, NEW b \in used
  PROVE  Units(b.at, b.len) \subseteq Units(b.chunk, size[b.chunk])
<1>1. b.chunk \in Addr /\ b.chunk \in Nat /\ b.at \in Nat /\ b.len \in Nat
  BY SizesAre DEF Sound
<1>2. slide[b.chunk] \in Nat /\ size[b.chunk] \in Nat
  BY <1>1, SizesAre DEF Sound
<1>3. b.chunk <= b.at /\ slide[b.chunk] <= size[b.chunk] /\ b.at + b.len <= b.chunk + slide[b.chunk]
  BY <1>1 DEF Sound, CutsOK, BlocksOK
<1> QED
  BY <1>1, <1>2, <1>3 DEF Units

\* ... and share no memory either.
LEMMA BlocksApart ==
  ASSUME Sound, ~torn, NEW b \in used, NEW d \in used, b # d
  PROVE  Units(b.at, b.len) \cap Units(d.at, d.len) = {}
<1>1. /\ b.chunk \in Addr /\ b.chunk \in Nat /\ b.at \in Nat /\ b.len \in Nat
      /\ d.chunk \in Addr /\ d.chunk \in Nat /\ d.at \in Nat /\ d.len \in Nat
  BY SizesAre DEF Sound
<1>2. CASE b.chunk = d.chunk
  <2>1. b.at + b.len <= d.at \/ d.at + d.len <= b.at
    BY <1>2 DEF Sound, BlocksOK
  <2> QED
    BY <1>1, <2>1 DEF Units
<1>3. CASE b.chunk # d.chunk
  <2>1. /\ Units(b.at, b.len) \subseteq Units(b.chunk, size[b.chunk])
        /\ Units(d.at, d.len) \subseteq Units(d.chunk, size[d.chunk])
    BY BlockInside
  <2>2. Units(b.chunk, size[b.chunk]) \cap Units(d.chunk, size[d.chunk]) = {}
    BY <1>1, <1>3, UnitsApart
  <2> QED
    BY <2>1, <2>2
<1> QED
  BY <1>2, <1>3

\* No two chunks share memory, and no two blocks do, as long as no
\* compare-and-swap was stale and no block grew while the heap cut another.
THEOREM BigChunksApart ==
  BigSpec => []ChunksApart
<1>1. BigInv => ChunksApart
  <2> SUFFICES ASSUME BigInv, ~stale, ~torn
               PROVE  /\ BigTypeOK
                      /\ ~failed
                      /\ IsInjective(big)
                      /\ \A c, d \in ToSet(big) \cup KeptChunks :
                           c # d => Units(c, size[c]) \cap Units(d, size[d]) = {}
                      /\ \A c \in ToSet(big) : \A b \in used : b.chunk # c
                      /\ \A b, d \in used : b # d => Units(b.at, b.len) \cap Units(d.at, d.len) = {}
                      /\ \A b \in used : Units(b.at, b.len) \subseteq Units(b.chunk, size[b.chunk])
    BY DEF ChunksApart
  <2>1. Sound
    BY DEF BigInv
  <2>2. BigTypeOK
    <3>1. count \in [Addr -> Int]
      BY <2>1 DEF Sound, BigTypes
    <3> QED
      BY <2>1, <3>1 DEF Sound, BigTypes, BigTypeOK
  <2>3. ~failed
    BY <2>1 DEF Sound, BigTypes
  <2>4. IsInjective(big)
    <3>1. DOMAIN big = 1 .. Len(big)
      BY <2>1 DEF Sound, BigTypes
    <3> QED
      BY <2>1, <3>1 DEF Sound, InOnePlace, NoTwice, IsInjective
  <2>5. \A c \in ToSet(big) : \A b \in used : b.chunk # c
    BY <2>1 DEF Sound, InOnePlace, Empty
  <2> QED
    BY <2>1, <2>2, <2>3, <2>4, <2>5, KeptAre, UnitsApart, BlocksApart, BlockInside
<1> QED
  BY <1>1, BigInvariant, PTL

\* A chunk that has a size is somewhere.
LEMMA SomewhereKept ==
  ASSUME Sound, NEW c \in Addr, size[c] > 0
  PROVE  c \in ToSet(big) \cup KeptChunks
<1>1. CASE Placed(c)
  BY <1>1 DEF Placed, Putting, Owning, KeptChunks
<1>2. CASE CaredFor(c)
  BY <1>2 DEF CaredFor, Empty, Recovering, Testing, KeptChunks
<1> QED
  BY <1>1, <1>2 DEF Sound, SomewhereOK

\* All the memory that was handed out belongs to a chunk that is somewhere, as
\* long as no compare-and-swap was stale.
THEOREM NoChunkLost ==
  BigSpec => []NothingLost
<1>1. BigInv => NothingLost
  <2> SUFFICES ASSUME BigInv, ~stale
               PROVE  UNION {Units(c, size[c]) : c \in ToSet(big) \cup KeptChunks} = 1 .. top - 1
    BY DEF NothingLost
  <2>1. Sound
    BY DEF BigInv
  <2>2. /\ top \in Nat
        /\ \A a \in Addr : a \in Nat /\ a > 0 /\ size[a] \in Nat
    BY <2>1, SizesAre, BigAssumption DEF Sound, Addr
  <2>3. ASSUME NEW c \in ToSet(big) \cup KeptChunks, NEW u \in Units(c, size[c])
        PROVE  u \in 1 .. top - 1
    <3>1. c \in Addr
      BY <2>1, KeptAre
    <3>2. size[c] > 0 => c + size[c] <= top
      BY <2>1, <3>1 DEF Sound, Tiles
    <3>3. u \in c .. c + size[c] - 1
      BY DEF Units
    <3> QED
      BY <2>2, <3>1, <3>2, <3>3
  <2>4. ASSUME NEW u \in 1 .. top - 1
        PROVE  \E c \in ToSet(big) \cup KeptChunks : u \in Units(c, size[c])
    <3>1. PICK a \in Addr : a <= u /\ u < a + size[a]
      BY <2>1 DEF Sound, Tiles
    <3>2. size[a] > 0 /\ u \in Units(a, size[a])
      BY <2>2, <3>1 DEF Units
    <3> QED
      BY <2>1, <3>2, SomewhereKept
  <2> QED
    BY <2>3, <2>4
<1> QED
  BY <1>1, BigInvariant, PTL
=============================================================================
