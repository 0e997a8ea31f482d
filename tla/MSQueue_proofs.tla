--------------------------- MODULE MSQueue_proofs ---------------------------
(***************************************************************************)
(* Two parts, about MSQueue and about HazardSystem, on which msque rests.  *)
(*                                                                         *)
(* For any number of threads and nodes: the queue is a FIFO queue whose    *)
(* operations are atomic, its list stays intact, no freed node is read or  *)
(* swapped, and _size is right whenever no operation runs.                 *)
(*                                                                         *)
(* The argument: a node that a thread has published and then found in      *)
(* _begin or _end again is not freed, so its _next, once it is not null,   *)
(* stays, and the node does not come back to the list once it left.  What  *)
(* a compare-and-swap expects then says all that its caller has read.      *)
(***************************************************************************)
EXTENDS MSQueue, HazardSystem, FiniteSetTheorems, SequenceTheorems, WellFoundedInduction, TLAPS

\* The list: c[0] is the dummy node, c[n] the last one.
IsList(c, n) ==
  /\ c \in [0 .. n -> Nodes]
  /\ c[0] = begin
  /\ \A k \in 0 .. n - 1 : next[c[k]] = c[k + 1]
  /\ next[c[n]] = None
  /\ \A j, k \in 0 .. n : c[j] = c[k] => j = k

HasList == \E n \in Nat : \E c \in [0 .. n -> Nodes] : IsList(c, n)

Listed == {Chain[k] : k \in 0 .. Length}

ListOK ==
  /\ HasList
  /\ end \in Listed
  /\ \A m \in Listed : mem[m] = "used"
  /\ \A m \in Listed \ {begin} : data[m] \in Values

PopSteps == {"pop_read", "pop_publish", "pop_check", "pop_end", "pop_next",
             "pop_publish_next", "pop_again", "pop_help", "pop_swing",
             "pop_data", "pop_retire", "pop_size"}

\* The new node of a push is not on the list yet.
Making(t) == pc[t] \in PushSteps \ {"push_swing", "push_size"}

Made ==
  /\ \A t \in Threads : Making(t) =>
       /\ loc[t] \in Nodes \ Listed
       /\ mem[loc[t]] = "used" /\ next[loc[t]] = None /\ data[loc[t]] \in Values
  /\ \A t, u \in Threads : t # u /\ Making(t) /\ Making(u) => loc[t] # loc[u]

\* The steps of a thread that found the node it published in _end, or _begin,
\* again: the node is on the list, or its _next is not null for good.
HasEnd == {"push_next", "push_again", "push_help", "push_link", "push_swing"}
HasBegin == {"pop_end", "pop_next", "pop_publish_next", "pop_again", "pop_help", "pop_swing"}
HasNext == {"pop_again", "pop_help", "pop_swing"}

Validated ==
  \A t \in Threads :
    /\ pc[t] \in HasEnd \cup HasBegin =>
         /\ hb[t] \in Nodes /\ mem[hb[t]] # "free"
         /\ hb[t] \in Listed \/ next[hb[t]] # None
    /\ pc[t] \in HasBegin /\ hb[t] \in Listed => hb[t] = begin
    /\ pc[t] \in {"push_again", "push_help"} => hn[t] \in {None, next[hb[t]]}
    /\ pc[t] = "push_help" => hn[t] # None
    /\ pc[t] = "push_swing" => loc[t] \in Nodes /\ next[hb[t]] = loc[t]
    /\ pc[t] = "pop_publish_next" => rd[t] \in Nodes /\ next[hb[t]] = rd[t]
    /\ pc[t] \in HasNext => hn[t] \in Nodes /\ next[hb[t]] = hn[t]
    /\ pc[t] = "pop_help" => loc[t] = hb[t]
    /\ pc[t] = "pop_swing" => loc[t] # hb[t]
    /\ pc[t] \in HasBegin \ {"pop_end"} /\ hb[t] = begin /\ loc[t] # hb[t] => end # begin

\* A node that was taken off the list and not retired yet
Taking(t) == pc[t] \in {"pop_data", "pop_retire"}

Taken ==
  /\ \A t \in Threads : Taking(t) =>
       hb[t] \in Nodes \ Listed /\ mem[hb[t]] = "used" /\ next[hb[t]] # None
  /\ \A t, u \in Threads : t # u /\ Taking(t) /\ Taking(u) => hb[t] # hb[u]
  /\ \A t \in Threads : pc[t] = "pop_data" =>
       hn[t] \in Nodes /\ mem[hn[t]] # "free" /\ popped[t] = data[hn[t]]

PcOK == pc \in [Threads -> {"idle"} \cup PushSteps \cup PopSteps]

IInv == TypeOK /\ PcOK /\ ListOK /\ Made /\ Validated /\ Taken

\* For SizeSettles: the threads that have a new node that is not linked, and those
\* that changed the list and not _size
MakingNow == {t \in Threads : Making(t)}
Linked == {t \in Threads : pc[t] \in {"push_swing", "push_size"}}
Unlinked == {t \in Threads : pc[t] \in {"pop_data", "pop_retire", "pop_size"}}

Counted ==
  /\ IsFiniteSet(MakingNow) /\ IsFiniteSet(Linked) /\ IsFiniteSet(Unlinked)
  /\ Length + Cardinality(MakingNow) <= sent
  /\ \E z \in Int :
       Length + Cardinality(Unlinked) = Cardinality(Linked) + Width * z + size

-----------------------------------------------------------------------------
(* The list                                                                *)

\* Induction over the natural numbers, with a set for the property
LEMMA SetInduction ==
  ASSUME NEW S, 0 \in S, \A n \in Nat : n \in S => n + 1 \in S
  PROVE  Nat \subseteq S
<1> SUFFICES ASSUME Nat \ S # {} PROVE FALSE
  OBVIOUS
<1> DEFINE R == {ss \in Nat \X Nat : ss[1] < ss[2]}
<1>1. IsWellFoundedOn(R, Nat)
  BY NatLessThanWellFounded DEF OpToRel
<1>2. PICK m \in Nat \ S : \A y \in Nat \ S : ~ (<<y, m>> \in R)
  <2> HIDE DEF R
  <2>1. Nat \ S \subseteq Nat
    OBVIOUS
  <2>. QED BY <1>1, <2>1, WFMin
<1>3. m # 0 /\ m - 1 \in Nat
  OBVIOUS
<1>4. <<m - 1, m>> \in R
  BY <1>3
<1>5. m - 1 \in S
  BY <1>2, <1>3, <1>4
<1>6. (m - 1) + 1 \in S
  BY <1>3, <1>5
<1>. QED BY <1>3, <1>6

\* What the recursion of Chain says of its function
Follows(f, n) ==
  f = [k \in 0 .. n |-> IF k = 0 THEN begin
                        ELSE IF f[k - 1] = None THEN None ELSE next[f[k - 1]]]

LEMMA FollowsExists ==
  ASSUME NEW n \in Nat
  PROVE  \E f : Follows(f, n)
<1> DEFINE P == {k \in Nat : \E f : Follows(f, k)}
           after(m) == IF m = None THEN None ELSE next[m]
<1>1. 0 \in P
  <2>1. Follows([k \in 0 .. 0 |-> begin], 0)
    BY DEF Follows
  <2>. QED BY <2>1
<1>2. ASSUME NEW k \in Nat, k \in P PROVE k + 1 \in P
  <2>1. PICK f : Follows(f, k)
    BY <1>2
  <2>. DEFINE g == [i \in 0 .. k + 1 |-> IF i = k + 1 THEN after(f[k]) ELSE f[i]]
  <2>2. \A i \in 0 .. k : f[i] = IF i = 0 THEN begin ELSE after(f[i - 1])
    BY <2>1 DEF Follows
  <2>3. g[k + 1] = after(f[k]) /\ \A i \in 0 .. k : g[i] = f[i]
    OBVIOUS
  <2>4. g = [i \in 0 .. k + 1 |-> g[i]]
    OBVIOUS
  <2>. HIDE DEF g
  <2>5. \A i \in 0 .. k + 1 : g[i] = IF i = 0 THEN begin ELSE after(g[i - 1])
    <3>. SUFFICES ASSUME NEW i \in 0 .. k + 1
                  PROVE  g[i] = IF i = 0 THEN begin ELSE after(g[i - 1])
      OBVIOUS
    <3>. HIDE DEF after
    <3>1. CASE i = k + 1
      BY <2>3, <3>1
    <3>2. CASE i = 0
      BY <2>2, <2>3, <3>2
    <3>3. CASE i \in 0 .. k /\ i # 0
      <4>1. i - 1 \in 0 .. k
        BY <3>3
      <4>. QED BY <2>2, <2>3, <3>3, <4>1
    <3>. QED BY <3>1, <3>2, <3>3
  <2>6. Follows(g, k + 1)
    BY <2>4, <2>5 DEF Follows
  <2>. QED BY <2>6
<1>3. Nat \subseteq P
  <2>. HIDE DEF P
  <2>. QED BY <1>1, <1>2, SetInduction
<1>. QED BY <1>3

\* Chain is the list, with null after its end.
LEMMA ChainIsList ==
  ASSUME TypeOK, NEW n \in Nat, NEW c, IsList(c, n)
  PROVE  /\ n < Cardinality(Nodes)
         /\ \A k \in 0 .. Cardinality(Nodes) : Chain[k] = IF k <= n THEN c[k] ELSE None
<1> DEFINE N == Cardinality(Nodes)
           after(m) == IF m = None THEN None ELSE next[m]
<1>1. N \in Nat
  BY MemoryAssumption, FS_CardinalityType
<1>2. n < N
  <2>1. c \in Injection(0 .. n, Nodes)
    BY DEF IsList, Injection, IsInjective
  <2>2. Cardinality(0 .. n) <= N
    BY <2>1, MemoryAssumption, FS_Injection
  <2>3. Cardinality(0 .. n) = n + 1
    BY FS_Interval
  <2>. QED BY <1>1, <2>2, <2>3
<1>3. \A k \in 0 .. N : Chain[k] = IF k = 0 THEN begin ELSE after(Chain[k - 1])
  <2>. DEFINE f == CHOOSE f : f = [k \in 0 .. N |-> IF k = 0 THEN begin
                                ELSE IF f[k - 1] = None THEN None ELSE next[f[k - 1]]]
  <2>1. Follows(f, N)
    BY <1>1, FollowsExists DEF Follows
  <2>2. Chain = f
    BY DEF Chain
  <2>. HIDE DEF f, N
  <2>. QED BY <2>1, <2>2 DEF Follows
<1>. DEFINE P == {k \in Nat : k <= N => Chain[k] = IF k <= n THEN c[k] ELSE None}
<1>4. 0 \in P
  <2>1. 0 \in 0 .. N
    BY <1>1
  <2>. HIDE DEF N, after
  <2>. QED BY <1>3, <2>1 DEF IsList
<1>5. ASSUME NEW k \in Nat, k \in P PROVE k + 1 \in P
  <2>. SUFFICES ASSUME k + 1 <= N PROVE Chain[k + 1] = IF k + 1 <= n THEN c[k + 1] ELSE None
    OBVIOUS
  <2>. HIDE DEF N
  <2>1. k + 1 \in 0 .. N /\ k + 1 # 0 /\ (k + 1) - 1 = k /\ k <= N
    BY <1>1
  <2>2. Chain[k] = IF k <= n THEN c[k] ELSE None
    BY <1>5, <2>1
  <2>3. Chain[k + 1] = after(Chain[k])
    <3>. HIDE DEF after
    <3>. QED BY <1>3, <2>1
  <2>4. CASE k + 1 <= n
    <3>1. k \in 0 .. n - 1 /\ k \in 0 .. n /\ k <= n
      BY <2>4
    <3>2. c[k] \in Nodes /\ c[k] # None /\ next[c[k]] = c[k + 1]
      BY <3>1, NoneAssumption DEF IsList
    <3>. QED BY <2>2, <2>3, <2>4, <3>1, <3>2
  <2>5. CASE k = n
    <3>1. c[n] \in Nodes /\ c[n] # None /\ next[c[n]] = None
      BY NoneAssumption DEF IsList
    <3>2. k <= n /\ ~ (k + 1 <= n)
      BY <2>5
    <3>. QED BY <2>2, <2>3, <2>5, <3>1, <3>2
  <2>6. CASE k > n
    <3>1. ~ (k <= n) /\ ~ (k + 1 <= n)
      BY <2>6
    <3>. QED BY <2>2, <2>3, <3>1
  <2>. QED BY <2>4, <2>5, <2>6
<1>6. Nat \subseteq P
  <2>. HIDE DEF P
  <2>. QED BY <1>4, <1>5, SetInduction
<1>. QED BY <1>1, <1>2, <1>6

\* What a list says of Listed, Length and Contents
Describes(c, n) ==
  /\ Listed = {c[k] : k \in 0 .. n}
  /\ Length = n
  /\ Contents = [k \in 1 .. n |-> data[c[k]]]

ListedIs == TypeOK => \A n \in Nat : \A c : IsList(c, n) => Describes(c, n)

LEMMA ListIs == ListedIs
<1> SUFFICES ASSUME TypeOK, NEW n \in Nat, NEW c, IsList(c, n)
             PROVE  /\ Listed = {c[k] : k \in 0 .. n}
                    /\ Length = n
                    /\ Contents = [k \in 1 .. n |-> data[c[k]]]
  BY DEF ListedIs, Describes
<1>1. Cardinality(Nodes) \in Nat /\ n < Cardinality(Nodes)
  BY MemoryAssumption, FS_CardinalityType, ChainIsList
<1>2. \A k \in 0 .. Cardinality(Nodes) : Chain[k] = IF k <= n THEN c[k] ELSE None
  BY ChainIsList
<1>3. \A k \in 0 .. n : Chain[k] = c[k] /\ c[k] # None
  BY <1>1, <1>2, NoneAssumption DEF IsList
<1>4. Length = n
  <2>1. {k \in 1 .. Cardinality(Nodes) : Chain[k] # None} = 1 .. n
    BY <1>1, <1>2, <1>3
  <2>2. Cardinality(1 .. n) = n
    BY FS_Interval
  <2>. QED BY <2>1, <2>2 DEF Length
<1>5. Listed = {c[k] : k \in 0 .. n}
  BY <1>3, <1>4 DEF Listed
<1>6. \A k \in 1 .. n : data[Chain[k]] = data[c[k]]
  BY <1>3
<1>. QED BY <1>4, <1>5, <1>6 DEF Contents

LEMMA ListIsNext == TypeOK' => \A n \in Nat : \A c : IsList(c, n)' => Describes(c, n)'
<1>1. ListedIs'
  BY ListIs, PTL
<1>. QED BY <1>1 DEF ListedIs

\* The shape of the list: only its last node has no next one, and the dummy node
\* follows none.
LEMMA Shape ==
  ASSUME TypeOK, ListOK
  PROVE  /\ Listed \in SUBSET Nodes /\ begin \in Listed /\ Length \in Nat
         /\ \A m \in Listed : next[m] = None \/ next[m] \in Listed \ {begin}
         /\ \A l, m \in Listed : next[l] = None /\ next[m] = None => l = m
         /\ next[begin] = None <=> Length = 0
         /\ Contents \in Seq(Values) /\ Len(Contents) = Length
<1>1. PICK n \in Nat : \E c \in [0 .. n -> Nodes] : IsList(c, n)
  BY DEF ListOK, HasList
<1>2. PICK c \in [0 .. n -> Nodes] : IsList(c, n)
  BY <1>1
<1>3. /\ Listed = {c[k] : k \in 0 .. n} /\ Length = n
      /\ Contents = [k \in 1 .. n |-> data[c[k]]]
  BY <1>2, ListIs DEF ListedIs, Describes
<1>4. 0 \in 0 .. n /\ c[0] = begin /\ Listed \in SUBSET Nodes /\ begin \in Listed
  BY <1>2, <1>3 DEF IsList
<1>5. \A k \in 0 .. n : IF k = n THEN next[c[k]] = None ELSE next[c[k]] \in Listed \ {begin}
  <2>. SUFFICES ASSUME NEW k \in 0 .. n, k # n PROVE next[c[k]] \in Listed \ {begin}
    BY <1>2 DEF IsList
  <2>1. k \in 0 .. n - 1 /\ k + 1 \in 0 .. n /\ k + 1 # 0
    OBVIOUS
  <2>2. next[c[k]] = c[k + 1] /\ c[k + 1] # c[0]
    BY <1>2, <1>4, <2>1 DEF IsList
  <2>. QED BY <1>3, <1>4, <2>1, <2>2
<1>6. \A m \in Listed : next[m] = None \/ next[m] \in Listed \ {begin}
  BY <1>3, <1>5
<1>7. \A l, m \in Listed : next[l] = None /\ next[m] = None => l = m
  BY <1>3, <1>4, <1>5, NoneAssumption
<1>8. next[begin] = None <=> Length = 0
  BY <1>3, <1>4, <1>5, NoneAssumption
<1>9. \A k \in 1 .. n : data[c[k]] \in Values
  <2>. SUFFICES ASSUME NEW k \in 1 .. n PROVE data[c[k]] \in Values
    OBVIOUS
  <2>1. k \in 0 .. n /\ k # 0
    OBVIOUS
  <2>2. c[k] \in Listed /\ c[k] # begin
    BY <1>2, <1>3, <1>4, <2>1 DEF IsList
  <2>. QED BY <2>2 DEF ListOK
<1>. QED BY <1>3, <1>4, <1>6, <1>7, <1>8, <1>9

\* A step that leaves _begin and every _next of the list alone
LEMMA ListSame ==
  ASSUME TypeOK, TypeOK', HasList, UNCHANGED begin, \A m \in Listed : next'[m] = next[m]
  PROVE  /\ HasList' /\ Listed' = Listed /\ Length' = Length
         /\ (\A m \in Listed \ {begin} : data'[m] = data[m]) => Contents' = Contents
<1>1. PICK n \in Nat : \E c \in [0 .. n -> Nodes] : IsList(c, n)
  BY DEF HasList
<1>2. PICK c \in [0 .. n -> Nodes] : IsList(c, n)
  BY <1>1
<1>3. /\ Listed = {c[k] : k \in 0 .. n} /\ Length = n
      /\ Contents = [k \in 1 .. n |-> data[c[k]]]
  BY <1>2, ListIs DEF ListedIs, Describes
<1>4. IsList(c, n)'
  BY <1>2, <1>3 DEF IsList
<1>5. /\ Listed' = {c[k] : k \in 0 .. n} /\ Length' = n
      /\ Contents' = [k \in 1 .. n |-> data'[c[k]]]
  <2>1. Describes(c, n)'
    BY <1>4, ListIsNext
  <2>. QED BY <2>1 DEF Describes
<1>6. \A k \in 1 .. n : c[k] \in Listed \ {begin}
  BY <1>2, <1>3 DEF IsList
<1>. QED BY <1>3, <1>4, <1>5, <1>6 DEF HasList

\* A step that stores node m in the _next of the last node l
LEMMA ListLonger ==
  ASSUME TypeOK, TypeOK', HasList, UNCHANGED <<begin, data>>,
         NEW l \in Listed, next[l] = None, NEW m \in Nodes \ Listed, next[m] = None,
         next' = [next EXCEPT ![l] = m]
  PROVE  /\ HasList' /\ Listed' = Listed \cup {m} /\ Length' = Length + 1
         /\ Contents' = Append(Contents, data[m])
<1>1. PICK n \in Nat : \E c \in [0 .. n -> Nodes] : IsList(c, n)
  BY DEF HasList
<1>2. PICK c \in [0 .. n -> Nodes] : IsList(c, n)
  BY <1>1
<1>3. /\ Listed = {c[k] : k \in 0 .. n} /\ Length = n
      /\ Contents = [k \in 1 .. n |-> data[c[k]]]
  BY <1>2, ListIs DEF ListedIs, Describes
<1>4. l = c[n]
  <2>1. PICK k \in 0 .. n : l = c[k]
    BY <1>3
  <2>2. CASE k # n
    <3>1. k \in 0 .. n - 1 /\ k + 1 \in 0 .. n
      BY <2>2
    <3>2. next[l] = c[k + 1] /\ c[k + 1] \in Nodes
      BY <1>2, <2>1, <3>1 DEF IsList
    <3>. QED BY <3>2, NoneAssumption
  <2>. QED BY <2>1, <2>2
<1>. DEFINE d == [k \in 0 .. n + 1 |-> IF k = n + 1 THEN m ELSE c[k]]
<1>5. /\ \A k \in 0 .. n : d[k] = c[k]
      /\ d[n + 1] = m /\ d \in [0 .. n + 1 -> Nodes] /\ n + 1 \in Nat
  OBVIOUS
<1>. HIDE DEF d
<1>6. IsList(d, n + 1)'
  <2>1. d[0] = begin'
    BY <1>2, <1>5 DEF IsList
  <2>2. next'[d[n + 1]] = None
    BY <1>3, <1>5 DEF TypeOK
  <2>3. \A k \in 0 .. n : next'[d[k]] = d[k + 1]
    <3>. SUFFICES ASSUME NEW k \in 0 .. n PROVE next'[d[k]] = d[k + 1]
      OBVIOUS
    <3>1. CASE k = n
      BY <1>2, <1>4, <1>5, <3>1 DEF TypeOK
    <3>2. CASE k # n
      <4>1. k \in 0 .. n - 1 /\ k + 1 \in 0 .. n /\ n \in 0 .. n
        BY <3>2
      <4>2. c[k] # c[n] /\ next[c[k]] = c[k + 1] /\ c[k] \in Nodes
        BY <1>2, <3>2, <4>1 DEF IsList
      <4>. QED BY <1>4, <1>5, <4>1, <4>2 DEF TypeOK
    <3>. QED BY <3>1, <3>2
  <2>4. \A j, k \in 0 .. n + 1 : d[j] = d[k] => j = k
    <3>. SUFFICES ASSUME NEW j \in 0 .. n + 1, NEW k \in 0 .. n + 1, d[j] = d[k] PROVE j = k
      OBVIOUS
    <3>1. \A i \in 0 .. n : d[i] \in Listed
      BY <1>3, <1>5
    <3>2. j \in 0 .. n \/ j = n + 1
      OBVIOUS
    <3>3. k \in 0 .. n \/ k = n + 1
      OBVIOUS
    <3>. QED BY <1>2, <1>5, <3>1, <3>2, <3>3 DEF IsList
  <2>5. (n + 1) - 1 = n
    OBVIOUS
  <2>. QED BY <1>5, <2>1, <2>2, <2>3, <2>4, <2>5 DEF IsList
<1>7. /\ Listed' = {d[k] : k \in 0 .. n + 1} /\ Length' = n + 1
      /\ Contents' = [k \in 1 .. n + 1 |-> data'[d[k]]]
  <2>1. Describes(d, n + 1)'
    BY <1>5, <1>6, ListIsNext
  <2>. QED BY <2>1 DEF Describes
<1>8. {d[k] : k \in 0 .. n + 1} = {c[k] : k \in 0 .. n} \cup {m}
  <2>1. n + 1 \in 0 .. n + 1 /\ \A k \in 0 .. n : k \in 0 .. n + 1
    OBVIOUS
  <2>2. \A k \in 0 .. n + 1 : k \in 0 .. n \/ k = n + 1
    OBVIOUS
  <2>. QED BY <1>5, <2>1, <2>2
<1>9. Contents' = Append(Contents, data[m])
  <2>. DEFINE V == Values \cup {None}
  <2>1. Len(Contents) = n /\ \A k \in 1 .. n : Contents[k] = data[c[k]]
    BY <1>3
  <2>2. \A k \in 1 .. n : data[c[k]] \in V /\ data'[d[k]] = data[c[k]]
    BY <1>5 DEF TypeOK
  <2>3. data[m] \in V /\ data'[d[n + 1]] = data[m]
    BY <1>5 DEF TypeOK
  <2>4. Contents \in Seq(V)
    BY <1>3, <2>2
  <2>5. \A k \in 1 .. n + 1 : data'[d[k]] = IF k <= n THEN data[c[k]] ELSE data[m]
    BY <2>2, <2>3
  <2>6. Contents' \in Seq(V) /\ Len(Contents') = n + 1
    BY <1>7, <2>2, <2>3, <2>5
  <2>7. \A k \in 1 .. n + 1 : Contents'[k] = IF k <= n THEN data[c[k]] ELSE data[m]
    BY <1>7, <2>5
  <2>. HIDE DEF V
  <2>8. /\ Append(Contents, data[m]) \in Seq(V) /\ Len(Append(Contents, data[m])) = n + 1
        /\ \A k \in 1 .. n : Append(Contents, data[m])[k] = data[c[k]]
        /\ Append(Contents, data[m])[n + 1] = data[m]
    BY <2>1, <2>3, <2>4, AppendProperties
  <2>9. \A k \in 1 .. n + 1 : Contents'[k] = Append(Contents, data[m])[k]
    BY <2>7, <2>8
  <2>. QED BY <2>6, <2>8, <2>9, SeqEqual
<1>. QED BY <1>3, <1>5, <1>6, <1>7, <1>8, <1>9 DEF HasList

\* A step that moves _begin to the node after the dummy
LEMMA ListShorter ==
  ASSUME TypeOK, TypeOK', HasList, UNCHANGED <<next, data>>,
         next[begin] # None, begin' = next[begin]
  PROVE  /\ HasList' /\ Listed' = Listed \ {begin} /\ Length' = Length - 1 /\ Length # 0
         /\ begin' \in Listed \ {begin}
         /\ Contents # <<>> /\ Head(Contents) = data[begin'] /\ Contents' = Tail(Contents)
<1>1. PICK n \in Nat : \E c \in [0 .. n -> Nodes] : IsList(c, n)
  BY DEF HasList
<1>2. PICK c \in [0 .. n -> Nodes] : IsList(c, n)
  BY <1>1
<1>3. /\ Listed = {c[k] : k \in 0 .. n} /\ Length = n
      /\ Contents = [k \in 1 .. n |-> data[c[k]]]
  BY <1>2, ListIs DEF ListedIs, Describes
<1>4. n # 0 /\ n - 1 \in Nat
  BY <1>2 DEF IsList
<1>5. begin = c[0] /\ begin' = c[1] /\ 0 \in 0 .. n /\ 1 \in 0 .. n
  BY <1>2, <1>4 DEF IsList
<1>. DEFINE d == [k \in 0 .. n - 1 |-> c[k + 1]]
<1>6. /\ \A k \in 0 .. n - 1 : d[k] = c[k + 1] /\ k + 1 \in 0 .. n
      /\ d \in [0 .. n - 1 -> Nodes]
  OBVIOUS
<1>. HIDE DEF d
<1>7. IsList(d, n - 1)'
  <2>1. d[0] = begin' /\ next'[d[n - 1]] = None
    <3>1. 0 \in 0 .. n - 1 /\ n - 1 \in 0 .. n - 1 /\ (n - 1) + 1 = n
      BY <1>4
    <3>. QED BY <1>2, <1>5, <1>6, <3>1 DEF IsList
  <2>2. \A k \in 0 .. (n - 1) - 1 : next'[d[k]] = d[k + 1]
    <3>. SUFFICES ASSUME NEW k \in 0 .. (n - 1) - 1 PROVE next'[d[k]] = d[k + 1]
      OBVIOUS
    <3>1. k \in 0 .. n - 1 /\ k + 1 \in 0 .. n - 1
      BY <1>4
    <3>. QED BY <1>2, <1>6, <3>1 DEF IsList
  <2>3. \A j, k \in 0 .. n - 1 : d[j] = d[k] => j = k
    <3>. SUFFICES ASSUME NEW j \in 0 .. n - 1, NEW k \in 0 .. n - 1, d[j] = d[k] PROVE j = k
      OBVIOUS
    <3>1. j + 1 = k + 1
      BY <1>2, <1>6 DEF IsList
    <3>. QED BY <3>1
  <2>. QED BY <1>4, <1>6, <2>1, <2>2, <2>3 DEF IsList
<1>8. /\ Listed' = {d[k] : k \in 0 .. n - 1} /\ Length' = n - 1
      /\ Contents' = [k \in 1 .. n - 1 |-> data'[d[k]]]
  <2>1. Describes(d, n - 1)'
    BY <1>4, <1>7, ListIsNext
  <2>. QED BY <2>1 DEF Describes
<1>9. {d[k] : k \in 0 .. n - 1} = {c[k] : k \in 0 .. n} \ {c[0]}
  <2>1. \A k \in 0 .. n - 1 : d[k] \in {c[i] : i \in 0 .. n} \ {c[0]}
    BY <1>2, <1>5, <1>6 DEF IsList
  <2>2. ASSUME NEW k \in 0 .. n, c[k] # c[0] PROVE c[k] \in {d[i] : i \in 0 .. n - 1}
    <3>1. k - 1 \in 0 .. n - 1 /\ (k - 1) + 1 = k
      BY <2>2
    <3>. QED BY <1>6, <3>1
  <2>. QED BY <2>1, <2>2
<1>10. c[1] \in Listed /\ c[1] # c[0]
  BY <1>2, <1>3, <1>5 DEF IsList
<1>11. Contents # <<>> /\ Head(Contents) = data[begin'] /\ Contents' = Tail(Contents)
  <2>. DEFINE V == Values \cup {None}
  <2>1. Len(Contents) = n /\ \A k \in 1 .. n : Contents[k] = data[c[k]] /\ data[c[k]] \in V
    BY <1>3 DEF TypeOK
  <2>2. Contents \in Seq(V) /\ Contents # <<>> /\ Contents[1] = data[begin']
    BY <1>3, <1>4, <1>5, <2>1
  <2>3. \A k \in 1 .. n - 1 : data'[d[k]] = Contents[k + 1] /\ Contents[k + 1] \in V
    <3>. SUFFICES ASSUME NEW k \in 1 .. n - 1
                  PROVE  data'[d[k]] = Contents[k + 1] /\ Contents[k + 1] \in V
      OBVIOUS
    <3>1. k \in 0 .. n - 1 /\ k + 1 \in 1 .. n
      BY <1>4
    <3>. QED BY <1>6, <2>1, <3>1
  <2>4. Contents' \in Seq(V) /\ Len(Contents') = n - 1
    BY <1>4, <1>8, <2>3
  <2>. HIDE DEF V
  <2>5. /\ Tail(Contents) \in Seq(V) /\ Len(Tail(Contents)) = n - 1
        /\ \A k \in 1 .. n - 1 : Tail(Contents)[k] = Contents[k + 1]
    BY <2>1, <2>2, HeadTailProperties
  <2>6. \A k \in 1 .. n - 1 : Contents'[k] = Tail(Contents)[k]
    BY <1>8, <2>3, <2>5
  <2>7. Contents' = Tail(Contents)
    BY <2>4, <2>5, <2>6, SeqEqual
  <2>. QED BY <2>2, <2>7
<1>. QED BY <1>3, <1>4, <1>5, <1>6, <1>7, <1>8, <1>9, <1>10, <1>11 DEF HasList

\* The list of one node
OneNode ==
  TypeOK /\ next[begin] = None =>
    HasList /\ Listed = {begin} /\ Length = 0 /\ Contents = <<>>

LEMMA ListOfOne == OneNode
<1> SUFFICES ASSUME TypeOK, next[begin] = None
             PROVE  HasList /\ Listed = {begin} /\ Length = 0 /\ Contents = <<>>
  BY DEF OneNode
<1> DEFINE c == [k \in 0 .. 0 |-> begin]
<1>1. c \in [0 .. 0 -> Nodes] /\ IsList(c, 0) /\ 0 \in Nat
  BY DEF IsList, TypeOK
<1>2. /\ Listed = {c[k] : k \in 0 .. 0} /\ Length = 0
      /\ Contents = [k \in 1 .. 0 |-> data[c[k]]]
  <2>. HIDE DEF c
  <2>. QED BY <1>1, ListIs DEF ListedIs, Describes
<1>. QED BY <1>1, <1>2 DEF HasList

LEMMA ListOfOneNext == OneNode'
BY ListOfOne, PTL

-----------------------------------------------------------------------------
(* The steps of the queue                                                  *)

LEMMA TypeStep == IInv /\ [Next]_vars => TypeOK' /\ PcOK'
<1> SUFFICES ASSUME IInv, [Next]_vars PROVE TypeOK' /\ PcOK'
  OBVIOUS
<1> USE BoundsAssumption, NoneAssumption
    DEF IInv, TypeOK, PcOK, list, Goto, PushSteps, PopSteps
<1>1. ASSUME NEW t \in Threads, CallPush(t) PROVE TypeOK' /\ PcOK'
  BY <1>1 DEF Values, CallPush
<1>2. ASSUME NEW t \in Threads, PushRead(t) PROVE TypeOK' /\ PcOK'
  BY <1>2 DEF PushRead, Read
<1>3. ASSUME NEW t \in Threads, PushPublish(t) PROVE TypeOK' /\ PcOK'
  BY <1>3 DEF PushPublish
<1>4. ASSUME NEW t \in Threads, PushCheck(t) PROVE TypeOK' /\ PcOK'
  BY <1>4 DEF PushCheck
<1>5. ASSUME NEW t \in Threads, PushNext(t) PROVE TypeOK' /\ PcOK'
  BY <1>5 DEF Validated, HasEnd, HasBegin, HasNext, PushNext
<1>6. ASSUME NEW t \in Threads, PushAgain(t) PROVE TypeOK' /\ PcOK'
  BY <1>6 DEF PushAgain
<1>7. ASSUME NEW t \in Threads, PushHelp(t) PROVE TypeOK' /\ PcOK'
  BY <1>7 DEF Validated, HasEnd, HasBegin, HasNext, PushHelp, SwingEnd
<1>8. ASSUME NEW t \in Threads, PushLink(t) PROVE TypeOK' /\ PcOK'
  BY <1>8 DEF PushLink
<1>9. ASSUME NEW t \in Threads, PushSwing(t) PROVE TypeOK' /\ PcOK'
  BY <1>9 DEF Validated, HasEnd, HasBegin, HasNext, PushSwing, SwingEnd
<1>10. ASSUME NEW t \in Threads, PushSize(t) PROVE TypeOK' /\ PcOK'
  BY <1>10 DEF PushSize, DropPointers
<1>11. ASSUME NEW t \in Threads, CallPop(t) PROVE TypeOK' /\ PcOK'
  BY <1>11 DEF CallPop
<1>12. ASSUME NEW t \in Threads, PopRead(t) PROVE TypeOK' /\ PcOK'
  BY <1>12 DEF PopRead, Read
<1>13. ASSUME NEW t \in Threads, PopPublish(t) PROVE TypeOK' /\ PcOK'
  BY <1>13 DEF PopPublish
<1>14. ASSUME NEW t \in Threads, PopCheck(t) PROVE TypeOK' /\ PcOK'
  BY <1>14 DEF PopCheck
<1>15. ASSUME NEW t \in Threads, PopEnd(t) PROVE TypeOK' /\ PcOK'
  BY <1>15 DEF PopEnd
<1>16. ASSUME NEW t \in Threads, PopNext(t) PROVE TypeOK' /\ PcOK'
  BY <1>16 DEF Validated, HasEnd, HasBegin, HasNext, PopNext, Read, DropPointers
<1>17. ASSUME NEW t \in Threads, PopPublishNext(t) PROVE TypeOK' /\ PcOK'
  BY <1>17 DEF PopPublishNext
<1>18. ASSUME NEW t \in Threads, PopAgain(t) PROVE TypeOK' /\ PcOK'
  BY <1>18 DEF PopAgain
<1>19. ASSUME NEW t \in Threads, PopHelp(t) PROVE TypeOK' /\ PcOK'
  BY <1>19 DEF Validated, HasEnd, HasBegin, HasNext, PopHelp, SwingEnd
<1>20. ASSUME NEW t \in Threads, PopSwing(t) PROVE TypeOK' /\ PcOK'
  BY <1>20 DEF Validated, HasEnd, HasBegin, HasNext, PopSwing, Read
<1>21. ASSUME NEW t \in Threads, PopData(t) PROVE TypeOK' /\ PcOK'
  BY <1>21 DEF Taken, Taking, PopData
<1>22. ASSUME NEW t \in Threads, PopRetire(t) PROVE TypeOK' /\ PcOK'
  BY <1>22 DEF Taken, Taking, PopRetire
<1>23. ASSUME NEW t \in Threads, PopSize(t) PROVE TypeOK' /\ PcOK'
  BY <1>23 DEF PopSize, DropPointers
<1>24. ASSUME NEW n \in Nodes, Free(n) PROVE TypeOK' /\ PcOK'
  BY <1>24 DEF Free
<1>25. CASE Clear
  BY <1>25 DEF Clear
<1>26. CASE UNCHANGED vars
  BY <1>26 DEF vars
<1>. QED
  BY <1>1, <1>2, <1>3, <1>4, <1>5, <1>6, <1>7, <1>8, <1>9, <1>10, <1>11, <1>12, <1>13, <1>14, <1>15, <1>16, <1>17, <1>18, <1>19, <1>20, <1>21, <1>22, <1>23, <1>24, <1>25, <1>26 DEF Next, Push, Pop

LEMMA QuietStep ==
  ASSUME IInv, TypeOK', NEW t \in Threads,
         PushRead(t) \/ PushPublish(t) \/ PushCheck(t) \/ PushNext(t) \/ PushAgain(t) \/ PushSize(t) \/ CallPop(t) \/ PopRead(t) \/ PopPublish(t) \/ PopCheck(t) \/ PopEnd(t) \/ PopNext(t) \/ PopPublishNext(t) \/ PopAgain(t) \/ PopData(t) \/ PopSize(t)
  PROVE  ListOK' /\ Made' /\ Validated' /\ Taken'
<1> USE NoneAssumption DEF list, Goto
<1>1. UNCHANGED <<begin, end, next, data, mem>>
  BY DEF PushRead, Read, PushPublish, PushCheck, PushNext, PushAgain, PushSize, DropPointers, CallPop, PopRead, Read, PopPublish, PopCheck, PopEnd, PopNext, Read, DropPointers, PopPublishNext, PopAgain, PopData, PopSize, DropPointers
<1>2. HasList' /\ Listed' = Listed
  BY <1>1, ListSame DEF IInv, ListOK
<1>3. ListOK'
  BY <1>1, <1>2 DEF IInv, ListOK
<1>4. begin \in Listed /\ Listed \in SUBSET Nodes /\ end \in Listed
      /\ (\A m \in Listed : mem[m] = "used")
  BY Shape DEF IInv, ListOK
<1> USE DEF PushSteps, PopSteps, HasEnd, HasBegin, HasNext, Making, Taking, TypeOK, PcOK
<1>5. CASE PushRead(t)
  <2>1. Made'
    BY <1>1, <1>2, <1>4, <1>5 DEF IInv, Made, PushRead, Read
  <2>2. Validated'
    BY <1>1, <1>2, <1>4, <1>5 DEF IInv, Validated, PushRead, Read
  <2>3. Taken'
    BY <1>1, <1>2, <1>4, <1>5 DEF IInv, Taken, PushRead, Read
  <2>. QED BY <1>3, <2>1, <2>2, <2>3
<1>6. CASE PushPublish(t)
  <2>1. Made'
    BY <1>1, <1>2, <1>4, <1>6 DEF IInv, Made, PushPublish
  <2>2. Validated'
    BY <1>1, <1>2, <1>4, <1>6 DEF IInv, Validated, PushPublish
  <2>3. Taken'
    BY <1>1, <1>2, <1>4, <1>6 DEF IInv, Taken, PushPublish
  <2>. QED BY <1>3, <2>1, <2>2, <2>3
<1>7. CASE PushCheck(t)
  <2>1. Made'
    BY <1>1, <1>2, <1>4, <1>7 DEF IInv, Made, PushCheck
  <2>2. Validated'
    BY <1>1, <1>2, <1>4, <1>7 DEF IInv, Validated, PushCheck
  <2>3. Taken'
    BY <1>1, <1>2, <1>4, <1>7 DEF IInv, Taken, PushCheck
  <2>. QED BY <1>3, <2>1, <2>2, <2>3
<1>8. CASE PushNext(t)
  <2>1. Made'
    BY <1>1, <1>2, <1>4, <1>8 DEF IInv, Made, PushNext
  <2>2. Validated'
    BY <1>1, <1>2, <1>4, <1>8 DEF IInv, Validated, PushNext
  <2>3. Taken'
    BY <1>1, <1>2, <1>4, <1>8 DEF IInv, Taken, PushNext
  <2>. QED BY <1>3, <2>1, <2>2, <2>3
<1>9. CASE PushAgain(t)
  <2>1. Made'
    BY <1>1, <1>2, <1>4, <1>9 DEF IInv, Made, PushAgain
  <2>2. Validated'
    BY <1>1, <1>2, <1>4, <1>9 DEF IInv, Validated, PushAgain
  <2>3. Taken'
    BY <1>1, <1>2, <1>4, <1>9 DEF IInv, Taken, PushAgain
  <2>. QED BY <1>3, <2>1, <2>2, <2>3
<1>10. CASE PushSize(t)
  <2>1. Made'
    BY <1>1, <1>2, <1>4, <1>10 DEF IInv, Made, PushSize, DropPointers
  <2>2. Validated'
    BY <1>1, <1>2, <1>4, <1>10 DEF IInv, Validated, PushSize, DropPointers
  <2>3. Taken'
    BY <1>1, <1>2, <1>4, <1>10 DEF IInv, Taken, PushSize, DropPointers
  <2>. QED BY <1>3, <2>1, <2>2, <2>3
<1>11. CASE CallPop(t)
  <2>1. Made'
    BY <1>1, <1>2, <1>4, <1>11 DEF IInv, Made, CallPop
  <2>2. Validated'
    BY <1>1, <1>2, <1>4, <1>11 DEF IInv, Validated, CallPop
  <2>3. Taken'
    BY <1>1, <1>2, <1>4, <1>11 DEF IInv, Taken, CallPop
  <2>. QED BY <1>3, <2>1, <2>2, <2>3
<1>12. CASE PopRead(t)
  <2>1. Made'
    BY <1>1, <1>2, <1>4, <1>12 DEF IInv, Made, PopRead, Read
  <2>2. Validated'
    BY <1>1, <1>2, <1>4, <1>12 DEF IInv, Validated, PopRead, Read
  <2>3. Taken'
    BY <1>1, <1>2, <1>4, <1>12 DEF IInv, Taken, PopRead, Read
  <2>. QED BY <1>3, <2>1, <2>2, <2>3
<1>13. CASE PopPublish(t)
  <2>1. Made'
    BY <1>1, <1>2, <1>4, <1>13 DEF IInv, Made, PopPublish
  <2>2. Validated'
    BY <1>1, <1>2, <1>4, <1>13 DEF IInv, Validated, PopPublish
  <2>3. Taken'
    BY <1>1, <1>2, <1>4, <1>13 DEF IInv, Taken, PopPublish
  <2>. QED BY <1>3, <2>1, <2>2, <2>3
<1>14. CASE PopCheck(t)
  <2>1. Made'
    BY <1>1, <1>2, <1>4, <1>14 DEF IInv, Made, PopCheck
  <2>2. Validated'
    BY <1>1, <1>2, <1>4, <1>14 DEF IInv, Validated, PopCheck
  <2>3. Taken'
    BY <1>1, <1>2, <1>4, <1>14 DEF IInv, Taken, PopCheck
  <2>. QED BY <1>3, <2>1, <2>2, <2>3
<1>15. CASE PopEnd(t)
  <2>1. Made'
    BY <1>1, <1>2, <1>4, <1>15 DEF IInv, Made, PopEnd
  <2>2. Validated'
    BY <1>1, <1>2, <1>4, <1>15 DEF IInv, Validated, PopEnd
  <2>3. Taken'
    BY <1>1, <1>2, <1>4, <1>15 DEF IInv, Taken, PopEnd
  <2>. QED BY <1>3, <2>1, <2>2, <2>3
<1>16. CASE PopNext(t)
  <2>1. Made'
    BY <1>1, <1>2, <1>4, <1>16 DEF IInv, Made, PopNext, Read, DropPointers
  <2>2. Validated'
    BY <1>1, <1>2, <1>4, <1>16 DEF IInv, Validated, PopNext, Read, DropPointers
  <2>3. Taken'
    BY <1>1, <1>2, <1>4, <1>16 DEF IInv, Taken, PopNext, Read, DropPointers
  <2>. QED BY <1>3, <2>1, <2>2, <2>3
<1>17. CASE PopPublishNext(t)
  <2>1. Made'
    BY <1>1, <1>2, <1>4, <1>17 DEF IInv, Made, PopPublishNext
  <2>2. Validated'
    BY <1>1, <1>2, <1>4, <1>17 DEF IInv, Validated, PopPublishNext
  <2>3. Taken'
    BY <1>1, <1>2, <1>4, <1>17 DEF IInv, Taken, PopPublishNext
  <2>. QED BY <1>3, <2>1, <2>2, <2>3
<1>18. CASE PopAgain(t)
  <2>1. Made'
    BY <1>1, <1>2, <1>4, <1>18 DEF IInv, Made, PopAgain
  <2>2. Validated'
    BY <1>1, <1>2, <1>4, <1>18 DEF IInv, Validated, PopAgain
  <2>3. Taken'
    BY <1>1, <1>2, <1>4, <1>18 DEF IInv, Taken, PopAgain
  <2>. QED BY <1>3, <2>1, <2>2, <2>3
<1>19. CASE PopData(t)
  <2>1. Made'
    BY <1>1, <1>2, <1>4, <1>19 DEF IInv, Made, PopData
  <2>2. Validated'
    BY <1>1, <1>2, <1>4, <1>19 DEF IInv, Validated, PopData
  <2>3. Taken'
    BY <1>1, <1>2, <1>4, <1>19 DEF IInv, Taken, PopData
  <2>. QED BY <1>3, <2>1, <2>2, <2>3
<1>20. CASE PopSize(t)
  <2>1. Made'
    BY <1>1, <1>2, <1>4, <1>20 DEF IInv, Made, PopSize, DropPointers
  <2>2. Validated'
    BY <1>1, <1>2, <1>4, <1>20 DEF IInv, Validated, PopSize, DropPointers
  <2>3. Taken'
    BY <1>1, <1>2, <1>4, <1>20 DEF IInv, Taken, PopSize, DropPointers
  <2>. QED BY <1>3, <2>1, <2>2, <2>3
<1>. QED BY <1>5, <1>6, <1>7, <1>8, <1>9, <1>10, <1>11, <1>12, <1>13, <1>14, <1>15, <1>16, <1>17, <1>18, <1>19, <1>20

\* _end moves on, from a node of the list to the next one.
LEMMA SwingStep ==
  ASSUME IInv, TypeOK', NEW t \in Threads, PushHelp(t) \/ PushSwing(t) \/ PopHelp(t)
  PROVE  ListOK' /\ Made' /\ Validated' /\ Taken'
<1> USE NoneAssumption
    DEF list, Goto, PushSteps, PopSteps, HasEnd, HasBegin, HasNext, Making, Taking, TypeOK, PcOK
<1>1. /\ begin \in Listed /\ Listed \in SUBSET Nodes /\ end \in Listed
      /\ \A m \in Listed : mem[m] = "used"
      /\ \A m \in Listed : next[m] = None \/ next[m] \in Listed \ {begin}
  BY Shape DEF IInv, ListOK
<1>2. /\ UNCHANGED <<begin, next, data, mem, hb, hn, rd, loc, popped>>
      /\ end' = end \/ end' \in Listed \ {begin}
      /\ \A u \in Threads \ {t} : pc'[u] = pc[u]
      /\ pc'[t] \in {"push_read", "push_size", "pop_read"}
  BY <1>1 DEF IInv, Validated, PushHelp, PushSwing, PopHelp, SwingEnd
<1>3. HasList' /\ Listed' = Listed
  BY <1>2, ListSame DEF IInv, ListOK
<1>4. ListOK'
  BY <1>1, <1>2, <1>3 DEF IInv, ListOK
<1>8. pc'[t] = "push_read" => Making(t)
  BY DEF IInv, PushHelp, PushSwing, PopHelp
<1>5. Made'
  BY <1>1, <1>2, <1>3, <1>8 DEF IInv, Made
<1>6. Validated'
  BY <1>1, <1>2, <1>3, <1>8 DEF IInv, Validated
<1>7. Taken'
  BY <1>1, <1>2, <1>3, <1>8 DEF IInv, Taken
<1>. QED BY <1>4, <1>5, <1>6, <1>7

\* A node that was free is made ready; no thread has a use for it.
LEMMA CallPushStep ==
  ASSUME IInv, TypeOK', NEW t \in Threads, CallPush(t)
  PROVE  ListOK' /\ Made' /\ Validated' /\ Taken'
<1> USE NoneAssumption
    DEF list, Goto, PushSteps, PopSteps, HasEnd, HasBegin, HasNext, Making, Taking, TypeOK, PcOK
<1>1. /\ begin \in Listed /\ Listed \in SUBSET Nodes /\ end \in Listed
      /\ \A m \in Listed : mem[m] = "used"
      /\ \A m \in Listed : next[m] = None \/ next[m] \in Listed \ {begin}
  BY Shape DEF IInv, ListOK
<1>2. PICK n \in Nodes :
        /\ mem[n] = "free" /\ mem' = [mem EXCEPT ![n] = "used"]
        /\ data' = [data EXCEPT ![n] = sent + 1] /\ next' = [next EXCEPT ![n] = None]
        /\ loc' = [loc EXCEPT ![t] = n]
  BY DEF CallPush
<1>3. /\ UNCHANGED <<begin, end, hb, hn, rd, popped>>
      /\ pc[t] = "idle" /\ pc' = [pc EXCEPT ![t] = "push_read"] /\ sent + 1 \in Values
  BY BoundsAssumption DEF CallPush, Values
<1>4. n \notin Listed
  BY <1>1, <1>2
<1>8. HasList' /\ Listed' = Listed
  BY <1>2, <1>3, <1>4, ListSame DEF IInv, ListOK
<1>9. ListOK'
  BY <1>1, <1>2, <1>3, <1>4, <1>8 DEF IInv, ListOK
<1>5. Made'
  BY <1>1, <1>2, <1>3, <1>4, <1>8 DEF IInv, Made
<1>6. Validated'
  BY <1>1, <1>2, <1>3, <1>4, <1>8 DEF IInv, Validated
<1>7. Taken'
  BY <1>1, <1>2, <1>3, <1>4, <1>8 DEF IInv, Taken
<1>. QED BY <1>5, <1>6, <1>7, <1>9

\* The compare-and-swap of _next: only the last node's _next is null.
LEMMA PushLinkStep ==
  ASSUME IInv, TypeOK', NEW t \in Threads, PushLink(t)
  PROVE  ListOK' /\ Made' /\ Validated' /\ Taken'
<1> USE NoneAssumption
    DEF list, Goto, PushSteps, PopSteps, HasEnd, HasBegin, HasNext, Making, Taking, TypeOK, PcOK
<1>1. /\ begin \in Listed /\ Listed \in SUBSET Nodes /\ end \in Listed
      /\ \A m \in Listed : mem[m] = "used"
      /\ \A m \in Listed : next[m] = None \/ next[m] \in Listed \ {begin}
  BY Shape DEF IInv, ListOK
<1>2. UNCHANGED <<begin, end, data, mem, hb, hn, rd, loc, popped>> /\ pc[t] = "push_link"
  BY DEF PushLink
<1>3. CASE next[hb[t]] # None
  <2>1. UNCHANGED next /\ pc' = [pc EXCEPT ![t] = "push_read"]
    BY <1>3 DEF PushLink
  <2>2. HasList' /\ Listed' = Listed
    BY <1>2, <2>1, ListSame DEF IInv, ListOK
  <2>3. ListOK'
    BY <1>1, <1>2, <2>1, <2>2 DEF IInv, ListOK
  <2>4. Made'
    BY <1>1, <1>2, <2>1, <2>2 DEF IInv, Made
  <2>5. Validated'
    BY <1>1, <1>2, <2>1, <2>2 DEF IInv, Validated
  <2>6. Taken'
    BY <1>1, <1>2, <2>1, <2>2 DEF IInv, Taken
  <2>. QED BY <2>3, <2>4, <2>5, <2>6
<1>4. CASE next[hb[t]] = None
  <2>1. next' = [next EXCEPT ![hb[t]] = loc[t]] /\ pc' = [pc EXCEPT ![t] = "push_swing"]
    BY <1>4 DEF PushLink
  <2>2. hb[t] \in Listed /\ loc[t] \in Nodes \ Listed /\ next[loc[t]] = None
    BY <1>2, <1>4 DEF IInv, Validated, Made
  <2>3. HasList' /\ Listed' = Listed \cup {loc[t]}
    BY <1>2, <1>4, <2>1, <2>2, ListLonger DEF IInv, ListOK
  <2>4. data[loc[t]] \in Values /\ mem[loc[t]] = "used" /\ loc[t] # begin
    BY <1>1, <1>2, <2>2 DEF IInv, Made
  <2>5. \A u \in Threads \ {t} : Making(u) => loc[u] # loc[t]
    BY <1>2 DEF IInv, Made
  <2>6. \A m \in Nodes : next[m] # None => next'[m] = next[m]
    BY <1>4, <2>1, <2>2
  <2>7. ListOK'
    BY <1>1, <1>2, <2>3, <2>4 DEF IInv, ListOK
  <2>8. Made'
    BY <1>1, <1>2, <2>1, <2>2, <2>3, <2>5 DEF IInv, Made
  <2>9. Validated'
    BY <1>1, <1>2, <2>1, <2>2, <2>3, <2>6 DEF IInv, Validated
  <2>10. Taken'
    BY <1>1, <1>2, <2>1, <2>2, <2>3, <2>6 DEF IInv, Taken
  <2>. QED BY <2>7, <2>8, <2>9, <2>10
<1>. QED BY <1>3, <1>4

\* The compare-and-swap of _begin: _end is not the dummy node that goes.
LEMMA PopSwingStep ==
  ASSUME IInv, TypeOK', NEW t \in Threads, PopSwing(t)
  PROVE  ListOK' /\ Made' /\ Validated' /\ Taken'
<1> USE NoneAssumption
    DEF list, Goto, PushSteps, PopSteps, HasEnd, HasBegin, HasNext, Making, Taking, TypeOK, PcOK
<1>1. /\ begin \in Listed /\ Listed \in SUBSET Nodes /\ end \in Listed
      /\ \A m \in Listed : mem[m] = "used"
      /\ \A m \in Listed : next[m] = None \/ next[m] \in Listed \ {begin}
  BY Shape DEF IInv, ListOK
<1>2. UNCHANGED <<end, next, data, mem, hb, hn, loc>> /\ pc[t] = "pop_swing"
  BY DEF PopSwing
<1>3. CASE begin # hb[t]
  <2>1. /\ UNCHANGED <<begin, popped>> /\ pc' = [pc EXCEPT ![t] = "pop_publish"]
        /\ rd' = [rd EXCEPT ![t] = begin]
    BY <1>3 DEF PopSwing, Read
  <2>2. HasList' /\ Listed' = Listed
    BY <1>2, <2>1, ListSame DEF IInv, ListOK
  <2>3. ListOK'
    BY <1>1, <1>2, <2>1, <2>2 DEF IInv, ListOK
  <2>4. Made'
    BY <1>1, <1>2, <2>1, <2>2 DEF IInv, Made
  <2>5. Validated'
    BY <1>1, <1>2, <2>1, <2>2 DEF IInv, Validated
  <2>6. Taken'
    BY <1>1, <1>2, <2>1, <2>2 DEF IInv, Taken
  <2>. QED BY <2>3, <2>4, <2>5, <2>6
<1>4. CASE begin = hb[t]
  <2>1. /\ begin' = hn[t] /\ popped' = [popped EXCEPT ![t] = data[hn[t]]]
        /\ pc' = [pc EXCEPT ![t] = "pop_data"] /\ UNCHANGED rd
    BY <1>4 DEF PopSwing
  <2>2. hn[t] = next[begin] /\ hn[t] \in Nodes /\ end # begin
    BY <1>2, <1>4 DEF IInv, Validated
  <2>3. HasList' /\ Listed' = Listed \ {begin} /\ begin' \in Listed \ {begin}
    BY <1>2, <2>1, <2>2, ListShorter DEF IInv, ListOK
  <2>4. ListOK'
    BY <1>1, <1>2, <2>2, <2>3 DEF IInv, ListOK
  <2>5. Made'
    BY <1>1, <1>2, <2>1, <2>3 DEF IInv, Made
  <2>6. Validated'
    BY <1>1, <1>2, <2>1, <2>2, <2>3 DEF IInv, Validated
  <2>7. Taken'
    BY <1>1, <1>2, <1>4, <2>1, <2>2, <2>3 DEF IInv, Taken
  <2>. QED BY <2>4, <2>5, <2>6, <2>7
<1>. QED BY <1>3, <1>4

\* retire, and the scan that frees what no record shows
LEMMA MemoryStep ==
  ASSUME IInv, TypeOK',
         (\E t \in Threads : PopRetire(t)) \/ (\E n \in Nodes : Free(n))
  PROVE  ListOK' /\ Made' /\ Validated' /\ Taken'
<1> USE NoneAssumption
    DEF list, Goto, PushSteps, PopSteps, HasEnd, HasBegin, HasNext, Making, Taking, TypeOK, PcOK
<1>1. /\ begin \in Listed /\ Listed \in SUBSET Nodes /\ end \in Listed
      /\ \A m \in Listed : mem[m] = "used"
      /\ \A m \in Listed : next[m] = None \/ next[m] \in Listed \ {begin}
  BY Shape DEF IInv, ListOK
<1>2. UNCHANGED <<begin, end, next, data, hb, hn, rd, loc, popped>>
  BY DEF PopRetire, Free
<1>3. HasList' /\ Listed' = Listed
  BY <1>2, ListSame DEF IInv, ListOK
<1>4. CASE \E t \in Threads : PopRetire(t)
  <2>1. PICK t \in Threads : PopRetire(t)
    BY <1>4
  <2>2. /\ mem' = [mem EXCEPT ![hb[t]] = "retired"]
        /\ pc[t] = "pop_retire" /\ pc' = [pc EXCEPT ![t] = "pop_size"]
    BY <2>1 DEF PopRetire
  <2>3. hb[t] \in Nodes \ Listed /\ \A u \in Threads : Making(u) => loc[u] # hb[t]
    BY <2>2 DEF IInv, Made, Taken
  <2>4. ListOK'
    BY <1>1, <1>2, <1>3, <2>2, <2>3 DEF IInv, ListOK
  <2>5. Made'
    BY <1>1, <1>2, <1>3, <2>2, <2>3 DEF IInv, Made
  <2>6. Validated'
    BY <1>1, <1>2, <1>3, <2>2, <2>3 DEF IInv, Validated
  <2>7. Taken'
    BY <1>1, <1>2, <1>3, <2>2, <2>3 DEF IInv, Taken
  <2>. QED BY <2>4, <2>5, <2>6, <2>7
<1>5. CASE \E n \in Nodes : Free(n)
  <2>1. PICK n \in Nodes : Free(n)
    BY <1>5
  <2>2. /\ mem[n] = "retired" /\ mem' = [mem EXCEPT ![n] = "free"] /\ UNCHANGED pc
        /\ \A t \in Threads : n # hb[t] /\ (n # hn[t] \/ pc[t] \in PushSteps)
    BY <2>1 DEF Free
  <2>4. ListOK'
    BY <1>1, <1>2, <1>3, <2>2 DEF IInv, ListOK
  <2>5. Made'
    BY <1>1, <1>2, <1>3, <2>2 DEF IInv, Made
  <2>6. Validated'
    BY <1>1, <1>2, <1>3, <2>2 DEF IInv, Validated
  <2>7. Taken'
    BY <1>1, <1>2, <1>3, <2>2 DEF IInv, Taken
  <2>. QED BY <2>4, <2>5, <2>6, <2>7
<1>. QED BY <1>4, <1>5

LEMMA ClearStep ==
  ASSUME IInv, TypeOK', Clear
  PROVE  ListOK' /\ Made' /\ Validated' /\ Taken' /\ Length' = 0 /\ Contents' = <<>>
<1> USE NoneAssumption
    DEF list, Goto, PushSteps, PopSteps, HasEnd, HasBegin, HasNext, Making, Taking, TypeOK, PcOK
<1>1. /\ begin \in Listed /\ Listed \in SUBSET Nodes /\ end \in Listed
      /\ \A m \in Listed : mem[m] = "used"
      /\ \A m \in Listed : next[m] = None \/ next[m] \in Listed \ {begin}
  BY Shape DEF IInv, ListOK
<1>2. /\ begin' = end' /\ mem'[begin'] = "used" /\ next'[begin'] = None
      /\ \A t \in Threads : pc'[t] = "idle"
  BY DEF Clear
<1>3. HasList' /\ Listed' = {begin'} /\ Length' = 0 /\ Contents' = <<>>
  BY <1>2, ListOfOneNext DEF OneNode
<1>4. ListOK'
  BY <1>2, <1>3 DEF ListOK
<1>5. Made' /\ Validated' /\ Taken'
  BY <1>2 DEF Made, Validated, Taken
<1>. QED BY <1>3, <1>4, <1>5

LEMMA InitIInv == Init => IInv
<1> SUFFICES ASSUME Init PROVE IInv
  OBVIOUS
<1> USE BoundsAssumption, NoneAssumption DEF Init
<1>1. TypeOK /\ PcOK
  <2>1. mem \in [Nodes -> {"used", "retired", "free"}]
    OBVIOUS
  <2>. QED BY <2>1 DEF TypeOK, PcOK
<1>2. HasList /\ Listed = {begin}
  BY <1>1, ListOfOne DEF OneNode
<1>3. ListOK
  BY <1>2 DEF ListOK
<1>4. Made /\ Validated /\ Taken
  BY DEF Made, Making, Validated, Taken, Taking, PushSteps, HasEnd, HasBegin, HasNext
<1>. QED BY <1>1, <1>3, <1>4 DEF IInv

LEMMA IInvNext == IInv /\ [Next]_vars => IInv'
<1> SUFFICES ASSUME IInv, [Next]_vars PROVE IInv'
  OBVIOUS
<1>1. TypeOK' /\ PcOK'
  BY TypeStep
<1>2. ASSUME NEW t \in Threads, Push(t) \/ Pop(t) \/ CallPush(t) \/ CallPop(t)
      PROVE  ListOK' /\ Made' /\ Validated' /\ Taken'
  BY <1>1, <1>2, QuietStep, SwingStep, CallPushStep, PushLinkStep, PopSwingStep, MemoryStep
     DEF Push, Pop
<1>3. CASE \E n \in Nodes : Free(n)
  BY <1>1, <1>3, MemoryStep DEF IInv
<1>4. CASE Clear
  BY <1>1, <1>4, ClearStep DEF IInv
<1>5. CASE UNCHANGED vars
  <2>1. UNCHANGED <<begin, end, next, data, mem, pc, hb, hn, rd, loc, popped>>
    BY <1>5 DEF vars, list
  <2>2. HasList' /\ Listed' = Listed
    BY <1>1, <2>1, ListSame DEF IInv, ListOK
  <2>. QED
    BY <1>1, <2>1, <2>2 DEF IInv, ListOK, Made, Making, Validated, Taken, Taking
<1>. QED
  BY <1>1, <1>2, <1>3, <1>4, <1>5 DEF IInv, Next

LEMMA Always == Spec => []IInv
BY InitIInv, IInvNext, PTL DEF Spec

\* The nodes of the list are in use and _end is one of them (ListIntact), for any
\* number of threads, nodes and pushes.
THEOREM ListStaysIntact == Spec => []ListIntact
<1>1. IInv => ListIntact
  BY DEF IInv, ListOK, ListIntact, Listed
<1>. QED BY Always, <1>1, PTL

\* What is read or swapped is not freed (NoUseAfterFree), for any number of threads
\* and nodes.
THEOREM NothingUsedAfterFree == Spec => []NoUseAfterFree
<1>1. IInv => NoUseAfterFree
  BY DEF IInv, Validated, Taken, NoUseAfterFree, HasEnd, HasBegin
<1>. QED BY Always, <1>1, PTL

-----------------------------------------------------------------------------
(* The size                                                                *)

LEMMA Remainder ==
  ASSUME NEW q \in Int, NEW w \in Nat \ {0}, NEW r \in 0 .. w - 1
  PROVE  (w * q + r) % w = r
OBVIOUS

LEMMA SameRemainder ==
  ASSUME NEW p \in Int, NEW q \in Int, NEW w \in Nat \ {0},
         NEW r \in 0 .. w - 1, NEW s \in 0 .. w - 1, w * p + r = w * q + s
  PROVE  r = s
OBVIOUS

\* _size as an unsigned counter: one more and one less
LEMMA CountUp ==
  ASSUME NEW w \in Nat \ {0}, NEW x \in 0 .. w - 1
  PROVE  (x + 1) % w = IF x = w - 1 THEN 0 ELSE x + 1
<1>1. CASE x = w - 1
  <2>1. (w * 1 + 0) % w = 0
    BY Remainder
  <2>. QED BY <1>1, <2>1
<1>2. CASE x # w - 1
  <2>1. (w * 0 + (x + 1)) % w = x + 1
    BY <1>2, Remainder
  <2>. QED BY <1>2, <2>1
<1>. QED BY <1>1, <1>2

LEMMA CountDown ==
  ASSUME NEW w \in Nat \ {0}, NEW x \in 0 .. w - 1
  PROVE  (x + w - 1) % w = IF x = 0 THEN w - 1 ELSE x - 1
<1>1. CASE x = 0
  <2>1. (w * 0 + (w - 1)) % w = w - 1
    BY Remainder
  <2>. QED BY <1>1, <2>1
<1>2. CASE x # 0
  <2>1. (w * 1 + (x - 1)) % w = x - 1
    BY <1>2, Remainder
  <2>2. w * 1 + (x - 1) = x + w - 1
    OBVIOUS
  <2>. QED BY <1>2, <2>1, <2>2
<1>. QED BY <1>1, <1>2

LEMMA OneRemainder ==
  ASSUME NEW w \in Nat \ {0}, NEW z \in Int, NEW x \in 0 .. w - 1, NEW y \in 0 .. w - 1,
         w * z + x = y
  PROVE  x = y
<1>1. w * 0 + y = y
  OBVIOUS
<1>2. w * z + x = w * 0 + y
  BY <1>1
<1>. QED BY <1>2, SameRemainder

\* The steps that no count changes with
LEMMA QuietCount ==
  ASSUME Counted, UNCHANGED <<size, Length>>, sent' \in Nat, sent \in Nat, sent' >= sent,
         Length \in Nat, MakingNow' = MakingNow, Linked' = Linked, Unlinked' = Unlinked
  PROVE  Counted'
BY FS_CardinalityType DEF Counted

LEMMA CountedStep == IInv /\ Counted /\ [Next]_vars => Counted'
<1> SUFFICES ASSUME IInv, Counted, [Next]_vars PROVE Counted'
  OBVIOUS
<1>1. TypeOK' /\ PcOK' /\ TypeOK /\ PcOK
  BY TypeStep DEF IInv
<1>2. /\ pc \in [Threads -> {"idle"} \cup PushSteps \cup PopSteps]
      /\ size \in 0 .. Width - 1 /\ sent \in Nat /\ sent' \in Nat /\ Length \in Nat
      /\ Width \in Nat \ {0} /\ HasList /\ Listed \in SUBSET Nodes
  BY <1>1, BoundsAssumption, Shape DEF TypeOK, PcOK, IInv, ListOK
<1>3. /\ Cardinality(MakingNow) \in Nat /\ Cardinality(Linked) \in Nat
      /\ Cardinality(Unlinked) \in Nat
      /\ IsFiniteSet(MakingNow) /\ IsFiniteSet(Linked) /\ IsFiniteSet(Unlinked)
      /\ Length + Cardinality(MakingNow) <= sent
  BY FS_CardinalityType DEF Counted
<1>4. PICK z \in Int : Length + Cardinality(Unlinked) = Cardinality(Linked) + Width * z + size
  BY DEF Counted
<1>5. PICK y \in Int : /\ y = Width * z
                       /\ Length + Cardinality(Unlinked) = Cardinality(Linked) + y + size
                       /\ y + Width = Width * (z + 1) /\ y - Width = Width * (z - 1)
  BY <1>2, <1>4
<1> USE DEF list, Goto
<1>6. ASSUME NEW t \in Threads,
             PushRead(t) \/ PushPublish(t) \/ PushCheck(t) \/ PushNext(t) \/ PushAgain(t)
             \/ PushHelp(t) \/ PushSwing(t) \/ CallPop(t) \/ PopRead(t) \/ PopPublish(t)
             \/ PopCheck(t) \/ PopEnd(t) \/ PopNext(t) \/ PopPublishNext(t) \/ PopAgain(t)
             \/ PopHelp(t) \/ PopData(t) \/ PopRetire(t)
      PROVE  Counted'
  <2>1. UNCHANGED <<begin, next, size, sent>>
    BY <1>6 DEF PushRead, Read, PushPublish, PushCheck, PushNext, PushAgain, PushHelp, SwingEnd, PushSwing, SwingEnd, CallPop, PopRead, Read, PopPublish, PopCheck, PopEnd, PopNext, Read, DropPointers, PopPublishNext, PopAgain, PopHelp, SwingEnd, PopData, PopRetire
  <2>2. \A u \in Threads \ {t} : pc'[u] = pc[u]
    BY <1>2, <1>6 DEF PushRead, Read, PushPublish, PushCheck, PushNext, PushAgain, PushHelp, SwingEnd, PushSwing, SwingEnd, CallPop, PopRead, Read, PopPublish, PopCheck, PopEnd, PopNext, Read, DropPointers, PopPublishNext, PopAgain, PopHelp, SwingEnd, PopData, PopRetire
  <2>3. /\ Making(t)' <=> Making(t)
        /\ pc'[t] \in {"push_swing", "push_size"} <=> pc[t] \in {"push_swing", "push_size"}
        /\ pc'[t] \in {"pop_data", "pop_retire", "pop_size"}
             <=> pc[t] \in {"pop_data", "pop_retire", "pop_size"}
    BY <1>2, <1>6 DEF Making, PushSteps, PushRead, Read, PushPublish, PushCheck, PushNext, PushAgain, PushHelp, SwingEnd, PushSwing, SwingEnd, CallPop, PopRead, Read, PopPublish, PopCheck, PopEnd, PopNext, Read, DropPointers, PopPublishNext, PopAgain, PopHelp, SwingEnd, PopData, PopRetire
  <2>4. MakingNow' = MakingNow /\ Linked' = Linked /\ Unlinked' = Unlinked
    BY <2>2, <2>3 DEF MakingNow, Making, Linked, Unlinked
  <2>5. Length' = Length
    BY <1>1, <1>2, <2>1, ListSame
  <2>. QED BY <1>2, <2>1, <2>4, <2>5, QuietCount
<1>7. ASSUME NEW t \in Threads, CallPush(t) PROVE Counted'
  <2>1. PICK n \in Nodes : mem[n] = "free" /\ next' = [next EXCEPT ![n] = None]
    BY <1>7 DEF CallPush
  <2>2. /\ UNCHANGED <<begin, size>> /\ sent' = sent + 1
        /\ pc[t] = "idle" /\ pc' = [pc EXCEPT ![t] = "push_read"]
    BY <1>7 DEF CallPush
  <2>3. n \notin Listed
    BY <2>1 DEF IInv, ListOK
  <2>4. Length' = Length
    BY <1>1, <1>2, <2>1, <2>2, <2>3, ListSame
  <2>5. MakingNow' = MakingNow \cup {t} /\ Linked' = Linked /\ Unlinked' = Unlinked
    BY <1>2, <2>2 DEF MakingNow, Making, PushSteps, Linked, Unlinked
  <2>6. IsFiniteSet(MakingNow')
        /\ Cardinality(MakingNow') \in {Cardinality(MakingNow), Cardinality(MakingNow) + 1}
    BY <1>3, <2>5, FS_AddElement
  <2>7. Length' + Cardinality(MakingNow') <= sent'
    BY <1>2, <1>3, <2>2, <2>4, <2>6
  <2>8. Length' + Cardinality(Unlinked') = Cardinality(Linked') + Width * z + size'
    BY <1>4, <2>2, <2>4, <2>5
  <2>. QED BY <1>3, <2>5, <2>6, <2>7, <2>8 DEF Counted
<1>8. ASSUME NEW t \in Threads, PushLink(t) PROVE Counted'
  <2>1. UNCHANGED <<begin, size, sent, data>> /\ pc[t] = "push_link"
    BY <1>8 DEF PushLink
  <2>2. CASE next[hb[t]] # None
    <3>1. UNCHANGED next /\ pc' = [pc EXCEPT ![t] = "push_read"]
      BY <1>8, <2>2 DEF PushLink
    <3>2. MakingNow' = MakingNow /\ Linked' = Linked /\ Unlinked' = Unlinked
      BY <1>2, <2>1, <3>1 DEF MakingNow, Making, PushSteps, Linked, Unlinked
    <3>3. Length' = Length
      BY <1>1, <1>2, <2>1, <3>1, ListSame
    <3>. QED BY <1>2, <2>1, <3>2, <3>3, QuietCount
  <2>3. CASE next[hb[t]] = None
    <3>1. next' = [next EXCEPT ![hb[t]] = loc[t]] /\ pc' = [pc EXCEPT ![t] = "push_swing"]
      BY <1>8, <2>3 DEF PushLink
    <3>2. hb[t] \in Listed /\ loc[t] \in Nodes \ Listed /\ next[loc[t]] = None
      BY <2>1, <2>3 DEF IInv, Validated, Made, Making, PushSteps, HasEnd
    <3>3. Length' = Length + 1
      BY <1>1, <1>2, <2>1, <2>3, <3>1, <3>2, ListLonger
    <3>4. MakingNow' = MakingNow \ {t} /\ Linked' = Linked \cup {t} /\ Unlinked' = Unlinked
          /\ t \in MakingNow /\ t \notin Linked
      BY <1>2, <2>1, <3>1 DEF MakingNow, Making, PushSteps, Linked, Unlinked
    <3>5. /\ IsFiniteSet(MakingNow') /\ Cardinality(MakingNow') = Cardinality(MakingNow) - 1
          /\ IsFiniteSet(Linked') /\ Cardinality(Linked') = Cardinality(Linked) + 1
      BY <1>3, <3>4, FS_AddElement, FS_RemoveElement
    <3>6. Length' + Cardinality(Unlinked') = Cardinality(Linked') + y + size'
      <4>1. size' = size /\ Cardinality(Unlinked) \in Nat /\ Cardinality(Linked) \in Nat
        BY <1>3, <2>1
      <4>2. size \in Int /\ Length \in Nat
        BY <1>2
      <4>3. Cardinality(Unlinked') - Cardinality(Linked')
              = Cardinality(Unlinked) - Cardinality(Linked) - (Length' - Length)
            /\ Cardinality(Unlinked') \in Int /\ Cardinality(Linked') \in Int /\ Length' \in Int
        BY <4>1, <4>2, <3>3, <3>4, <3>5
      <4>. QED BY <1>5, <4>1, <4>2, <4>3
    <3>7. Length' + Cardinality(MakingNow') <= sent'
      BY <1>2, <1>3, <2>1, <3>3, <3>5
    <3>. QED BY <1>3, <1>5, <3>4, <3>5, <3>6, <3>7 DEF Counted
  <2>. QED BY <2>2, <2>3
<1>9. ASSUME NEW t \in Threads, PushSize(t) PROVE Counted'
  <2>1. /\ UNCHANGED <<begin, next, sent>> /\ size' = (size + 1) % Width
        /\ pc[t] = "push_size" /\ pc' = [pc EXCEPT ![t] = "idle"]
    BY <1>9 DEF PushSize
  <2>2. Length' = Length
    BY <1>1, <1>2, <2>1, ListSame
  <2>3. MakingNow' = MakingNow /\ Linked' = Linked \ {t} /\ Unlinked' = Unlinked /\ t \in Linked
    BY <1>2, <2>1 DEF MakingNow, Making, PushSteps, Linked, Unlinked
  <2>4. IsFiniteSet(Linked') /\ Cardinality(Linked') = Cardinality(Linked) - 1
    BY <1>3, <2>3, FS_RemoveElement
  <2>5. size' = IF size = Width - 1 THEN 0 ELSE size + 1
    BY <1>2, <2>1, CountUp
  <2>6. \E x \in Int :
          Length' + Cardinality(Unlinked') = Cardinality(Linked') + Width * x + size'
    <3>1. CASE size = Width - 1
      <4>1. Length' + Cardinality(Unlinked') = Cardinality(Linked') + (y + Width) + size'
        BY <1>2, <1>3, <1>5, <2>2, <2>3, <2>4, <2>5, <3>1
      <4>. QED BY <1>5, <4>1
    <3>2. CASE size # Width - 1
      <4>1. size \in Int /\ Length \in Nat /\ Length' = Length
            /\ Cardinality(Unlinked) \in Nat /\ Cardinality(Linked) \in Nat
        BY <1>2, <1>3, <2>2
      <4>2. Cardinality(Unlinked') - Cardinality(Linked') - size'
              = Cardinality(Unlinked) - Cardinality(Linked) - size
            /\ Cardinality(Unlinked') \in Int /\ Cardinality(Linked') \in Int /\ size' \in Int
        BY <4>1, <2>3, <2>4, <2>5, <3>2
      <4>3. Length' + Cardinality(Unlinked') = Cardinality(Linked') + y + size'
        BY <1>5, <4>1, <4>2
      <4>. QED BY <1>5, <4>3
    <3>. QED BY <3>1, <3>2
  <2>. QED BY <1>3, <2>1, <2>2, <2>3, <2>4, <2>6 DEF Counted
<1>10. ASSUME NEW t \in Threads, PopSwing(t) PROVE Counted'
  <2>1. UNCHANGED <<next, size, sent, data>> /\ pc[t] = "pop_swing"
    BY <1>10 DEF PopSwing
  <2>2. CASE begin # hb[t]
    <3>1. UNCHANGED begin /\ pc' = [pc EXCEPT ![t] = "pop_publish"]
      BY <1>10, <2>2 DEF PopSwing, Read
    <3>2. MakingNow' = MakingNow /\ Linked' = Linked /\ Unlinked' = Unlinked
      BY <1>2, <2>1, <3>1 DEF MakingNow, Making, PushSteps, Linked, Unlinked
    <3>3. Length' = Length
      BY <1>1, <1>2, <2>1, <3>1, ListSame
    <3>. QED BY <1>2, <2>1, <3>2, <3>3, QuietCount
  <2>3. CASE begin = hb[t]
    <3>1. begin' = hn[t] /\ pc' = [pc EXCEPT ![t] = "pop_data"]
      BY <1>10, <2>3 DEF PopSwing
    <3>2. hn[t] = next[begin] /\ hn[t] \in Nodes
      BY <2>1, <2>3 DEF IInv, Validated, HasNext
    <3>3. Length' = Length - 1
      BY <1>1, <1>2, <2>1, <3>1, <3>2, NoneAssumption, ListShorter
    <3>4. MakingNow' = MakingNow /\ Linked' = Linked /\ Unlinked' = Unlinked \cup {t}
          /\ t \notin Unlinked
      BY <1>2, <2>1, <3>1 DEF MakingNow, Making, PushSteps, Linked, Unlinked
    <3>5. IsFiniteSet(Unlinked') /\ Cardinality(Unlinked') = Cardinality(Unlinked) + 1
      BY <1>3, <3>4, FS_AddElement
    <3>6. Length' + Cardinality(Unlinked') = Cardinality(Linked') + y + size'
      <4>1. size' = size /\ Cardinality(Unlinked) \in Nat /\ Cardinality(Linked) \in Nat
        BY <1>3, <2>1
      <4>2. size \in Int /\ Length \in Nat
        BY <1>2
      <4>3. Cardinality(Unlinked') - Cardinality(Linked')
              = Cardinality(Unlinked) - Cardinality(Linked) - (Length' - Length)
            /\ Cardinality(Unlinked') \in Int /\ Cardinality(Linked') \in Int /\ Length' \in Int
        BY <4>1, <4>2, <3>3, <3>4, <3>5
      <4>. QED BY <1>5, <4>1, <4>2, <4>3
    <3>7. Length' + Cardinality(MakingNow') <= sent'
      BY <1>2, <1>3, <2>1, <3>3, <3>4
    <3>. QED BY <1>3, <1>5, <3>4, <3>5, <3>6, <3>7 DEF Counted
  <2>. QED BY <2>2, <2>3
<1>11. ASSUME NEW t \in Threads, PopSize(t) PROVE Counted'
  <2>1. /\ UNCHANGED <<begin, next, sent>> /\ size' = (size + Width - 1) % Width
        /\ pc[t] = "pop_size" /\ pc' = [pc EXCEPT ![t] = "idle"]
    BY <1>11 DEF PopSize
  <2>2. Length' = Length
    BY <1>1, <1>2, <2>1, ListSame
  <2>3. MakingNow' = MakingNow /\ Linked' = Linked /\ Unlinked' = Unlinked \ {t} /\ t \in Unlinked
    BY <1>2, <2>1 DEF MakingNow, Making, PushSteps, Linked, Unlinked
  <2>4. IsFiniteSet(Unlinked') /\ Cardinality(Unlinked') = Cardinality(Unlinked) - 1
    BY <1>3, <2>3, FS_RemoveElement
  <2>5. size' = IF size = 0 THEN Width - 1 ELSE size - 1
    BY <1>2, <2>1, CountDown
  <2>6. \E x \in Int :
          Length' + Cardinality(Unlinked') = Cardinality(Linked') + Width * x + size'
    <3>1. CASE size = 0
      <4>1. Length' + Cardinality(Unlinked') = Cardinality(Linked') + (y - Width) + size'
        BY <1>2, <1>3, <1>5, <2>2, <2>3, <2>4, <2>5, <3>1
      <4>. QED BY <1>5, <4>1
    <3>2. CASE size # 0
      <4>1. size \in Int /\ Length \in Nat /\ Length' = Length
            /\ Cardinality(Unlinked) \in Nat /\ Cardinality(Linked) \in Nat
        BY <1>2, <1>3, <2>2
      <4>2. Cardinality(Unlinked') - Cardinality(Linked') - size'
              = Cardinality(Unlinked) - Cardinality(Linked) - size
            /\ Cardinality(Unlinked') \in Int /\ Cardinality(Linked') \in Int /\ size' \in Int
        BY <4>1, <2>3, <2>4, <2>5, <3>2
      <4>3. Length' + Cardinality(Unlinked') = Cardinality(Linked') + y + size'
        BY <1>5, <4>1, <4>2
      <4>. QED BY <1>5, <4>3
    <3>. QED BY <3>1, <3>2
  <2>. QED BY <1>3, <2>1, <2>2, <2>3, <2>4, <2>6 DEF Counted
<1>12. ASSUME NEW n \in Nodes, Free(n) PROVE Counted'
  <2>1. UNCHANGED <<begin, next, size, sent, pc>>
    BY <1>12 DEF Free
  <2>2. MakingNow' = MakingNow /\ Linked' = Linked /\ Unlinked' = Unlinked
    BY <2>1 DEF MakingNow, Making, Linked, Unlinked
  <2>3. Length' = Length
    BY <1>1, <1>2, <2>1, ListSame
  <2>. QED BY <1>2, <2>1, <2>2, <2>3, QuietCount
<1>13. CASE Clear
  <2>1. size' = 0 /\ UNCHANGED sent /\ \A t \in Threads : pc'[t] = "idle"
    BY <1>13 DEF Clear
  <2>2. Length' = 0
    BY <1>1, <1>13, ClearStep
  <2>3. MakingNow' = {} /\ Linked' = {} /\ Unlinked' = {}
    BY <2>1 DEF MakingNow, Making, PushSteps, Linked, Unlinked
  <2>4. IsFiniteSet({}) /\ Cardinality({}) = 0
    BY FS_EmptySet
  <2>5. Length' + Cardinality(Unlinked') = Cardinality(Linked') + Width * 0 + size'
    BY <1>2, <2>1, <2>2, <2>3, <2>4
  <2>. QED BY <1>2, <2>1, <2>2, <2>3, <2>4, <2>5 DEF Counted
<1>14. CASE UNCHANGED vars
  <2>1. UNCHANGED <<begin, next, size, sent, pc>>
    BY <1>14 DEF vars
  <2>2. MakingNow' = MakingNow /\ Linked' = Linked /\ Unlinked' = Unlinked
    BY <2>1 DEF MakingNow, Making, Linked, Unlinked
  <2>3. Length' = Length
    BY <1>1, <1>2, <2>1, ListSame
  <2>. QED BY <1>2, <2>1, <2>2, <2>3, QuietCount
<1>. QED
  BY <1>6, <1>7, <1>8, <1>9, <1>10, <1>11, <1>12, <1>13, <1>14 DEF Next, Push, Pop

LEMMA InitCounted == Init => Counted
<1> SUFFICES ASSUME Init PROVE Counted
  OBVIOUS
<1>1. TypeOK /\ next[begin] = None
  BY InitIInv DEF Init, IInv
<1>2. Length = 0
  BY <1>1, ListOfOne DEF OneNode
<1>3. MakingNow = {} /\ Linked = {} /\ Unlinked = {} /\ size = 0 /\ sent = 0
  BY DEF Init, MakingNow, Making, PushSteps, Linked, Unlinked
<1>4. IsFiniteSet({}) /\ Cardinality({}) = 0
  BY FS_EmptySet
<1>5. Length + Cardinality(Unlinked) = Cardinality(Linked) + Width * 0 + size
  BY <1>2, <1>3, <1>4, BoundsAssumption
<1>. QED BY <1>2, <1>3, <1>4, <1>5 DEF Counted

\* _size is the number of values in the queue whenever no operation runs
\* (SizeSettles), for any number of threads and pushes.
THEOREM SizeIsRight == Spec => []SizeSettles
<1>1. IInv /\ Counted => SizeSettles
  <2> SUFFICES ASSUME IInv, Counted, \A t \in Threads : pc[t] = "idle" PROVE size = Length
    BY DEF SizeSettles
  <2>1. MakingNow = {} /\ Linked = {} /\ Unlinked = {}
    BY DEF MakingNow, Making, PushSteps, Linked, Unlinked
  <2>2. Cardinality({}) = 0
    BY FS_EmptySet
  <2>3. Length \in 0 .. Width - 1 /\ size \in 0 .. Width - 1 /\ Width \in Nat \ {0}
    BY <2>1, <2>2, Shape, BoundsAssumption DEF IInv, TypeOK, ListOK, Counted
  <2>4. PICK z \in Int : Length + 0 = 0 + Width * z + size
    BY <2>1, <2>2 DEF Counted
  <2>5. Width * z + size = Length
    BY <2>3, <2>4
  <2>. QED BY <2>3, <2>5, OneRemainder
<1>. QED
  BY Always, InitCounted, CountedStep, <1>1, PTL DEF Spec

-----------------------------------------------------------------------------
(* The queue it implements                                                 *)

\* Every step is one of FifoQueue's, or none.
LEMMA FifoStep == IInv /\ [Next]_vars => [Fifo!Next]_(Fifo!vars)
<1> SUFFICES ASSUME IInv, [Next]_vars PROVE [Fifo!Next]_(Fifo!vars)
  OBVIOUS
<1>1. TypeOK' /\ TypeOK /\ HasList
  BY TypeStep DEF IInv, ListOK
<1>2. Listed \in SUBSET Nodes /\ Len(Contents) = Length /\ Contents \in Seq(Values)
      /\ (next[begin] = None <=> Length = 0)
  BY Shape DEF IInv, ListOK
<1> USE DEF list, Goto
<1>3. ASSUME NEW t \in Threads,
             PushRead(t) \/ PushPublish(t) \/ PushCheck(t) \/ PushNext(t) \/ PushAgain(t)
             \/ PushHelp(t) \/ PushSwing(t) \/ PushSize(t) \/ CallPop(t) \/ PopRead(t)
             \/ PopPublish(t) \/ PopCheck(t) \/ PopEnd(t) \/ PopPublishNext(t) \/ PopAgain(t)
             \/ PopHelp(t) \/ PopRetire(t) \/ PopSize(t)
      PROVE  UNCHANGED Fifo!vars
  <2>1. UNCHANGED <<begin, next, data, popped>>
    BY <1>3 DEF PushRead, Read, PushPublish, PushCheck, PushNext, PushAgain, PushHelp, SwingEnd, PushSwing, SwingEnd, PushSize, DropPointers, CallPop, PopRead, Read, PopPublish, PopCheck, PopEnd, PopPublishNext, PopAgain, PopHelp, SwingEnd, PopRetire, PopSize, DropPointers
  <2>2. Contents' = Contents
    BY <1>1, <2>1, ListSame
  <2>. QED BY <2>1, <2>2 DEF Fifo!vars
<1>4. ASSUME NEW t \in Threads, CallPush(t) PROVE UNCHANGED Fifo!vars
  <2>1. PICK n \in Nodes : /\ mem[n] = "free" /\ next' = [next EXCEPT ![n] = None]
                           /\ data' = [data EXCEPT ![n] = sent + 1]
    BY <1>4 DEF CallPush
  <2>2. UNCHANGED <<begin, popped>> /\ n \notin Listed
    BY <1>4, <2>1 DEF CallPush, IInv, ListOK
  <2>3. Contents' = Contents
    BY <1>1, <1>2, <2>1, <2>2, ListSame DEF TypeOK
  <2>. QED BY <2>2, <2>3 DEF Fifo!vars
<1>5. ASSUME NEW t \in Threads, PushLink(t) PROVE [Fifo!Next]_(Fifo!vars)
  <2>1. UNCHANGED <<begin, data, popped>> /\ pc[t] = "push_link"
    BY <1>5 DEF PushLink
  <2>2. CASE next[hb[t]] # None
    <3>1. UNCHANGED next
      BY <1>5, <2>2 DEF PushLink
    <3>2. Contents' = Contents
      BY <1>1, <2>1, <3>1, ListSame
    <3>. QED BY <2>1, <3>2 DEF Fifo!vars
  <2>3. CASE next[hb[t]] = None
    <3>1. next' = [next EXCEPT ![hb[t]] = loc[t]]
      BY <1>5, <2>3 DEF PushLink
    <3>2. /\ hb[t] \in Listed /\ loc[t] \in Nodes \ Listed
          /\ next[loc[t]] = None /\ data[loc[t]] \in Values
      BY <2>1, <2>3 DEF IInv, Validated, Made, Making, PushSteps, HasEnd
    <3>3. Contents' = Append(Contents, data[loc[t]])
      BY <1>1, <2>1, <2>3, <3>1, <3>2, ListLonger
    <3>4. Fifo!Push(data[loc[t]])
      BY <2>1, <3>3 DEF Fifo!Push
    <3>. QED BY <3>2, <3>4 DEF Fifo!Next
  <2>. QED BY <2>2, <2>3
<1>6. ASSUME NEW t \in Threads, PopNext(t) PROVE [Fifo!Next]_(Fifo!vars)
  <2>1. UNCHANGED <<begin, next, data>> /\ pc[t] = "pop_next"
    BY <1>6 DEF PopNext, Read
  <2>2. Contents' = Contents
    BY <1>1, <2>1, ListSame
  <2>3. CASE next[hb[t]] # None
    BY <1>6, <2>2, <2>3 DEF PopNext, Read, Fifo!vars
  <2>4. CASE next[hb[t]] = None
    <3>1. popped' = [popped EXCEPT ![t] = None]
      BY <1>6, <2>4 DEF PopNext
    <3>2. hb[t] = begin
      BY <2>1, <2>4 DEF IInv, Validated, HasBegin
    <3>3. Contents = <<>>
      BY <1>2, <2>4, <3>2
    <3>4. Fifo!PopFails(t)
      BY <2>2, <3>1, <3>3 DEF Fifo!PopFails
    <3>. QED BY <3>4 DEF Fifo!Next
  <2>. QED BY <2>3, <2>4
<1>7. ASSUME NEW t \in Threads, PopSwing(t) PROVE [Fifo!Next]_(Fifo!vars)
  <2>1. UNCHANGED <<next, data>> /\ pc[t] = "pop_swing"
    BY <1>7 DEF PopSwing
  <2>2. CASE begin # hb[t]
    <3>1. UNCHANGED <<begin, popped>>
      BY <1>7, <2>2 DEF PopSwing
    <3>2. Contents' = Contents
      BY <1>1, <2>1, <3>1, ListSame
    <3>. QED BY <3>1, <3>2 DEF Fifo!vars
  <2>3. CASE begin = hb[t]
    <3>1. begin' = hn[t] /\ popped' = [popped EXCEPT ![t] = data[hn[t]]]
      BY <1>7, <2>3 DEF PopSwing
    <3>2. hn[t] = next[begin] /\ hn[t] # None
      BY <2>1, <2>3, NoneAssumption DEF IInv, Validated, HasNext
    <3>3. Contents # <<>> /\ Head(Contents) = data[begin'] /\ Contents' = Tail(Contents)
      BY <1>1, <2>1, <3>1, <3>2, ListShorter
    <3>4. Fifo!Pop(t)
      BY <3>1, <3>3 DEF Fifo!Pop
    <3>. QED BY <3>4 DEF Fifo!Next
  <2>. QED BY <2>2, <2>3
<1>8. ASSUME NEW t \in Threads, PopData(t) PROVE UNCHANGED Fifo!vars
  <2>1. UNCHANGED <<begin, next, data>> /\ popped' = [popped EXCEPT ![t] = data[hn[t]]]
        /\ pc[t] = "pop_data"
    BY <1>8 DEF PopData
  <2>2. popped' = popped
    BY <1>1, <2>1 DEF IInv, Taken, TypeOK
  <2>3. Contents' = Contents
    BY <1>1, <2>1, ListSame
  <2>. QED BY <2>2, <2>3 DEF Fifo!vars
<1>9. ASSUME NEW n \in Nodes, Free(n) PROVE UNCHANGED Fifo!vars
  <2>1. UNCHANGED <<begin, next, data, popped>>
    BY <1>9 DEF Free
  <2>2. Contents' = Contents
    BY <1>1, <2>1, ListSame
  <2>. QED BY <2>1, <2>2 DEF Fifo!vars
<1>10. CASE Clear
  <2>1. Contents' = <<>> /\ UNCHANGED popped
    BY <1>1, <1>10, ClearStep DEF Clear
  <2>2. Fifo!Clear
    BY <2>1 DEF Fifo!Clear
  <2>. QED BY <2>2 DEF Fifo!Next
<1>11. CASE UNCHANGED vars
  <2>1. UNCHANGED <<begin, next, data, popped>>
    BY <1>11 DEF vars
  <2>2. Contents' = Contents
    BY <1>1, <2>1, ListSame
  <2>. QED BY <2>1, <2>2 DEF Fifo!vars
<1>. QED
  BY <1>3, <1>4, <1>5, <1>6, <1>7, <1>8, <1>9, <1>10, <1>11 DEF Next, Push, Pop

LEMMA FifoInit == Init => Fifo!Init
<1> SUFFICES ASSUME Init PROVE Fifo!Init
  OBVIOUS
<1>1. TypeOK /\ next[begin] = None
  BY InitIInv DEF Init, IInv
<1>2. Contents = <<>>
  BY <1>1, ListOfOne DEF OneNode
<1>. QED BY <1>2 DEF Init, Fifo!Init

\* The queue of Michael and Scott is a FIFO queue with atomic operations: every
\* push and pop takes effect at one of its compare-and-swaps, or at the read of
\* a null _next (ImplementsFifo), for any number of threads, nodes and values.
THEOREM QueueImplementsFifo == Spec => ImplementsFifo
BY FifoInit, FifoStep, Always, PTL DEF Spec, ImplementsFifo, Fifo!Spec

-----------------------------------------------------------------------------
(***************************************************************************)
(* HazardSystem: for any number of threads, nodes, records and recover     *)
(* lists, a node is retired and freed once, no record is lost, a scan that *)
(* began while all records were linked collects the pointers that stand,   *)
(* and outside the two gaps that NoFreedInUse names no node is freed while *)
(* it is used.                                                             *)
(*                                                                         *)
(* The argument: that a record can be reached is said with the sets that   *)
(* are closed under nextRec, and a push between its two steps counts as a  *)
(* link that is already there: then the second step changes nothing, and   *)
(* the first one only puts a record before all others.                     *)
(***************************************************************************)

\* What a thread has acquired, by its program counter
HasRecoverList == {"push", "scan", "collect", "return"}
HasPointer == {"check", "use", "grab", "release"} \cup HasRecoverList
HasRecord == {"exchange", "link", "load"} \cup HasPointer

Holding ==
  /\ step \in [Users -> {"idle", "walk"} \cup HasRecord]
  /\ llen + 1 = used /\ head < used
  /\ \A r \in Records : nextRec[r] # Null => nextRec[r] < used
  /\ \A t \in Users :
       /\ rec[t] # Null <=> step[t] \in HasRecord
       /\ rec[t] # Null => rec[t] < used /\ active[rec[t]] = 0
       /\ cur[t] # Null => cur[t] < used
       /\ rlist[t] # Null <=> step[t] \in HasRecoverList
       /\ rlist[t] # Null => lactive[rlist[t]] = 0
       /\ step[t] \in HasPointer => val[t] # Null
       /\ step[t] \in {"idle", "walk", "exchange", "link"} => val[t] = Null

\* A record without a user shows no pointer; others show what the user stored,
\* once it left the store buffer.
Shown ==
  /\ \A t \in Users : rec[t] # Null /\ ~ buf[t] => hazard[rec[t]] = val[t]
  /\ \A t \in Users : buf[t] => val[t] # Null /\ step[t] \in {"load", "check", "use", "release"}
  /\ \A r \in Records : hazard[r] # Null => \E t \in Users : rec[t] = r

\* A node that was taken out and not yet put into a recover list
Leaving(t) == step[t] \in {"grab", "push"}

Retiring ==
  /\ \A k, l \in Lists : k # l => retired[k] \cap retired[l] = {}
  /\ \A l \in Lists : \A n \in retired[l] : memory[n] = "retired"
  /\ memory[cell] = "live"
  /\ \A t \in Users : Leaving(t) =>
       memory[val[t]] = "retired" /\ \A l \in Lists : val[t] \notin retired[l]
  /\ \A t, u \in Users : t # u /\ Leaving(t) /\ Leaving(u) => val[t] # val[u]

\* S leads nowhere else, along the links that are there ...
Closed(S) == \A r \in S : nextRec[r] \in S \cup {Null}

\* ... and along those that pushes are about to store.
WillBeClosed(S) == \A t \in Users : step[t] = "link" /\ rec[t] \in S => cur[t] \in S

\* The walk from record c comes to r.
Reaches(c, r) == \A S \in SUBSET Records : c \in S /\ Closed(S) => r \in S

Pushed(r) == r < used /\ \A t \in Users : step[t] = "exchange" => rec[t] # r

RecordsLinked ==
  /\ \A t \in Users : step[t] \in {"exchange", "link"} => nextRec[rec[t]] = Null
  /\ \A t \in Users : step[t] = "link" => cur[t] # Null
  /\ \A r \in Records : r >= used => nextRec[r] = Null
  /\ \A r \in Records : Pushed(r) =>
       \A S \in SUBSET Records : head \in S /\ Closed(S) /\ WillBeClosed(S) => r \in S

HazardIInv == HazardTypeOK /\ Holding /\ OneUser /\ Shown /\ Retiring /\ RecordsLinked

\* A scan has seen what it owes, or is still going to.
Scanning ==
  /\ \A t \in Users : \A r \in owed[t] : hazard[r] # Null
  /\ ~ cutOff =>
       \A t \in Users : step[t] = "collect" =>
         \A r \in owed[t] :
           hazard[r] \in seen[t] \/ (cur[t] # Null /\ Reaches(cur[t], r))

\* A scan that may free the node of a thread owes its pointer.
Using ==
  ~ cutOff /\ ~ late =>
    \A t \in Users : step[t] = "use" =>
      /\ memory[val[t]] # "free"
      /\ \A u \in Users : step[u] = "collect" /\ val[t] \in retired[rlist[u]]
                              => rec[t] \in owed[u] /\ ~ buf[t]

-----------------------------------------------------------------------------
LEMMA HazardInitIInv == HazardInit => HazardIInv
<1> SUFFICES ASSUME HazardInit PROVE HazardIInv
  OBVIOUS
<1> USE RecordsAssumption, NullAssumption
<1>1. HazardTypeOK
  <2>1. 0 \in Records /\ 1 \in 0 .. MaxRecords /\ 0 \in 0 .. MaxRecords
    BY DEF Records
  <2>2. memory \in [Objects -> {"live", "retired", "free"}] /\ cell \in Objects
    BY DEF HazardInit
  <2>. QED
    BY <2>1, <2>2 DEF HazardInit, HazardTypeOK
<1>5. Holding
  BY DEF HazardInit, Holding, HasRecoverList, HasPointer, HasRecord
<1>2. OneUser /\ Shown
  BY DEF HazardInit, OneUser, Shown
<1>3. Retiring
  BY DEF HazardInit, Retiring, Leaving
<1>4. RecordsLinked
  BY DEF HazardInit, RecordsLinked, Pushed, Records
<1>. QED
  BY <1>1, <1>2, <1>3, <1>4, <1>5 DEF HazardIInv

LEMMA HazardTypeStep == HazardTypeOK /\ Holding /\ [HazardNext]_hazardVars => HazardTypeOK'
<1> SUFFICES ASSUME HazardTypeOK, Holding, [HazardNext]_hazardVars PROVE HazardTypeOK'
  OBVIOUS
<1> USE RecordsAssumption, NullAssumption DEF records, lists, client, history, StepTo, Records, HasRecoverList, HasPointer, HasRecord, HazardTypeOK, Holding
<1>1. ASSUME NEW t \in Users, CallAcquire(t) PROVE HazardTypeOK'
  BY <1>1 DEF CallAcquire
<1>2. ASSUME NEW t \in Users, TryRecord(t) PROVE HazardTypeOK'
  <2>1. cur[t] \in Records /\ nextRec[cur[t]] \in Records \cup {Null}
    BY <1>2 DEF TryRecord
  <2>2. active' \in [Records -> {0, 1}]
    BY <1>2 DEF TryRecord
  <2>3. CASE active[cur[t]] = 1
    <3>1. rec' \in [Users -> Records \cup {Null}] /\ cur' \in [Users -> Records \cup {Null}]
      BY <1>2, <2>1, <2>3 DEF TryRecord
    <3>. QED
      BY <1>2, <2>2, <2>3, <3>1 DEF TryRecord
  <2>4. CASE active[cur[t]] # 1
    BY <1>2, <2>1, <2>2, <2>4 DEF TryRecord
  <2>. QED
    BY <2>3, <2>4
<1>3. ASSUME NEW t \in Users, NewRecord(t) PROVE HazardTypeOK'
  BY <1>3 DEF NewRecord
<1>4. ASSUME NEW t \in Users, ExchangeHead(t) PROVE HazardTypeOK'
  BY <1>4 DEF ExchangeHead
<1>5. ASSUME NEW t \in Users, LinkRecord(t) PROVE HazardTypeOK'
  BY <1>5 DEF LinkRecord
<1>6. ASSUME NEW t \in Users, Publish(t) PROVE HazardTypeOK'
  BY <1>6 DEF Publish
<1>7. ASSUME NEW t \in Users, Flush(t) PROVE HazardTypeOK'
  BY <1>7 DEF Flush, Show
<1>8. ASSUME NEW t \in Users, Validate(t) PROVE HazardTypeOK'
  BY <1>8 DEF Validate
<1>9. ASSUME NEW t \in Users, Replace(t) PROVE HazardTypeOK'
  <2>1. PICK n \in Objects : cell' = n /\ memory' = [memory EXCEPT ![n] = "live", ![val[t]] = "retired"]
    BY <1>9 DEF Replace
  <2>2. memory' \in [Objects -> {"live", "retired", "free"}]
    BY <2>1
  <2>. QED
    BY <1>9, <2>1, <2>2 DEF Replace
<1>10. ASSUME NEW t \in Users, Leave(t) PROVE HazardTypeOK'
  BY <1>10 DEF Leave
<1>11. ASSUME NEW t \in Users, Release(t) PROVE HazardTypeOK'
  BY <1>11 DEF Release, Show
<1>12. ASSUME NEW t \in Users, GrabList(t) PROVE HazardTypeOK'
  BY <1>12 DEF GrabList
<1>13. ASSUME NEW t \in Users, PushRetired(t) PROVE HazardTypeOK'
  BY <1>13 DEF PushRetired
<1>14. ASSUME NEW t \in Users, BeginScan(t) PROVE HazardTypeOK'
  BY <1>14 DEF BeginScan
<1>15. ASSUME NEW t \in Users, Collect(t) PROVE HazardTypeOK'
  BY <1>15 DEF Collect
<1>16. ASSUME NEW t \in Users, Deallocate(t) PROVE HazardTypeOK'
  BY <1>16 DEF Deallocate
<1>17. ASSUME NEW t \in Users, ReturnList(t) PROVE HazardTypeOK'
  BY <1>17 DEF ReturnList
<1>18. CASE UNCHANGED hazardVars
  BY <1>18 DEF hazardVars
<1>. QED
  BY <1>1, <1>2, <1>3, <1>4, <1>5, <1>6, <1>7, <1>8, <1>9, <1>10, <1>11, <1>12, <1>13, <1>14, <1>15, <1>16, <1>17, <1>18 DEF HazardNext, Acquire, UseNode, Retire

LEMMA HoldingStep == HazardTypeOK /\ Holding /\ OneUser /\ [HazardNext]_hazardVars => Holding'
<1> SUFFICES ASSUME HazardTypeOK, Holding, OneUser, [HazardNext]_hazardVars PROVE Holding'
  OBVIOUS
<1> USE RecordsAssumption, NullAssumption DEF records, lists, client, history, StepTo, Records, HasRecoverList, HasPointer, HasRecord, HazardTypeOK, Holding, OneUser
<1>1. ASSUME NEW t \in Users, CallAcquire(t) PROVE Holding'
  BY <1>1 DEF CallAcquire
<1>2. ASSUME NEW t \in Users, TryRecord(t) PROVE Holding'
  <2>. DEFINE c == cur[t]
  <2>1. c \in Records /\ active' = [active EXCEPT ![c] = 0]
    BY <1>2 DEF TryRecord
  <2>2. CASE active[c] = 1
    <3>1. rec' = [rec EXCEPT ![t] = c] /\ step' = [step EXCEPT ![t] = "load"]
      BY <1>2, <2>2 DEF TryRecord
    <3>2. \A u \in Users : rec[u] # c
      BY <2>1, <2>2
    <3>. HIDE DEF c
    <3>. QED
      BY <1>2, <2>1, <3>1, <3>2 DEF TryRecord
  <2>3. CASE active[c] # 1
    <3>1. UNCHANGED <<rec, step>> /\ cur' = [cur EXCEPT ![t] = nextRec[c]]
      BY <1>2, <2>3 DEF TryRecord
    <3>2. nextRec[c] # Null => nextRec[c] < used
      BY <2>1
    <3>. HIDE DEF c
    <3>. QED
      BY <1>2, <2>1, <3>1, <3>2 DEF TryRecord
  <2>. QED
    BY <2>2, <2>3
<1>3. ASSUME NEW t \in Users, NewRecord(t) PROVE Holding'
  BY <1>3 DEF NewRecord
<1>4. ASSUME NEW t \in Users, ExchangeHead(t) PROVE Holding'
  BY <1>4 DEF ExchangeHead
<1>5. ASSUME NEW t \in Users, LinkRecord(t) PROVE Holding'
  BY <1>5 DEF LinkRecord
<1>6. ASSUME NEW t \in Users, Publish(t) PROVE Holding'
  BY <1>6 DEF Publish
<1>7. ASSUME NEW t \in Users, Flush(t) PROVE Holding'
  BY <1>7 DEF Flush, Show
<1>8. ASSUME NEW t \in Users, Validate(t) PROVE Holding'
  BY <1>8 DEF Validate
<1>9. ASSUME NEW t \in Users, Replace(t) PROVE Holding'
  BY <1>9 DEF Replace
<1>10. ASSUME NEW t \in Users, Leave(t) PROVE Holding'
  BY <1>10 DEF Leave
<1>11. ASSUME NEW t \in Users, Release(t) PROVE Holding'
  BY <1>11 DEF Release, Show
<1>12. ASSUME NEW t \in Users, GrabList(t) PROVE Holding'
  BY <1>12 DEF GrabList
<1>13. ASSUME NEW t \in Users, PushRetired(t) PROVE Holding'
  BY <1>13 DEF PushRetired
<1>14. ASSUME NEW t \in Users, BeginScan(t) PROVE Holding'
  BY <1>14 DEF BeginScan
<1>15. ASSUME NEW t \in Users, Collect(t) PROVE Holding'
  BY <1>15 DEF Collect
<1>16. ASSUME NEW t \in Users, Deallocate(t) PROVE Holding'
  BY <1>16 DEF Deallocate
<1>17. ASSUME NEW t \in Users, ReturnList(t) PROVE Holding'
  BY <1>17 DEF ReturnList
<1>18. CASE UNCHANGED hazardVars
  BY <1>18 DEF hazardVars
<1>. QED
  BY <1>1, <1>2, <1>3, <1>4, <1>5, <1>6, <1>7, <1>8, <1>9, <1>10, <1>11, <1>12, <1>13, <1>14, <1>15, <1>16, <1>17, <1>18 DEF HazardNext, Acquire, UseNode, Retire

LEMMA UserStep == HazardTypeOK /\ Holding /\ OneUser /\ [HazardNext]_hazardVars => OneUser'
<1> SUFFICES ASSUME HazardTypeOK, Holding, OneUser, [HazardNext]_hazardVars PROVE OneUser'
  OBVIOUS
<1> USE RecordsAssumption, NullAssumption DEF records, lists, client, history, StepTo, Records, HasRecoverList, HasPointer, HasRecord, HazardTypeOK, Holding, OneUser
<1>1. ASSUME NEW t \in Users, CallAcquire(t) PROVE OneUser'
  BY <1>1 DEF CallAcquire
<1>2. ASSUME NEW t \in Users, TryRecord(t) PROVE OneUser'
  <2>. DEFINE c == cur[t]
  <2>1. c \in Records /\ active' = [active EXCEPT ![c] = 0]
    BY <1>2 DEF TryRecord
  <2>2. CASE active[c] = 1
    <3>1. rec' = [rec EXCEPT ![t] = c] /\ step' = [step EXCEPT ![t] = "load"]
      BY <1>2, <2>2 DEF TryRecord
    <3>2. \A u \in Users : rec[u] # c
      BY <2>1, <2>2
    <3>. HIDE DEF c
    <3>. QED
      BY <1>2, <2>1, <3>1, <3>2 DEF TryRecord
  <2>3. CASE active[c] # 1
    <3>1. UNCHANGED <<rec, step>>
      BY <1>2, <2>3 DEF TryRecord
    <3>. HIDE DEF c
    <3>. QED
      BY <1>2, <2>1, <3>1 DEF TryRecord
  <2>. QED
    BY <2>2, <2>3
<1>3. ASSUME NEW t \in Users, NewRecord(t) PROVE OneUser'
  BY <1>3 DEF NewRecord
<1>4. ASSUME NEW t \in Users, ExchangeHead(t) PROVE OneUser'
  BY <1>4 DEF ExchangeHead
<1>5. ASSUME NEW t \in Users, LinkRecord(t) PROVE OneUser'
  BY <1>5 DEF LinkRecord
<1>6. ASSUME NEW t \in Users, Publish(t) PROVE OneUser'
  BY <1>6 DEF Publish
<1>7. ASSUME NEW t \in Users, Flush(t) PROVE OneUser'
  BY <1>7 DEF Flush, Show
<1>8. ASSUME NEW t \in Users, Validate(t) PROVE OneUser'
  BY <1>8 DEF Validate
<1>9. ASSUME NEW t \in Users, Replace(t) PROVE OneUser'
  BY <1>9 DEF Replace
<1>10. ASSUME NEW t \in Users, Leave(t) PROVE OneUser'
  BY <1>10 DEF Leave
<1>11. ASSUME NEW t \in Users, Release(t) PROVE OneUser'
  BY <1>11 DEF Release, Show
<1>12. ASSUME NEW t \in Users, GrabList(t) PROVE OneUser'
  BY <1>12 DEF GrabList
<1>13. ASSUME NEW t \in Users, PushRetired(t) PROVE OneUser'
  BY <1>13 DEF PushRetired
<1>14. ASSUME NEW t \in Users, BeginScan(t) PROVE OneUser'
  BY <1>14 DEF BeginScan
<1>15. ASSUME NEW t \in Users, Collect(t) PROVE OneUser'
  BY <1>15 DEF Collect
<1>16. ASSUME NEW t \in Users, Deallocate(t) PROVE OneUser'
  BY <1>16 DEF Deallocate
<1>17. ASSUME NEW t \in Users, ReturnList(t) PROVE OneUser'
  BY <1>17 DEF ReturnList
<1>18. CASE UNCHANGED hazardVars
  BY <1>18 DEF hazardVars
<1>. QED
  BY <1>1, <1>2, <1>3, <1>4, <1>5, <1>6, <1>7, <1>8, <1>9, <1>10, <1>11, <1>12, <1>13, <1>14, <1>15, <1>16, <1>17, <1>18 DEF HazardNext, Acquire, UseNode, Retire

LEMMA ShownStep == HazardTypeOK /\ Holding /\ OneUser /\ Shown /\ [HazardNext]_hazardVars => Shown'
<1> SUFFICES ASSUME HazardTypeOK, Holding, OneUser, Shown, [HazardNext]_hazardVars PROVE Shown'
  OBVIOUS
<1> USE RecordsAssumption, NullAssumption DEF records, lists, client, history, StepTo, Records, HasRecoverList, HasPointer, HasRecord, HazardTypeOK, Holding, OneUser, Shown
<1>1. ASSUME NEW t \in Users, CallAcquire(t) PROVE Shown'
  BY <1>1 DEF CallAcquire
<1>2. ASSUME NEW t \in Users, TryRecord(t) PROVE Shown'
  <2>. DEFINE c == cur[t]
  <2>1. c \in Records /\ active' = [active EXCEPT ![c] = 0]
    BY <1>2 DEF TryRecord
  <2>2. CASE active[c] = 1
    <3>1. rec' = [rec EXCEPT ![t] = c] /\ step' = [step EXCEPT ![t] = "load"]
      BY <1>2, <2>2 DEF TryRecord
    <3>2. \A u \in Users : rec[u] # c
      BY <2>1, <2>2
    <3>. HIDE DEF c
    <3>. QED
      BY <1>2, <2>1, <3>1, <3>2 DEF TryRecord
  <2>3. CASE active[c] # 1
    <3>1. UNCHANGED <<rec, step>>
      BY <1>2, <2>3 DEF TryRecord
    <3>. HIDE DEF c
    <3>. QED
      BY <1>2, <2>1, <3>1 DEF TryRecord
  <2>. QED
    BY <2>2, <2>3
<1>3. ASSUME NEW t \in Users, NewRecord(t) PROVE Shown'
  BY <1>3 DEF NewRecord
<1>4. ASSUME NEW t \in Users, ExchangeHead(t) PROVE Shown'
  BY <1>4 DEF ExchangeHead
<1>5. ASSUME NEW t \in Users, LinkRecord(t) PROVE Shown'
  BY <1>5 DEF LinkRecord
<1>6. ASSUME NEW t \in Users, Publish(t) PROVE Shown'
  BY <1>6 DEF Publish
<1>7. ASSUME NEW t \in Users, Flush(t) PROVE Shown'
  BY <1>7 DEF Flush, Show
<1>8. ASSUME NEW t \in Users, Validate(t) PROVE Shown'
  BY <1>8 DEF Validate
<1>9. ASSUME NEW t \in Users, Replace(t) PROVE Shown'
  BY <1>9 DEF Replace
<1>10. ASSUME NEW t \in Users, Leave(t) PROVE Shown'
  BY <1>10 DEF Leave
<1>11. ASSUME NEW t \in Users, Release(t) PROVE Shown'
  BY <1>11 DEF Release, Show
<1>12. ASSUME NEW t \in Users, GrabList(t) PROVE Shown'
  BY <1>12 DEF GrabList
<1>13. ASSUME NEW t \in Users, PushRetired(t) PROVE Shown'
  BY <1>13 DEF PushRetired
<1>14. ASSUME NEW t \in Users, BeginScan(t) PROVE Shown'
  BY <1>14 DEF BeginScan
<1>15. ASSUME NEW t \in Users, Collect(t) PROVE Shown'
  BY <1>15 DEF Collect
<1>16. ASSUME NEW t \in Users, Deallocate(t) PROVE Shown'
  BY <1>16 DEF Deallocate
<1>17. ASSUME NEW t \in Users, ReturnList(t) PROVE Shown'
  BY <1>17 DEF ReturnList
<1>18. CASE UNCHANGED hazardVars
  BY <1>18 DEF hazardVars
<1>. QED
  BY <1>1, <1>2, <1>3, <1>4, <1>5, <1>6, <1>7, <1>8, <1>9, <1>10, <1>11, <1>12, <1>13, <1>14, <1>15, <1>16, <1>17, <1>18 DEF HazardNext, Acquire, UseNode, Retire

LEMMA RetiringStep == HazardTypeOK /\ Holding /\ OneUser /\ Retiring /\ [HazardNext]_hazardVars => Retiring'
<1> SUFFICES ASSUME HazardTypeOK, Holding, OneUser, Retiring, [HazardNext]_hazardVars PROVE Retiring'
  OBVIOUS
<1> USE RecordsAssumption, NullAssumption DEF records, lists, client, history, StepTo, Records, HasRecoverList, HasPointer, HasRecord, HazardTypeOK, Holding, OneUser, Retiring, Leaving
<1>1. ASSUME NEW t \in Users, CallAcquire(t) PROVE Retiring'
  BY <1>1 DEF CallAcquire
<1>2. ASSUME NEW t \in Users, TryRecord(t) PROVE Retiring'
  <2>1. UNCHANGED <<retired, memory, cell, val>> /\ \A u \in Users : Leaving(u)' <=> Leaving(u)
    BY <1>2 DEF TryRecord
  <2>. QED
    BY <2>1
<1>3. ASSUME NEW t \in Users, NewRecord(t) PROVE Retiring'
  BY <1>3 DEF NewRecord
<1>4. ASSUME NEW t \in Users, ExchangeHead(t) PROVE Retiring'
  BY <1>4 DEF ExchangeHead
<1>5. ASSUME NEW t \in Users, LinkRecord(t) PROVE Retiring'
  BY <1>5 DEF LinkRecord
<1>6. ASSUME NEW t \in Users, Publish(t) PROVE Retiring'
  BY <1>6 DEF Publish
<1>7. ASSUME NEW t \in Users, Flush(t) PROVE Retiring'
  BY <1>7 DEF Flush, Show
<1>8. ASSUME NEW t \in Users, Validate(t) PROVE Retiring'
  BY <1>8 DEF Validate
<1>9. ASSUME NEW t \in Users, Replace(t) PROVE Retiring'
  BY <1>9 DEF Replace
<1>10. ASSUME NEW t \in Users, Leave(t) PROVE Retiring'
  BY <1>10 DEF Leave
<1>11. ASSUME NEW t \in Users, Release(t) PROVE Retiring'
  BY <1>11 DEF Release, Show
<1>12. ASSUME NEW t \in Users, GrabList(t) PROVE Retiring'
  BY <1>12 DEF GrabList
<1>13. ASSUME NEW t \in Users, PushRetired(t) PROVE Retiring'
  BY <1>13 DEF PushRetired
<1>14. ASSUME NEW t \in Users, BeginScan(t) PROVE Retiring'
  BY <1>14 DEF BeginScan
<1>15. ASSUME NEW t \in Users, Collect(t) PROVE Retiring'
  BY <1>15 DEF Collect
<1>16. ASSUME NEW t \in Users, Deallocate(t) PROVE Retiring'
  BY <1>16 DEF Deallocate
<1>17. ASSUME NEW t \in Users, ReturnList(t) PROVE Retiring'
  BY <1>17 DEF ReturnList
<1>18. CASE UNCHANGED hazardVars
  BY <1>18 DEF hazardVars
<1>. QED
  BY <1>1, <1>2, <1>3, <1>4, <1>5, <1>6, <1>7, <1>8, <1>9, <1>10, <1>11, <1>12, <1>13, <1>14, <1>15, <1>16, <1>17, <1>18 DEF HazardNext, Acquire, UseNode, Retire

\* A step that leaves the list and the pushes alone leaves RecordsLinked alone.
Pushing(t) == step[t] \in {"exchange", "link"}

LEMMA QuietLinked ==
  ASSUME RecordsLinked, UNCHANGED <<head, nextRec, used>>,
         \A t \in Users : (Pushing(t) \/ Pushing(t)') =>
           UNCHANGED <<step[t], rec[t], cur[t]>>
  PROVE  RecordsLinked'
<1>1. \A r \in Records : Pushed(r)' => Pushed(r)
  BY DEF Pushed, Pushing
<1>2. \A S \in SUBSET Records : Closed(S)' => Closed(S)
  BY DEF Closed
<1>3. \A S \in SUBSET Records : WillBeClosed(S)' => WillBeClosed(S)
  BY DEF WillBeClosed, Pushing
<1>4. \A t \in Users : step'[t] \in {"exchange", "link"} => nextRec'[rec'[t]] = Null
  BY DEF RecordsLinked, Pushing
<1>5. \A t \in Users : step'[t] = "link" => cur'[t] # Null
  BY DEF RecordsLinked, Pushing
<1>. QED
  BY <1>1, <1>2, <1>3, <1>4, <1>5 DEF RecordsLinked, Records

LEMMA LinkedStep == HazardTypeOK /\ Holding /\ OneUser /\ RecordsLinked /\ [HazardNext]_hazardVars => RecordsLinked'
<1> SUFFICES ASSUME HazardTypeOK, Holding, OneUser, RecordsLinked, [HazardNext]_hazardVars PROVE RecordsLinked'
  OBVIOUS
<1> USE RecordsAssumption, NullAssumption DEF records, lists, client, history, StepTo
<1>1. step \in [Users -> {"idle", "walk"} \cup HasRecord]
  BY DEF Holding
<1>2. /\ rec \in [Users -> Records \cup {Null}]
      /\ cur \in [Users -> Records \cup {Null}]
      /\ nextRec \in [Records -> Records \cup {Null}]
      /\ head \in Records /\ used \in Nat
  BY DEF HazardTypeOK
<1>3. ASSUME NEW t \in Users, CallAcquire(t) PROVE RecordsLinked'
  BY <1>1, <1>2, <1>3, QuietLinked DEF CallAcquire, Pushing
<1>4. ASSUME NEW t \in Users, TryRecord(t) PROVE RecordsLinked'
  <2>1. /\ UNCHANGED <<head, nextRec, used>>
        /\ \A u \in Users \ {t} : UNCHANGED <<step[u], rec[u], cur[u]>>
        /\ ~ Pushing(t) /\ ~ Pushing(t)'
    BY <1>1, <1>2, <1>4 DEF TryRecord, Pushing
  <2>. QED
    BY <2>1, QuietLinked
<1>5. ASSUME NEW t \in Users, NewRecord(t) PROVE RecordsLinked'
  <2>1. /\ UNCHANGED <<head, nextRec, cur>> /\ used' = used + 1 /\ used < MaxRecords
        /\ rec' = [rec EXCEPT ![t] = used] /\ step' = [step EXCEPT ![t] = "exchange"]
        /\ step[t] = "walk"
    BY <1>5 DEF NewRecord
  <2>2. \A r \in Records : Pushed(r)' => Pushed(r)
    BY <1>1, <1>2, <2>1 DEF Pushed, Records
  <2>3. \A S \in SUBSET Records : Closed(S)' => Closed(S)
    BY <2>1 DEF Closed
  <2>4. \A S \in SUBSET Records : WillBeClosed(S)' => WillBeClosed(S)
    BY <1>1, <1>2, <2>1 DEF WillBeClosed
  <2>5. \A u \in Users : step'[u] \in {"exchange", "link"} => nextRec'[rec'[u]] = Null
    BY <1>1, <1>2, <2>1 DEF RecordsLinked, Records
  <2>6. \A u \in Users : step'[u] = "link" => cur'[u] # Null
    BY <1>1, <2>1 DEF RecordsLinked
  <2>7. \A r \in Records : r >= used' => nextRec'[r] = Null
    BY <1>2, <2>1 DEF RecordsLinked, Records
  <2>. QED
    BY <2>1, <2>2, <2>3, <2>4, <2>5, <2>6, <2>7 DEF RecordsLinked
<1>6. ASSUME NEW t \in Users, ExchangeHead(t) PROVE RecordsLinked'
  <2>1. /\ UNCHANGED <<nextRec, used, rec>> /\ head' = rec[t]
        /\ step[t] = "exchange" /\ step' = [step EXCEPT ![t] = "link"]
        /\ cur' = [cur EXCEPT ![t] = head]
    BY <1>6 DEF ExchangeHead
  <2>2. ASSUME NEW r \in Records, Pushed(r)', NEW S \in SUBSET Records,
               head' \in S, Closed(S)', WillBeClosed(S)'
        PROVE  r \in S
    <3>1. r = rec[t] \/ Pushed(r)
      BY <1>1, <2>1, <2>2 DEF Pushed
    <3>2. head \in S
      BY <1>1, <1>2, <2>1, <2>2 DEF WillBeClosed
    <3>3. Closed(S)
      BY <2>1, <2>2 DEF Closed
    <3>4. WillBeClosed(S)
      BY <1>1, <1>2, <2>1, <2>2 DEF WillBeClosed
    <3>. QED
      BY <2>1, <2>2, <3>1, <3>2, <3>3, <3>4 DEF RecordsLinked
  <2>3. \A u \in Users : step'[u] \in {"exchange", "link"} => nextRec'[rec'[u]] = Null
    BY <1>1, <2>1 DEF RecordsLinked
  <2>4. \A u \in Users : step'[u] = "link" => cur'[u] # Null
    BY <1>1, <1>2, <2>1 DEF RecordsLinked, Records
  <2>5. \A r \in Records : r >= used' => nextRec'[r] = Null
    BY <2>1 DEF RecordsLinked
  <2>. QED
    BY <2>2, <2>3, <2>4, <2>5 DEF RecordsLinked
<1>7. ASSUME NEW t \in Users, LinkRecord(t) PROVE RecordsLinked'
  <2>1. /\ UNCHANGED <<head, used, rec>> /\ nextRec' = [nextRec EXCEPT ![rec[t]] = cur[t]]
        /\ step[t] = "link" /\ step' = [step EXCEPT ![t] = "load"]
        /\ cur' = [cur EXCEPT ![t] = Null]
    BY <1>7 DEF LinkRecord
  <2>2. /\ rec[t] \in Records /\ rec[t] < used /\ nextRec[rec[t]] = Null /\ cur[t] # Null
        /\ \A u \in Users : u # t => rec[u] # rec[t]
    BY <1>2, <2>1 DEF Holding, HasRecord, OneUser, RecordsLinked
  <2>3. ASSUME NEW r \in Records, Pushed(r)', NEW S \in SUBSET Records,
               head' \in S, Closed(S)', WillBeClosed(S)'
        PROVE  r \in S
    <3>1. Pushed(r)
      BY <1>1, <2>1, <2>3 DEF Pushed
    <3>2. Closed(S)
      BY <1>2, <2>1, <2>2, <2>3 DEF Closed
    <3>3. WillBeClosed(S)
      <4>1. rec[t] \in S => cur[t] \in S
        BY <1>2, <2>1, <2>2, <2>3 DEF Closed
      <4>2. \A u \in Users : u # t /\ step[u] = "link" /\ rec[u] \in S => cur[u] \in S
        BY <1>1, <1>2, <2>1, <2>3 DEF WillBeClosed
      <4>. QED
        BY <4>1, <4>2 DEF WillBeClosed
    <3>. QED
      BY <2>1, <2>3, <3>1, <3>2, <3>3 DEF RecordsLinked
  <2>4. \A u \in Users : step'[u] \in {"exchange", "link"} => nextRec'[rec'[u]] = Null
    BY <1>1, <1>2, <2>1, <2>2 DEF RecordsLinked
  <2>5. \A u \in Users : step'[u] = "link" => cur'[u] # Null
    BY <1>1, <1>2, <2>1 DEF RecordsLinked
  <2>6. \A r \in Records : r >= used' => nextRec'[r] = Null
    BY <1>2, <2>1, <2>2 DEF RecordsLinked, Records
  <2>. QED
    BY <2>3, <2>4, <2>5, <2>6 DEF RecordsLinked
<1>8. ASSUME NEW t \in Users, Publish(t) PROVE RecordsLinked'
  BY <1>1, <1>2, <1>8, QuietLinked DEF Publish, Pushing
<1>9. ASSUME NEW t \in Users, Flush(t) PROVE RecordsLinked'
  BY <1>1, <1>2, <1>9, QuietLinked DEF Flush, Pushing, Show
<1>10. ASSUME NEW t \in Users, Validate(t) PROVE RecordsLinked'
  BY <1>1, <1>2, <1>10, QuietLinked DEF Validate, Pushing
<1>11. ASSUME NEW t \in Users, Replace(t) PROVE RecordsLinked'
  BY <1>1, <1>2, <1>11, QuietLinked DEF Replace, Pushing
<1>12. ASSUME NEW t \in Users, Leave(t) PROVE RecordsLinked'
  BY <1>1, <1>2, <1>12, QuietLinked DEF Leave, Pushing
<1>13. ASSUME NEW t \in Users, Release(t) PROVE RecordsLinked'
  BY <1>1, <1>2, <1>13, QuietLinked DEF Release, Pushing, Show
<1>14. ASSUME NEW t \in Users, GrabList(t) PROVE RecordsLinked'
  BY <1>1, <1>2, <1>14, QuietLinked DEF GrabList, Pushing
<1>15. ASSUME NEW t \in Users, PushRetired(t) PROVE RecordsLinked'
  BY <1>1, <1>2, <1>15, QuietLinked DEF PushRetired, Pushing
<1>16. ASSUME NEW t \in Users, BeginScan(t) PROVE RecordsLinked'
  BY <1>1, <1>2, <1>16, QuietLinked DEF BeginScan, Pushing
<1>17. ASSUME NEW t \in Users, Collect(t) PROVE RecordsLinked'
  BY <1>1, <1>2, <1>17, QuietLinked DEF Collect, Pushing
<1>18. ASSUME NEW t \in Users, Deallocate(t) PROVE RecordsLinked'
  BY <1>1, <1>2, <1>18, QuietLinked DEF Deallocate, Pushing
<1>19. ASSUME NEW t \in Users, ReturnList(t) PROVE RecordsLinked'
  BY <1>1, <1>2, <1>19, QuietLinked DEF ReturnList, Pushing
<1>20. CASE UNCHANGED hazardVars
  BY <1>20, QuietLinked DEF hazardVars, Pushing
<1>. QED
  BY <1>3, <1>4, <1>5, <1>6, <1>7, <1>8, <1>9, <1>10, <1>11, <1>12, <1>13, <1>14, <1>15, <1>16, <1>17, <1>18, <1>19, <1>20
     DEF HazardNext, Acquire, UseNode, Retire

LEMMA HazardIInvNext == HazardIInv /\ [HazardNext]_hazardVars => HazardIInv'
BY HazardTypeStep, HoldingStep, UserStep, ShownStep, RetiringStep, LinkedStep DEF HazardIInv

LEMMA HazardAlways == HazardSpec => []HazardIInv
BY HazardInitIInv, HazardIInvNext, PTL DEF HazardSpec

\* A node is in one recover list and is freed once, and a record and a list have
\* one user, for any number of threads (RetiredOnce).
THEOREM NodesRetiredOnce == HazardSpec => []RetiredOnce
<1>1. HazardIInv => RetiredOnce
  BY DEF HazardIInv, RetiredOnce, Retiring
<1>. QED
  BY HazardAlways, <1>1, PTL

-----------------------------------------------------------------------------
(* The scan                                                                *)

LEMMA InitScanning == HazardInit => Scanning /\ Using
BY DEF HazardInit, Scanning, Using

\* With no push between its steps, the head leads to every pointer that stands.
LEMMA HeadReaches ==
  ASSUME HazardIInv, \A t \in Users : step[t] # "link",
         NEW r \in Records, hazard[r] # Null
  PROVE  Reaches(head, r)
<1> USE DEF HazardIInv, HazardTypeOK
<1>1. PICK t \in Users : rec[t] = r
  BY DEF Shown
<1>2. r < used /\ step[t] # "exchange"
  BY <1>1, NullAssumption DEF Holding, Shown, Records
<1>3. Pushed(r)
  BY <1>1, <1>2, NullAssumption DEF Pushed, OneUser, Records
<1>4. \A S \in SUBSET Records : WillBeClosed(S)
  BY DEF WillBeClosed
<1>. QED
  BY <1>3, <1>4 DEF RecordsLinked, Reaches

\* From a record, everything but itself is reached from the next one.
LEMMA NextReaches ==
  ASSUME HazardTypeOK, NEW c \in Records, NEW r \in Records, Reaches(c, r), r # c
  PROVE  nextRec[c] # Null /\ Reaches(nextRec[c], r)
<1>1. nextRec[c] \in Records \cup {Null}
  BY DEF HazardTypeOK
<1>2. nextRec[c] # Null
  <2>1. nextRec[c] = Null => Closed({c})
    BY DEF Closed
  <2>. QED
    BY <2>1 DEF Reaches
<1>3. ASSUME NEW S \in SUBSET Records, nextRec[c] \in S, Closed(S) PROVE r \in S
  <2>1. Closed(S \cup {c})
    BY <1>3 DEF Closed
  <2>. QED
    BY <2>1 DEF Reaches
<1>. QED
  BY <1>2, <1>3 DEF Reaches

\* No step takes a record out of the reach of another.
LEMMA ReachesStays ==
  ASSUME HazardTypeOK, RecordsLinked, Holding, [HazardNext]_hazardVars, NEW c \in Records, NEW r \in Records, Reaches(c, r)
  PROVE  Reaches(c, r)'
<1>1. \A k \in Records : nextRec[k] # Null => nextRec'[k] = nextRec[k]
  <2> USE DEF records, lists, client, history
  <2>1. ASSUME NEW t \in Users, LinkRecord(t) PROVE \A k \in Records : nextRec[k] # Null => nextRec'[k] = nextRec[k]
    BY <2>1 DEF LinkRecord, RecordsLinked, HazardTypeOK
  <2>2. ASSUME NEW t \in Users, Acquire(t), ~ LinkRecord(t) PROVE UNCHANGED nextRec
    BY <2>2 DEF Acquire, CallAcquire, TryRecord, NewRecord, ExchangeHead
  <2>3. ASSUME NEW t \in Users, UseNode(t) PROVE UNCHANGED nextRec
    BY <2>3 DEF UseNode, Publish, Flush, Validate, Replace, Leave, Release
  <2>4. ASSUME NEW t \in Users, Retire(t) PROVE UNCHANGED nextRec
    BY <2>4 DEF Retire, GrabList, PushRetired, BeginScan, Collect, Deallocate, ReturnList
  <2>. QED
    BY <2>1, <2>2, <2>3, <2>4 DEF HazardNext, hazardVars
<1>2. \A S \in SUBSET Records : Closed(S)' => Closed(S)
  BY <1>1 DEF Closed
<1>. QED
  BY <1>2 DEF Reaches

\* A step after which the scans are where they were, and owe no more
LEMMA QuietScanning ==
  ASSUME HazardIInv, Scanning, [HazardNext]_hazardVars, UNCHANGED cutOff,
         \A t \in Users : step'[t] = "collect" => UNCHANGED <<step[t], cur[t], seen[t]>>,
         \A t \in Users : \A r \in owed'[t] : r \in owed[t] /\ hazard'[r] = hazard[r]
  PROVE  Scanning'
<1>1. \A t \in Users : \A r \in owed'[t] : hazard'[r] # Null
  BY DEF Scanning
<1>2. ASSUME ~ cutOff', NEW t \in Users, step'[t] = "collect", NEW r \in owed'[t],
             ~ (hazard'[r] \in seen'[t])
      PROVE  cur'[t] # Null /\ Reaches(cur[t], r)'
  <2>1. cur'[t] = cur[t] /\ cur[t] # Null /\ Reaches(cur[t], r)
    BY <1>2 DEF Scanning
  <2>2. cur[t] \in Records /\ r \in Records
    BY <1>2, <2>1 DEF HazardIInv, HazardTypeOK
  <2>. QED
    BY <2>1, <2>2, ReachesStays DEF HazardIInv
<1>. QED
  BY <1>1, <1>2 DEF Scanning

LEMMA ScanningStep == HazardIInv /\ Scanning /\ [HazardNext]_hazardVars => Scanning'
<1> SUFFICES ASSUME HazardIInv, Scanning, [HazardNext]_hazardVars PROVE Scanning'
  OBVIOUS
<1> USE DEF records, lists, client, history, StepTo
<1>1. step \in [Users -> {"idle", "walk"} \cup HasRecord]
  BY DEF HazardIInv, Holding
<1>2. /\ cur \in [Users -> Records \cup {Null}]
      /\ seen \in [Users -> SUBSET Objects]
      /\ owed \in [Users -> SUBSET Records]
      /\ hazard \in [Records -> Objects \cup {Null}]
      /\ rec \in [Users -> Records \cup {Null}]
      /\ head \in Records
  BY DEF HazardIInv, HazardTypeOK
<1>3. ASSUME NEW t \in Users, CallAcquire(t) PROVE Scanning'
  BY <1>1, <1>2, <1>3, QuietScanning DEF CallAcquire
<1>4. ASSUME NEW t \in Users, TryRecord(t) PROVE Scanning'
  BY <1>1, <1>2, <1>4, QuietScanning DEF TryRecord
<1>5. ASSUME NEW t \in Users, NewRecord(t) PROVE Scanning'
  BY <1>1, <1>2, <1>5, QuietScanning DEF NewRecord
<1>6. ASSUME NEW t \in Users, ExchangeHead(t) PROVE Scanning'
  BY <1>1, <1>2, <1>6, QuietScanning DEF ExchangeHead
<1>7. ASSUME NEW t \in Users, LinkRecord(t) PROVE Scanning'
  BY <1>1, <1>2, <1>7, QuietScanning DEF LinkRecord
<1>8. ASSUME NEW t \in Users, Publish(t) PROVE Scanning'
  BY <1>1, <1>2, <1>8, QuietScanning DEF Publish
<1>9. ASSUME NEW t \in Users, Flush(t) PROVE Scanning'
  BY <1>1, <1>2, <1>9, QuietScanning DEF Flush, Show
<1>10. ASSUME NEW t \in Users, Validate(t) PROVE Scanning'
  BY <1>1, <1>2, <1>10, QuietScanning DEF Validate
<1>11. ASSUME NEW t \in Users, Replace(t) PROVE Scanning'
  BY <1>1, <1>2, <1>11, QuietScanning DEF Replace
<1>12. ASSUME NEW t \in Users, Leave(t) PROVE Scanning'
  BY <1>1, <1>2, <1>12, QuietScanning DEF Leave
<1>13. ASSUME NEW t \in Users, Release(t) PROVE Scanning'
  BY <1>1, <1>2, <1>13, QuietScanning DEF Release, Show
<1>14. ASSUME NEW t \in Users, GrabList(t) PROVE Scanning'
  BY <1>1, <1>2, <1>14, QuietScanning DEF GrabList
<1>15. ASSUME NEW t \in Users, PushRetired(t) PROVE Scanning'
  BY <1>1, <1>2, <1>15, QuietScanning DEF PushRetired
<1>16. ASSUME NEW t \in Users, BeginScan(t) PROVE Scanning'
  <2>1. /\ step' = [step EXCEPT ![t] = "collect"] /\ cur' = [cur EXCEPT ![t] = head]
        /\ seen' = [seen EXCEPT ![t] = {}] /\ UNCHANGED hazard
        /\ owed' = [owed EXCEPT ![t] = {r \in Records : hazard[r] # Null}]
        /\ cutOff' = (cutOff \/ \E u \in Users : step[u] = "link")
    BY <1>16 DEF BeginScan
  <2>2. \A u \in Users : \A r \in owed'[u] : hazard'[r] # Null
    BY <1>2, <2>1 DEF Scanning
  <2>3. ASSUME ~ cutOff', NEW u \in Users, step'[u] = "collect", NEW r \in owed'[u],
               ~ (hazard'[r] \in seen'[u])
        PROVE  cur'[u] # Null /\ Reaches(cur[u], r)'
    <3>1. CASE u = t
      <4>1. r \in Records /\ hazard[r] # Null /\ \A v \in Users : step[v] # "link"
        BY <1>2, <2>1, <2>3, <3>1
      <4>2. PICK c \in Records : c = head
        BY <1>2
      <4>3. Reaches(c, r)
        BY <4>1, <4>2, HeadReaches
      <4>4. Reaches(c, r)'
        BY <4>1, <4>3, ReachesStays DEF HazardIInv
      <4>5. cur'[u] = c
        BY <1>2, <2>1, <3>1, <4>2
      <4>. QED
        BY <4>4, <4>5, NullAssumption DEF Records
    <3>2. CASE u # t
      <4>1. /\ ~ cutOff /\ step[u] = "collect" /\ cur'[u] = cur[u] /\ r \in owed[u]
            /\ ~ (hazard[r] \in seen[u]) /\ r \in Records
        BY <1>1, <1>2, <2>1, <2>3, <3>2
      <4>2. PICK c \in Records : c = cur[u]
        BY <1>2, <4>1 DEF Scanning
      <4>3. Reaches(c, r)
        BY <4>1, <4>2 DEF Scanning
      <4>4. Reaches(c, r)'
        BY <4>1, <4>3, ReachesStays DEF HazardIInv
      <4>. QED
        BY <4>1, <4>2, <4>4, NullAssumption DEF Records
    <3>. QED
      BY <3>1, <3>2
  <2>. QED
    BY <2>2, <2>3 DEF Scanning
<1>17. ASSUME NEW t \in Users, Collect(t) PROVE Scanning'
  <2>1. /\ step[t] = "collect" /\ cur[t] # Null /\ cur' = [cur EXCEPT ![t] = nextRec[cur[t]]]
        /\ seen' = [seen EXCEPT ![t] = @ \cup ({hazard[cur[t]]} \ {Null})]
        /\ UNCHANGED <<step, owed, hazard, cutOff, nextRec>>
    BY <1>17 DEF Collect
  <2>2. \A u \in Users : \A r \in owed'[u] : hazard'[r] # Null
    BY <2>1 DEF Scanning
  <2>3. ASSUME ~ cutOff', NEW u \in Users, step'[u] = "collect", NEW r \in owed'[u],
               ~ (hazard'[r] \in seen'[u])
        PROVE  cur'[u] # Null /\ Reaches(cur[u], r)'
    <3>1. ~ cutOff /\ step[u] = "collect" /\ r \in owed[u] /\ r \in Records /\ hazard[r] # Null
      BY <1>2, <2>1, <2>3 DEF Scanning
    <3>2. ~ (hazard[r] \in seen[u])
      BY <1>2, <2>1, <2>3
    <3>3. cur[u] \in Records /\ Reaches(cur[u], r)
      BY <1>2, <3>1, <3>2 DEF Scanning
    <3>4. CASE u = t
      <4>1. r # cur[t]
        BY <1>2, <2>1, <2>3, <3>1, <3>4
      <4>2. nextRec[cur[t]] # Null /\ Reaches(nextRec[cur[t]], r)
        BY <3>1, <3>3, <3>4, <4>1, NextReaches DEF HazardIInv
      <4>3. PICK c \in Records : c = nextRec[cur[t]]
        BY <3>3, <3>4, <4>2 DEF HazardIInv, HazardTypeOK
      <4>4. Reaches(c, r)'
        BY <3>1, <4>2, <4>3, ReachesStays DEF HazardIInv
      <4>5. cur'[u] = c
        BY <1>2, <2>1, <3>4, <4>3
      <4>. QED
        BY <4>4, <4>5, NullAssumption DEF Records
    <3>5. CASE u # t
      <4>1. PICK c \in Records : c = cur[u]
        BY <3>3
      <4>2. cur'[u] = c
        BY <1>2, <2>1, <3>5, <4>1
      <4>3. Reaches(c, r)'
        BY <3>1, <3>3, <4>1, ReachesStays DEF HazardIInv
      <4>. QED
        BY <4>2, <4>3, NullAssumption DEF Records
    <3>. QED
      BY <3>4, <3>5
  <2>. QED
    BY <2>2, <2>3 DEF Scanning
<1>18. ASSUME NEW t \in Users, Deallocate(t) PROVE Scanning'
  BY <1>1, <1>2, <1>18, QuietScanning DEF Deallocate
<1>19. ASSUME NEW t \in Users, ReturnList(t) PROVE Scanning'
  BY <1>1, <1>2, <1>19, QuietScanning DEF ReturnList
<1>20. CASE UNCHANGED hazardVars
  BY <1>20, QuietScanning DEF hazardVars
<1>. QED
  BY <1>3, <1>4, <1>5, <1>6, <1>7, <1>8, <1>9, <1>10, <1>11, <1>12, <1>13, <1>14, <1>15, <1>16, <1>17, <1>18, <1>19, <1>20
     DEF HazardNext, Acquire, UseNode, Retire

\* A scan that began while every record was linked misses no pointer that stood
\* all the time (LinkedScanCollects), for any number of records and threads.
THEOREM ScanMissesNothing == HazardSpec => []LinkedScanCollects
<1>1. Scanning => LinkedScanCollects
  BY DEF Scanning, LinkedScanCollects
<1>. QED
  BY HazardAlways, InitScanning, ScanningStep, <1>1, PTL DEF HazardSpec

-----------------------------------------------------------------------------
(* The nodes that are in use                                               *)

LEMMA UsingStep == HazardIInv /\ Scanning /\ Using /\ [HazardNext]_hazardVars => Using'
<1> SUFFICES ASSUME HazardIInv, Scanning, Using, [HazardNext]_hazardVars PROVE Using'
  OBVIOUS
<1> USE NullAssumption DEF records, lists, client, history, StepTo
<1>1. step \in [Users -> {"idle", "walk"} \cup HasRecord]
  BY DEF HazardIInv, Holding
<1>2. /\ val \in [Users -> Objects \cup {Null}]
      /\ rec \in [Users -> Records \cup {Null}]
      /\ rlist \in [Users -> Lists \cup {Null}]
      /\ buf \in [Users -> BOOLEAN]
      /\ owed \in [Users -> SUBSET Records]
      /\ seen \in [Users -> SUBSET Objects]
      /\ hazard \in [Records -> Objects \cup {Null}]
      /\ retired \in [Lists -> SUBSET Objects]
      /\ memory \in [Objects -> {"live", "retired", "free"}]
  BY DEF HazardIInv, HazardTypeOK
<1>3. /\ \A t \in Users : step[t] = "use" => val[t] \in Objects /\ rec[t] \in Records
      /\ \A t \in Users : step[t] \in HasRecoverList => rlist[t] \in Lists
      /\ \A t, u \in Users : t # u /\ rec[t] # Null => rec[t] # rec[u]
      /\ \A t, u \in Users : t # u /\ rlist[t] # Null => rlist[t] # rlist[u]
  BY <1>2 DEF HazardIInv, Holding, OneUser, HasRecord, HasPointer, HasRecoverList
<1>4. \A l \in Lists : \A n \in retired[l] : memory[n] = "retired"
  BY DEF HazardIInv, Retiring
<1>5. ASSUME NEW t \in Users, CallAcquire(t) PROVE Using'
  BY <1>1, <1>2, <1>3, <1>4, <1>5 DEF Using, CallAcquire
<1>6. ASSUME NEW t \in Users, TryRecord(t) PROVE Using'
  BY <1>1, <1>2, <1>3, <1>4, <1>6 DEF Using, TryRecord
<1>7. ASSUME NEW t \in Users, NewRecord(t) PROVE Using'
  BY <1>1, <1>2, <1>3, <1>4, <1>7 DEF Using, NewRecord
<1>8. ASSUME NEW t \in Users, ExchangeHead(t) PROVE Using'
  BY <1>1, <1>2, <1>3, <1>4, <1>8 DEF Using, ExchangeHead
<1>9. ASSUME NEW t \in Users, LinkRecord(t) PROVE Using'
  BY <1>1, <1>2, <1>3, <1>4, <1>9 DEF Using, LinkRecord
<1>10. ASSUME NEW t \in Users, Publish(t) PROVE Using'
  BY <1>1, <1>2, <1>3, <1>4, <1>10 DEF Using, Publish
<1>11. ASSUME NEW t \in Users, Flush(t) PROVE Using'
  <2>1. /\ buf[t] /\ buf' = [buf EXCEPT ![t] = FALSE]
        /\ owed' = [u \in Users |-> owed[u] \ {rec[t]}]
        /\ UNCHANGED <<cutOff, late, step, val, memory, retired, rlist, rec>>
    BY <1>11 DEF Flush, Show
  <2>2. ASSUME ~ cutOff, ~ late, NEW u \in Users, step[u] = "use", NEW v \in Users,
               step[v] = "collect", val[u] \in retired[rlist[v]]
        PROVE  rec[u] \in owed'[v] /\ ~ buf'[u]
    <3>1. rec[u] \in owed[v] /\ ~ buf[u]
      BY <2>2 DEF Using
    <3>2. u # t /\ rec[u] # rec[t]
      BY <1>2, <1>3, <2>1, <2>2, <3>1 DEF Records
    <3>. QED
      BY <1>2, <2>1, <3>1, <3>2
  <2>. QED
    BY <2>1, <2>2 DEF Using
<1>12. ASSUME NEW t \in Users, Validate(t) PROVE Using'
  <2>1. /\ step[t] = "check" /\ step' = [step EXCEPT ![t] = IF cell = val[t] THEN "use" ELSE "load"]
        /\ UNCHANGED <<cutOff, late, val, memory, retired, rlist, rec, owed, buf>>
    BY <1>12 DEF Validate
  <2>2. \A u \in Users : step'[u] = "collect" => step[u] = "collect" /\ rlist[u] \in Lists
    BY <1>1, <1>3, <2>1 DEF HasRecoverList
  <2>3. step'[t] = "use" =>
          memory[val[t]] = "live" /\ \A l \in Lists : val[t] \notin retired[l]
    BY <1>1, <1>4, <2>1 DEF HazardIInv, Retiring
  <2>4. \A u \in Users : u # t /\ step'[u] = "use" => step[u] = "use"
    BY <1>1, <2>1
  <2>. QED
    BY <2>1, <2>2, <2>3, <2>4 DEF Using
<1>13. ASSUME NEW t \in Users, Replace(t) PROVE Using'
  BY <1>1, <1>2, <1>3, <1>4, <1>13 DEF Using, Replace
<1>14. ASSUME NEW t \in Users, Leave(t) PROVE Using'
  BY <1>1, <1>2, <1>3, <1>4, <1>14 DEF Using, Leave
<1>15. ASSUME NEW t \in Users, Release(t) PROVE Using'
  <2>1. /\ step[t] = "release" /\ step' = [step EXCEPT ![t] = "idle"]
        /\ owed' = [u \in Users |-> owed[u] \ {rec[t]}]
        /\ rec' = [rec EXCEPT ![t] = Null] /\ val' = [val EXCEPT ![t] = Null]
        /\ UNCHANGED <<cutOff, late, memory, retired, rlist, buf>>
    BY <1>15 DEF Release, Show
  <2>2. \A u \in Users : step'[u] \in {"use", "collect"} =>
          u # t /\ step'[u] = step[u] /\ rec'[u] = rec[u] /\ val'[u] = val[u]
    BY <1>1, <1>2, <2>1
  <2>3. \A u \in Users : step[u] = "use" => rec[u] # rec[t]
    BY <1>2, <1>3, <2>1 DEF Records
  <2>. QED
    BY <1>2, <2>1, <2>2, <2>3 DEF Using
<1>16. ASSUME NEW t \in Users, GrabList(t) PROVE Using'
  BY <1>1, <1>2, <1>3, <1>4, <1>16 DEF Using, GrabList
<1>17. ASSUME NEW t \in Users, PushRetired(t) PROVE Using'
  BY <1>1, <1>2, <1>3, <1>4, <1>17 DEF Using, PushRetired
<1>18. ASSUME NEW t \in Users, BeginScan(t) PROVE Using'
  <2>1. /\ step[t] = "scan" /\ step' = [step EXCEPT ![t] = "collect"]
        /\ owed' = [owed EXCEPT ![t] = {r \in Records : hazard[r] # Null}]
        /\ cutOff' = (cutOff \/ \E u \in Users : step[u] = "link")
        /\ late' = (late \/ \E u \in Users : buf[u] /\ step[u] = "use")
        /\ UNCHANGED <<val, memory, retired, rlist, buf, rec>>
    BY <1>18 DEF BeginScan
  <2>2. ASSUME ~ cutOff', ~ late', NEW u \in Users, step'[u] = "use"
        PROVE  /\ step[u] = "use" /\ memory[val[u]] # "free"
               /\ ~ buf[u] /\ rec[u] \in owed'[t]
    <3>1. step[u] = "use" /\ ~ buf[u] /\ ~ cutOff /\ ~ late
      BY <1>1, <2>1, <2>2
    <3>2. rec[u] \in Records /\ hazard[rec[u]] = val[u] /\ val[u] # Null
      BY <1>3, <3>1 DEF HazardIInv, Shown, Records
    <3>3. memory[val[u]] # "free"
      BY <3>1 DEF Using
    <3>. QED
      BY <1>2, <2>1, <3>1, <3>2, <3>3
  <2>3. \A v \in Users : v # t => step'[v] = step[v] /\ owed'[v] = owed[v]
    BY <1>1, <1>2, <2>1
  <2>. QED
    BY <2>1, <2>2, <2>3 DEF Using
<1>19. ASSUME NEW t \in Users, Collect(t) PROVE Using'
  BY <1>1, <1>2, <1>3, <1>4, <1>19 DEF Using, Collect
<1>20. ASSUME NEW t \in Users, Deallocate(t) PROVE Using'
  <2>1. /\ step[t] = "collect" /\ cur[t] = Null
        /\ memory' = [n \in Objects |-> IF n \in retired[rlist[t]] \ seen[t] THEN "free" ELSE memory[n]]
        /\ retired' = [retired EXCEPT ![rlist[t]] = @ \cap seen[t]]
        /\ owed' = [owed EXCEPT ![t] = {}] /\ step' = [step EXCEPT ![t] = "return"]
        /\ UNCHANGED <<cutOff, late, val, rlist, buf, rec>>
    BY <1>20 DEF Deallocate
  <2>2. \A u \in Users : step'[u] \in {"use", "collect"} =>
          u # t /\ step'[u] = step[u] /\ owed'[u] = owed[u]
    BY <1>1, <1>2, <2>1
  <2>3. \A l \in Lists : retired'[l] \subseteq retired[l]
    BY <1>2, <2>1
  <2>4. ASSUME ~ cutOff, ~ late, NEW u \in Users, step[u] = "use"
        PROVE  memory'[val[u]] # "free"
    <3>1. memory[val[u]] # "free" /\ val[u] \in Objects
      BY <1>3, <2>4 DEF Using
    <3>2. ASSUME val[u] \in retired[rlist[t]] PROVE val[u] \in seen[t]
      <4>1. rec[u] \in owed[t] /\ ~ buf[u] /\ rec[u] \in Records
        BY <1>3, <2>1, <2>4, <3>2 DEF Using
      <4>2. hazard[rec[u]] = val[u]
        BY <4>1, NullAssumption DEF HazardIInv, Shown, Records
      <4>3. hazard[rec[u]] \in seen[t]
        BY <2>1, <2>4, <4>1 DEF Scanning
      <4>. QED
        BY <4>2, <4>3
    <3>. QED
      BY <2>1, <3>1, <3>2
  <2>5. \A u \in Users : step[u] = "collect" => rlist[u] \in Lists
    BY <1>3 DEF HasRecoverList
  <2>. QED
    BY <2>1, <2>2, <2>3, <2>4, <2>5 DEF Using
<1>21. ASSUME NEW t \in Users, ReturnList(t) PROVE Using'
  BY <1>1, <1>2, <1>3, <1>4, <1>21 DEF Using, ReturnList
<1>22. CASE UNCHANGED hazardVars
  BY <1>22 DEF Using, hazardVars
<1>. QED
  BY <1>5, <1>6, <1>7, <1>8, <1>9, <1>10, <1>11, <1>12, <1>13, <1>14, <1>15, <1>16, <1>17, <1>18, <1>19, <1>20, <1>21, <1>22
     DEF HazardNext, Acquire, UseNode, Retire

\* No node is freed while a thread that validated it uses it, but through the two
\* gaps that NoFreedInUse names, for any number of threads, nodes and records.
THEOREM NodesInUseStay == HazardSpec => []NoFreedInUse
<1>1. Using => NoFreedInUse
  BY DEF Using, NoFreedInUse
<1>. QED
  BY HazardAlways, InitScanning, ScanningStep, UsingStep, <1>1, PTL DEF HazardSpec

-----------------------------------------------------------------------------
(* The records on the list                                                 *)

\* f[k] has the records that the head leads to in at most k steps, for k <= n.
Walk(f, n) ==
  f = [k \in 0 .. n |-> IF k = 0 THEN {head}
                        ELSE f[k - 1] \cup ({nextRec[r] : r \in f[k - 1]} \ {Null})]

\* There is such a function: the recursion of Reached defines one.
LEMMA WalkExists ==
  ASSUME NEW n \in Nat
  PROVE  \E f : Walk(f, n)
<1> DEFINE P == {k \in Nat : \E f : Walk(f, k)}
           more(A) == A \cup ({nextRec[r] : r \in A} \ {Null})
<1>1. 0 \in P
  <2>1. Walk([k \in 0 .. 0 |-> {head}], 0)
    BY DEF Walk
  <2>. QED BY <2>1
<1>2. ASSUME NEW k \in Nat, k \in P PROVE k + 1 \in P
  <2>1. PICK f : Walk(f, k)
    BY <1>2
  <2>. DEFINE g == [i \in 0 .. k + 1 |-> IF i = k + 1 THEN more(f[k]) ELSE f[i]]
  <2>2. \A i \in 0 .. k : f[i] = IF i = 0 THEN {head} ELSE more(f[i - 1])
    BY <2>1 DEF Walk
  <2>3. g[k + 1] = more(f[k]) /\ \A i \in 0 .. k : g[i] = f[i]
    OBVIOUS
  <2>4. g = [i \in 0 .. k + 1 |-> g[i]]
    OBVIOUS
  <2>. HIDE DEF g
  <2>5. \A i \in 0 .. k + 1 : g[i] = IF i = 0 THEN {head} ELSE more(g[i - 1])
    <3>. SUFFICES ASSUME NEW i \in 0 .. k + 1
                  PROVE  g[i] = IF i = 0 THEN {head} ELSE more(g[i - 1])
      OBVIOUS
    <3>. HIDE DEF more
    <3>1. CASE i = k + 1
      BY <2>3, <3>1
    <3>2. CASE i = 0
      BY <2>2, <2>3, <3>2
    <3>3. CASE i \in 0 .. k /\ i # 0
      <4>1. i - 1 \in 0 .. k
        BY <3>3
      <4>. QED BY <2>2, <2>3, <3>3, <4>1
    <3>. QED BY <3>1, <3>2, <3>3
  <2>6. Walk(g, k + 1)
    BY <2>4, <2>5 DEF Walk
  <2>. QED BY <2>6
<1>3. Nat \subseteq P
  <2>. HIDE DEF P
  <2>. QED BY <1>1, <1>2, SetInduction
<1>. QED BY <1>3

\* Until it comes to a closed set, the walk finds a record with every step: after
\* MaxRecords steps there is none left.
LEMMA WalkCloses ==
  ASSUME HazardTypeOK, NEW f, Walk(f, MaxRecords)
  PROVE  f[MaxRecords] \in SUBSET Records /\ head \in f[MaxRecords] /\ Closed(f[MaxRecords])
<1> DEFINE more(A) == A \cup ({nextRec[r] : r \in A} \ {Null})
           P == {k \in Nat : k <= MaxRecords =>
                   /\ f[k] \in SUBSET Records /\ head \in f[k]
                   /\ Closed(f[k]) \/ Cardinality(f[k]) > k}
<1>1. MaxRecords \in Nat /\ \A k \in 0 .. MaxRecords : f[k] = IF k = 0 THEN {head} ELSE more(f[k - 1])
  BY RecordsAssumption DEF Walk
<1>2. IsFiniteSet(Records) /\ Cardinality(Records) = MaxRecords
  <2>1. 0 \in Int /\ MaxRecords - 1 \in Int /\ MaxRecords \in Nat \ {0}
    BY RecordsAssumption
  <2>. QED BY <2>1, FS_Interval DEF Records
<1>3. 0 \in P
  <2>1. f[0] = {head} /\ head \in Records
    <3>1. 0 \in 0 .. MaxRecords
      BY <1>1
    <3>. HIDE DEF more
    <3>. QED BY <1>1, <3>1 DEF HazardTypeOK
  <2>2. Cardinality({head}) = 1
    BY FS_Singleton
  <2>. QED BY <2>1, <2>2
<1>4. ASSUME NEW k \in Nat, k \in P PROVE k + 1 \in P
  <2>. SUFFICES ASSUME k + 1 <= MaxRecords
                PROVE  /\ f[k + 1] \in SUBSET Records /\ head \in f[k + 1]
                       /\ Closed(f[k + 1]) \/ Cardinality(f[k + 1]) > k + 1
    OBVIOUS
  <2>1. f[k] \in SUBSET Records /\ head \in f[k] /\ (Closed(f[k]) \/ Cardinality(f[k]) > k)
    BY <1>1, <1>4
  <2>2. f[k + 1] = more(f[k])
    <3>1. k + 1 \in 0 .. MaxRecords /\ k + 1 # 0 /\ (k + 1) - 1 = k
      BY <1>1
    <3>. HIDE DEF more
    <3>. QED BY <1>1, <3>1
  <2>3. f[k + 1] \in SUBSET Records /\ head \in f[k + 1] /\ f[k] \subseteq f[k + 1]
    BY <2>1, <2>2 DEF HazardTypeOK
  <2>4. CASE Closed(f[k])
    <3>1. f[k + 1] = f[k]
      BY <2>2, <2>4 DEF Closed
    <3>. QED BY <2>3, <2>4, <3>1
  <2>5. CASE ~ Closed(f[k])
    <3>1. f[k + 1] # f[k]
      BY <2>2, <2>5 DEF Closed
    <3>2. IsFiniteSet(f[k + 1])
      BY <1>2, <2>3, FS_Subset
    <3>3. Cardinality(f[k]) < Cardinality(f[k + 1])
      <4>1. Cardinality(f[k]) <= Cardinality(f[k + 1]) /\ Cardinality(f[k]) # Cardinality(f[k + 1])
        BY <2>3, <3>1, <3>2, FS_Subset
      <4>2. IsFiniteSet(f[k])
        BY <1>2, <2>1, FS_Subset
      <4>3. Cardinality(f[k]) \in Nat /\ Cardinality(f[k + 1]) \in Nat
        BY <3>2, <4>2, FS_CardinalityType
      <4>. QED BY <4>1, <4>3
    <3>4. IsFiniteSet(f[k])
      BY <1>2, <2>1, FS_Subset
    <3>5. Cardinality(f[k]) \in Nat /\ Cardinality(f[k + 1]) \in Nat
      BY <3>2, <3>4, FS_CardinalityType
    <3>. QED BY <2>1, <2>3, <2>5, <3>3, <3>5
  <2>. QED BY <2>4, <2>5
<1>5. Nat \subseteq P
  <2>. HIDE DEF P
  <2>. QED BY <1>3, <1>4, SetInduction
<1>6. /\ f[MaxRecords] \in SUBSET Records /\ head \in f[MaxRecords]
      /\ Closed(f[MaxRecords]) \/ Cardinality(f[MaxRecords]) > MaxRecords
  BY <1>1, <1>5
<1>7. Cardinality(f[MaxRecords]) <= MaxRecords
  BY <1>2, <1>6, FS_Subset
<1>8. Cardinality(f[MaxRecords]) \in Nat
  BY <1>2, <1>6, FS_Subset, FS_CardinalityType
<1>. QED BY <1>1, <1>6, <1>7, <1>8

\* What Reached finds
LEMMA ReachedCloses ==
  ASSUME HazardTypeOK
  PROVE  Reached \in SUBSET Records /\ head \in Reached /\ Closed(Reached)
<1> DEFINE f == CHOOSE f : f = [k \in 0 .. MaxRecords |->
                  IF k = 0 THEN {head}
                  ELSE f[k - 1] \cup ({nextRec[r] : r \in f[k - 1]} \ {Null})]
<1>1. Walk(f, MaxRecords)
  BY WalkExists, RecordsAssumption DEF Walk
<1>2. Reached = f[MaxRecords]
  BY DEF Reached
<1>. HIDE DEF f
<1>. QED BY <1>1, <1>2, WalkCloses

\* With no push between its steps, every record that was pushed is on the list
\* (NoRecordLost), for any number of threads and records.
THEOREM RecordsAreNotLost == HazardSpec => []NoRecordLost
<1>1. HazardIInv => NoRecordLost
  <2>. SUFFICES ASSUME HazardIInv, \A t \in Users : step[t] # "link",
                       NEW r \in Records, r < used,
                       r \notin {rec[t] : t \in {u \in Users : step[u] = "exchange"}}
                PROVE  r \in Reached
    BY DEF NoRecordLost
  <2>1. Pushed(r)
    BY DEF Pushed
  <2>2. WillBeClosed(Reached)
    BY DEF WillBeClosed
  <2>. QED BY <2>1, <2>2, ReachedCloses DEF HazardIInv, RecordsLinked
<1>. QED
  BY HazardAlways, <1>1, PTL

=============================================================================
