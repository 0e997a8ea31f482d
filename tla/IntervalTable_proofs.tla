------------------------ MODULE IntervalTable_proofs ------------------------
(***************************************************************************)
(* For any number of threads, keys and operations: no two threads write    *)
(* one node, _size counts the keys, and as long as no insert was promoted  *)
(* the bucket's word counts its locks.                                     *)
(*                                                                         *)
(* The argument: a node's word is -1 when set or erase has it, and at      *)
(* least the number of threads that read it or write it as insert does, so *)
(* that neither begins while the other is there.  Whatever the bucket's    *)
(* word has become, a node goes to erased only under its own word -1 and   *)
(* back only by a compare-and-swap, so _size and the nodes that are not    *)
(* erased differ by what threads have still to count and by the lost races;*)
(* an insert that finds a map only adds to it.  While the bucket's word is *)
(* only added to and subtracted from, each step that changes what it counts*)
(* changes it by as much.                                                  *)
(***************************************************************************)
EXTENDS IntervalTable, FiniteSetTheorems, TLAPS

\* The threads that share a node's word, and those that write the node
ReadingSteps == {"read", "each_read", "revive_write", "revive_write2"}
AuthorSteps == {"write", "erase", "revive_write", "revive_write2"}
NodeSteps == ReadingSteps \cup AuthorSteps \cup
               {"node_shared", "node_unique", "old_node", "old_node2", "revive", "revive2"}
Steps == SharedSteps \cup UpgradeSteps \cup AwaitSteps \cup UniqueSteps \cup
           {"idle", "shared", "upgrade"}

Types ==
  /\ bflag \in Int /\ hasMap \in BOOLEAN /\ size \in Int
  /\ nodes \in 0 .. MaxNodes
  /\ map \in [Keys -> 1 .. nodes \cup {None}]
  /\ nflag \in [Nodes -> Int]
  /\ pc \in [Threads -> Steps]
  /\ op \in [Threads -> AllOps]
  /\ key \in [Threads -> Keys \cup {None}]
  /\ node \in [Threads -> 1 .. nodes \cup {None}]
  /\ old \in [Threads -> Int]
  /\ saw \in [Threads -> BOOLEAN]
  /\ todo \in [Threads -> SUBSET (1 .. nodes)]
  /\ calls \in [Threads -> 0 .. MaxOps]
  /\ leaked \in Nat /\ lostRace \in Nat /\ promoted \in BOOLEAN

LocalOK(t) ==
  /\ pc[t] # "idle" => calls[t] >= 1 /\ key[t] \in Keys
  /\ pc[t] \in NodeSteps => node[t] # None
  /\ pc[t] \in {"find", "node_shared", "read", "node_unique", "write", "erase", "unshare"}
       => op[t] \in {"search", "set", "erase"}
  /\ pc[t] \in {"node_unique", "write", "erase"} => op[t] \in {"set", "erase"}
  /\ pc[t] = "erase" => op[t] = "erase"
  /\ pc[t] = "write" => op[t] = "set"
  /\ pc[t] \in {"node_shared", "read"} => op[t] = "search"
  /\ pc[t] \in {"each", "each_read"} => op[t] = "each"
  /\ pc[t] = "shared" => op[t] # "insert"
LocalsOK == \A t \in Threads : LocalOK(t)

\* An operation makes a node in its last step but one: there is a set of as
\* many operations as nodes were made.
Made(S) ==
  /\ nodes <= Cardinality(Keys) + Cardinality(S)
  /\ \A p \in S :
       p[2] <= calls[p[1]] /\ (p[2] = calls[p[1]] => pc[p[1]] \in {"idle", "unique_out"})
NodesOK == \E S \in SUBSET (Threads \X (1 .. MaxOps)) : Made(S)

Sharing(n) == {t \in Threads : pc[t] \in ReadingSteps /\ node[t] = n}
Authors(n) == {t \in Threads : pc[t] \in AuthorSteps /\ node[t] = n}

\* The word of a node covers the threads that share it, and keeps a thread
\* that writes it alone.
WordOK(n) ==
  /\ nflag[n] = Erased \/ nflag[n] >= -1
  /\ Cardinality(Sharing(n)) <= IF nflag[n] >= 0 THEN nflag[n] ELSE 0
  /\ \A t, u \in Authors(n) : t = u
  /\ \A t \in Authors(n) : pc[t] \in {"write", "erase"} => nflag[n] = -1
Words == \A n \in Nodes : WordOK(n)

Shared == Cardinality(At(SharedSteps)) + leaked
Upgraded == Cardinality(At(UpgradeSteps)) + lostRace
Bucket == Shared < Upgrade /\ bflag = Shared + Upgrade * Upgraded

Unpromoted == At(AwaitSteps \cup UniqueSteps) = {}

\* The inserts and erases that changed the set of erased nodes, or found it
\* changed, and have not counted it yet
ErasedNodes == {n \in Nodes : nflag[n] = Erased}
PendingSteps == {"revive_write", "downgrade_true", "revive_write2", "unique_twice", "unique_out"}
Pending == At(PendingSteps)
Erasing == {t \in Threads : pc[t] = "unshare" /\ op[t] = "erase"}

Counted ==
  /\ ErasedNodes \subseteq 1 .. nodes
  /\ size + Cardinality(Pending) + Cardinality(ErasedNodes)
       = nodes + lostRace + Cardinality(Erasing)

\* No node has two keys, and each has one but for a map that was replaced.
MapOK ==
  /\ \A k, l \in Keys : map[k] = map[l] => k = l \/ map[k] = None
  /\ hasMap \/ nodes = 0
  /\ overwrote \/ \A n \in 1 .. nodes : \E k \in Keys : map[k] = n

Shape == Types /\ LocalsOK /\ NodesOK
IInv == Shape /\ Words /\ Counted /\ MapOK /\ (~ promoted => Bucket /\ Unpromoted)

-----------------------------------------------------------------------------
(* Words                                                                   *)

LEMMA ErasedIs == Erased \in Int /\ Erased < -1
BY SMT DEF Erased

LEMMA UpgradeIs == Upgrade \in Nat /\ Upgrade > 2
BY SMT DEF Upgrade

\* The two parts of a word that counts a shared and u upgradable locks
LEMMA PartsOf ==
  ASSUME NEW a \in Nat, a < Upgrade, NEW u \in Nat
  PROVE  /\ a + Upgrade * u \in Nat
         /\ Low(a + Upgrade * u) = a
         /\ (a + Upgrade * u) \div Upgrade = u
         /\ HasHigh(a + Upgrade * u) <=> u # 0
BY SMT DEF Upgrade, Low, HasHigh

\* What unlock_shared leaves of a word that is not negative is not negative.
LEMMA LowOfWord ==
  ASSUME NEW f \in Nat
  PROVE  Low(f) # 0 => f >= 1
BY SMT DEF Low

\* There are finitely many nodes.
LEMMA MaxIsNat == MaxNodes \in Nat /\ Cardinality(Keys) \in 0 .. MaxNodes
<1>1. Cardinality(Threads) \in Nat /\ Cardinality(Keys) \in Nat /\ MaxOps \in Nat
  BY ThreadsAssumption, KeysAssumption, OpsAssumption, FS_CardinalityType
<1>2. Cardinality(Threads) * MaxOps \in Nat
  BY <1>1
<1>. QED  BY <1>1, <1>2 DEF MaxNodes

\* A node that a thread has in hand has a word, and keeps one.
LEMMA WordIs ==
  ASSUME Types, NEW n \in 1 .. nodes
  PROVE  /\ n \in Nodes /\ nflag[n] \in Int /\ n # None
         /\ \A f \in Int : SetNode(n, f) => nflag' = [nflag EXCEPT ![n] = f] /\ nflag' \in [Nodes -> Int]
<1>1. nodes \in 0 .. MaxNodes /\ nflag \in [Nodes -> Int] /\ MaxNodes \in Nat
  BY MaxIsNat DEF Types
<1>2. n \in Nodes
  BY <1>1 DEF Nodes
<1>. QED  BY <1>1, <1>2, NoneAssumption DEF SetNode

-----------------------------------------------------------------------------
(* Types, and room for the nodes                                           *)

\* The insert that makes a node did not make one before, so that there is a
\* number for it.
LEMMA RoomForNode ==
  ASSUME Shape, NEW t \in Threads, pc[t] = "add",
         nodes' = nodes + 1, calls' = calls, Goto(t, "unique_out")
  PROVE  nodes + 1 \in 1 .. MaxNodes /\ NodesOK'
<1>0. Types /\ LocalOK(t)
  BY DEF Shape, LocalsOK
<1>1. PICK S \in SUBSET (Threads \X (1 .. MaxOps)) : Made(S)
  BY DEF Shape, NodesOK
<1>2. calls[t] \in 1 .. MaxOps
  BY <1>0, OpsAssumption DEF Types, LocalOK
<1> DEFINE p == <<t, calls[t]>>
<1>3. p \in Threads \X (1 .. MaxOps) /\ p \notin S
  <2>1. p[1] = t /\ p[2] = calls[t]
    OBVIOUS
  <2>. QED  BY <1>1, <1>2, <2>1 DEF Made
<1>4. /\ IsFiniteSet(Threads \X (1 .. MaxOps))
      /\ Cardinality(Threads \X (1 .. MaxOps)) = Cardinality(Threads) * MaxOps
  <2>1. IsFiniteSet(1 .. MaxOps) /\ Cardinality(1 .. MaxOps) = MaxOps
    BY OpsAssumption, FS_Interval
  <2>. QED  BY <2>1, ThreadsAssumption, FS_Product
<1>5. S \cup {p} \in SUBSET (Threads \X (1 .. MaxOps))
  BY <1>3
<1>6. /\ Cardinality(S) \in Nat
      /\ Cardinality(S \cup {p}) = Cardinality(S) + 1
  BY <1>3, <1>4, FS_Subset, FS_AddElement, FS_CardinalityType
<1>7. Cardinality(S \cup {p}) <= Cardinality(Threads) * MaxOps
  BY <1>4, <1>5, FS_Subset
<1>8. nodes + 1 <= Cardinality(Keys) + Cardinality(S \cup {p})
  BY <1>0, <1>1, <1>6, MaxIsNat DEF Made, Types
<1>9. nodes + 1 \in 1 .. MaxNodes
  <2> DEFINE c == Cardinality(S \cup {p})
             m == Cardinality(Threads) * MaxOps
             k == Cardinality(Keys)
  <2>1. c \in Nat /\ m \in Nat /\ k \in Nat /\ c <= m /\ nodes + 1 <= k + c /\ MaxNodes = m + k
    BY <1>4, <1>6, <1>7, <1>8, FS_CardinalityType, KeysAssumption DEF MaxNodes
  <2>2. nodes \in Nat
    BY <1>0, MaxIsNat DEF Types
  <2> HIDE DEF c, m, k
  <2>. QED  BY <2>1, <2>2
<1>10. Made(S \cup {p})'
  <2>1. ASSUME NEW q \in S \cup {p}
        PROVE  q[2] <= calls[q[1]] /\ (q[2] = calls[q[1]] => pc'[q[1]] \in {"idle", "unique_out"})
    <3>1. CASE q = p
      <4>1. q[1] = t /\ q[2] = calls[t] /\ pc'[t] = "unique_out"
        BY <1>0, <3>1 DEF Goto, Types
      <4>. QED  BY <1>2, <4>1
    <3>2. CASE q \in S
      <4>1. /\ q[1] \in Threads /\ q[2] <= calls[q[1]]
            /\ q[2] = calls[q[1]] => pc[q[1]] \in {"idle", "unique_out"}
        BY <1>1, <3>2 DEF Made
      <4>. QED  BY <1>0, <4>1 DEF Goto, Types
    <3>. QED  BY <3>1, <3>2
  <2>. QED  BY <1>8, <2>1 DEF Made
<1>. QED  BY <1>5, <1>9, <1>10 DEF NodesOK

\* No other step makes a node, and an operation that is past making one
\* stays so.
LEMMA SameNodes ==
  ASSUME Types, NodesOK, nodes' = nodes, calls' \in [Threads -> 0 .. MaxOps],
         \A u \in Threads :
           \/ calls'[u] > calls[u]
           \/ calls'[u] = calls[u]
              /\ (pc[u] \in {"idle", "unique_out"} => pc'[u] \in {"idle", "unique_out"})
  PROVE  NodesOK'
<1>1. PICK S \in SUBSET (Threads \X (1 .. MaxOps)) : Made(S)
  BY DEF NodesOK
<1>2. ASSUME NEW q \in S
      PROVE  q[2] <= calls'[q[1]] /\ (q[2] = calls'[q[1]] => pc'[q[1]] \in {"idle", "unique_out"})
  <2>1. q[1] \in Threads /\ q[2] \in 1 .. MaxOps
    OBVIOUS
  <2>2. /\ q[2] <= calls[q[1]] /\ (q[2] = calls[q[1]] => pc[q[1]] \in {"idle", "unique_out"})
        /\ calls[q[1]] \in 0 .. MaxOps /\ calls'[q[1]] \in 0 .. MaxOps
    BY <1>1, <2>1 DEF Made, Types
  <2>. QED  BY <2>1, <2>2, OpsAssumption
<1>3. Made(S)'
  BY <1>1, <1>2 DEF Made
<1>. QED  BY <1>3 DEF NodesOK

LEMMA ShapeReader ==
  ASSUME Shape, NEW t \in Threads, Reader(t)
  PROVE  Shape'
<1> USE DEF Shape
<1>0. Types /\ LocalsOK /\ NodesOK /\ LocalOK(t) /\ t \in Threads
  BY DEF LocalsOK
<1>1. ASSUME SharedBucket(t) PROVE Shape'
  <2>1. Types'
    BY <1>0, <1>1, UpgradeIs DEF Types, Steps, SharedSteps, UpgradeSteps, AwaitSteps,
         UniqueSteps, LocalOK, NodeSteps, ReadingSteps, AuthorSteps, AllOps, SharedBucket,
         contents, call, history, MappedNodes, Goto
  <2>2. LocalsOK'
    BY <1>0, <1>1 DEF Types, LocalsOK, LocalOK, NodeSteps, ReadingSteps, AuthorSteps, AllOps,
         SharedBucket, contents, call, history, MappedNodes, Goto
  <2>3. NodesOK'
    BY <1>0, <1>1, SameNodes DEF Types, SharedBucket, contents, call, history, MappedNodes, Goto
  <2>. QED  BY <2>1, <2>2, <2>3
<1>2. ASSUME FindFails(t) PROVE Shape'
  <2>1. Types'
    BY <1>0, <1>2, UpgradeIs DEF Types, Steps, SharedSteps, UpgradeSteps, AwaitSteps,
         UniqueSteps, LocalOK, NodeSteps, ReadingSteps, AuthorSteps, AllOps, FindFails, table,
         contents, call, LeakAndReturn, Return, Goto
  <2>2. LocalsOK'
    BY <1>0, <1>2 DEF Types, LocalsOK, LocalOK, NodeSteps, ReadingSteps, AuthorSteps, AllOps,
         FindFails, table, contents, call, LeakAndReturn, Return, Goto
  <2>3. NodesOK'
    BY <1>0, <1>2, SameNodes DEF Types, FindFails, table, contents, call, LeakAndReturn, Return,
         Goto
  <2>. QED  BY <2>1, <2>2, <2>3
<1>3. ASSUME FindKey(t) PROVE Shape'
  <2>1. Types'
    BY <1>0, <1>3, UpgradeIs DEF Types, Steps, SharedSteps, UpgradeSteps, AwaitSteps,
         UniqueSteps, LocalOK, NodeSteps, ReadingSteps, AuthorSteps, AllOps, FindKey, table,
         contents, call, history, Goto
  <2>2. LocalsOK'
    BY <1>0, <1>3 DEF Types, LocalsOK, LocalOK, NodeSteps, ReadingSteps, AuthorSteps, AllOps,
         FindKey, table, contents, call, history, Goto
  <2>3. NodesOK'
    BY <1>0, <1>3, SameNodes DEF Types, FindKey, table, contents, call, history, Goto
  <2>. QED  BY <2>1, <2>2, <2>3
<1>4. ASSUME NodeErased(t) PROVE Shape'
  <2>1. Types'
    BY <1>0, <1>4, UpgradeIs DEF Types, Steps, SharedSteps, UpgradeSteps, AwaitSteps,
         UniqueSteps, LocalOK, NodeSteps, ReadingSteps, AuthorSteps, AllOps, NodeErased, table,
         contents, call, LeakAndReturn, Return, Goto
  <2>2. LocalsOK'
    BY <1>0, <1>4 DEF Types, LocalsOK, LocalOK, NodeSteps, ReadingSteps, AuthorSteps, AllOps,
         NodeErased, table, contents, call, LeakAndReturn, Return, Goto
  <2>3. NodesOK'
    BY <1>0, <1>4, SameNodes DEF Types, NodeErased, table, contents, call, LeakAndReturn,
         Return, Goto
  <2>. QED  BY <2>1, <2>2, <2>3
<1>5. ASSUME SharedNode(t) PROVE Shape'
  <2>0. nflag' \in [Nodes -> Int]
    <3>1. node[t] \in 1 .. nodes
      BY <1>0, <1>5 DEF Types, LocalOK, NodeSteps, ReadingSteps, AuthorSteps, SharedNode
    <3>. QED  BY <1>0, <1>5, <3>1, WordIs, ErasedIs DEF SharedNode, Word
  <2>1. Types'
    BY <1>0, <1>5, <2>0 DEF Types, Steps, SharedSteps, UpgradeSteps, AwaitSteps, UniqueSteps,
         LocalOK, NodeSteps, ReadingSteps, AuthorSteps, AllOps, SharedNode, contents, call,
         history, GoOn, locals, Goto
  <2>2. LocalsOK'
    BY <1>0, <1>5 DEF Types, LocalsOK, LocalOK, NodeSteps, ReadingSteps, AuthorSteps, AllOps,
         SharedNode, contents, call, history, GoOn, locals, SetNode, Word, Goto
  <2>3. NodesOK'
    BY <1>0, <1>5, SameNodes DEF Types, SharedNode, contents, call, history, GoOn, locals,
         SetNode, Word, Goto
  <2>. QED  BY <2>1, <2>2, <2>3
<1>6. ASSUME ReadValue(t) PROVE Shape'
  <2>0. nflag' \in [Nodes -> Int]
    <3>1. node[t] \in 1 .. nodes
      BY <1>0, <1>6 DEF Types, LocalOK, NodeSteps, ReadingSteps, AuthorSteps, ReadValue
    <3>. QED  BY <1>0, <1>6, <3>1, WordIs, ErasedIs DEF ReadValue, Word
  <2>1. Types'
    BY <1>0, <1>6, <2>0 DEF Types, Steps, SharedSteps, UpgradeSteps, AwaitSteps, UniqueSteps,
         LocalOK, NodeSteps, ReadingSteps, AuthorSteps, AllOps, ReadValue, contents, call,
         history, GoOn, locals, Goto
  <2>2. LocalsOK'
    BY <1>0, <1>6 DEF Types, LocalsOK, LocalOK, NodeSteps, ReadingSteps, AuthorSteps, AllOps,
         ReadValue, contents, call, history, GoOn, locals, SetNode, Word, Goto
  <2>3. NodesOK'
    BY <1>0, <1>6, SameNodes DEF Types, ReadValue, contents, call, history, GoOn, locals,
         SetNode, Word, Goto
  <2>. QED  BY <2>1, <2>2, <2>3
<1>7. ASSUME UniqueNode(t) PROVE Shape'
  <2>0. nflag' \in [Nodes -> Int]
    <3>1. node[t] \in 1 .. nodes
      BY <1>0, <1>7 DEF Types, LocalOK, NodeSteps, ReadingSteps, AuthorSteps, UniqueNode
    <3>. QED  BY <1>0, <1>7, <3>1, WordIs, ErasedIs DEF UniqueNode, Word
  <2>1. Types'
    BY <1>0, <1>7, <2>0 DEF Types, Steps, SharedSteps, UpgradeSteps, AwaitSteps, UniqueSteps,
         LocalOK, NodeSteps, ReadingSteps, AuthorSteps, AllOps, UniqueNode, contents, call,
         history, GoOn, locals, Goto
  <2>2. LocalsOK'
    BY <1>0, <1>7 DEF Types, LocalsOK, LocalOK, NodeSteps, ReadingSteps, AuthorSteps, AllOps,
         UniqueNode, contents, call, history, GoOn, locals, SetNode, Word, Goto
  <2>3. NodesOK'
    BY <1>0, <1>7, SameNodes DEF Types, UniqueNode, contents, call, history, GoOn, locals,
         SetNode, Word, Goto
  <2>. QED  BY <2>1, <2>2, <2>3
<1>8. ASSUME WriteValue(t) PROVE Shape'
  <2>0. nflag' \in [Nodes -> Int]
    <3>1. node[t] \in 1 .. nodes
      BY <1>0, <1>8 DEF Types, LocalOK, NodeSteps, ReadingSteps, AuthorSteps, WriteValue
    <3>. QED  BY <1>0, <1>8, <3>1, WordIs, ErasedIs DEF WriteValue, Word
  <2>1. Types'
    BY <1>0, <1>8, <2>0 DEF Types, Steps, SharedSteps, UpgradeSteps, AwaitSteps, UniqueSteps,
         LocalOK, NodeSteps, ReadingSteps, AuthorSteps, AllOps, WriteValue, contents, call,
         history, GoOn, locals, Goto
  <2>2. LocalsOK'
    BY <1>0, <1>8 DEF Types, LocalsOK, LocalOK, NodeSteps, ReadingSteps, AuthorSteps, AllOps,
         WriteValue, contents, call, history, GoOn, locals, SetNode, Word, Goto
  <2>3. NodesOK'
    BY <1>0, <1>8, SameNodes DEF Types, WriteValue, contents, call, history, GoOn, locals,
         SetNode, Word, Goto
  <2>. QED  BY <2>1, <2>2, <2>3
<1>9. ASSUME MarkErased(t) PROVE Shape'
  <2>0. nflag' \in [Nodes -> Int]
    <3>1. node[t] \in 1 .. nodes
      BY <1>0, <1>9 DEF Types, LocalOK, NodeSteps, ReadingSteps, AuthorSteps, MarkErased
    <3>. QED  BY <1>0, <1>9, <3>1, WordIs, ErasedIs DEF MarkErased, Word
  <2>1. Types'
    BY <1>0, <1>9, <2>0 DEF Types, Steps, SharedSteps, UpgradeSteps, AwaitSteps, UniqueSteps,
         LocalOK, NodeSteps, ReadingSteps, AuthorSteps, AllOps, MarkErased, contents, call,
         history, GoOn, locals, Goto
  <2>2. LocalsOK'
    BY <1>0, <1>9 DEF Types, LocalsOK, LocalOK, NodeSteps, ReadingSteps, AuthorSteps, AllOps,
         MarkErased, contents, call, history, GoOn, locals, SetNode, Word, Goto
  <2>3. NodesOK'
    BY <1>0, <1>9, SameNodes DEF Types, MarkErased, contents, call, history, GoOn, locals,
         SetNode, Word, Goto
  <2>. QED  BY <2>1, <2>2, <2>3
<1>10. ASSUME EachNode(t) PROVE Shape'
  <2>0. nflag' \in [Nodes -> Int]
    BY <1>0, <1>10, WordIs DEF Types, EachNode
  <2>1. Types'
    BY <1>0, <1>10, <2>0 DEF Types, Steps, SharedSteps, UpgradeSteps, AwaitSteps, UniqueSteps,
         LocalOK, NodeSteps, ReadingSteps, AuthorSteps, AllOps, EachNode, contents, call,
         history, Goto
  <2>2. LocalsOK'
    BY <1>0, <1>10, NoneAssumption DEF Types, LocalsOK, LocalOK, NodeSteps, ReadingSteps,
         AuthorSteps, AllOps, EachNode, contents, call, history, SetNode, Goto
  <2>3. NodesOK'
    BY <1>0, <1>10, SameNodes DEF Types, EachNode, contents, call, history, SetNode, Goto
  <2>. QED  BY <2>1, <2>2, <2>3
<1>11. ASSUME EachUnlock(t) PROVE Shape'
  <2>0. nflag' \in [Nodes -> Int]
    <3>1. node[t] \in 1 .. nodes
      BY <1>0, <1>11 DEF Types, LocalOK, NodeSteps, ReadingSteps, AuthorSteps, EachUnlock
    <3>. QED  BY <1>0, <1>11, <3>1, WordIs, ErasedIs DEF EachUnlock, Word
  <2>1. Types'
    BY <1>0, <1>11, <2>0 DEF Types, Steps, SharedSteps, UpgradeSteps, AwaitSteps, UniqueSteps,
         LocalOK, NodeSteps, ReadingSteps, AuthorSteps, AllOps, EachUnlock, contents, call,
         history, GoOn, locals, Goto
  <2>2. LocalsOK'
    BY <1>0, <1>11 DEF Types, LocalsOK, LocalOK, NodeSteps, ReadingSteps, AuthorSteps, AllOps,
         EachUnlock, contents, call, history, GoOn, locals, SetNode, Word, Goto
  <2>3. NodesOK'
    BY <1>0, <1>11, SameNodes DEF Types, EachUnlock, contents, call, history, GoOn, locals,
         SetNode, Word, Goto
  <2>. QED  BY <2>1, <2>2, <2>3
<1>12. ASSUME UnlockShared(t) PROVE Shape'
  <2>1. Types'
    BY <1>0, <1>12, UpgradeIs DEF Types, Steps, SharedSteps, UpgradeSteps, AwaitSteps,
         UniqueSteps, LocalOK, NodeSteps, ReadingSteps, AuthorSteps, AllOps, UnlockShared,
         contents, call, history, Return, Unshared, SharedDone, Goto
  <2>2. LocalsOK'
    BY <1>0, <1>12 DEF Types, LocalsOK, LocalOK, NodeSteps, ReadingSteps, AuthorSteps, AllOps,
         UnlockShared, contents, call, history, Return, Unshared, SharedDone, Goto
  <2>3. NodesOK'
    BY <1>0, <1>12, SameNodes DEF Types, UnlockShared, contents, call, history, Return,
         Unshared, SharedDone, Goto
  <2>. QED  BY <2>1, <2>2, <2>3
<1>. QED  BY <1>1, <1>2, <1>3, <1>4, <1>5, <1>6, <1>7, <1>8, <1>9, <1>10, <1>11, <1>12 DEF
     Reader

LEMMA ShapeUpgrader ==
  ASSUME Shape, NEW t \in Threads, Upgrader(t)
  PROVE  Shape'
<1> USE DEF Shape
<1>0. Types /\ LocalsOK /\ NodesOK /\ LocalOK(t) /\ t \in Threads
  BY DEF LocalsOK
<1>1. ASSUME UpgradeBucket(t) PROVE Shape'
  <2>1. Types'
    BY <1>0, <1>1, UpgradeIs DEF Types, Steps, SharedSteps, UpgradeSteps, AwaitSteps,
         UniqueSteps, LocalOK, NodeSteps, ReadingSteps, AuthorSteps, AllOps, UpgradeBucket,
         contents, call, history, GoOn, locals, Goto
  <2>2. LocalsOK'
    BY <1>0, <1>1 DEF Types, LocalsOK, LocalOK, NodeSteps, ReadingSteps, AuthorSteps, AllOps,
         UpgradeBucket, contents, call, history, GoOn, locals, Goto
  <2>3. NodesOK'
    BY <1>0, <1>1, SameNodes DEF Types, UpgradeBucket, contents, call, history, GoOn, locals,
         Goto
  <2>. QED  BY <2>1, <2>2, <2>3
<1>2. ASSUME Lookup(t) PROVE Shape'
  <2>1. Types'
    BY <1>0, <1>2, UpgradeIs DEF Types, Steps, SharedSteps, UpgradeSteps, AwaitSteps,
         UniqueSteps, LocalOK, NodeSteps, ReadingSteps, AuthorSteps, AllOps, Lookup, table,
         contents, call, history, Goto
  <2>2. LocalsOK'
    BY <1>0, <1>2 DEF Types, LocalsOK, LocalOK, NodeSteps, ReadingSteps, AuthorSteps, AllOps,
         Lookup, table, contents, call, history, Goto
  <2>3. NodesOK'
    BY <1>0, <1>2, SameNodes DEF Types, Lookup, table, contents, call, history, Goto
  <2>. QED  BY <2>1, <2>2, <2>3
<1>3. ASSUME InsertExisting(t) PROVE Shape'
  <2>0. nflag' \in [Nodes -> Int]
    <3>1. node[t] \in 1 .. nodes
      BY <1>0, <1>3 DEF Types, LocalOK, NodeSteps, ReadingSteps, AuthorSteps, InsertExisting
    <3>. QED  BY <1>0, <1>3, <3>1, WordIs, ErasedIs DEF InsertExisting, Word
  <2>1. Types'
    BY <1>0, <1>3, <2>0 DEF Types, Steps, SharedSteps, UpgradeSteps, AwaitSteps, UniqueSteps,
         LocalOK, NodeSteps, ReadingSteps, AuthorSteps, AllOps, InsertExisting, contents, call,
         history, GoOn, locals, OnFirst, Goto
  <2>2. LocalsOK'
    BY <1>0, <1>3 DEF Types, LocalsOK, LocalOK, NodeSteps, ReadingSteps, AuthorSteps, AllOps,
         InsertExisting, contents, call, history, GoOn, locals, OnFirst, SetNode, Word, Goto
  <2>3. NodesOK'
    BY <1>0, <1>3, SameNodes DEF Types, InsertExisting, contents, call, history, GoOn, locals,
         OnFirst, SetNode, Word, Goto
  <2>. QED  BY <2>1, <2>2, <2>3
<1>4. ASSUME InsertErased(t) PROVE Shape'
  <2>1. Types'
    BY <1>0, <1>4, UpgradeIs DEF Types, Steps, SharedSteps, UpgradeSteps, AwaitSteps,
         UniqueSteps, LocalOK, NodeSteps, ReadingSteps, AuthorSteps, AllOps, InsertErased,
         table, contents, call, history, GoOn, locals, OnFirst, Goto
  <2>2. LocalsOK'
    BY <1>0, <1>4 DEF Types, LocalsOK, LocalOK, NodeSteps, ReadingSteps, AuthorSteps, AllOps,
         InsertErased, table, contents, call, history, GoOn, locals, OnFirst, Goto
  <2>3. NodesOK'
    BY <1>0, <1>4, SameNodes DEF Types, InsertErased, table, contents, call, history, GoOn,
         locals, OnFirst, Goto
  <2>. QED  BY <2>1, <2>2, <2>3
<1>5. ASSUME Revive(t) PROVE Shape'
  <2>0. nflag' \in [Nodes -> Int]
    <3>1. node[t] \in 1 .. nodes
      BY <1>0, <1>5 DEF Types, LocalOK, NodeSteps, ReadingSteps, AuthorSteps, Revive
    <3>. QED  BY <1>0, <1>5, <3>1, WordIs, ErasedIs DEF Revive, Word
  <2>1. Types'
    BY <1>0, <1>5, <2>0 DEF Types, Steps, SharedSteps, UpgradeSteps, AwaitSteps, UniqueSteps,
         LocalOK, NodeSteps, ReadingSteps, AuthorSteps, AllOps, Revive, contents, call, history,
         GoOn, locals, OnFirst, Goto
  <2>2. LocalsOK'
    BY <1>0, <1>5 DEF Types, LocalsOK, LocalOK, NodeSteps, ReadingSteps, AuthorSteps, AllOps,
         Revive, contents, call, history, GoOn, locals, OnFirst, SetNode, Goto
  <2>3. NodesOK'
    BY <1>0, <1>5, SameNodes DEF Types, Revive, contents, call, history, GoOn, locals, OnFirst,
         SetNode, Goto
  <2>. QED  BY <2>1, <2>2, <2>3
<1>6. ASSUME ReviveFails(t) PROVE Shape'
  <2>1. Types'
    BY <1>0, <1>6, UpgradeIs DEF Types, Steps, SharedSteps, UpgradeSteps, AwaitSteps,
         UniqueSteps, LocalOK, NodeSteps, ReadingSteps, AuthorSteps, AllOps, ReviveFails,
         contents, call, Return, Goto
  <2>2. LocalsOK'
    BY <1>0, <1>6 DEF Types, LocalsOK, LocalOK, NodeSteps, ReadingSteps, AuthorSteps, AllOps,
         ReviveFails, contents, call, Return, Goto
  <2>3. NodesOK'
    BY <1>0, <1>6, SameNodes DEF Types, ReviveFails, contents, call, Return, Goto
  <2>. QED  BY <2>1, <2>2, <2>3
<1>7. ASSUME ReviveFails2(t) PROVE Shape'
  <2>1. Types'
    BY <1>0, <1>7, UpgradeIs DEF Types, Steps, SharedSteps, UpgradeSteps, AwaitSteps,
         UniqueSteps, LocalOK, NodeSteps, ReadingSteps, AuthorSteps, AllOps, ReviveFails2,
         table, contents, call, history, GoOn, locals, Goto
  <2>2. LocalsOK'
    BY <1>0, <1>7 DEF Types, LocalsOK, LocalOK, NodeSteps, ReadingSteps, AuthorSteps, AllOps,
         ReviveFails2, table, contents, call, history, GoOn, locals, Goto
  <2>3. NodesOK'
    BY <1>0, <1>7, SameNodes DEF Types, ReviveFails2, table, contents, call, history, GoOn,
         locals, Goto
  <2>. QED  BY <2>1, <2>2, <2>3
<1>8. ASSUME ReviveWrite(t) PROVE Shape'
  <2>0. nflag' \in [Nodes -> Int]
    <3>1. node[t] \in 1 .. nodes
      BY <1>0, <1>8 DEF Types, LocalOK, NodeSteps, ReadingSteps, AuthorSteps, ReviveWrite
    <3>. QED  BY <1>0, <1>8, <3>1, WordIs, ErasedIs DEF ReviveWrite, Word
  <2>1. Types'
    BY <1>0, <1>8, <2>0 DEF Types, Steps, SharedSteps, UpgradeSteps, AwaitSteps, UniqueSteps,
         LocalOK, NodeSteps, ReadingSteps, AuthorSteps, AllOps, ReviveWrite, contents, call,
         history, GoOn, locals, OnFirst, Goto
  <2>2. LocalsOK'
    BY <1>0, <1>8 DEF Types, LocalsOK, LocalOK, NodeSteps, ReadingSteps, AuthorSteps, AllOps,
         ReviveWrite, contents, call, history, GoOn, locals, OnFirst, SetNode, Word, Goto
  <2>3. NodesOK'
    BY <1>0, <1>8, SameNodes DEF Types, ReviveWrite, contents, call, history, GoOn, locals,
         OnFirst, SetNode, Word, Goto
  <2>. QED  BY <2>1, <2>2, <2>3
<1>9. ASSUME UnlockUpgrade(t) PROVE Shape'
  <2>1. Types'
    BY <1>0, <1>9, UpgradeIs DEF Types, Steps, SharedSteps, UpgradeSteps, AwaitSteps,
         UniqueSteps, LocalOK, NodeSteps, ReadingSteps, AuthorSteps, AllOps, UnlockUpgrade,
         contents, call, history, Return, Goto
  <2>2. LocalsOK'
    BY <1>0, <1>9 DEF Types, LocalsOK, LocalOK, NodeSteps, ReadingSteps, AuthorSteps, AllOps,
         UnlockUpgrade, contents, call, history, Return, Goto
  <2>3. NodesOK'
    BY <1>0, <1>9, SameNodes DEF Types, UnlockUpgrade, contents, call, history, Return, Goto
  <2>. QED  BY <2>1, <2>2, <2>3
<1>. QED  BY <1>1, <1>2, <1>3, <1>4, <1>5, <1>6, <1>7, <1>8, <1>9 DEF Upgrader

LEMMA ShapePromotion ==
  ASSUME Shape, NEW t \in Threads, Promotion(t)
  PROVE  Shape'
<1> USE DEF Shape
<1>0. Types /\ LocalsOK /\ NodesOK /\ LocalOK(t) /\ t \in Threads
  BY DEF LocalsOK
<1>1. ASSUME PromoteLoad(t) PROVE Shape'
  <2>1. Types'
    BY <1>0, <1>1, UpgradeIs DEF Types, Steps, SharedSteps, UpgradeSteps, AwaitSteps,
         UniqueSteps, LocalOK, NodeSteps, ReadingSteps, AuthorSteps, AllOps, PromoteLoad,
         LoadWord, table, contents, call, history, Goto
  <2>2. LocalsOK'
    BY <1>0, <1>1 DEF Types, LocalsOK, LocalOK, NodeSteps, ReadingSteps, AuthorSteps, AllOps,
         PromoteLoad, LoadWord, table, contents, call, history, Goto
  <2>3. NodesOK'
    BY <1>0, <1>1, SameNodes DEF Types, PromoteLoad, LoadWord, table, contents, call, history,
         Goto
  <2>. QED  BY <2>1, <2>2, <2>3
<1>2. ASSUME Negate(t) PROVE Shape'
  <2>1. Types'
    BY <1>0, <1>2, UpgradeIs DEF Types, Steps, SharedSteps, UpgradeSteps, AwaitSteps,
         UniqueSteps, LocalOK, NodeSteps, ReadingSteps, AuthorSteps, AllOps, Negate, Swap, GoOn,
         locals, contents, call, Goto
  <2>2. LocalsOK'
    BY <1>0, <1>2 DEF Types, LocalsOK, LocalOK, NodeSteps, ReadingSteps, AuthorSteps, AllOps,
         Negate, Swap, GoOn, locals, contents, call, Goto
  <2>3. NodesOK'
    BY <1>0, <1>2, SameNodes DEF Types, Negate, Swap, GoOn, locals, contents, call, Goto
  <2>. QED  BY <2>1, <2>2, <2>3
<1>3. ASSUME NegateFails(t) PROVE Shape'
  <2>1. Types'
    BY <1>0, <1>3, UpgradeIs DEF Types, Steps, SharedSteps, UpgradeSteps, AwaitSteps,
         UniqueSteps, LocalOK, NodeSteps, ReadingSteps, AuthorSteps, AllOps, NegateFails,
         LoadWord, table, contents, call, history, Goto
  <2>2. LocalsOK'
    BY <1>0, <1>3 DEF Types, LocalsOK, LocalOK, NodeSteps, ReadingSteps, AuthorSteps, AllOps,
         NegateFails, LoadWord, table, contents, call, history, Goto
  <2>3. NodesOK'
    BY <1>0, <1>3, SameNodes DEF Types, NegateFails, LoadWord, table, contents, call, history,
         Goto
  <2>. QED  BY <2>1, <2>2, <2>3
<1>4. ASSUME GiveUpUpgrade(t) PROVE Shape'
  <2>1. Types'
    BY <1>0, <1>4, UpgradeIs DEF Types, Steps, SharedSteps, UpgradeSteps, AwaitSteps,
         UniqueSteps, LocalOK, NodeSteps, ReadingSteps, AuthorSteps, AllOps, GiveUpUpgrade,
         Swap, GoOn, locals, contents, call, Goto
  <2>2. LocalsOK'
    BY <1>0, <1>4 DEF Types, LocalsOK, LocalOK, NodeSteps, ReadingSteps, AuthorSteps, AllOps,
         GiveUpUpgrade, Swap, GoOn, locals, contents, call, Goto
  <2>3. NodesOK'
    BY <1>0, <1>4, SameNodes DEF Types, GiveUpUpgrade, Swap, GoOn, locals, contents, call, Goto
  <2>. QED  BY <2>1, <2>2, <2>3
<1>5. ASSUME GiveUpFails(t) PROVE Shape'
  <2>1. Types'
    BY <1>0, <1>5, UpgradeIs DEF Types, Steps, SharedSteps, UpgradeSteps, AwaitSteps,
         UniqueSteps, LocalOK, NodeSteps, ReadingSteps, AuthorSteps, AllOps, GiveUpFails, GoOn,
         locals, table, contents, call, history, Goto
  <2>2. LocalsOK'
    BY <1>0, <1>5 DEF Types, LocalsOK, LocalOK, NodeSteps, ReadingSteps, AuthorSteps, AllOps,
         GiveUpFails, GoOn, locals, table, contents, call, history, Goto
  <2>3. NodesOK'
    BY <1>0, <1>5, SameNodes DEF Types, GiveUpFails, GoOn, locals, table, contents, call,
         history, Goto
  <2>. QED  BY <2>1, <2>2, <2>3
<1>6. ASSUME AwaitOthers(t) PROVE Shape'
  <2>1. Types'
    BY <1>0, <1>6, UpgradeIs DEF Types, Steps, SharedSteps, UpgradeSteps, AwaitSteps,
         UniqueSteps, LocalOK, NodeSteps, ReadingSteps, AuthorSteps, AllOps, AwaitOthers, GoOn,
         locals, table, contents, call, history, Goto
  <2>2. LocalsOK'
    BY <1>0, <1>6 DEF Types, LocalsOK, LocalOK, NodeSteps, ReadingSteps, AuthorSteps, AllOps,
         AwaitOthers, GoOn, locals, table, contents, call, history, Goto
  <2>3. NodesOK'
    BY <1>0, <1>6, SameNodes DEF Types, AwaitOthers, GoOn, locals, table, contents, call,
         history, Goto
  <2>. QED  BY <2>1, <2>2, <2>3
<1>7. ASSUME Reload(t) PROVE Shape'
  <2>1. Types'
    BY <1>0, <1>7, UpgradeIs DEF Types, Steps, SharedSteps, UpgradeSteps, AwaitSteps,
         UniqueSteps, LocalOK, NodeSteps, ReadingSteps, AuthorSteps, AllOps, Reload, LoadWord,
         table, contents, call, history, Goto
  <2>2. LocalsOK'
    BY <1>0, <1>7 DEF Types, LocalsOK, LocalOK, NodeSteps, ReadingSteps, AuthorSteps, AllOps,
         Reload, LoadWord, table, contents, call, history, Goto
  <2>3. NodesOK'
    BY <1>0, <1>7, SameNodes DEF Types, Reload, LoadWord, table, contents, call, history, Goto
  <2>. QED  BY <2>1, <2>2, <2>3
<1>8. ASSUME TakeUnique(t) PROVE Shape'
  <2>1. Types'
    BY <1>0, <1>8, UpgradeIs DEF Types, Steps, SharedSteps, UpgradeSteps, AwaitSteps,
         UniqueSteps, LocalOK, NodeSteps, ReadingSteps, AuthorSteps, AllOps, TakeUnique, Swap,
         GoOn, locals, contents, call, Goto
  <2>2. LocalsOK'
    BY <1>0, <1>8 DEF Types, LocalsOK, LocalOK, NodeSteps, ReadingSteps, AuthorSteps, AllOps,
         TakeUnique, Swap, GoOn, locals, contents, call, Goto
  <2>3. NodesOK'
    BY <1>0, <1>8, SameNodes DEF Types, TakeUnique, Swap, GoOn, locals, contents, call, Goto
  <2>. QED  BY <2>1, <2>2, <2>3
<1>9. ASSUME TakeFails(t) PROVE Shape'
  <2>1. Types'
    BY <1>0, <1>9, UpgradeIs DEF Types, Steps, SharedSteps, UpgradeSteps, AwaitSteps,
         UniqueSteps, LocalOK, NodeSteps, ReadingSteps, AuthorSteps, AllOps, TakeFails,
         LoadWord, table, contents, call, history, Goto
  <2>2. LocalsOK'
    BY <1>0, <1>9 DEF Types, LocalsOK, LocalOK, NodeSteps, ReadingSteps, AuthorSteps, AllOps,
         TakeFails, LoadWord, table, contents, call, history, Goto
  <2>3. NodesOK'
    BY <1>0, <1>9, SameNodes DEF Types, TakeFails, LoadWord, table, contents, call, history,
         Goto
  <2>. QED  BY <2>1, <2>2, <2>3
<1>10. ASSUME WordChanged(t) PROVE Shape'
  <2>1. Types'
    BY <1>0, <1>10, UpgradeIs DEF Types, Steps, SharedSteps, UpgradeSteps, AwaitSteps,
         UniqueSteps, LocalOK, NodeSteps, ReadingSteps, AuthorSteps, AllOps, WordChanged, GoOn,
         locals, table, contents, call, history, Goto
  <2>2. LocalsOK'
    BY <1>0, <1>10 DEF Types, LocalsOK, LocalOK, NodeSteps, ReadingSteps, AuthorSteps, AllOps,
         WordChanged, GoOn, locals, table, contents, call, history, Goto
  <2>3. NodesOK'
    BY <1>0, <1>10, SameNodes DEF Types, WordChanged, GoOn, locals, table, contents, call,
         history, Goto
  <2>. QED  BY <2>1, <2>2, <2>3
<1>. QED  BY <1>1, <1>2, <1>3, <1>4, <1>5, <1>6, <1>7, <1>8, <1>9, <1>10 DEF Promotion

LEMMA ShapeWriter ==
  ASSUME Shape, NEW t \in Threads, Writer(t), ~ AddNode(t)
  PROVE  Shape'
<1> USE DEF Shape
<1>0. Types /\ LocalsOK /\ NodesOK /\ LocalOK(t) /\ t \in Threads
  BY DEF LocalsOK
<1>1. ASSUME UnlockUnique(t) PROVE Shape'
  <2>1. Types'
    BY <1>0, <1>1, UpgradeIs DEF Types, Steps, SharedSteps, UpgradeSteps, AwaitSteps,
         UniqueSteps, LocalOK, NodeSteps, ReadingSteps, AuthorSteps, AllOps, UnlockUnique,
         contents, call, history, Return, Goto
  <2>2. LocalsOK'
    BY <1>0, <1>1 DEF Types, LocalsOK, LocalOK, NodeSteps, ReadingSteps, AuthorSteps, AllOps,
         UnlockUnique, contents, call, history, Return, Goto
  <2>3. NodesOK'
    BY <1>0, <1>1, SameNodes DEF Types, UnlockUnique, contents, call, history, Return, Goto
  <2>. QED  BY <2>1, <2>2, <2>3
<1>2. ASSUME UnlockTwice(t) PROVE Shape'
  <2>1. Types'
    BY <1>0, <1>2, UpgradeIs DEF Types, Steps, SharedSteps, UpgradeSteps, AwaitSteps,
         UniqueSteps, LocalOK, NodeSteps, ReadingSteps, AuthorSteps, AllOps, UnlockTwice,
         contents, call, history, GoOn, locals, Goto
  <2>2. LocalsOK'
    BY <1>0, <1>2 DEF Types, LocalsOK, LocalOK, NodeSteps, ReadingSteps, AuthorSteps, AllOps,
         UnlockTwice, contents, call, history, GoOn, locals, Goto
  <2>3. NodesOK'
    BY <1>0, <1>2, SameNodes DEF Types, UnlockTwice, contents, call, history, GoOn, locals, Goto
  <2>. QED  BY <2>1, <2>2, <2>3
<1>. QED  BY <1>1, <1>2 DEF Writer

LEMMA ShapeCall ==
  ASSUME Shape, NEW t \in Threads, Call(t)
  PROVE  Shape'
<1>0. Types /\ LocalsOK /\ NodesOK
  BY DEF Shape
<1>1. /\ calls' = [calls EXCEPT ![t] = calls[t] + 1] /\ calls[t] < MaxOps
      /\ calls' \in [Threads -> 0 .. MaxOps]
  BY <1>0, OpsAssumption DEF Call, Types
<1>2. PICK o \in Ops, k \in Keys :
        /\ op' = [op EXCEPT ![t] = o] /\ key' = [key EXCEPT ![t] = k]
        /\ Goto(t, IF o = "insert" THEN "upgrade" ELSE "shared")
  BY DEF Call
<1>3. o \in AllOps
  BY OpsAssumption
<1>4. Types'
  BY <1>0, <1>1, <1>2, <1>3 DEF Types, Steps, Call, Goto, table, contents, locals, history
<1>5. LocalsOK'
  BY <1>0, <1>1, <1>2, <1>3 DEF Types, LocalsOK, LocalOK, NodeSteps, ReadingSteps, AuthorSteps,
       Call, Goto, table, contents, locals, history
<1>6. NodesOK'
  BY <1>0, <1>1, <1>2, SameNodes DEF Types, Call, Goto, table, contents
<1>. QED  BY <1>4, <1>5, <1>6 DEF Shape

LEMMA ShapeAdd ==
  ASSUME Shape, NEW t \in Threads, AddNode(t)
  PROVE  Shape'
<1>0. Types /\ LocalsOK /\ NodesOK /\ LocalOK(t)
  BY DEF Shape, LocalsOK
<1> DEFINE now == IF saw[t] THEN map ELSE [k \in Keys |-> None]
           found == now[key[t]] # None
<1>1. /\ pc[t] = "add" /\ key[t] \in Keys
      /\ now \in [Keys -> 1 .. nodes \cup {None}]
      /\ UNCHANGED <<bflag, nflag, size, op, key, calls, old, saw, todo, leaked, lostRace, promoted>>
      /\ hasMap' = TRUE
      /\ node' = [node EXCEPT ![t] = now[key[t]]]
  BY <1>0 DEF AddNode, Types, LocalOK, call, history
<1>2. ASSUME found
      PROVE  /\ nodes' = nodes /\ map' = now /\ Goto(t, "old_node2")
             /\ now[key[t]] \in 1 .. nodes
  BY <1>1, <1>2 DEF AddNode
<1>3. ASSUME ~ found
      PROVE  nodes' = nodes + 1 /\ map' = [now EXCEPT ![key[t]] = nodes + 1] /\ Goto(t, "unique_out")
  BY <1>1, <1>3 DEF AddNode
<1>4. NodesOK' /\ nodes' \in nodes .. MaxNodes
  <2>0. nodes \in 0 .. MaxNodes /\ MaxNodes \in Nat
    BY <1>0, MaxIsNat DEF Types
  <2>1. CASE found
    <3>1. NodesOK'
      BY <1>0, <1>1, <1>2, <2>1, SameNodes DEF Types, Goto
    <3>. QED  BY <1>2, <2>0, <2>1, <3>1
  <2>2. CASE ~ found
    BY <1>1, <1>3, <2>0, <2>2, RoomForNode
  <2>. QED  BY <2>1, <2>2
<1>5. nodes \in Nat /\ nodes' \in Nat /\ 1 .. nodes \subseteq 1 .. nodes'
  BY <1>0, <1>4, MaxIsNat DEF Types
<1>6. map' \in [Keys -> 1 .. nodes' \cup {None}]
  <2>1. CASE found
    BY <1>1, <1>2, <2>1
  <2>2. CASE ~ found
    BY <1>1, <1>3, <1>5, <2>2
  <2>. QED  BY <2>1, <2>2
<1>7. /\ node' \in [Threads -> 1 .. nodes' \cup {None}]
      /\ todo' \in [Threads -> SUBSET (1 .. nodes')]
  BY <1>0, <1>1, <1>5 DEF Types
<1>8. Goto(t, IF found THEN "old_node2" ELSE "unique_out")
  BY <1>2, <1>3
<1> HIDE DEF now
<1>9. Types'
  BY <1>0, <1>1, <1>4, <1>5, <1>6, <1>7, <1>8, MaxIsNat DEF Types, Steps, UniqueSteps, Goto
<1>10. LocalsOK'
  BY <1>0, <1>1, <1>8 DEF Types, LocalsOK, LocalOK, NodeSteps, ReadingSteps, AuthorSteps, Goto
<1>. QED  BY <1>4, <1>9, <1>10 DEF Shape

LEMMA ShapeNext == Shape /\ [Next]_vars => Shape'
<1> SUFFICES ASSUME Shape, [Next]_vars PROVE Shape'
  OBVIOUS
<1>1. ASSUME NEW t \in Threads, Call(t) \/ Step(t) PROVE Shape'
  <2>1. CASE AddNode(t)
    BY <2>1, ShapeAdd
  <2>2. CASE ~ AddNode(t)
    BY <1>1, <2>2, ShapeCall, ShapeReader, ShapeUpgrader, ShapePromotion, ShapeWriter DEF Step
  <2>. QED  BY <2>1, <2>2
<1>2. CASE UNCHANGED vars
  BY <1>2 DEF vars, contents, Shape, Types, LocalsOK, LocalOK, NodesOK, Made
<1>. QED  BY <1>1, <1>2 DEF Next

-----------------------------------------------------------------------------
(* The words of the nodes                                                  *)

LEMMA FiniteThreads ==
  ASSUME NEW S \in SUBSET Threads
  PROVE  IsFiniteSet(S) /\ Cardinality(S) \in Nat
BY ThreadsAssumption, FS_Subset, FS_CardinalityType

\* The word of a node that no thread begins to share or to write
LEMMA SameWord ==
  ASSUME Types, NEW n \in Nodes, WordOK(n), nflag'[n] = nflag[n],
         \A u \in Threads : pc'[u] \in ReadingSteps \cup AuthorSteps /\ node'[u] = n
                              => pc'[u] = pc[u] /\ node'[u] = node[u]
  PROVE  WordOK(n)'
<1>1. Sharing(n)' \subseteq Sharing(n) /\ Sharing(n) \subseteq Threads
  BY DEF Sharing
<1>2. Cardinality(Sharing(n)') <= Cardinality(Sharing(n))
  BY <1>1, FiniteThreads, FS_Subset
<1>3. /\ Cardinality(Sharing(n)') \in Nat /\ Cardinality(Sharing(n)) \in Nat
      /\ nflag[n] \in Int
  BY <1>1, FiniteThreads DEF Types
<1>4. Cardinality(Sharing(n)') <= IF nflag[n] >= 0 THEN nflag[n] ELSE 0
  BY <1>2, <1>3 DEF WordOK
<1>5. \A u \in Authors(n)' : u \in Authors(n) /\ pc'[u] = pc[u]
  BY DEF Authors
<1>. QED  BY <1>4, <1>5 DEF WordOK

LEMMA SameWords ==
  ASSUME Types, Words, nflag' = nflag,
         \A u \in Threads : pc'[u] \in ReadingSteps \cup AuthorSteps
                              => pc'[u] = pc[u] /\ node'[u] = node[u]
  PROVE  Words'
<1>1. ASSUME NEW n \in Nodes PROVE WordOK(n)'
  BY <1>1, SameWord DEF Words
<1>. QED  BY <1>1 DEF Words, Nodes, MaxNodes

\* A step of the thread t that changes the word of the node n, and t's part
\* in no other node
LEMMA OneWord ==
  ASSUME Types, Words, NEW t \in Threads, NEW n \in Nodes, WordOK(n)',
         \A m \in Nodes : m # n => nflag'[m] = nflag[m],
         \A u \in Threads : u # t => pc'[u] = pc[u] /\ node'[u] = node[u],
         node'[t] = n \/ pc'[t] \notin ReadingSteps \cup AuthorSteps
  PROVE  Words'
<1>1. ASSUME NEW m \in Nodes, m # n PROVE WordOK(m)'
  BY <1>1, SameWord DEF Words
<1>. QED  BY <1>1 DEF Words, Nodes, MaxNodes

\* The thread t begins to share the node n ...
LEMMA SharedMore ==
  ASSUME Types, NEW t \in Threads, NEW n,
         \A u \in Threads : u # t => pc'[u] = pc[u] /\ node'[u] = node[u],
         pc[t] \notin ReadingSteps, pc'[t] \in ReadingSteps, node'[t] = n
  PROVE  Cardinality(Sharing(n)') = Cardinality(Sharing(n)) + 1
<1>1. Sharing(n)' = Sharing(n) \cup {t} /\ t \notin Sharing(n)
  BY DEF Sharing
<1>2. IsFiniteSet(Sharing(n))
  BY FiniteThreads DEF Sharing
<1>. QED  BY <1>1, <1>2, FS_AddElement

\* ... or ends ...
LEMMA SharedLess ==
  ASSUME Types, NEW t \in Threads, NEW n,
         \A u \in Threads : u # t => pc'[u] = pc[u] /\ node'[u] = node[u],
         pc[t] \in ReadingSteps, node[t] = n, pc'[t] \notin ReadingSteps
  PROVE  /\ Cardinality(Sharing(n)') = Cardinality(Sharing(n)) - 1
         /\ Cardinality(Sharing(n)) >= 1
<1>1. Sharing(n)' = Sharing(n) \ {t} /\ t \in Sharing(n)
  BY DEF Sharing
<1>2. IsFiniteSet(Sharing(n)) /\ Cardinality(Sharing(n)) \in Nat /\ Cardinality(Sharing(n)') \in Nat
  BY <1>1, FiniteThreads DEF Sharing
<1>3. Cardinality(Sharing(n) \ {t}) = Cardinality(Sharing(n)) - 1
  BY <1>1, <1>2, FS_RemoveElement
<1>. QED  BY <1>1, <1>2, <1>3

\* ... or does neither.
LEMMA SharedSame ==
  ASSUME Types, NEW t \in Threads, NEW n,
         \A u \in Threads : u # t => pc'[u] = pc[u] /\ node'[u] = node[u],
         pc[t] \notin ReadingSteps, pc'[t] \notin ReadingSteps
  PROVE  Sharing(n)' = Sharing(n)
BY DEF Sharing

\* A node that a thread shares has a positive word, and no set or erase.
LEMMA SharedWord ==
  ASSUME Types, NEW t \in Threads, NEW n \in Nodes, WordOK(n),
         pc[t] \in ReadingSteps, node[t] = n
  PROVE  nflag[n] >= 1 /\ \A u \in Authors(n) : pc[u] \notin {"write", "erase"}
<1>1. t \in Sharing(n) /\ IsFiniteSet(Sharing(n)) /\ Cardinality(Sharing(n)) \in Nat
  BY FiniteThreads DEF Sharing
<1>2. Cardinality(Sharing(n)) # 0
  BY <1>1, FS_EmptySet
<1>3. nflag[n] \in Int
  BY DEF Types
<1>4. nflag[n] >= 1
  BY <1>1, <1>2, <1>3 DEF WordOK
<1>. QED  BY <1>3, <1>4 DEF WordOK

\* A node whose word is 0 or that is erased has no thread that writes it.
LEMMA NoAuthors ==
  ASSUME Types, NEW n \in Nodes, WordOK(n), nflag[n] <= 0, nflag[n] # -1
  PROVE  Authors(n) = {} /\ Sharing(n) = {}
<1>1. ASSUME NEW t \in Threads, pc[t] \in ReadingSteps, node[t] = n PROVE FALSE
  <2>1. nflag[n] >= 1 /\ nflag[n] \in Int
    BY <1>1, SharedWord DEF Types
  <2>. QED  BY <2>1
<1>2. ASSUME NEW t \in Authors(n) PROVE FALSE
  <2>1. t \in Threads /\ node[t] = n /\ pc[t] \in AuthorSteps
    BY <1>2 DEF Authors
  <2>2. pc[t] \in {"write", "erase"} \/ pc[t] \in ReadingSteps
    BY <2>1 DEF AuthorSteps, ReadingSteps
  <2>. QED  BY <1>1, <1>2, <2>1, <2>2 DEF WordOK
<1>. QED  BY <1>1, <1>2 DEF Sharing

\* The word of n after a step of t that does not begin to write it
LEMMA NoNewAuthor ==
  ASSUME Types, NEW t \in Threads, NEW n \in Nodes, WordOK(n),
         \A u \in Threads : u # t => pc'[u] = pc[u] /\ node'[u] = node[u],
         pc'[t] \notin AuthorSteps,
         nflag[n] # -1 \/ t \in Authors(n),
         nflag'[n] = Erased \/ nflag'[n] >= -1,
         Cardinality(Sharing(n)') <= IF nflag'[n] >= 0 THEN nflag'[n] ELSE 0
  PROVE  WordOK(n)'
<1>1. \A u \in Authors(n)' : u \in Authors(n) /\ u # t /\ pc'[u] = pc[u]
  BY DEF Authors
<1>2. \A u, v \in Authors(n)' : u = v
  BY <1>1 DEF WordOK
<1>3. \A u \in Authors(n)' : pc'[u] \notin {"write", "erase"}
  BY <1>1 DEF WordOK
<1>. QED  BY <1>2, <1>3 DEF WordOK

\* ... and after one that does, when nobody shares or writes it
LEMMA NewAuthor ==
  ASSUME Types, NEW t \in Threads, NEW n \in Nodes, Authors(n) = {},
         \A u \in Threads : u # t => pc'[u] = pc[u] /\ node'[u] = node[u],
         nflag'[n] >= -1,
         pc'[t] \in {"write", "erase"} => nflag'[n] = -1,
         Cardinality(Sharing(n)') <= IF nflag'[n] >= 0 THEN nflag'[n] ELSE 0
  PROVE  WordOK(n)'
<1>1. \A u \in Authors(n)' : u = t
  BY DEF Authors
<1>. QED  BY <1>1 DEF WordOK

LEMMA NobodyShares ==
  ASSUME Types, NEW n \in Nodes, WordOK(n), nflag[n] <= 0
  PROVE  Sharing(n) = {} /\ Cardinality(Sharing(n)) = 0
<1>1. IsFiniteSet(Sharing(n)) /\ Cardinality(Sharing(n)) \in Nat /\ nflag[n] \in Int
  BY FiniteThreads DEF Sharing, Types
<1>2. Cardinality(Sharing(n)) = 0
  BY <1>1 DEF WordOK
<1>. QED  BY <1>1, <1>2, FS_EmptySet

LEMMA WordsReader ==
  ASSUME Shape, Words, NEW t \in Threads, Reader(t)
  PROVE  Words'
<1>0. Types /\ LocalOK(t) /\ Words
  BY DEF Shape, LocalsOK
<1>1. ASSUME SharedBucket(t) PROVE Words'
  BY <1>0, <1>1, SameWords DEF Types, ReadingSteps, AuthorSteps, SharedBucket, contents, Goto
<1>2. ASSUME FindFails(t) PROVE Words'
  BY <1>0, <1>2, SameWords DEF Types, ReadingSteps, AuthorSteps, FindFails, table, contents,
       LeakAndReturn, Return, Goto
<1>3. ASSUME FindKey(t) PROVE Words'
  BY <1>0, <1>3, SameWords DEF Types, ReadingSteps, AuthorSteps, FindKey, table, contents, Goto
<1>4. ASSUME NodeErased(t) PROVE Words'
  BY <1>0, <1>4, SameWords DEF Types, ReadingSteps, AuthorSteps, NodeErased, table, contents,
       LeakAndReturn, Return, Goto
<1>5. ASSUME SharedNode(t) PROVE Words'
  <2>0. PICK n : n = node[t]
    OBVIOUS
  <2>1. n \in Nodes /\ WordOK(n) /\ nflag[n] \in Int /\ pc[t] = "node_shared"
    <3>1. pc[t] = "node_shared" /\ n \in 1 .. nodes
      BY <1>0, <1>5, <2>0 DEF SharedNode, Types, LocalOK, NodeSteps, ReadingSteps, AuthorSteps
    <3>. QED  BY <1>0, <3>1, WordIs DEF Words
  <2>2. /\ nflag'[n] = nflag[n] + 1 /\ nflag[n] >= 0
        /\ \A m \in Nodes : m # n => nflag'[m] = nflag[m]
    BY <1>0, <1>5, <2>0, <2>1 DEF Types, SharedNode, SetNode, Word, CanShare
  <2>3. /\ \A u \in Threads : u # t => pc'[u] = pc[u] /\ node'[u] = node[u]
        /\ node'[t] = n /\ pc'[t] = "read"
    BY <1>0, <1>5, <2>0 DEF Types, SharedNode, GoOn, Goto, locals
  <2>4. Cardinality(Sharing(n)) \in Nat
    BY FiniteThreads DEF Sharing
  <2>5. Cardinality(Sharing(n)') = Cardinality(Sharing(n)) + 1
    BY <1>0, <2>1, <2>3, SharedMore DEF ReadingSteps
  <2>6. WordOK(n)'
    <3>1. Cardinality(Sharing(n)) <= nflag[n]
      BY <2>1, <2>2 DEF WordOK
    <3>. QED  BY <1>0, <2>1, <2>2, <2>3, <2>4, <2>5, <3>1, NoNewAuthor DEF AuthorSteps
  <2>. QED  BY <1>0, <2>1, <2>2, <2>3, <2>6, OneWord
<1>6. ASSUME ReadValue(t) PROVE Words'
  <2>0. PICK n : n = node[t]
    OBVIOUS
  <2>1. n \in Nodes /\ WordOK(n) /\ nflag[n] \in Int /\ pc[t] = "read"
    <3>1. pc[t] = "read" /\ n \in 1 .. nodes
      BY <1>0, <1>6, <2>0 DEF ReadValue, Types, LocalOK, NodeSteps, ReadingSteps, AuthorSteps
    <3>. QED  BY <1>0, <3>1, WordIs DEF Words
  <2>2. /\ nflag'[n] = (IF Low(nflag[n]) = 0 THEN nflag[n] ELSE nflag[n] - 1)
        /\ \A m \in Nodes : m # n => nflag'[m] = nflag[m]
    BY <1>0, <1>6, <2>0, <2>1 DEF Types, ReadValue, SetNode, Word
  <2>3. /\ \A u \in Threads : u # t => pc'[u] = pc[u] /\ node'[u] = node[u]
        /\ node'[t] = n /\ pc'[t] = "unshare"
    BY <1>0, <1>6, <2>0 DEF Types, ReadValue, GoOn, Goto, locals
  <2>4. Cardinality(Sharing(n)) \in Nat
    BY FiniteThreads DEF Sharing
  <2>5. Cardinality(Sharing(n)') = Cardinality(Sharing(n)) - 1 /\ Cardinality(Sharing(n)) >= 1
    BY <1>0, <2>0, <2>1, <2>3, SharedLess DEF ReadingSteps
  <2>6. WordOK(n)'
    <3>1. Cardinality(Sharing(n)) <= nflag[n] /\ nflag[n] >= 1
      BY <2>1, <2>4, <2>5 DEF WordOK
    <3>2. nflag'[n] \in {nflag[n], nflag[n] - 1}
      BY <2>2
    <3>3. nflag'[n] >= 0 /\ Cardinality(Sharing(n)') <= nflag'[n]
      BY <2>1, <2>4, <2>5, <3>1, <3>2
    <3>. QED  BY <1>0, <2>1, <2>3, <3>1, <3>2, <3>3, NoNewAuthor DEF AuthorSteps
  <2>. QED  BY <1>0, <2>1, <2>2, <2>3, <2>6, OneWord
<1>7. ASSUME UniqueNode(t) PROVE Words'
  <2>0. PICK n : n = node[t]
    OBVIOUS
  <2>1. n \in Nodes /\ WordOK(n) /\ nflag[n] \in Int /\ pc[t] = "node_unique"
    <3>1. pc[t] = "node_unique" /\ n \in 1 .. nodes
      BY <1>0, <1>7, <2>0 DEF UniqueNode, Types, LocalOK, NodeSteps, ReadingSteps, AuthorSteps
    <3>. QED  BY <1>0, <3>1, WordIs DEF Words
  <2>2. /\ nflag'[n] = -1 /\ nflag[n] = 0
        /\ \A m \in Nodes : m # n => nflag'[m] = nflag[m]
    BY <1>0, <1>7, <2>0, <2>1 DEF Types, UniqueNode, SetNode, Word
  <2>3. /\ \A u \in Threads : u # t => pc'[u] = pc[u] /\ node'[u] = node[u]
        /\ node'[t] = n /\ pc'[t] \in {"write", "erase"}
    BY <1>0, <1>7, <2>0 DEF Types, UniqueNode, GoOn, Goto, locals
  <2>4. Cardinality(Sharing(n)) \in Nat
    BY FiniteThreads DEF Sharing
  <2>5. Authors(n) = {} /\ Cardinality(Sharing(n)) = 0
    BY <1>0, <2>1, <2>2, NoAuthors, NobodyShares
  <2>6. WordOK(n)'
    <3>1. Sharing(n)' = Sharing(n)
      BY <1>0, <2>1, <2>3, SharedSame DEF ReadingSteps
    <3>. QED  BY <1>0, <2>1, <2>2, <2>3, <2>5, <3>1, NewAuthor
  <2>. QED  BY <1>0, <2>1, <2>2, <2>3, <2>6, OneWord
<1>8. ASSUME WriteValue(t) PROVE Words'
  <2>0. PICK n : n = node[t]
    OBVIOUS
  <2>1. n \in Nodes /\ WordOK(n) /\ nflag[n] \in Int /\ pc[t] = "write"
    <3>1. pc[t] = "write" /\ n \in 1 .. nodes
      BY <1>0, <1>8, <2>0 DEF WriteValue, Types, LocalOK, NodeSteps, ReadingSteps, AuthorSteps
    <3>. QED  BY <1>0, <3>1, WordIs DEF Words
  <2>2. /\ nflag'[n] = nflag[n] + 1 /\ nflag[n] = -1
        /\ \A m \in Nodes : m # n => nflag'[m] = nflag[m]
    BY <1>0, <1>8, <2>0, <2>1 DEF Types, WriteValue, SetNode, Word, Authors, AuthorSteps, WordOK
  <2>3. /\ \A u \in Threads : u # t => pc'[u] = pc[u] /\ node'[u] = node[u]
        /\ node'[t] = n /\ pc'[t] = "unshare"
    BY <1>0, <1>8, <2>0 DEF Types, WriteValue, GoOn, Goto, locals
  <2>4. Cardinality(Sharing(n)) \in Nat
    BY FiniteThreads DEF Sharing
  <2>5. Cardinality(Sharing(n)) = 0
    BY <1>0, <2>1, <2>2, NobodyShares
  <2>6. WordOK(n)'
    <3>1. Sharing(n)' = Sharing(n) /\ t \in Authors(n)
      BY <1>0, <2>0, <2>1, <2>3, SharedSame DEF ReadingSteps, Authors, AuthorSteps
    <3>. QED  BY <1>0, <2>1, <2>2, <2>3, <2>5, <3>1, NoNewAuthor, ErasedIs DEF AuthorSteps
  <2>. QED  BY <1>0, <2>1, <2>2, <2>3, <2>6, OneWord
<1>9. ASSUME MarkErased(t) PROVE Words'
  <2>0. PICK n : n = node[t]
    OBVIOUS
  <2>1. n \in Nodes /\ WordOK(n) /\ nflag[n] \in Int /\ pc[t] = "erase"
    <3>1. pc[t] = "erase" /\ n \in 1 .. nodes
      BY <1>0, <1>9, <2>0 DEF MarkErased, Types, LocalOK, NodeSteps, ReadingSteps, AuthorSteps
    <3>. QED  BY <1>0, <3>1, WordIs DEF Words
  <2>2. /\ nflag'[n] = Erased /\ nflag[n] = -1
        /\ \A m \in Nodes : m # n => nflag'[m] = nflag[m]
    BY <1>0, <1>9, <2>0, <2>1 DEF Types, MarkErased, SetNode, Word, Authors, AuthorSteps, WordOK
  <2>3. /\ \A u \in Threads : u # t => pc'[u] = pc[u] /\ node'[u] = node[u]
        /\ node'[t] = n /\ pc'[t] = "unshare"
    BY <1>0, <1>9, <2>0 DEF Types, MarkErased, GoOn, Goto, locals
  <2>4. Cardinality(Sharing(n)) \in Nat
    BY FiniteThreads DEF Sharing
  <2>5. Cardinality(Sharing(n)) = 0
    BY <1>0, <2>1, <2>2, NobodyShares
  <2>6. WordOK(n)'
    <3>1. Sharing(n)' = Sharing(n) /\ t \in Authors(n)
      BY <1>0, <2>0, <2>1, <2>3, SharedSame DEF ReadingSteps, Authors, AuthorSteps
    <3>. QED  BY <1>0, <2>1, <2>2, <2>3, <2>5, <3>1, NoNewAuthor, ErasedIs DEF AuthorSteps
  <2>. QED  BY <1>0, <2>1, <2>2, <2>3, <2>6, OneWord
<1>10. ASSUME EachNode(t) PROVE Words'
  <2>1. PICK n \in todo[t] :
          \/ UNCHANGED <<nflag, node, pc>>
          \/ CanShare(n) /\ SetNode(n, nflag[n] + 1)
             /\ node' = [node EXCEPT ![t] = n] /\ Goto(t, "each_read")
    BY <1>10 DEF EachNode
  <2>2. CASE UNCHANGED <<nflag, node, pc>>
    BY <1>0, <2>2, SameWords
  <2>3. CASE /\ CanShare(n) /\ SetNode(n, nflag[n] + 1)
             /\ node' = [node EXCEPT ![t] = n] /\ Goto(t, "each_read")
    <3>1. n \in Nodes /\ WordOK(n) /\ nflag[n] \in Int /\ pc[t] = "each"
      <4>1. n \in 1 .. nodes /\ pc[t] = "each"
        BY <1>0, <1>10 DEF EachNode, Types
      <4>. QED  BY <1>0, <4>1, WordIs DEF Words
    <3>2. /\ nflag'[n] = nflag[n] + 1 /\ nflag[n] >= 0
          /\ \A m \in Nodes : m # n => nflag'[m] = nflag[m]
      BY <1>0, <2>3, <3>1 DEF Types, SetNode, CanShare
    <3>3. /\ \A u \in Threads : u # t => pc'[u] = pc[u] /\ node'[u] = node[u]
          /\ node'[t] = n /\ pc'[t] = "each_read"
      BY <1>0, <2>3 DEF Types, Goto
    <3>4. Cardinality(Sharing(n)) \in Nat /\ Cardinality(Sharing(n)) <= nflag[n]
      BY <3>1, <3>2, FiniteThreads DEF Sharing, WordOK
    <3>5. Cardinality(Sharing(n)') = Cardinality(Sharing(n)) + 1
      BY <1>0, <3>1, <3>3, SharedMore DEF ReadingSteps
    <3>6. WordOK(n)'
      BY <1>0, <3>1, <3>2, <3>3, <3>4, <3>5, NoNewAuthor DEF AuthorSteps
    <3>. QED  BY <1>0, <3>1, <3>2, <3>3, <3>6, OneWord
  <2>. QED  BY <2>1, <2>2, <2>3
<1>11. ASSUME EachUnlock(t) PROVE Words'
  <2>0. PICK n : n = node[t]
    OBVIOUS
  <2>1. n \in Nodes /\ WordOK(n) /\ nflag[n] \in Int /\ pc[t] = "each_read"
    <3>1. pc[t] = "each_read" /\ n \in 1 .. nodes
      BY <1>0, <1>11, <2>0 DEF EachUnlock, Types, LocalOK, NodeSteps, ReadingSteps, AuthorSteps
    <3>. QED  BY <1>0, <3>1, WordIs DEF Words
  <2>2. /\ nflag'[n] = nflag[n] + 1
        /\ \A m \in Nodes : m # n => nflag'[m] = nflag[m]
    BY <1>0, <1>11, <2>0, <2>1 DEF Types, EachUnlock, SetNode, Word
  <2>3. /\ \A u \in Threads : u # t => pc'[u] = pc[u] /\ node'[u] = node[u]
        /\ node'[t] = n /\ pc'[t] = "each"
    BY <1>0, <1>11, <2>0 DEF Types, EachUnlock, GoOn, Goto, locals
  <2>4. Cardinality(Sharing(n)) \in Nat
    BY FiniteThreads DEF Sharing
  <2>5. Cardinality(Sharing(n)') = Cardinality(Sharing(n)) - 1 /\ Cardinality(Sharing(n)) >= 1
    BY <1>0, <2>0, <2>1, <2>3, SharedLess DEF ReadingSteps
  <2>6. WordOK(n)'
    <3>1. Cardinality(Sharing(n)) <= nflag[n] /\ nflag[n] >= 1
      BY <2>1, <2>4, <2>5 DEF WordOK
    <3>2. nflag'[n] = nflag[n] + 1
      BY <2>2
    <3>3. nflag'[n] >= 0 /\ Cardinality(Sharing(n)') <= nflag'[n]
      BY <2>1, <2>4, <2>5, <3>1, <3>2
    <3>. QED  BY <1>0, <2>1, <2>3, <3>1, <3>2, <3>3, NoNewAuthor DEF AuthorSteps
  <2>. QED  BY <1>0, <2>1, <2>2, <2>3, <2>6, OneWord
<1>12. ASSUME UnlockShared(t) PROVE Words'
  BY <1>0, <1>12, SameWords DEF Types, ReadingSteps, AuthorSteps, UnlockShared, contents,
       Return, SharedDone, Goto
<1>. QED  BY <1>1, <1>2, <1>3, <1>4, <1>5, <1>6, <1>7, <1>8, <1>9, <1>10, <1>11, <1>12 DEF
     Reader

LEMMA WordsUpgrader ==
  ASSUME Shape, Words, NEW t \in Threads, Upgrader(t)
  PROVE  Words'
<1>0. Types /\ LocalOK(t) /\ Words
  BY DEF Shape, LocalsOK
<1>1. ASSUME UpgradeBucket(t) PROVE Words'
  BY <1>0, <1>1, SameWords DEF Types, ReadingSteps, AuthorSteps, UpgradeBucket, contents, GoOn,
       locals, Goto
<1>2. ASSUME Lookup(t) PROVE Words'
  BY <1>0, <1>2, SameWords DEF Types, ReadingSteps, AuthorSteps, Lookup, table, contents, Goto
<1>3. ASSUME InsertExisting(t) PROVE Words'
  <2>0. PICK n : n = node[t]
    OBVIOUS
  <2>1. n \in Nodes /\ WordOK(n) /\ nflag[n] \in Int /\ pc[t] \in {"old_node", "old_node2"}
    <3>1. pc[t] \in {"old_node", "old_node2"} /\ n \in 1 .. nodes
      BY <1>0, <1>3, <2>0 DEF InsertExisting, Types, LocalOK, NodeSteps, ReadingSteps,
           AuthorSteps
    <3>. QED  BY <1>0, <3>1, WordIs DEF Words
  <2>2. /\ nflag'[n] = -1 /\ nflag[n] = 0
        /\ \A m \in Nodes : m # n => nflag'[m] = nflag[m]
    BY <1>0, <1>3, <2>0, <2>1 DEF Types, InsertExisting, SetNode, Word
  <2>3. /\ \A u \in Threads : u # t => pc'[u] = pc[u] /\ node'[u] = node[u]
        /\ node'[t] = n /\ pc'[t] \in {"downgrade_false", "unique_false"}
    BY <1>0, <1>3, <2>0 DEF Types, InsertExisting, GoOn, Goto, locals, OnFirst
  <2>4. Cardinality(Sharing(n)) \in Nat
    BY FiniteThreads DEF Sharing
  <2>5. Cardinality(Sharing(n)) = 0
    BY <1>0, <2>1, <2>2, NobodyShares
  <2>6. WordOK(n)'
    <3>1. Sharing(n)' = Sharing(n)
      BY <1>0, <2>1, <2>3, SharedSame DEF ReadingSteps
    <3>. QED  BY <1>0, <2>1, <2>2, <2>3, <2>5, <3>1, NoNewAuthor DEF AuthorSteps
  <2>. QED  BY <1>0, <2>1, <2>2, <2>3, <2>6, OneWord
<1>4. ASSUME InsertErased(t) PROVE Words'
  BY <1>0, <1>4, SameWords DEF Types, ReadingSteps, AuthorSteps, InsertErased, table, contents,
       GoOn, locals, OnFirst, Goto
<1>5. ASSUME Revive(t) PROVE Words'
  <2>0. PICK n : n = node[t]
    OBVIOUS
  <2>1. n \in Nodes /\ WordOK(n) /\ nflag[n] \in Int /\ pc[t] \in {"revive", "revive2"}
    <3>1. pc[t] \in {"revive", "revive2"} /\ n \in 1 .. nodes
      BY <1>0, <1>5, <2>0 DEF Revive, Types, LocalOK, NodeSteps, ReadingSteps, AuthorSteps
    <3>. QED  BY <1>0, <3>1, WordIs DEF Words
  <2>2. /\ nflag'[n] = 1 /\ nflag[n] = Erased
        /\ \A m \in Nodes : m # n => nflag'[m] = nflag[m]
    BY <1>0, <1>5, <2>0, <2>1 DEF Types, Revive, SetNode, Word
  <2>3. /\ \A u \in Threads : u # t => pc'[u] = pc[u] /\ node'[u] = node[u]
        /\ node'[t] = n /\ pc'[t] \in {"revive_write", "revive_write2"}
    BY <1>0, <1>5, <2>0 DEF Types, Revive, GoOn, Goto, locals, OnFirst
  <2>4. Cardinality(Sharing(n)) \in Nat
    BY FiniteThreads DEF Sharing
  <2>5. Authors(n) = {} /\ Cardinality(Sharing(n)) = 0
    BY <1>0, <2>1, <2>2, NoAuthors, NobodyShares, ErasedIs
  <2>6. WordOK(n)'
    <3>1. Cardinality(Sharing(n)') = Cardinality(Sharing(n)) + 1
      BY <1>0, <2>1, <2>3, SharedMore DEF ReadingSteps
    <3>. QED  BY <1>0, <2>1, <2>2, <2>3, <2>5, <3>1, NewAuthor
  <2>. QED  BY <1>0, <2>1, <2>2, <2>3, <2>6, OneWord
<1>6. ASSUME ReviveFails(t) PROVE Words'
  BY <1>0, <1>6, SameWords DEF Types, ReadingSteps, AuthorSteps, ReviveFails, contents, Return,
       Goto
<1>7. ASSUME ReviveFails2(t) PROVE Words'
  BY <1>0, <1>7, SameWords DEF Types, ReadingSteps, AuthorSteps, ReviveFails2, table, contents,
       GoOn, locals, Goto
<1>8. ASSUME ReviveWrite(t) PROVE Words'
  <2>0. PICK n : n = node[t]
    OBVIOUS
  <2>1. n \in Nodes /\ WordOK(n) /\ nflag[n] \in Int /\ pc[t] \in {"revive_write", "revive_write2"}
    <3>1. pc[t] \in {"revive_write", "revive_write2"} /\ n \in 1 .. nodes
      BY <1>0, <1>8, <2>0 DEF ReviveWrite, Types, LocalOK, NodeSteps, ReadingSteps, AuthorSteps
    <3>. QED  BY <1>0, <3>1, WordIs DEF Words
  <2>2. /\ nflag'[n] = nflag[n] + 1
        /\ \A m \in Nodes : m # n => nflag'[m] = nflag[m]
    BY <1>0, <1>8, <2>0, <2>1 DEF Types, ReviveWrite, SetNode, Word
  <2>3. /\ \A u \in Threads : u # t => pc'[u] = pc[u] /\ node'[u] = node[u]
        /\ node'[t] = n /\ pc'[t] \in {"downgrade_true", "unique_twice"}
    BY <1>0, <1>8, <2>0 DEF Types, ReviveWrite, GoOn, Goto, locals, OnFirst
  <2>4. Cardinality(Sharing(n)) \in Nat
    BY FiniteThreads DEF Sharing
  <2>5. Cardinality(Sharing(n)') = Cardinality(Sharing(n)) - 1 /\ Cardinality(Sharing(n)) >= 1
    BY <1>0, <2>0, <2>1, <2>3, SharedLess DEF ReadingSteps
  <2>6. WordOK(n)'
    <3>1. Cardinality(Sharing(n)) <= nflag[n] /\ nflag[n] >= 1
      BY <2>1, <2>4, <2>5 DEF WordOK
    <3>2. nflag'[n] = nflag[n] + 1
      BY <2>2
    <3>3. nflag'[n] >= 0 /\ Cardinality(Sharing(n)') <= nflag'[n]
      BY <2>1, <2>4, <2>5, <3>1, <3>2
    <3>. QED  BY <1>0, <2>1, <2>3, <3>1, <3>2, <3>3, NoNewAuthor DEF AuthorSteps
  <2>. QED  BY <1>0, <2>1, <2>2, <2>3, <2>6, OneWord
<1>9. ASSUME UnlockUpgrade(t) PROVE Words'
  BY <1>0, <1>9, SameWords DEF Types, ReadingSteps, AuthorSteps, UnlockUpgrade, contents,
       Return, Goto
<1>. QED  BY <1>1, <1>2, <1>3, <1>4, <1>5, <1>6, <1>7, <1>8, <1>9 DEF Upgrader

LEMMA WordsPromotion ==
  ASSUME Shape, Words, NEW t \in Threads, Promotion(t)
  PROVE  Words'
<1>0. Types /\ LocalOK(t) /\ Words
  BY DEF Shape, LocalsOK
<1>1. ASSUME PromoteLoad(t) PROVE Words'
  BY <1>0, <1>1, SameWords DEF Types, ReadingSteps, AuthorSteps, PromoteLoad, LoadWord, table,
       contents, Goto
<1>2. ASSUME Negate(t) PROVE Words'
  BY <1>0, <1>2, SameWords DEF Types, ReadingSteps, AuthorSteps, Negate, Swap, GoOn, locals,
       contents, Goto
<1>3. ASSUME NegateFails(t) PROVE Words'
  BY <1>0, <1>3, SameWords DEF Types, ReadingSteps, AuthorSteps, NegateFails, LoadWord, table,
       contents, Goto
<1>4. ASSUME GiveUpUpgrade(t) PROVE Words'
  BY <1>0, <1>4, SameWords DEF Types, ReadingSteps, AuthorSteps, GiveUpUpgrade, Swap, GoOn,
       locals, contents, Goto
<1>5. ASSUME GiveUpFails(t) PROVE Words'
  BY <1>0, <1>5, SameWords DEF Types, ReadingSteps, AuthorSteps, GiveUpFails, GoOn, locals,
       table, contents, Goto
<1>6. ASSUME AwaitOthers(t) PROVE Words'
  BY <1>0, <1>6, SameWords DEF Types, ReadingSteps, AuthorSteps, AwaitOthers, GoOn, locals,
       table, contents, Goto
<1>7. ASSUME Reload(t) PROVE Words'
  BY <1>0, <1>7, SameWords DEF Types, ReadingSteps, AuthorSteps, Reload, LoadWord, table,
       contents, Goto
<1>8. ASSUME TakeUnique(t) PROVE Words'
  BY <1>0, <1>8, SameWords DEF Types, ReadingSteps, AuthorSteps, TakeUnique, Swap, GoOn, locals,
       contents, Goto
<1>9. ASSUME TakeFails(t) PROVE Words'
  BY <1>0, <1>9, SameWords DEF Types, ReadingSteps, AuthorSteps, TakeFails, LoadWord, table,
       contents, Goto
<1>10. ASSUME WordChanged(t) PROVE Words'
  BY <1>0, <1>10, SameWords DEF Types, ReadingSteps, AuthorSteps, WordChanged, GoOn, locals,
       table, contents, Goto
<1>. QED  BY <1>1, <1>2, <1>3, <1>4, <1>5, <1>6, <1>7, <1>8, <1>9, <1>10 DEF Promotion

LEMMA WordsWriter ==
  ASSUME Shape, Words, NEW t \in Threads, Writer(t)
  PROVE  Words'
<1>0. Types /\ LocalOK(t) /\ Words
  BY DEF Shape, LocalsOK
<1>1. ASSUME UnlockUnique(t) PROVE Words'
  BY <1>0, <1>1, SameWords DEF Types, ReadingSteps, AuthorSteps, UnlockUnique, contents, Return,
       Goto
<1>2. ASSUME UnlockTwice(t) PROVE Words'
  BY <1>0, <1>2, SameWords DEF Types, ReadingSteps, AuthorSteps, UnlockTwice, contents, GoOn,
       locals, Goto
<1>3. ASSUME AddNode(t) PROVE Words'
  BY <1>0, <1>3, SameWords DEF Types, ReadingSteps, AuthorSteps, AddNode, Goto
<1>. QED  BY <1>1, <1>2, <1>3 DEF Writer

-----------------------------------------------------------------------------
(* The word of the bucket                                                  *)

\* The steps of one thread move it into a set of steps, out of it, or neither.
Others(t) ==
  \A u \in Threads : u # t => /\ pc'[u] = pc[u] /\ node'[u] = node[u]
                              /\ key'[u] = key[u] /\ op'[u] = op[u]

LEMMA AtMore ==
  ASSUME NEW S, NEW t \in Threads, Others(t), pc[t] \notin S, pc'[t] \in S
  PROVE  Cardinality(At(S)') = Cardinality(At(S)) + 1
<1>1. At(S)' = At(S) \cup {t} /\ t \notin At(S) /\ IsFiniteSet(At(S))
  BY FiniteThreads DEF At, Others
<1>. QED  BY <1>1, FS_AddElement

LEMMA AtLess ==
  ASSUME NEW S, NEW t \in Threads, Others(t), pc[t] \in S, pc'[t] \notin S
  PROVE  Cardinality(At(S)') = Cardinality(At(S)) - 1 /\ Cardinality(At(S)) >= 1
<1>1. At(S)' = At(S) \ {t} /\ t \in At(S)
  BY DEF At, Others
<1>2. IsFiniteSet(At(S)) /\ Cardinality(At(S)) \in Nat /\ Cardinality(At(S)') \in Nat
  BY <1>1, FiniteThreads DEF At
<1>3. Cardinality(At(S) \ {t}) = Cardinality(At(S)) - 1
  BY <1>1, <1>2, FS_RemoveElement
<1>. QED  BY <1>1, <1>2, <1>3

LEMMA AtSame ==
  ASSUME NEW S, NEW t \in Threads, Others(t), pc[t] \in S <=> pc'[t] \in S
  PROVE  At(S)' = At(S)
BY DEF At, Others

LEMMA Counts ==
  ASSUME Types
  PROVE  /\ Cardinality(At(SharedSteps)) \in Nat /\ Cardinality(At(UpgradeSteps)) \in Nat
         /\ Shared \in Nat /\ Upgraded \in Nat
<1>1. Cardinality(At(SharedSteps)) \in Nat /\ Cardinality(At(UpgradeSteps)) \in Nat
  BY FiniteThreads DEF At
<1>. QED  BY <1>1 DEF Shared, Upgraded, Types

\* The word of the bucket after a step that locks or unlocks nothing ...
LEMMA SameBucket ==
  ASSUME Types, Bucket, NEW t \in Threads, Others(t),
         UNCHANGED <<bflag, leaked, lostRace>>,
         pc[t] \in SharedSteps <=> pc'[t] \in SharedSteps,
         pc[t] \in UpgradeSteps <=> pc'[t] \in UpgradeSteps
  PROVE  Bucket'
BY AtSame DEF Bucket, Shared, Upgraded

\* ... after one that returns with the bucket locked shared ...
LEMMA LeakBucket ==
  ASSUME Types, Bucket, NEW t \in Threads, Others(t),
         UNCHANGED <<bflag, lostRace>>, leaked' = leaked + 1,
         pc[t] \in SharedSteps, pc'[t] = "idle"
  PROVE  Bucket'
<1>1. /\ Cardinality(At(SharedSteps)') = Cardinality(At(SharedSteps)) - 1
      /\ At(UpgradeSteps)' = At(UpgradeSteps)
  BY AtLess, AtSame DEF SharedSteps, UpgradeSteps
<1>2. Shared' = Shared /\ Upgraded' = Upgraded
  BY <1>1, Counts DEF Shared, Upgraded, Types
<1>. QED  BY <1>2 DEF Bucket

\* ... or upgrade-locked ...
LEMMA RaceBucket ==
  ASSUME Types, Bucket, NEW t \in Threads, Others(t),
         UNCHANGED <<bflag, leaked>>, lostRace' = lostRace + 1,
         pc[t] \in UpgradeSteps, pc'[t] = "idle"
  PROVE  Bucket'
<1>1. /\ Cardinality(At(UpgradeSteps)') = Cardinality(At(UpgradeSteps)) - 1
      /\ At(SharedSteps)' = At(SharedSteps)
  BY AtLess, AtSame DEF SharedSteps, UpgradeSteps
<1>2. Shared' = Shared /\ Upgraded' = Upgraded
  BY <1>1, Counts DEF Shared, Upgraded, Types
<1>. QED  BY <1>2 DEF Bucket

\* ... and after the four that lock and unlock it.
LEMMA ShareBucket ==
  ASSUME Types, Bucket, NEW t \in Threads, Others(t), SharedBucket(t),
         pc'[t] \in SharedSteps
  PROVE  Bucket'
<1>1. /\ Cardinality(At(SharedSteps)') = Cardinality(At(SharedSteps)) + 1
      /\ At(UpgradeSteps)' = At(UpgradeSteps)
      /\ UNCHANGED <<leaked, lostRace>> /\ bflag' = bflag + 1 /\ Low(bflag) # Upgrade - 1
  <2>1. pc[t] = "shared"
    BY DEF SharedBucket
  <2>2. pc[t] \notin SharedSteps /\ pc[t] \notin UpgradeSteps /\ pc'[t] \notin UpgradeSteps
    BY <2>1 DEF SharedSteps, UpgradeSteps
  <2>. QED  BY <2>2, AtMore, AtSame DEF SharedBucket, history
<1>2. Shared' = Shared + 1 /\ Upgraded' = Upgraded
  BY <1>1, Counts DEF Shared, Upgraded, Types
<1>3. Low(bflag) = Shared /\ bflag = Shared + Upgrade * Upgraded
  BY Counts, PartsOf DEF Bucket
<1>4. Shared + 1 < Upgrade
  BY <1>1, <1>3, Counts, UpgradeIs DEF Bucket
<1>5. Upgrade * Upgraded \in Nat
  BY Counts, UpgradeIs
<1>. QED  BY <1>1, <1>2, <1>3, <1>4, <1>5, Counts DEF Bucket

LEMMA UnshareBucket ==
  ASSUME Types, Bucket, NEW t \in Threads, Others(t), UnlockShared(t), pc'[t] = "idle"
  PROVE  Bucket'
<1>1. /\ Cardinality(At(SharedSteps)') = Cardinality(At(SharedSteps)) - 1
      /\ Cardinality(At(SharedSteps)) >= 1
      /\ At(UpgradeSteps)' = At(UpgradeSteps)
      /\ UNCHANGED <<leaked, lostRace>> /\ bflag' = Unshared(bflag)
  <2>1. pc[t] \in {"unshare", "each"}
    BY DEF UnlockShared, SharedDone
  <2>2. pc[t] \in SharedSteps /\ pc'[t] \notin SharedSteps
        /\ pc[t] \notin UpgradeSteps /\ pc'[t] \notin UpgradeSteps
    BY <2>1 DEF SharedSteps, UpgradeSteps
  <2>. QED  BY <2>2, AtLess, AtSame DEF UnlockShared, history
<1>2. Shared' = Shared - 1 /\ Upgraded' = Upgraded /\ Shared >= 1
  BY <1>1, Counts DEF Shared, Upgraded, Types
<1>3. Low(bflag) = Shared /\ bflag = Shared + Upgrade * Upgraded
  BY Counts, PartsOf DEF Bucket
<1>4. bflag' = bflag - 1
  BY <1>1, <1>2, <1>3 DEF Unshared
<1>5. Upgrade * Upgraded \in Nat
  BY Counts, UpgradeIs
<1>. QED  BY <1>2, <1>3, <1>4, <1>5, Counts, UpgradeIs DEF Bucket

LEMMA UpgradedBucket ==
  ASSUME Types, Bucket, NEW t \in Threads, Others(t), UpgradeBucket(t), pc'[t] = "lookup"
  PROVE  Bucket'
<1>1. /\ Cardinality(At(UpgradeSteps)') = Cardinality(At(UpgradeSteps)) + 1
      /\ At(SharedSteps)' = At(SharedSteps)
      /\ UNCHANGED <<leaked, lostRace>> /\ bflag' = bflag + Upgrade
  <2>1. pc[t] = "upgrade"
    BY DEF UpgradeBucket
  <2>2. pc[t] \notin SharedSteps /\ pc'[t] \notin SharedSteps
        /\ pc[t] \notin UpgradeSteps /\ pc'[t] \in UpgradeSteps
    BY <2>1 DEF SharedSteps, UpgradeSteps
  <2>. QED  BY <2>2, AtMore, AtSame DEF UpgradeBucket, history
<1>2. Shared' = Shared /\ Upgraded' = Upgraded + 1
  BY <1>1, Counts DEF Shared, Upgraded, Types
<1>3. Upgrade * (Upgraded + 1) = Upgrade * Upgraded + Upgrade /\ Upgrade * Upgraded \in Nat
  BY Counts, UpgradeIs
<1>. QED  BY <1>1, <1>2, <1>3, Counts, UpgradeIs DEF Bucket

LEMMA DowngradedBucket ==
  ASSUME Types, Bucket, NEW t \in Threads, Others(t), UnlockUpgrade(t), pc'[t] = "idle"
  PROVE  Bucket'
<1>1. /\ Cardinality(At(UpgradeSteps)') = Cardinality(At(UpgradeSteps)) - 1
      /\ Cardinality(At(UpgradeSteps)) >= 1
      /\ At(SharedSteps)' = At(SharedSteps)
      /\ UNCHANGED <<leaked, lostRace>>
      /\ bflag' = IF HasHigh(bflag) THEN bflag - Upgrade ELSE bflag
  <2>1. pc[t] \in {"downgrade_true", "downgrade_false"}
    BY DEF UnlockUpgrade
  <2>2. pc[t] \notin SharedSteps /\ pc'[t] \notin SharedSteps
        /\ pc[t] \in UpgradeSteps /\ pc'[t] \notin UpgradeSteps
    BY <2>1 DEF SharedSteps, UpgradeSteps
  <2>. QED  BY <2>2, AtLess, AtSame DEF UnlockUpgrade, history
<1>2. Shared' = Shared /\ Upgraded' = Upgraded - 1 /\ Upgraded >= 1
  BY <1>1, Counts DEF Shared, Upgraded, Types
<1>3. HasHigh(bflag) /\ bflag = Shared + Upgrade * Upgraded
  BY <1>2, Counts, PartsOf DEF Bucket
<1>4. Upgrade * (Upgraded - 1) = Upgrade * Upgraded - Upgrade /\ Upgrade * Upgraded \in Nat
  BY Counts, UpgradeIs
<1>. QED  BY <1>1, <1>2, <1>3, <1>4, Counts, UpgradeIs DEF Bucket

LEMMA SoundReader ==
  ASSUME Shape, Words, Bucket, Unpromoted, ~ promoted', NEW t \in Threads, Reader(t)
  PROVE  Bucket' /\ Unpromoted'
<1>0. /\ Types /\ LocalOK(t) /\ Words /\ Bucket /\ Unpromoted /\ ~ promoted'
      /\ pc[t] \notin AwaitSteps \cup UniqueSteps
  BY DEF Shape, LocalsOK, Unpromoted, At
<1>1. ASSUME SharedBucket(t) PROVE Bucket' /\ Unpromoted'
  <2>1. /\ Others(t) /\ pc[t] \in {"shared"} /\ pc'[t] \in {"find", "each"}
        /\ UNCHANGED <<map, size, lostRace, leaked>> /\ op'[t] = op[t] /\ key'[t] = key[t]
        /\ node'[t] = node[t]
    BY <1>0, <1>1 DEF Types, Others, AwaitSteps, UniqueSteps, SharedBucket, contents, call,
         history, Goto
  <2>2. Bucket'
    BY <1>0, <1>1, <2>1, ShareBucket DEF SharedSteps
  <2>. QED  BY <1>0, <2>1, <2>2 DEF Unpromoted, At, Others, AwaitSteps, UniqueSteps
<1>2. ASSUME FindFails(t) PROVE Bucket' /\ Unpromoted'
  <2>1. /\ Others(t) /\ pc[t] \in {"find"} /\ pc'[t] \in {"idle"}
        /\ leaked' = leaked + 1
        /\ UNCHANGED <<map, size, lostRace, bflag>> /\ op'[t] = op[t] /\ key'[t] = key[t]
    BY <1>0, <1>2 DEF Types, Others, AwaitSteps, UniqueSteps, FindFails, table, contents, call,
         LeakAndReturn, Return, Goto
  <2>2. Bucket'
    BY <1>0, <1>2, <2>1, LeakBucket DEF SharedSteps
  <2>. QED  BY <1>0, <2>1, <2>2 DEF Unpromoted, At, Others, AwaitSteps, UniqueSteps
<1>3. ASSUME FindKey(t) PROVE Bucket' /\ Unpromoted'
  <2>1. /\ Others(t) /\ pc[t] \in {"find"} /\ pc'[t] \in {"node_shared", "node_unique"}
        /\ UNCHANGED <<map, size, lostRace, bflag, leaked>> /\ op'[t] = op[t] /\ key'[t] = key[t]
        /\ node'[t] = map[key[t]]
    BY <1>0, <1>3 DEF Types, Others, AwaitSteps, UniqueSteps, FindKey, table, contents, call,
         history, Goto
  <2>2. Bucket'
    BY <1>0, <1>3, <2>1, SameBucket DEF SharedSteps, UpgradeSteps
  <2>. QED  BY <1>0, <2>1, <2>2 DEF Unpromoted, At, Others, AwaitSteps, UniqueSteps
<1>4. ASSUME NodeErased(t) PROVE Bucket' /\ Unpromoted'
  <2>1. /\ Others(t) /\ pc[t] \in {"node_shared", "node_unique"} /\ pc'[t] \in {"idle"}
        /\ leaked' = leaked + 1
        /\ UNCHANGED <<map, size, lostRace, bflag>> /\ op'[t] = op[t] /\ key'[t] = key[t]
    BY <1>0, <1>4 DEF Types, Others, AwaitSteps, UniqueSteps, NodeErased, table, contents, call,
         LeakAndReturn, Return, Goto
  <2>2. Bucket'
    BY <1>0, <1>4, <2>1, LeakBucket DEF SharedSteps
  <2>. QED  BY <1>0, <2>1, <2>2 DEF Unpromoted, At, Others, AwaitSteps, UniqueSteps
<1>5. ASSUME SharedNode(t) PROVE Bucket' /\ Unpromoted'
  <2>1. /\ Others(t) /\ pc[t] \in {"node_shared"} /\ pc'[t] \in {"read"}
        /\ UNCHANGED <<map, size, lostRace, bflag, leaked>> /\ op'[t] = op[t] /\ key'[t] = key[t]
        /\ node'[t] = node[t]
    BY <1>0, <1>5 DEF Types, Others, AwaitSteps, UniqueSteps, SharedNode, contents, call,
         history, GoOn, locals, Goto
  <2>2. Bucket'
    BY <1>0, <1>5, <2>1, SameBucket DEF SharedSteps, UpgradeSteps
  <2>. QED  BY <1>0, <2>1, <2>2 DEF Unpromoted, At, Others, AwaitSteps, UniqueSteps
<1>6. ASSUME ReadValue(t) PROVE Bucket' /\ Unpromoted'
  <2>1. /\ Others(t) /\ pc[t] \in {"read"} /\ pc'[t] \in {"unshare"}
        /\ UNCHANGED <<map, size, lostRace, bflag, leaked>> /\ op'[t] = op[t] /\ key'[t] = key[t]
        /\ node'[t] = node[t]
    BY <1>0, <1>6 DEF Types, Others, AwaitSteps, UniqueSteps, ReadValue, contents, call,
         history, GoOn, locals, Goto
  <2>2. Bucket'
    BY <1>0, <1>6, <2>1, SameBucket DEF SharedSteps, UpgradeSteps
  <2>. QED  BY <1>0, <2>1, <2>2 DEF Unpromoted, At, Others, AwaitSteps, UniqueSteps
<1>7. ASSUME UniqueNode(t) PROVE Bucket' /\ Unpromoted'
  <2>1. /\ Others(t) /\ pc[t] \in {"node_unique"} /\ pc'[t] \in {"write", "erase"}
        /\ UNCHANGED <<map, size, lostRace, bflag, leaked>> /\ op'[t] = op[t] /\ key'[t] = key[t]
        /\ node'[t] = node[t]
    BY <1>0, <1>7 DEF Types, Others, AwaitSteps, UniqueSteps, UniqueNode, contents, call,
         history, GoOn, locals, Goto
  <2>2. Bucket'
    BY <1>0, <1>7, <2>1, SameBucket DEF SharedSteps, UpgradeSteps
  <2>. QED  BY <1>0, <2>1, <2>2 DEF Unpromoted, At, Others, AwaitSteps, UniqueSteps
<1>8. ASSUME WriteValue(t) PROVE Bucket' /\ Unpromoted'
  <2>1. /\ Others(t) /\ pc[t] \in {"write"} /\ pc'[t] \in {"unshare"}
        /\ UNCHANGED <<map, size, lostRace, bflag, leaked>> /\ op'[t] = op[t] /\ key'[t] = key[t]
        /\ node'[t] = node[t]
    BY <1>0, <1>8 DEF Types, Others, AwaitSteps, UniqueSteps, WriteValue, contents, call,
         history, GoOn, locals, Goto
  <2>2. Bucket'
    BY <1>0, <1>8, <2>1, SameBucket DEF SharedSteps, UpgradeSteps
  <2>. QED  BY <1>0, <2>1, <2>2 DEF Unpromoted, At, Others, AwaitSteps, UniqueSteps
<1>9. ASSUME MarkErased(t) PROVE Bucket' /\ Unpromoted'
  <2>1. Others(t) /\ pc'[t] = "unshare"
    BY <1>0, <1>9 DEF Types, Others, AwaitSteps, UniqueSteps, MarkErased, contents, call,
         history, GoOn, locals, Goto
  <2>2. Bucket'
    BY <1>0, <1>9, <2>1, SameBucket DEF SharedSteps, UpgradeSteps, MarkErased, history
  <2>. QED  BY <1>0, <2>1, <2>2 DEF Unpromoted, At, Others, AwaitSteps, UniqueSteps
<1>10. ASSUME EachNode(t) PROVE Bucket' /\ Unpromoted'
  <2>1. /\ Others(t) /\ pc[t] = "each" /\ pc'[t] \in {"each", "each_read"}
        /\ UNCHANGED <<map, size, lostRace, bflag, leaked>> /\ op'[t] = op[t] /\ key'[t] = key[t]
    BY <1>0, <1>10 DEF Types, Others, EachNode, contents, call, history, Goto
  <2>2. Bucket'
    BY <1>0, <2>1, SameBucket DEF SharedSteps, UpgradeSteps
  <2>. QED  BY <1>0, <2>1, <2>2 DEF Unpromoted, At, Others, AwaitSteps, UniqueSteps
<1>11. ASSUME EachUnlock(t) PROVE Bucket' /\ Unpromoted'
  <2>1. /\ Others(t) /\ pc[t] \in {"each_read"} /\ pc'[t] \in {"each"}
        /\ UNCHANGED <<map, size, lostRace, bflag, leaked>> /\ op'[t] = op[t] /\ key'[t] = key[t]
        /\ node'[t] = node[t]
    BY <1>0, <1>11 DEF Types, Others, AwaitSteps, UniqueSteps, EachUnlock, contents, call,
         history, GoOn, locals, Goto
  <2>2. Bucket'
    BY <1>0, <1>11, <2>1, SameBucket DEF SharedSteps, UpgradeSteps
  <2>. QED  BY <1>0, <2>1, <2>2 DEF Unpromoted, At, Others, AwaitSteps, UniqueSteps
<1>12. ASSUME UnlockShared(t) PROVE Bucket' /\ Unpromoted'
  <2>1. Others(t) /\ pc'[t] = "idle"
    BY <1>0, <1>12 DEF Types, Others, AwaitSteps, UniqueSteps, UnlockShared, contents, call,
         history, Return, Goto
  <2>2. Bucket'
    BY <1>0, <1>12, <2>1, UnshareBucket
  <2>. QED  BY <1>0, <2>1, <2>2 DEF Unpromoted, At, Others, AwaitSteps, UniqueSteps
<1>. QED  BY <1>1, <1>2, <1>3, <1>4, <1>5, <1>6, <1>7, <1>8, <1>9, <1>10, <1>11, <1>12 DEF
     Reader

LEMMA SoundUpgrader ==
  ASSUME Shape, Words, Bucket, Unpromoted, ~ promoted', NEW t \in Threads, Upgrader(t)
  PROVE  Bucket' /\ Unpromoted'
<1>0. /\ Types /\ LocalOK(t) /\ Words /\ Bucket /\ Unpromoted /\ ~ promoted'
      /\ pc[t] \notin AwaitSteps \cup UniqueSteps
  BY DEF Shape, LocalsOK, Unpromoted, At
<1>1. ASSUME UpgradeBucket(t) PROVE Bucket' /\ Unpromoted'
  <2>1. /\ Others(t) /\ pc[t] \in {"upgrade"} /\ pc'[t] \in {"lookup"}
        /\ UNCHANGED <<map, size, lostRace, leaked>> /\ op'[t] = op[t] /\ key'[t] = key[t]
        /\ node'[t] = node[t]
    BY <1>0, <1>1 DEF Types, Others, AwaitSteps, UniqueSteps, UpgradeBucket, contents, call,
         history, GoOn, locals, Goto
  <2>2. Bucket'
    BY <1>0, <1>1, <2>1, UpgradedBucket
  <2>. QED  BY <1>0, <2>1, <2>2 DEF Unpromoted, At, Others, AwaitSteps, UniqueSteps
<1>2. ASSUME Lookup(t) PROVE Bucket' /\ Unpromoted'
  <2>1. /\ Others(t) /\ pc[t] \in {"lookup"} /\ pc'[t] \in {"old_node", "promote"}
        /\ UNCHANGED <<map, size, lostRace, bflag, leaked>> /\ op'[t] = op[t] /\ key'[t] = key[t]
        /\ node'[t] = map[key[t]]
    BY <1>0, <1>2 DEF Types, Others, AwaitSteps, UniqueSteps, Lookup, table, contents, call,
         history, Goto
  <2>2. Bucket'
    BY <1>0, <1>2, <2>1, SameBucket DEF SharedSteps, UpgradeSteps
  <2>. QED  BY <1>0, <2>1, <2>2 DEF Unpromoted, At, Others, AwaitSteps, UniqueSteps
<1>3. ASSUME InsertExisting(t) PROVE Bucket' /\ Unpromoted'
  <2>1. /\ Others(t) /\ pc[t] \in {"old_node"} /\ pc'[t] \in {"downgrade_false"}
        /\ UNCHANGED <<map, size, lostRace, bflag, leaked>> /\ op'[t] = op[t] /\ key'[t] = key[t]
        /\ node'[t] = node[t]
    BY <1>0, <1>3 DEF Types, Others, AwaitSteps, UniqueSteps, InsertExisting, contents, call,
         history, GoOn, locals, OnFirst, Goto
  <2>2. Bucket'
    BY <1>0, <1>3, <2>1, SameBucket DEF SharedSteps, UpgradeSteps
  <2>. QED  BY <1>0, <2>1, <2>2 DEF Unpromoted, At, Others, AwaitSteps, UniqueSteps
<1>4. ASSUME InsertErased(t) PROVE Bucket' /\ Unpromoted'
  <2>1. /\ Others(t) /\ pc[t] \in {"old_node"} /\ pc'[t] \in {"revive"}
        /\ UNCHANGED <<map, size, lostRace, bflag, leaked>> /\ op'[t] = op[t] /\ key'[t] = key[t]
        /\ node'[t] = node[t]
    BY <1>0, <1>4 DEF Types, Others, AwaitSteps, UniqueSteps, InsertErased, table, contents,
         call, history, GoOn, locals, OnFirst, Goto
  <2>2. Bucket'
    BY <1>0, <1>4, <2>1, SameBucket DEF SharedSteps, UpgradeSteps
  <2>. QED  BY <1>0, <2>1, <2>2 DEF Unpromoted, At, Others, AwaitSteps, UniqueSteps
<1>5. ASSUME Revive(t) PROVE Bucket' /\ Unpromoted'
  <2>1. Others(t) /\ pc'[t] = "revive_write" /\ pc[t] = "revive"
    BY <1>0, <1>5 DEF Types, Others, AwaitSteps, UniqueSteps, Revive, contents, call, history,
         GoOn, locals, OnFirst, Goto
  <2>2. Bucket'
    BY <1>0, <1>5, <2>1, SameBucket DEF SharedSteps, UpgradeSteps, Revive, history
  <2>. QED  BY <1>0, <2>1, <2>2 DEF Unpromoted, At, Others, AwaitSteps, UniqueSteps
<1>6. ASSUME ReviveFails(t) PROVE Bucket' /\ Unpromoted'
  <2>1. Others(t) /\ pc'[t] = "idle" /\ pc[t] = "revive"
    BY <1>0, <1>6 DEF Types, Others, AwaitSteps, UniqueSteps, ReviveFails, contents, call,
         Return, Goto
  <2>2. Bucket'
    BY <1>0, <1>6, <2>1, RaceBucket DEF UpgradeSteps, ReviveFails
  <2>. QED  BY <1>0, <2>1, <2>2 DEF Unpromoted, At, Others, AwaitSteps, UniqueSteps
<1>7. ~ ReviveFails2(t)
  BY <1>0 DEF ReviveFails2, AwaitSteps, UniqueSteps
<1>8. ASSUME ReviveWrite(t) PROVE Bucket' /\ Unpromoted'
  <2>1. /\ Others(t) /\ pc[t] \in {"revive_write"} /\ pc'[t] \in {"downgrade_true"}
        /\ UNCHANGED <<map, size, lostRace, bflag, leaked>> /\ op'[t] = op[t] /\ key'[t] = key[t]
        /\ node'[t] = node[t]
    BY <1>0, <1>8 DEF Types, Others, AwaitSteps, UniqueSteps, ReviveWrite, contents, call,
         history, GoOn, locals, OnFirst, Goto
  <2>2. Bucket'
    BY <1>0, <1>8, <2>1, SameBucket DEF SharedSteps, UpgradeSteps
  <2>. QED  BY <1>0, <2>1, <2>2 DEF Unpromoted, At, Others, AwaitSteps, UniqueSteps
<1>9. ASSUME UnlockUpgrade(t) PROVE Bucket' /\ Unpromoted'
  <2>1. Others(t) /\ pc'[t] = "idle"
    BY <1>0, <1>9 DEF Types, Others, AwaitSteps, UniqueSteps, UnlockUpgrade, contents, call,
         history, Return, Goto
  <2>2. Bucket'
    BY <1>0, <1>9, <2>1, DowngradedBucket
  <2>. QED  BY <1>0, <2>1, <2>2 DEF Unpromoted, At, Others, AwaitSteps, UniqueSteps
<1>. QED  BY <1>1, <1>2, <1>3, <1>4, <1>5, <1>6, <1>7, <1>8, <1>9 DEF Upgrader

LEMMA SoundPromotion ==
  ASSUME Shape, Words, Bucket, Unpromoted, ~ promoted', NEW t \in Threads, Promotion(t)
  PROVE  Bucket' /\ Unpromoted'
<1>0. /\ Types /\ LocalOK(t) /\ Words /\ Bucket /\ Unpromoted /\ ~ promoted'
      /\ pc[t] \notin AwaitSteps \cup UniqueSteps
  BY DEF Shape, LocalsOK, Unpromoted, At
<1>1. ASSUME PromoteLoad(t) PROVE Bucket' /\ Unpromoted'
  <2>1. /\ Others(t) /\ pc[t] \in {"promote"} /\ pc'[t] \in {"negate", "exchange"}
        /\ UNCHANGED <<map, size, lostRace, bflag, leaked>> /\ op'[t] = op[t] /\ key'[t] = key[t]
        /\ node'[t] = node[t]
    BY <1>0, <1>1 DEF Types, Others, AwaitSteps, UniqueSteps, PromoteLoad, LoadWord, table,
         contents, call, history, Goto
  <2>2. Bucket'
    BY <1>0, <1>1, <2>1, SameBucket DEF SharedSteps, UpgradeSteps
  <2>. QED  BY <1>0, <2>1, <2>2 DEF Unpromoted, At, Others, AwaitSteps, UniqueSteps
<1>2. ~ Negate(t)
  BY <1>0 DEF Negate, Swap
<1>3. ASSUME NegateFails(t) PROVE Bucket' /\ Unpromoted'
  <2>1. /\ Others(t) /\ pc[t] \in {"negate"} /\ pc'[t] \in {"promote", "exchange"}
        /\ UNCHANGED <<map, size, lostRace, bflag, leaked>> /\ op'[t] = op[t] /\ key'[t] = key[t]
        /\ node'[t] = node[t]
    BY <1>0, <1>3 DEF Types, Others, AwaitSteps, UniqueSteps, NegateFails, LoadWord, table,
         contents, call, history, Goto
  <2>2. Bucket'
    BY <1>0, <1>3, <2>1, SameBucket DEF SharedSteps, UpgradeSteps
  <2>. QED  BY <1>0, <2>1, <2>2 DEF Unpromoted, At, Others, AwaitSteps, UniqueSteps
<1>4. ~ GiveUpUpgrade(t)
  BY <1>0 DEF GiveUpUpgrade, Swap
<1>5. ASSUME GiveUpFails(t) PROVE Bucket' /\ Unpromoted'
  <2>1. /\ Others(t) /\ pc[t] \in {"exchange"} /\ pc'[t] \in {"promote"}
        /\ UNCHANGED <<map, size, lostRace, bflag, leaked>> /\ op'[t] = op[t] /\ key'[t] = key[t]
        /\ node'[t] = node[t]
    BY <1>0, <1>5 DEF Types, Others, AwaitSteps, UniqueSteps, GiveUpFails, GoOn, locals, table,
         contents, call, history, Goto
  <2>2. Bucket'
    BY <1>0, <1>5, <2>1, SameBucket DEF SharedSteps, UpgradeSteps
  <2>. QED  BY <1>0, <2>1, <2>2 DEF Unpromoted, At, Others, AwaitSteps, UniqueSteps
<1>6. ~ AwaitOthers(t)
  BY <1>0 DEF AwaitOthers, AwaitSteps, UniqueSteps
<1>7. ~ Reload(t)
  BY <1>0 DEF Reload, AwaitSteps, UniqueSteps
<1>8. ~ TakeUnique(t)
  BY <1>0 DEF TakeUnique, AwaitSteps, UniqueSteps
<1>9. ~ TakeFails(t)
  BY <1>0 DEF TakeFails, AwaitSteps, UniqueSteps
<1>10. ~ WordChanged(t)
  BY <1>0 DEF WordChanged, AwaitSteps, UniqueSteps
<1>. QED  BY <1>1, <1>2, <1>3, <1>4, <1>5, <1>6, <1>7, <1>8, <1>9, <1>10 DEF Promotion

-----------------------------------------------------------------------------
(* _size                                                                   *)

\* What each thread has to count in _size is finite.
LEMMA SumTypes ==
  ASSUME Types
  PROVE  /\ IsFiniteSet(Pending) /\ Cardinality(Pending) \in Nat
         /\ IsFiniteSet(Erasing) /\ Cardinality(Erasing) \in Nat
         /\ IsFiniteSet(ErasedNodes) /\ Cardinality(ErasedNodes) \in Nat
         /\ size \in Int /\ lostRace \in Nat /\ nodes \in Nat
<1>1. Pending \in SUBSET Threads /\ Erasing \in SUBSET Threads
  BY DEF Pending, Erasing, At
<1>2. IsFiniteSet(Nodes) /\ ErasedNodes \in SUBSET Nodes
  BY MaxIsNat, FS_Interval DEF Nodes, ErasedNodes
<1>3. size \in Int /\ lostRace \in Nat /\ nodes \in Nat
  BY MaxIsNat DEF Types
<1>. QED  BY <1>1, <1>2, <1>3, FiniteThreads, FS_Subset, FS_CardinalityType

\* A step that neither erases a node nor revives one nor counts
LEMMA Quiet ==
  ASSUME Types, Counted, NEW t \in Threads, Others(t), UNCHANGED <<nodes, size, lostRace>>,
         \A n \in Nodes : nflag'[n] = Erased <=> nflag[n] = Erased,
         pc[t] \in PendingSteps <=> pc'[t] \in PendingSteps,
         t \in Erasing <=> (pc'[t] = "unshare" /\ op'[t] = "erase")
  PROVE  Counted'
<1>1. Pending' = Pending
  BY AtSame DEF Pending
<1>2. Erasing' = Erasing /\ ErasedNodes' = ErasedNodes
  BY DEF Erasing, ErasedNodes, Others
<1>. QED  BY <1>1, <1>2 DEF Counted

\* The word of the node in t's hand changes, and is not that of an erased one.
LEMMA NotErased ==
  ASSUME Types, NEW n \in Nodes, NEW f \in Int, SetNode(n, f), f # Erased, nflag[n] # Erased
  PROVE  \A m \in Nodes : nflag'[m] = Erased <=> nflag[m] = Erased
BY DEF SetNode, Types

LEMMA EraseCounted ==
  ASSUME NEW t \in Threads, Types, LocalOK(t), Words, Counted, Others(t), MarkErased(t),
         pc'[t] = "unshare"
  PROVE  Counted'
<1>1. PICK n : n = node[t]
  OBVIOUS
<1>2. /\ pc[t] = "erase" /\ op[t] = "erase" /\ op'[t] = "erase"
      /\ n \in 1 .. nodes /\ SetNode(n, Erased) /\ UNCHANGED <<nodes, size, lostRace>>
  BY <1>1 DEF MarkErased, Types, LocalOK, NodeSteps, AuthorSteps, contents, call, history
<1>3. n \in Nodes /\ nflag' = [nflag EXCEPT ![n] = Erased]
  BY <1>2, WordIs, ErasedIs DEF Types
<1>4. nflag[n] # Erased
  <2>1. t \in Authors(n) /\ WordOK(n)
    BY <1>1, <1>2, <1>3 DEF Authors, AuthorSteps, Words
  <2>. QED  BY <1>2, <2>1, ErasedIs DEF WordOK
<1>5. ErasedNodes' = ErasedNodes \cup {n} /\ n \notin ErasedNodes
  BY <1>3, <1>4 DEF ErasedNodes, Types
<1>6. Erasing' = Erasing \cup {t} /\ t \notin Erasing
  BY <1>2 DEF Erasing, Others
<1>7. Pending' = Pending
  BY <1>2, AtSame DEF Pending, PendingSteps
<1>8. /\ Cardinality(ErasedNodes') = Cardinality(ErasedNodes) + 1
      /\ Cardinality(Erasing') = Cardinality(Erasing) + 1
  BY <1>5, <1>6, SumTypes, FS_AddElement
<1>. QED  BY <1>2, <1>5, <1>7, <1>8, SumTypes DEF Counted

LEMMA ReviveCounted ==
  ASSUME NEW t \in Threads, Types, LocalOK(t), Counted, Others(t), Revive(t),
         pc[t] \in {"revive", "revive2"}, pc'[t] \in {"revive_write", "revive_write2"}
  PROVE  Counted'
<1>1. PICK n : n = node[t]
  OBVIOUS
<1>2. /\ n \in 1 .. nodes /\ SetNode(n, 1) /\ UNCHANGED <<nodes, size, lostRace>>
      /\ nflag[n] = Erased
  BY <1>1 DEF Revive, Types, LocalOK, NodeSteps, contents, call, history, Word
<1>3. n \in Nodes /\ nflag' = [nflag EXCEPT ![n] = 1] /\ 1 # Erased
  BY <1>2, WordIs, ErasedIs DEF Types
<1>4. ErasedNodes' = ErasedNodes \ {n} /\ n \in ErasedNodes
  BY <1>2, <1>3 DEF ErasedNodes, Types
<1>5. Erasing' = Erasing
  BY DEF Erasing, Others
<1>6. Cardinality(Pending') = Cardinality(Pending) + 1
  BY AtMore DEF Pending, PendingSteps
<1>7. Cardinality(ErasedNodes') = Cardinality(ErasedNodes) - 1
  BY <1>4, SumTypes, FS_RemoveElement
<1>. QED  BY <1>2, <1>4, <1>5, <1>6, <1>7, SumTypes DEF Counted

\* The steps that count: erase and insert, and the insert that lost the race
LEMMA CountErased ==
  ASSUME NEW t \in Threads, Types, LocalOK(t), Counted, Others(t), UnlockShared(t), pc'[t] = "idle"
  PROVE  Counted'
<1>1. /\ UNCHANGED <<nodes, nflag, lostRace>>
      /\ size' = IF op[t] = "erase" THEN size - 1 ELSE size
      /\ pc[t] = "unshare" \/ pc[t] = "each"
  BY DEF UnlockShared, SharedDone, contents, call, history
<1>2. ErasedNodes' = ErasedNodes
  BY <1>1 DEF ErasedNodes
<1>3. Pending' = Pending
  BY <1>1, AtSame DEF Pending, PendingSteps
<1>4. Erasing' = Erasing \ {t} /\ (t \in Erasing <=> op[t] = "erase")
  BY <1>1 DEF Erasing, Others, LocalOK
<1>5. Cardinality(Erasing') = IF t \in Erasing THEN Cardinality(Erasing) - 1 ELSE Cardinality(Erasing)
  BY <1>4, SumTypes, FS_RemoveElement
<1>. QED  BY <1>1, <1>2, <1>3, <1>4, <1>5, SumTypes DEF Counted

LEMMA CountPending ==
  ASSUME Types, Counted, NEW t \in Threads, Others(t), UNCHANGED <<nodes, nflag, lostRace>>,
         pc[t] \in PendingSteps, pc'[t] = "idle", size' = size + 1
  PROVE  Counted'
<1>1. ErasedNodes' = ErasedNodes
  BY DEF ErasedNodes
<1>2. Erasing' = Erasing
  BY DEF Erasing, PendingSteps, Others
<1>3. Cardinality(Pending') = Cardinality(Pending) - 1
  BY AtLess DEF Pending, PendingSteps
<1>. QED  BY <1>1, <1>2, <1>3, SumTypes DEF Counted

LEMMA CountRace ==
  ASSUME Types, Counted, NEW t \in Threads, Others(t), UNCHANGED <<nodes, nflag>>,
         lostRace' = lostRace + 1,
         \/ pc[t] = "revive" /\ pc'[t] = "idle" /\ size' = size + 1
         \/ pc[t] = "revive2" /\ pc'[t] = "unique_out" /\ size' = size
  PROVE  Counted'
<1>1. ErasedNodes' = ErasedNodes /\ Erasing' = Erasing
  BY DEF ErasedNodes, Erasing, Others
<1>2. CASE pc[t] = "revive" /\ pc'[t] = "idle" /\ size' = size + 1
  <2>1. Pending' = Pending
    BY <1>2, AtSame DEF Pending, PendingSteps
  <2>. QED  BY <1>1, <1>2, <2>1, SumTypes DEF Counted
<1>3. CASE pc[t] = "revive2" /\ pc'[t] = "unique_out" /\ size' = size
  <2>1. Cardinality(Pending') = Cardinality(Pending) + 1
    BY <1>3, AtMore DEF Pending, PendingSteps
  <2>. QED  BY <1>1, <1>3, <2>1, SumTypes DEF Counted
<1>. QED  BY <1>2, <1>3

LEMMA CountAdded ==
  ASSUME Shape, Counted, NEW t \in Threads, AddNode(t)
  PROVE  Counted'
<1>0. Types
  BY DEF Shape
<1> DEFINE now == IF saw[t] THEN map ELSE [k \in Keys |-> None]
           found == now[key[t]] # None
<1>1. /\ pc[t] = "add" /\ UNCHANGED <<nflag, size, lostRace, op, key>>
      /\ nodes' = IF found THEN nodes ELSE nodes + 1
      /\ node' = [node EXCEPT ![t] = now[key[t]]]
      /\ pc' = [pc EXCEPT ![t] = IF found THEN "old_node2" ELSE "unique_out"]
  BY DEF AddNode, call, Goto
<1> HIDE DEF now
<1>2. Others(t) /\ pc'[t] = IF found THEN "old_node2" ELSE "unique_out"
  BY <1>0, <1>1 DEF Types, Others
<1>3. ErasedNodes' = ErasedNodes /\ Erasing' = Erasing
  BY <1>1, <1>2 DEF ErasedNodes, Erasing, Others
<1>4. CASE found
  <2>1. Pending' = Pending
    BY <1>1, <1>2, <1>4, AtSame DEF Pending, PendingSteps
  <2>. QED  BY <1>1, <1>3, <1>4, <2>1 DEF Counted
<1>5. CASE ~ found
  <2>1. Cardinality(Pending') = Cardinality(Pending) + 1
    BY <1>1, <1>2, <1>5, AtMore DEF Pending, PendingSteps
  <2>2. nodes' = nodes + 1 /\ nodes \in Nat
    BY <1>0, <1>1, <1>5, SumTypes
  <2>3. ErasedNodes' \subseteq 1 .. nodes'
    BY <1>3, <2>2 DEF Counted
  <2>. QED  BY <1>0, <1>1, <1>3, <2>1, <2>2, <2>3, SumTypes DEF Counted
<1>. QED  BY <1>4, <1>5

LEMMA CountReader ==
  ASSUME Shape, Words, Counted, NEW t \in Threads, Reader(t)
  PROVE  Counted'
<1>0. Types /\ LocalOK(t) /\ Words /\ Counted
  BY DEF Shape, LocalsOK
<1>1. ASSUME SharedBucket(t) PROVE Counted'
  <2>1. /\ Others(t) /\ pc[t] \in {"shared"} /\ pc'[t] \in {"find", "each"}
        /\ UNCHANGED <<nodes, size, lostRace>> /\ op'[t] = op[t]
    BY <1>0, <1>1 DEF Types, Others, SharedBucket, contents, call,
         history, Goto
  <2>2. nflag' = nflag
    BY <1>1 DEF SharedBucket, contents, call, history
  <2>. QED  BY <1>0, <2>1, <2>2, Quiet DEF PendingSteps, Erasing, LocalOK
<1>2. ASSUME FindFails(t) PROVE Counted'
  <2>1. /\ Others(t) /\ pc[t] \in {"find"} /\ pc'[t] \in {"idle"}
        /\ UNCHANGED <<nodes, size, lostRace>> /\ op'[t] = op[t]
    BY <1>0, <1>2 DEF Types, Others, FindFails, table, contents, call,
         LeakAndReturn, Return, Goto
  <2>2. nflag' = nflag
    BY <1>2 DEF FindFails, table, contents, call, LeakAndReturn, Return
  <2>. QED  BY <1>0, <2>1, <2>2, Quiet DEF PendingSteps, Erasing, LocalOK
<1>3. ASSUME FindKey(t) PROVE Counted'
  <2>1. /\ Others(t) /\ pc[t] \in {"find"} /\ pc'[t] \in {"node_shared", "node_unique"}
        /\ UNCHANGED <<nodes, size, lostRace>> /\ op'[t] = op[t]
    BY <1>0, <1>3 DEF Types, Others, FindKey, table, contents, call,
         history, Goto
  <2>2. nflag' = nflag
    BY <1>3 DEF FindKey, table, contents, call, history
  <2>. QED  BY <1>0, <2>1, <2>2, Quiet DEF PendingSteps, Erasing, LocalOK
<1>4. ASSUME NodeErased(t) PROVE Counted'
  <2>1. /\ Others(t) /\ pc[t] \in {"node_shared", "node_unique"} /\ pc'[t] \in {"idle"}
        /\ UNCHANGED <<nodes, size, lostRace>> /\ op'[t] = op[t]
    BY <1>0, <1>4 DEF Types, Others, NodeErased, table, contents, call,
         LeakAndReturn, Return, Goto
  <2>2. nflag' = nflag
    BY <1>4 DEF NodeErased, table, contents, call, LeakAndReturn, Return
  <2>. QED  BY <1>0, <2>1, <2>2, Quiet DEF PendingSteps, Erasing, LocalOK
<1>5. ASSUME SharedNode(t) PROVE Counted'
  <2>1. /\ Others(t) /\ pc[t] \in {"node_shared"} /\ pc'[t] \in {"read"}
        /\ UNCHANGED <<nodes, size, lostRace>> /\ op'[t] = op[t]
    BY <1>0, <1>5 DEF Types, Others, SharedNode, contents, call,
         history, GoOn, locals, Goto
  <2>2. \A m \in Nodes : nflag'[m] = Erased <=> nflag[m] = Erased
    <3>1. PICK n : n = node[t]
      OBVIOUS
    <3>2. n \in 1 .. nodes
      BY <1>0, <2>1, <3>1 DEF Types, LocalOK, NodeSteps, ReadingSteps, AuthorSteps
    <3>3. n \in Nodes /\ nflag[n] \in Int /\ WordOK(n)
      BY <1>0, <3>2, WordIs DEF Words
    <3>4. nflag[n] >= 0
      BY <1>5, <3>1 DEF SharedNode, CanShare
    <3>5. SetNode(n, nflag[n] + 1)
      BY <1>5, <3>1 DEF SharedNode, Word
    <3>. QED  BY <1>0, <3>3, <3>4, <3>5, NotErased, ErasedIs
  <2>. QED  BY <1>0, <2>1, <2>2, Quiet DEF PendingSteps, Erasing, LocalOK
<1>6. ASSUME ReadValue(t) PROVE Counted'
  <2>1. /\ Others(t) /\ pc[t] \in {"read"} /\ pc'[t] \in {"unshare"}
        /\ UNCHANGED <<nodes, size, lostRace>> /\ op'[t] = op[t]
    BY <1>0, <1>6 DEF Types, Others, ReadValue, contents, call,
         history, GoOn, locals, Goto
  <2>2. \A m \in Nodes : nflag'[m] = Erased <=> nflag[m] = Erased
    <3>1. PICK n : n = node[t]
      OBVIOUS
    <3>2. n \in 1 .. nodes
      BY <1>0, <2>1, <3>1 DEF Types, LocalOK, NodeSteps, ReadingSteps, AuthorSteps
    <3>3. n \in Nodes /\ nflag[n] \in Int /\ WordOK(n)
      BY <1>0, <3>2, WordIs DEF Words
    <3>4. nflag[n] >= 0
      BY <1>6, <3>1 DEF ReadValue, Word
    <3>5. \E f \in {nflag[n], nflag[n] - 1} : SetNode(n, f)
      BY <1>6, <3>1 DEF ReadValue, Word
    <3>. QED  BY <1>0, <3>3, <3>4, <3>5, NotErased, ErasedIs
  <2>. QED  BY <1>0, <2>1, <2>2, Quiet DEF PendingSteps, Erasing, LocalOK
<1>7. ASSUME UniqueNode(t) PROVE Counted'
  <2>1. /\ Others(t) /\ pc[t] \in {"node_unique"} /\ pc'[t] \in {"write", "erase"}
        /\ UNCHANGED <<nodes, size, lostRace>> /\ op'[t] = op[t]
    BY <1>0, <1>7 DEF Types, Others, UniqueNode, contents, call,
         history, GoOn, locals, Goto
  <2>2. \A m \in Nodes : nflag'[m] = Erased <=> nflag[m] = Erased
    <3>1. PICK n : n = node[t]
      OBVIOUS
    <3>2. n \in 1 .. nodes
      BY <1>0, <2>1, <3>1 DEF Types, LocalOK, NodeSteps, ReadingSteps, AuthorSteps
    <3>3. n \in Nodes /\ nflag[n] \in Int /\ WordOK(n)
      BY <1>0, <3>2, WordIs DEF Words
    <3>4. nflag[n] = 0
      BY <1>7, <3>1 DEF UniqueNode, Word
    <3>5. SetNode(n, -1)
      BY <1>7, <3>1 DEF UniqueNode
    <3>. QED  BY <1>0, <3>3, <3>4, <3>5, NotErased, ErasedIs
  <2>. QED  BY <1>0, <2>1, <2>2, Quiet DEF PendingSteps, Erasing, LocalOK
<1>8. ASSUME WriteValue(t) PROVE Counted'
  <2>1. /\ Others(t) /\ pc[t] \in {"write"} /\ pc'[t] \in {"unshare"}
        /\ UNCHANGED <<nodes, size, lostRace>> /\ op'[t] = op[t]
    BY <1>0, <1>8 DEF Types, Others, WriteValue, contents, call,
         history, GoOn, locals, Goto
  <2>2. \A m \in Nodes : nflag'[m] = Erased <=> nflag[m] = Erased
    <3>1. PICK n : n = node[t]
      OBVIOUS
    <3>2. n \in 1 .. nodes
      BY <1>0, <2>1, <3>1 DEF Types, LocalOK, NodeSteps, ReadingSteps, AuthorSteps
    <3>3. n \in Nodes /\ nflag[n] \in Int /\ WordOK(n)
      BY <1>0, <3>2, WordIs DEF Words
    <3>4. nflag[n] = -1
      BY <1>0, <2>1, <3>1, <3>3 DEF WordOK, Authors, AuthorSteps
    <3>5. SetNode(n, nflag[n] + 1)
      BY <1>8, <3>1 DEF WriteValue, Word
    <3>. QED  BY <1>0, <3>3, <3>4, <3>5, NotErased, ErasedIs
  <2>. QED  BY <1>0, <2>1, <2>2, Quiet DEF PendingSteps, Erasing, LocalOK
<1>9. ASSUME MarkErased(t) PROVE Counted'
  <2>1. Others(t) /\ pc'[t] = "unshare"
    BY <1>0, <1>9 DEF Types, Others, MarkErased, contents, call,
         history, GoOn, locals, Goto
  <2>. QED  BY <1>0, <1>9, <2>1, EraseCounted
<1>10. ASSUME EachNode(t) PROVE Counted'
  <2>1. /\ Others(t) /\ pc[t] = "each" /\ pc'[t] \in {"each", "each_read"}
        /\ UNCHANGED <<nodes, size, lostRace>> /\ op'[t] = op[t]
    BY <1>0, <1>10 DEF Types, Others, EachNode, contents, call, history, Goto
  <2>2. \A m \in Nodes : nflag'[m] = Erased <=> nflag[m] = Erased
    <3>1. PICK n \in todo[t] :
            \/ UNCHANGED <<nflag, node, pc>>
            \/ CanShare(n) /\ SetNode(n, nflag[n] + 1)
      BY <1>10, Zenon DEF EachNode
    <3>2. n \in Nodes /\ nflag[n] \in Int
      BY <1>0, WordIs DEF Types
    <3>3. CanShare(n) => nflag[n] >= 0
      BY DEF CanShare
    <3>. QED  BY <1>0, <3>1, <3>2, <3>3, NotErased, ErasedIs
  <2>. QED  BY <1>0, <2>1, <2>2, Quiet DEF PendingSteps, Erasing, LocalOK
<1>11. ASSUME EachUnlock(t) PROVE Counted'
  <2>1. /\ Others(t) /\ pc[t] \in {"each_read"} /\ pc'[t] \in {"each"}
        /\ UNCHANGED <<nodes, size, lostRace>> /\ op'[t] = op[t]
    BY <1>0, <1>11 DEF Types, Others, EachUnlock, contents, call,
         history, GoOn, locals, Goto
  <2>2. \A m \in Nodes : nflag'[m] = Erased <=> nflag[m] = Erased
    <3>1. PICK n : n = node[t]
      OBVIOUS
    <3>2. n \in 1 .. nodes
      BY <1>0, <2>1, <3>1 DEF Types, LocalOK, NodeSteps, ReadingSteps, AuthorSteps
    <3>3. n \in Nodes /\ nflag[n] \in Int /\ WordOK(n)
      BY <1>0, <3>2, WordIs DEF Words
    <3>4. nflag[n] >= 1
      BY <1>0, <2>1, <3>1, <3>3, SharedWord DEF ReadingSteps
    <3>5. SetNode(n, nflag[n] + 1)
      BY <1>11, <3>1 DEF EachUnlock, Word
    <3>. QED  BY <1>0, <3>3, <3>4, <3>5, NotErased, ErasedIs
  <2>. QED  BY <1>0, <2>1, <2>2, Quiet DEF PendingSteps, Erasing, LocalOK
<1>12. ASSUME UnlockShared(t) PROVE Counted'
  <2>1. Others(t) /\ pc'[t] = "idle"
    BY <1>0, <1>12 DEF Types, Others, UnlockShared, contents, call,
         history, Return, Goto
  <2>. QED  BY <1>0, <1>12, <2>1, CountErased
<1>. QED  BY <1>1, <1>2, <1>3, <1>4, <1>5, <1>6, <1>7, <1>8, <1>9, <1>10, <1>11, <1>12 DEF
     Reader

LEMMA CountUpgrader ==
  ASSUME Shape, Words, Counted, NEW t \in Threads, Upgrader(t)
  PROVE  Counted'
<1>0. Types /\ LocalOK(t) /\ Words /\ Counted
  BY DEF Shape, LocalsOK
<1>1. ASSUME UpgradeBucket(t) PROVE Counted'
  <2>1. /\ Others(t) /\ pc[t] \in {"upgrade"} /\ pc'[t] \in {"lookup"}
        /\ UNCHANGED <<nodes, size, lostRace>> /\ op'[t] = op[t]
    BY <1>0, <1>1 DEF Types, Others, UpgradeBucket, contents, call,
         history, GoOn, locals, Goto
  <2>2. nflag' = nflag
    BY <1>1 DEF UpgradeBucket, contents, call, history, GoOn, locals
  <2>. QED  BY <1>0, <2>1, <2>2, Quiet DEF PendingSteps, Erasing, LocalOK
<1>2. ASSUME Lookup(t) PROVE Counted'
  <2>1. /\ Others(t) /\ pc[t] \in {"lookup"} /\ pc'[t] \in {"old_node", "promote"}
        /\ UNCHANGED <<nodes, size, lostRace>> /\ op'[t] = op[t]
    BY <1>0, <1>2 DEF Types, Others, Lookup, table, contents, call,
         history, Goto
  <2>2. nflag' = nflag
    BY <1>2 DEF Lookup, table, contents, call, history
  <2>. QED  BY <1>0, <2>1, <2>2, Quiet DEF PendingSteps, Erasing, LocalOK
<1>3. ASSUME InsertExisting(t) PROVE Counted'
  <2>1. /\ Others(t) /\ pc[t] \in {"old_node", "old_node2"}
        /\ pc'[t] \in {"downgrade_false", "unique_false"}
        /\ UNCHANGED <<nodes, size, lostRace>> /\ op'[t] = op[t]
    BY <1>0, <1>3 DEF Types, Others, InsertExisting, contents, call, history, GoOn, locals, OnFirst, Goto
  <2>2. \A m \in Nodes : nflag'[m] = Erased <=> nflag[m] = Erased
    <3>1. PICK n : n = node[t]
      OBVIOUS
    <3>2. n \in 1 .. nodes
      BY <1>0, <2>1, <3>1 DEF Types, LocalOK, NodeSteps, ReadingSteps, AuthorSteps
    <3>3. n \in Nodes /\ nflag[n] \in Int
      BY <1>0, <3>2, WordIs
    <3>4. nflag[n] = 0
      BY <1>3, <3>1 DEF InsertExisting, Word
    <3>5. SetNode(n, -1)
      BY <1>3, <3>1 DEF InsertExisting
    <3>. QED  BY <1>0, <3>3, <3>4, <3>5, NotErased, ErasedIs
  <2>. QED  BY <1>0, <2>1, <2>2, Quiet DEF PendingSteps, Erasing, LocalOK
<1>4. ASSUME InsertErased(t) PROVE Counted'
  <2>1. /\ Others(t) /\ pc[t] \in {"old_node", "old_node2"} /\ pc'[t] \in {"revive", "revive2"}
        /\ UNCHANGED <<nodes, size, lostRace>> /\ op'[t] = op[t]
    BY <1>0, <1>4 DEF Types, Others, InsertErased, contents, call, history, Goto, GoOn, locals, table, OnFirst
  <2>2. nflag' = nflag
    BY <1>4 DEF InsertErased, table, contents, call, history, GoOn, locals
  <2>. QED  BY <1>0, <2>1, <2>2, Quiet DEF PendingSteps, Erasing, LocalOK
<1>5. ASSUME Revive(t) PROVE Counted'
  <2>1. /\ Others(t) /\ pc[t] \in {"revive", "revive2"}
        /\ pc'[t] \in {"revive_write", "revive_write2"}
    BY <1>0, <1>5 DEF Types, Others, Revive, contents, call, history, GoOn, locals, OnFirst, Goto
  <2>. QED  BY <1>0, <1>5, <2>1, ReviveCounted
<1>6. ASSUME ReviveFails(t) PROVE Counted'
  <2>1. /\ Others(t) /\ pc[t] = "revive" /\ pc'[t] = "idle" /\ size' = size + 1
        /\ lostRace' = lostRace + 1 /\ UNCHANGED <<nodes, nflag>>
    BY <1>0, <1>6 DEF Types, Others, ReviveFails, contents, call, Return, Goto
  <2>. QED  BY <1>0, <2>1, CountRace
<1>7. ASSUME ReviveFails2(t) PROVE Counted'
  <2>1. /\ Others(t) /\ pc[t] = "revive2" /\ pc'[t] = "unique_out" /\ size' = size
        /\ lostRace' = lostRace + 1 /\ UNCHANGED <<nodes, nflag>>
    BY <1>0, <1>7 DEF Types, Others, ReviveFails2, table, contents, call, GoOn, locals, Goto
  <2>. QED  BY <1>0, <2>1, CountRace
<1>8. ASSUME ReviveWrite(t) PROVE Counted'
  <2>1. /\ Others(t) /\ pc[t] \in {"revive_write", "revive_write2"}
        /\ pc'[t] \in {"downgrade_true", "unique_twice"}
        /\ UNCHANGED <<nodes, size, lostRace>> /\ op'[t] = op[t]
    BY <1>0, <1>8 DEF Types, Others, ReviveWrite, contents, call, history, GoOn, locals, OnFirst, Goto
  <2>2. \A m \in Nodes : nflag'[m] = Erased <=> nflag[m] = Erased
    <3>1. PICK n : n = node[t]
      OBVIOUS
    <3>2. n \in 1 .. nodes
      BY <1>0, <2>1, <3>1 DEF Types, LocalOK, NodeSteps, ReadingSteps, AuthorSteps
    <3>3. n \in Nodes /\ nflag[n] \in Int /\ WordOK(n)
      BY <1>0, <3>2, WordIs DEF Words
    <3>4. nflag[n] >= 1
      BY <1>0, <2>1, <3>1, <3>3, SharedWord DEF ReadingSteps
    <3>5. SetNode(n, nflag[n] + 1)
      BY <1>8, <3>1 DEF ReviveWrite, Word
    <3>. QED  BY <1>0, <3>3, <3>4, <3>5, NotErased, ErasedIs
  <2>. QED  BY <1>0, <2>1, <2>2, Quiet DEF PendingSteps, Erasing, LocalOK
<1>9. ASSUME UnlockUpgrade(t) PROVE Counted'
  <2>1. /\ Others(t) /\ pc[t] \in {"downgrade_true", "downgrade_false"} /\ pc'[t] = "idle"
        /\ size' = (IF pc[t] = "downgrade_true" THEN size + 1 ELSE size)
        /\ UNCHANGED <<nodes, nflag, lostRace>> /\ op'[t] = op[t]
    BY <1>0, <1>9 DEF Types, Others, UnlockUpgrade, contents, call, history, Return, Goto
  <2>2. CASE pc[t] = "downgrade_true"
    BY <1>0, <2>1, <2>2, CountPending DEF PendingSteps
  <2>3. CASE pc[t] = "downgrade_false"
    BY <1>0, <2>1, <2>3, Quiet DEF PendingSteps, Erasing
  <2>. QED  BY <2>1, <2>2, <2>3
<1>. QED  BY <1>1, <1>2, <1>3, <1>4, <1>5, <1>6, <1>7, <1>8, <1>9 DEF Upgrader

LEMMA CountPromotion ==
  ASSUME Shape, Words, Counted, NEW t \in Threads, Promotion(t)
  PROVE  Counted'
<1>0. Types /\ LocalOK(t) /\ Words /\ Counted
  BY DEF Shape, LocalsOK
<1>1. ASSUME PromoteLoad(t) PROVE Counted'
  <2>1. /\ Others(t) /\ pc[t] \in {"promote"} /\ pc'[t] \in {"negate", "exchange"}
        /\ UNCHANGED <<nodes, size, lostRace>> /\ op'[t] = op[t]
    BY <1>0, <1>1 DEF Types, Others, PromoteLoad, LoadWord, table,
         contents, call, history, Goto
  <2>2. nflag' = nflag
    BY <1>1 DEF PromoteLoad, LoadWord, table, contents, call, history
  <2>. QED  BY <1>0, <2>1, <2>2, Quiet DEF PendingSteps, Erasing, LocalOK
<1>2. ASSUME Negate(t) PROVE Counted'
  <2>1. /\ Others(t) /\ pc[t] \in {"negate"} /\ pc'[t] \in {"promote"}
        /\ UNCHANGED <<nodes, size, lostRace>> /\ op'[t] = op[t]
    BY <1>0, <1>2 DEF Types, Others, Negate, contents, call, history, Goto, GoOn, locals, table, LoadWord, Swap
  <2>2. nflag' = nflag
    BY <1>2 DEF Negate, table, contents, call, history, GoOn, locals, Return, LoadWord, Swap
  <2>. QED  BY <1>0, <2>1, <2>2, Quiet DEF PendingSteps, Erasing, LocalOK
<1>3. ASSUME NegateFails(t) PROVE Counted'
  <2>1. /\ Others(t) /\ pc[t] \in {"negate"} /\ pc'[t] \in {"promote", "exchange"}
        /\ UNCHANGED <<nodes, size, lostRace>> /\ op'[t] = op[t]
    BY <1>0, <1>3 DEF Types, Others, NegateFails, LoadWord, table,
         contents, call, history, Goto
  <2>2. nflag' = nflag
    BY <1>3 DEF NegateFails, LoadWord, table, contents, call, history
  <2>. QED  BY <1>0, <2>1, <2>2, Quiet DEF PendingSteps, Erasing, LocalOK
<1>4. ASSUME GiveUpUpgrade(t) PROVE Counted'
  <2>1. /\ Others(t) /\ pc[t] \in {"exchange"} /\ pc'[t] \in {"await"}
        /\ UNCHANGED <<nodes, size, lostRace>> /\ op'[t] = op[t]
    BY <1>0, <1>4 DEF Types, Others, GiveUpUpgrade, contents, call, history, Goto, GoOn, locals, table, LoadWord, Swap
  <2>2. nflag' = nflag
    BY <1>4 DEF GiveUpUpgrade, table, contents, call, history, GoOn, locals, Return, LoadWord, Swap
  <2>. QED  BY <1>0, <2>1, <2>2, Quiet DEF PendingSteps, Erasing, LocalOK
<1>5. ASSUME GiveUpFails(t) PROVE Counted'
  <2>1. /\ Others(t) /\ pc[t] \in {"exchange"} /\ pc'[t] \in {"promote"}
        /\ UNCHANGED <<nodes, size, lostRace>> /\ op'[t] = op[t]
    BY <1>0, <1>5 DEF Types, Others, GiveUpFails, GoOn, locals, table,
         contents, call, history, Goto
  <2>2. nflag' = nflag
    BY <1>5 DEF GiveUpFails, GoOn, locals, table, contents, call, history
  <2>. QED  BY <1>0, <2>1, <2>2, Quiet DEF PendingSteps, Erasing, LocalOK
<1>6. ASSUME AwaitOthers(t) PROVE Counted'
  <2>1. /\ Others(t) /\ pc[t] \in {"await"} /\ pc'[t] \in {"reload"}
        /\ UNCHANGED <<nodes, size, lostRace>> /\ op'[t] = op[t]
    BY <1>0, <1>6 DEF Types, Others, AwaitOthers, contents, call, history, Goto, GoOn, locals, table, LoadWord, Swap
  <2>2. nflag' = nflag
    BY <1>6 DEF AwaitOthers, table, contents, call, history, GoOn, locals, Return, LoadWord, Swap
  <2>. QED  BY <1>0, <2>1, <2>2, Quiet DEF PendingSteps, Erasing, LocalOK
<1>7. ASSUME Reload(t) PROVE Counted'
  <2>1. /\ Others(t) /\ pc[t] \in {"reload"} /\ pc'[t] \in {"take"}
        /\ UNCHANGED <<nodes, size, lostRace>> /\ op'[t] = op[t]
    BY <1>0, <1>7 DEF Types, Others, Reload, contents, call, history, Goto, GoOn, locals, table, LoadWord, Swap
  <2>2. nflag' = nflag
    BY <1>7 DEF Reload, table, contents, call, history, GoOn, locals, Return, LoadWord, Swap
  <2>. QED  BY <1>0, <2>1, <2>2, Quiet DEF PendingSteps, Erasing, LocalOK
<1>8. ASSUME TakeUnique(t) PROVE Counted'
  <2>1. /\ Others(t) /\ pc[t] \in {"take"} /\ pc'[t] \in {"add"}
        /\ UNCHANGED <<nodes, size, lostRace>> /\ op'[t] = op[t]
    BY <1>0, <1>8 DEF Types, Others, TakeUnique, contents, call, history, Goto, GoOn, locals, table, LoadWord, Swap
  <2>2. nflag' = nflag
    BY <1>8 DEF TakeUnique, table, contents, call, history, GoOn, locals, Return, LoadWord, Swap
  <2>. QED  BY <1>0, <2>1, <2>2, Quiet DEF PendingSteps, Erasing, LocalOK
<1>9. ASSUME TakeFails(t) PROVE Counted'
  <2>1. /\ Others(t) /\ pc[t] \in {"take"} /\ pc'[t] \in {"changed"}
        /\ UNCHANGED <<nodes, size, lostRace>> /\ op'[t] = op[t]
    BY <1>0, <1>9 DEF Types, Others, TakeFails, contents, call, history, Goto, GoOn, locals, table, LoadWord, Swap
  <2>2. nflag' = nflag
    BY <1>9 DEF TakeFails, table, contents, call, history, GoOn, locals, Return, LoadWord, Swap
  <2>. QED  BY <1>0, <2>1, <2>2, Quiet DEF PendingSteps, Erasing, LocalOK
<1>10. ASSUME WordChanged(t) PROVE Counted'
  <2>1. /\ Others(t) /\ pc[t] \in {"changed"} /\ pc'[t] \in {"take"}
        /\ UNCHANGED <<nodes, size, lostRace>> /\ op'[t] = op[t]
    BY <1>0, <1>10 DEF Types, Others, WordChanged, contents, call, history, Goto, GoOn, locals, table, LoadWord, Swap
  <2>2. nflag' = nflag
    BY <1>10 DEF WordChanged, table, contents, call, history, GoOn, locals, Return, LoadWord, Swap
  <2>. QED  BY <1>0, <2>1, <2>2, Quiet DEF PendingSteps, Erasing, LocalOK
<1>. QED  BY <1>1, <1>2, <1>3, <1>4, <1>5, <1>6, <1>7, <1>8, <1>9, <1>10 DEF Promotion

LEMMA CountWriter ==
  ASSUME Shape, Words, Counted, NEW t \in Threads, Writer(t)
  PROVE  Counted'
<1>0. Types /\ LocalOK(t) /\ Counted
  BY DEF Shape, LocalsOK
<1>1. ASSUME UnlockUnique(t) PROVE Counted'
  <2>1. /\ Others(t) /\ pc[t] \in {"unique_out", "unique_false"} /\ pc'[t] = "idle"
        /\ size' = (IF pc[t] = "unique_out" THEN size + 1 ELSE size)
        /\ UNCHANGED <<nodes, nflag, lostRace>> /\ op'[t] = op[t]
    BY <1>0, <1>1 DEF Types, Others, UnlockUnique, contents, call, history, Return, Goto
  <2>2. CASE pc[t] = "unique_out"
    BY <1>0, <2>1, <2>2, CountPending DEF PendingSteps
  <2>3. CASE pc[t] = "unique_false"
    BY <1>0, <2>1, <2>3, Quiet DEF PendingSteps, Erasing
  <2>. QED  BY <2>1, <2>2, <2>3
<1>2. ASSUME UnlockTwice(t) PROVE Counted'
  <2>1. /\ Others(t) /\ pc[t] \in {"unique_twice"} /\ pc'[t] \in {"unique_out"}
        /\ UNCHANGED <<nodes, size, lostRace>> /\ op'[t] = op[t]
    BY <1>0, <1>2 DEF Types, Others, UnlockTwice, contents, call, history, Goto, GoOn, locals
  <2>2. nflag' = nflag
    BY <1>2 DEF UnlockTwice, contents, call, history, GoOn, locals
  <2>. QED  BY <1>0, <2>1, <2>2, Quiet DEF PendingSteps, Erasing, LocalOK
<1>. QED  BY <1>1, <1>2, CountAdded DEF Writer

LEMMA CountNext == Shape /\ Words /\ Counted /\ [Next]_vars => Counted'
<1> SUFFICES ASSUME Shape, Words, Counted, [Next]_vars PROVE Counted'
  OBVIOUS
<1>0. Types
  BY DEF Shape
<1>1. ASSUME NEW t \in Threads, Step(t) PROVE Counted'
  BY <1>1, CountReader, CountUpgrader, CountPromotion, CountWriter DEF Step
<1>2. ASSUME NEW t \in Threads, Call(t) PROVE Counted'
  <2>1. /\ pc[t] = "idle" /\ pc'[t] \in {"upgrade", "shared"} /\ Others(t)
        /\ UNCHANGED <<nodes, size, lostRace, nflag>>
    BY <1>0, <1>2 DEF Types, Others, Call, Goto, table, contents, locals, history
  <2>. QED  BY <1>0, <2>1, Quiet DEF PendingSteps, Erasing
<1>3. CASE UNCHANGED vars
  BY <1>3 DEF vars, contents, Counted, ErasedNodes, Pending, Erasing, At
<1>. QED  BY <1>1, <1>2, <1>3 DEF Next

-----------------------------------------------------------------------------
(* The map                                                                 *)

\* An insert adds its key to the map that is there, unless it saw none.
LEMMA MapAdded ==
  ASSUME Shape, MapOK, NEW t \in Threads, AddNode(t)
  PROVE  MapOK'
<1>0. Types /\ nodes \in Nat /\ None \notin Nat
  BY SumTypes, NoneAssumption DEF Shape
<1> DEFINE now == IF saw[t] THEN map ELSE [k \in Keys |-> None]
           found == now[key[t]] # None
<1>1. /\ key[t] \in Keys /\ hasMap' = TRUE
      /\ nodes' = IF found THEN nodes ELSE nodes + 1
      /\ map' = IF found THEN now ELSE [now EXCEPT ![key[t]] = nodes + 1]
      /\ overwrote' = (overwrote \/ (hasMap /\ ~ saw[t]))
  BY DEF AddNode, Shape, LocalsOK, LocalOK
<1>2. now \in [Keys -> 1 .. nodes \cup {None}] /\ saw[t] \in BOOLEAN
  BY <1>0 DEF Types
<1>3. \A k, l \in Keys : now[k] = now[l] => k = l \/ now[k] = None
  BY DEF MapOK
<1>4. ASSUME ~ overwrote'
      PROVE  \A n \in 1 .. nodes : \E k \in Keys : now[k] = n
  <2>1. ~ overwrote /\ (saw[t] \/ ~ hasMap)
    BY <1>1, <1>4
  <2>2. CASE saw[t]
    BY <2>1, <2>2 DEF MapOK
  <2>3. CASE ~ hasMap
    BY <2>3 DEF MapOK
  <2>. QED  BY <2>1, <2>2, <2>3
<1> HIDE DEF now
<1>5. CASE found
  BY <1>1, <1>3, <1>4, <1>5 DEF MapOK
<1>6. CASE ~ found
  <2>1. map' = [now EXCEPT ![key[t]] = nodes + 1] /\ nodes' = nodes + 1
    BY <1>1, <1>6
  <2>2. \A k \in Keys : now[k] # nodes + 1
    BY <1>0, <1>2
  <2>3. \A k, l \in Keys : map'[k] = map'[l] => k = l \/ map'[k] = None
    BY <1>1, <1>2, <1>3, <2>1, <2>2
  <2>4. ASSUME ~ overwrote', NEW n \in 1 .. nodes' PROVE \E k \in Keys : map'[k] = n
    <3>1. CASE n = nodes + 1
      BY <1>1, <1>2, <2>1, <3>1
    <3>2. CASE n \in 1 .. nodes
      <4>1. PICK k \in Keys : now[k] = n
        BY <1>4, <2>4, <3>2
      <4>2. k # key[t]
        BY <1>0, <1>6, <3>2, <4>1
      <4>. QED  BY <1>2, <2>1, <4>1, <4>2
    <3>. QED  BY <1>0, <2>1, <2>4, <3>1, <3>2
  <2>. QED  BY <1>1, <2>3, <2>4 DEF MapOK
<1>. QED  BY <1>5, <1>6

LEMMA MapNext == Shape /\ MapOK /\ [Next]_vars => MapOK'
<1> SUFFICES ASSUME Shape, MapOK, [Next]_vars PROVE MapOK'
  OBVIOUS
<1>1. CASE \E t \in Threads : AddNode(t)
  BY <1>1, MapAdded
<1>2. CASE ~ \E t \in Threads : AddNode(t)
  <2>1. UNCHANGED <<map, hasMap, nodes, overwrote>>
    BY <1>2, Zenon DEF Next, Call, Step, Reader, Upgrader, Promotion, Writer, SharedBucket,
         FindFails, FindKey, NodeErased, SharedNode, ReadValue, UniqueNode, WriteValue,
         MarkErased, EachNode, EachUnlock, UnlockShared, UpgradeBucket, Lookup,
         InsertExisting, InsertErased, Revive, ReviveFails, ReviveFails2, ReviveWrite,
         UnlockUpgrade, PromoteLoad, Negate, NegateFails, GiveUpUpgrade, GiveUpFails,
         AwaitOthers, Reload, TakeUnique, TakeFails, WordChanged, UnlockUnique, UnlockTwice,
         LoadWord, Swap, LeakAndReturn, GoOn, history, table, contents, vars
  <2>. QED  BY <2>1 DEF MapOK
<1>. QED  BY <1>1, <1>2

-----------------------------------------------------------------------------
(* The theorems                                                            *)

LEMMA InitShape == Init => Shape
<1> SUFFICES ASSUME Init PROVE Shape
  OBVIOUS
<1>1. nodes \in 0 .. Cardinality(Keys) /\ nodes \in 0 .. MaxNodes
  BY MaxIsNat DEF Init
<1>2. Types
  <2>1. /\ bflag \in Int /\ size \in Int /\ leaked \in Nat /\ lostRace \in Nat
        /\ nflag \in [Nodes -> Int] /\ old \in [Threads -> Int]
        /\ calls \in [Threads -> 0 .. MaxOps]
    BY <1>1, OpsAssumption, MaxIsNat DEF Init
  <2>2. hasMap \in BOOLEAN /\ promoted \in BOOLEAN /\ saw \in [Threads -> BOOLEAN]
    <3>1. hasMap = (nodes > 0) /\ promoted = FALSE /\ saw = [t \in Threads |-> FALSE]
      BY DEF Init
    <3>2. hasMap \in BOOLEAN
      <4>1. CASE nodes > 0
        <5>1. hasMap <=> TRUE
          BY <3>1, <4>1
        <5>. QED  BY <3>1, <4>1, <5>1
      <4>2. CASE ~ (nodes > 0)
        BY <3>1, <4>2
      <4>. QED  BY <4>1, <4>2
    <3>. QED  BY <3>1, <3>2
  <2>3. /\ map \in [Keys -> 1 .. nodes \cup {None}]
        /\ pc \in [Threads -> Steps] /\ op \in [Threads -> AllOps]
        /\ key \in [Threads -> Keys \cup {None}]
        /\ node \in [Threads -> 1 .. nodes \cup {None}]
        /\ todo \in [Threads -> SUBSET (1 .. nodes)]
    BY DEF Init, Steps, AllOps
  <2>. QED  BY <1>1, <2>1, <2>2, <2>3 DEF Types
<1>3. LocalsOK
  BY DEF Init, LocalsOK, LocalOK, NodeSteps, ReadingSteps, AuthorSteps
<1>4. NodesOK
  <2>1. Cardinality({}) = 0 /\ {} \in SUBSET (Threads \X (1 .. MaxOps))
    BY FS_EmptySet
  <2>2. Made({})
    BY <1>1, <2>1, MaxIsNat DEF Made
  <2>. QED  BY <2>1, <2>2 DEF NodesOK
<1>. QED  BY <1>2, <1>3, <1>4 DEF Shape

LEMMA InitWords == Init => Words
<1> SUFFICES ASSUME Init, NEW n \in Nodes PROVE WordOK(n)
  BY DEF Words
<1>1. Sharing(n) = {} /\ Authors(n) = {} /\ nflag[n] = 0
  BY DEF Init, Sharing, Authors, ReadingSteps, AuthorSteps
<1>. QED  BY <1>1, FS_EmptySet DEF WordOK

LEMMA InitSound == Init => Bucket /\ Unpromoted /\ Counted /\ MapOK
<1> SUFFICES ASSUME Init PROVE Bucket /\ Unpromoted /\ Counted /\ MapOK
  OBVIOUS
<1>0. Types
  BY InitShape DEF Shape
<1>1. Bucket
  <2>1. At(SharedSteps) = {} /\ At(UpgradeSteps) = {}
    BY DEF Init, At, SharedSteps, UpgradeSteps
  <2>2. Shared = 0 /\ Upgraded = 0
    BY <2>1, FS_EmptySet DEF Shared, Upgraded, Init
  <2>. QED  BY <2>2, UpgradeIs DEF Bucket, Init
<1>2. Pending = {} /\ Erasing = {} /\ Unpromoted /\ ErasedNodes = {}
  BY ErasedIs DEF Init, Pending, PendingSteps, Erasing, Unpromoted, At, AwaitSteps, UniqueSteps,
     ErasedNodes
<1>3. Counted
  BY <1>0, <1>2, SumTypes, FS_EmptySet DEF Init, Counted
<1>4. MapOK
  <2>1. hasMap \/ nodes = 0
    <3>1. hasMap = (nodes > 0) /\ nodes \in Nat
      BY <1>0, SumTypes DEF Init
    <3>2. nodes > 0 => hasMap
      <4>1. CASE nodes > 0
        <5>1. (nodes > 0) = TRUE
          BY <4>1
        <5>. QED  BY <3>1, <5>1
      <4>. QED  BY <4>1
    <3>. QED  BY <3>1, <3>2
  <2>. QED  BY <2>1 DEF Init, MapOK
<1>. QED  BY <1>1, <1>2, <1>3, <1>4

LEMMA WordsNext == Shape /\ Words /\ [Next]_vars => Words'
<1> SUFFICES ASSUME Shape, Words, [Next]_vars PROVE Words'
  OBVIOUS
<1>0. Types
  BY DEF Shape
<1>1. ASSUME NEW t \in Threads, Step(t) PROVE Words'
  BY <1>1, WordsReader, WordsUpgrader, WordsPromotion, WordsWriter DEF Step
<1>2. ASSUME NEW t \in Threads, Call(t) PROVE Words'
  BY <1>0, <1>2, SameWords DEF Types, ReadingSteps, AuthorSteps, Call, Goto, table, locals
<1>3. CASE UNCHANGED vars
  BY <1>0, <1>3, SameWords DEF vars
<1>. QED  BY <1>1, <1>2, <1>3 DEF Next

LEMMA SoundNext ==
  Shape /\ Words /\ Bucket /\ Unpromoted /\ [Next]_vars /\ ~ promoted' => Bucket' /\ Unpromoted'
<1> SUFFICES ASSUME Shape, Words, Bucket, Unpromoted, [Next]_vars, ~ promoted'
             PROVE  Bucket' /\ Unpromoted'
  OBVIOUS
<1>0. Types
  BY DEF Shape
<1>1. ASSUME NEW t \in Threads, Step(t) PROVE Bucket' /\ Unpromoted'
  <2>1. ~ Writer(t)
    BY DEF Unpromoted, At, Writer, AddNode, UnlockUnique, UnlockTwice, UniqueSteps
  <2>. QED  BY <1>1, <2>1, SoundReader, SoundUpgrader, SoundPromotion DEF Step
<1>2. ASSUME NEW t \in Threads, Call(t) PROVE Bucket' /\ Unpromoted'
  <2>1. /\ pc[t] = "idle" /\ pc'[t] \in {"upgrade", "shared"} /\ Others(t)
        /\ UNCHANGED <<map, size, lostRace, bflag, leaked, nflag>>
    BY <1>0, <1>2 DEF Types, Others, Call, Goto, table, contents, locals, history
  <2>2. Bucket'
    BY <1>0, <2>1, SameBucket DEF SharedSteps, UpgradeSteps
  <2>. QED  BY <2>1, <2>2 DEF Unpromoted, At, Others, AwaitSteps, UniqueSteps
<1>3. CASE UNCHANGED vars
  BY <1>3 DEF vars, contents, Bucket, Shared, Upgraded, Unpromoted, At
<1>. QED  BY <1>1, <1>2, <1>3 DEF Next

LEMMA Invariance == Spec => []IInv
<1>1. Init => IInv
  BY InitShape, InitWords, InitSound DEF IInv
<1>2. IInv /\ [Next]_vars => IInv'
  <2> SUFFICES ASSUME IInv, [Next]_vars PROVE IInv'
    OBVIOUS
  <2>1. Shape' /\ Words'
    BY ShapeNext, WordsNext DEF IInv
  <2>2. Counted' /\ MapOK'
    BY CountNext, MapNext DEF IInv
  <2>3. ASSUME ~ promoted' PROVE Bucket' /\ Unpromoted'
    <3>1. ~ promoted
      BY <2>3 DEF Next, Call, Step, Reader, Upgrader, Promotion, Writer, SharedBucket,
           FindFails, FindKey, NodeErased, SharedNode, ReadValue, UniqueNode, WriteValue,
           MarkErased, EachNode, EachUnlock, UnlockShared, UpgradeBucket, Lookup,
           InsertExisting, InsertErased, Revive, ReviveFails, ReviveFails2, ReviveWrite,
           UnlockUpgrade, PromoteLoad, Negate, NegateFails, GiveUpUpgrade, GiveUpFails,
           AwaitOthers, Reload, TakeUnique, TakeFails, WordChanged, AddNode, UnlockUnique,
           UnlockTwice, LoadWord, Swap, history, vars
    <3>. QED  BY <2>3, <3>1, SoundNext DEF IInv
  <2>. QED  BY <2>1, <2>2, <2>3 DEF IInv
<1>. QED  BY <1>1, <1>2, PTL DEF Spec

\* No two threads write one node at a time, whatever the bucket's word has
\* become (set at 178-196, insert at 88-130).
THEOREM NodesHaveOneWriter == Spec => []OneNodeWriter
<1>1. IInv => OneNodeWriter
  <2> SUFFICES ASSUME IInv,
                      NEW t \in At({"write", "revive_write", "revive_write2"}),
                      NEW u \in At({"write", "revive_write", "revive_write2"}),
                      node[t] = node[u]
               PROVE  t = u
    BY DEF OneNodeWriter
  <2>1. PICK n : n = node[t]
    OBVIOUS
  <2>2. t \in Authors(n) /\ u \in Authors(n)
    BY <2>1 DEF At, Authors, AuthorSteps
  <2>3. n \in 1 .. nodes
    BY <2>1 DEF IInv, Shape, Types, LocalsOK, LocalOK, At, NodeSteps, AuthorSteps
  <2>4. WordOK(n)
    BY <2>3, WordIs DEF IInv, Shape, Words
  <2>. QED  BY <2>2, <2>4 DEF WordOK
<1>. QED  BY <1>1, Invariance, PTL

\* As long as no insert was promoted, the bucket's word counts the locks that
\* were taken and not given back (15-26, 203-212).
THEOREM WordCountsLocks == Spec => []WordCounts
<1>1. IInv => WordCounts
  <2> SUFFICES ASSUME IInv, ~ promoted
               PROVE  Low(bflag) = Shared /\ bflag \div Upgrade = Upgraded
    BY DEF WordCounts, Shared, Upgraded
  <2>1. Types /\ Bucket
    BY DEF IInv, Shape
  <2>. QED  BY <2>1, Counts, PartsOf DEF Bucket
<1>. QED  BY <1>1, Invariance, PTL

\* When no operation runs, _size is the number of keys that are not erased, of
\* the inserts that lost a race and counted all the same, and of the nodes that
\* were lost with a map that an insert replaced (130-132, 163, 218), whatever
\* the promotions did; and without such an insert none is lost.
THEOREM SizeCountsKeys == Spec => []SizeCounts
<1>1. IInv => SizeCounts
  <2> SUFFICES ASSUME IInv, At({"idle"}) = Threads
               PROVE  /\ size = Cardinality(LiveKeys) + Cardinality(LostNodes) + lostRace
                      /\ ~ overwrote => LostNodes = {}
    BY DEF SizeCounts
  <2>1. Types /\ Counted /\ MapOK /\ nodes \in Nat /\ None \notin Nat
    BY SumTypes, NoneAssumption DEF IInv, Shape
  <2>2. size + Cardinality(ErasedNodes) = nodes + lostRace
    <3>1. Pending = {} /\ Erasing = {}
      BY DEF At, Pending, PendingSteps, Erasing
    <3>2. Cardinality(Pending) = 0 /\ Cardinality(Erasing) = 0
      BY <3>1, FS_EmptySet
    <3>. QED  BY <2>1, <3>2, SumTypes DEF Counted
  <2> DEFINE found == {map[k] : k \in LiveKeys}
  <2>3. ASSUME NEW n \in 1 .. nodes PROVE n \in Nodes /\ nflag[n] \in Int /\ n # None
    BY <2>1, WordIs
  <2>4. found \cup LostNodes = (1 .. nodes) \ ErasedNodes /\ found \cap LostNodes = {}
    <3>1. \A k \in LiveKeys : map[k] \in 1 .. nodes /\ map[k] \in MappedNodes /\ nflag[map[k]] # Erased
      BY <2>1 DEF LiveKeys, MappedNodes, Types
    <3>2. \A n \in 1 .. nodes : n \in MappedNodes /\ nflag[n] # Erased => n \in found
      BY DEF MappedNodes, LiveKeys
    <3>3. \A n \in 1 .. nodes : n \in ErasedNodes <=> nflag[n] = Erased
      BY <2>3 DEF ErasedNodes
    <3> HIDE DEF found
    <3>4. found \subseteq {n \in 1 .. nodes : n \in MappedNodes /\ nflag[n] # Erased}
      BY <3>1 DEF found
    <3>. QED  BY <3>2, <3>3, <3>4 DEF LostNodes
  <2>5. IsFiniteSet(LiveKeys) /\ IsFiniteSet(found) /\ Cardinality(found) = Cardinality(LiveKeys)
    <3>1. IsFiniteSet(LiveKeys)
      BY KeysAssumption, FS_Subset DEF LiveKeys
    <3>2. \A k, l \in LiveKeys : map[k] = map[l] => k = l
      BY <2>1 DEF MapOK, LiveKeys
    <3> DEFINE f == [k \in LiveKeys |-> map[k]]
    <3>3. f \in Bijection(LiveKeys, found)
      BY <3>2 DEF Bijection, Injection, Surjection, IsInjective
    <3>4. ExistsBijection(LiveKeys, found)
      BY <3>3 DEF ExistsBijection
    <3>. QED  BY <3>1, <3>4, FS_Bijection
  <2> HIDE DEF found
  <2>6. IsFiniteSet(LostNodes) /\ Cardinality(LostNodes) \in Nat /\ Cardinality(LiveKeys) \in Nat
    <3>1. IsFiniteSet(1 .. nodes) /\ LostNodes \in SUBSET (1 .. nodes)
      BY <2>1, FS_Interval DEF LostNodes
    <3>. QED  BY <2>5, <3>1, FS_Subset, FS_CardinalityType
  <2>7. Cardinality(found \cup LostNodes) = Cardinality(LiveKeys) + Cardinality(LostNodes)
    <3>1. Cardinality(found \cup LostNodes)
            = Cardinality(found) + Cardinality(LostNodes) - Cardinality(found \cap LostNodes)
      BY <2>5, <2>6, FS_Union
    <3>2. Cardinality(found \cap LostNodes) = 0
      BY <2>4, FS_EmptySet
    <3>. QED  BY <2>5, <2>6, <3>1, <3>2
  <2>8. Cardinality((1 .. nodes) \ ErasedNodes) = nodes - Cardinality(ErasedNodes)
    <3>1. IsFiniteSet(1 .. nodes) /\ Cardinality(1 .. nodes) = nodes
      BY <2>1, FS_Interval
    <3>2. ErasedNodes \subseteq 1 .. nodes
      BY <2>1 DEF Counted
    <3>3. (1 .. nodes) \cap ErasedNodes = ErasedNodes
      BY <3>2
    <3>4. Cardinality((1 .. nodes) \ ErasedNodes)
            = Cardinality(1 .. nodes) - Cardinality((1 .. nodes) \cap ErasedNodes)
      <4> DEFINE all == 1 .. nodes
      <4>1. IsFiniteSet(all)
        BY <3>1
      <4> HIDE DEF all
      <4>2. Cardinality(all \ ErasedNodes) = Cardinality(all) - Cardinality(all \cap ErasedNodes)
        BY <4>1, FS_Difference, Zenon
      <4>. QED  BY <4>2 DEF all
    <3>. QED  BY <3>1, <3>3, <3>4, Zenon
  <2>9. size = Cardinality(LiveKeys) + Cardinality(LostNodes) + lostRace
    BY <2>1, <2>2, <2>4, <2>6, <2>7, <2>8, SumTypes
  <2>10. ASSUME ~ overwrote PROVE LostNodes = {}
    <3>1. ASSUME NEW n \in 1 .. nodes PROVE n \in MappedNodes
      <4>1. PICK k \in Keys : map[k] = n
        BY <2>1, <2>10 DEF MapOK
      <4>. QED  BY <2>3, <4>1 DEF MappedNodes
    <3>. QED  BY <3>1 DEF LostNodes
  <2>. QED  BY <2>9, <2>10
<1>. QED  BY <1>1, Invariance, PTL
=============================================================================
