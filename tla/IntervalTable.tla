--------------------------- MODULE IntervalTable ---------------------------
(***************************************************************************)
(* container/concurrent_interval_table.h: one bucket of the hash table.    *)
(*                                                                         *)
(* A bucket and every node have a word _rw_flag that is a lock with three  *)
(* modes: shared (adds 1), upgradable (adds 65536) and unique (-1); a node *)
(* that was erased has the word -2147483647.  All locks but the promotion  *)
(* of an upgradable one are loops around a load and a compare-and-swap, so *)
(* each succeeds in one step or waits.  The promotion goes on with what a  *)
(* failed compare-and-swap left in _old_flag, and is modelled load by load.*)
(*                                                                         *)
(* The values are left out: what matters is who reads and writes one when. *)
(* The keys all belong to the bucket: other buckets share nothing with it. *)
(***************************************************************************)
EXTENDS Integers, FiniteSets

CONSTANTS
  Threads,
  Keys,    \* keys with the same hash
  Ops,     \* the operations called, from the set AllOps
  MaxOps,  \* bound on the operations each thread calls
  None

AllOps == {"search", "set", "erase", "insert", "each"}

ASSUME OpsAssumption == Ops \subseteq AllOps /\ MaxOps \in Nat
ASSUME KeysAssumption == IsFiniteSet(Keys)
ASSUME ThreadsAssumption == IsFiniteSet(Threads)
ASSUME NoneAssumption == None \notin Keys /\ None \notin Nat

VARIABLES
  bflag,   \* _rw_flag of the bucket
  hasMap,  \* whether _hash_bucket points to a map yet
  map,     \* map[k]: the node of k in the map, or None
  nflag,   \* _rw_flag of each node
  nodes,   \* how many nodes were allocated
  size,    \* _size
  pc, op, key,  \* each thread: next step, operation, its key
  node,    \* node[t]: iter->second
  old,     \* old[t]: _old_flag of the promotion; _flag after it
  saw,     \* saw[t]: whether _map_ was not null when insert looked
  todo,    \* todo[t]: the nodes for_each still has to visit
  calls,   \* calls[t]: how many operations t has begun
  leaked,  \* history: shared locks of the bucket that were never given back
  lostRace,\* history: inserts that gave up an erased node to another insert
  overwrote,\* history: an insert put its own map in the place of another
  promoted \* history: a promotion has changed the bucket's word

vars == <<bflag, hasMap, map, nflag, nodes, size, pc, op, key, node, old, saw,
          todo, calls, leaked, lostRace, overwrote, promoted>>
contents == <<hasMap, map, nodes>>
table == <<bflag, contents, nflag, size>>
history == <<leaked, lostRace, overwrote, promoted>>
locals == <<node, old, saw, todo>>
call == <<op, key, calls>>

Erased == -2147483647
Upgrade == 65536

\* _old_flag & 0x0000ffff, and _old_flag & 0xffff0000 # 0
Low(f) == f % 65536
HasHigh(f) == f \div 65536 # 0

MaxNodes == Cardinality(Threads) * MaxOps + Cardinality(Keys)
Nodes == 1 .. MaxNodes

\* The table is a static object: its words start at 0.  Some keys are in it
\* before the threads start: a thread that is alone inserts without trouble,
\* and leaves every word 0.
Init ==
  /\ nodes \in 0 .. Cardinality(Keys)
  /\ map \in [Keys -> 1 .. nodes \cup {None}]
  /\ \A n \in 1 .. nodes : \E k \in Keys : map[k] = n
  /\ \A k, l \in Keys : map[k] = map[l] => k = l \/ map[k] = None
  /\ bflag = 0 /\ hasMap = (nodes > 0) /\ size = nodes
  /\ nflag = [n \in Nodes |-> 0]
  /\ pc = [t \in Threads |-> "idle"]
  /\ op = [t \in Threads |-> "insert"]
  /\ key = [t \in Threads |-> None]
  /\ node = [t \in Threads |-> None]
  /\ old = [t \in Threads |-> 0]
  /\ saw = [t \in Threads |-> FALSE]
  /\ todo = [t \in Threads |-> {}]
  /\ calls = [t \in Threads |-> 0]
  /\ leaked = 0 /\ lostRace = 0 /\ overwrote = FALSE /\ promoted = FALSE

Goto(t, l) == pc' = [pc EXCEPT ![t] = l]

Call(t) ==
  /\ pc[t] = "idle" /\ calls[t] < MaxOps
  /\ \E o \in Ops, k \in Keys :
       /\ op' = [op EXCEPT ![t] = o]
       /\ key' = [key EXCEPT ![t] = k]
       /\ Goto(t, IF o = "insert" THEN "upgrade" ELSE "shared")
  /\ calls' = [calls EXCEPT ![t] = @ + 1]
  /\ UNCHANGED <<table, locals, history>>

\* The operation returns, and its locals are gone.
Return(t) ==
  /\ Goto(t, "idle")
  /\ node' = [node EXCEPT ![t] = None]
  /\ old' = [old EXCEPT ![t] = 0]
  /\ saw' = [saw EXCEPT ![t] = FALSE]
  /\ todo' = [todo EXCEPT ![t] = {}]

\* On to the step l of the same operation.
GoOn(t, l) == Goto(t, l) /\ UNCHANGED locals

\* return false in the middle of search, set or erase: the bucket stays
\* locked as it is.
LeakAndReturn(t) ==
  /\ leaked' = leaked + 1
  /\ Return(t)

Word(t) == nflag[node[t]]
SetNode(n, f) == nflag' = [nflag EXCEPT ![n] = f]

-----------------------------------------------------------------------------
(* search, set, erase and for_each, under the shared lock of the bucket    *)

MappedNodes == {map[k] : k \in Keys} \ {None}

\* shared_lock(_bucket->_rw_flag)
SharedBucket(t) ==
  /\ pc[t] = "shared"
  /\ bflag >= 0 /\ Low(bflag) # Upgrade - 1
  /\ bflag' = bflag + 1
  /\ todo' = [todo EXCEPT ![t] = IF op[t] = "each" THEN MappedNodes ELSE {}]
  /\ Goto(t, IF op[t] = "each" THEN "each" ELSE "find")
  /\ UNCHANGED <<contents, nflag, size, call, node, old, saw, history>>

\* The key is not found: return false.  (set has no test for a bucket
\* without a map: it reads through a null pointer, and the program ends.)
FindFails(t) ==
  /\ pc[t] = "find" /\ map[key[t]] = None
  /\ op[t] = "set" => hasMap
  /\ LeakAndReturn(t)
  /\ UNCHANGED <<table, call, lostRace, overwrote, promoted>>

FindKey(t) ==
  /\ pc[t] = "find" /\ map[key[t]] # None
  /\ node' = [node EXCEPT ![t] = map[key[t]]]
  /\ Goto(t, IF op[t] = "search" THEN "node_shared" ELSE "node_unique")
  /\ UNCHANGED <<table, call, old, saw, todo, history>>

\* shared_lock or lock_unique of a node that was erased: return false
NodeErased(t) ==
  /\ pc[t] \in {"node_shared", "node_unique"} /\ Word(t) = Erased
  /\ LeakAndReturn(t)
  /\ UNCHANGED <<table, call, lostRace, overwrote, promoted>>

CanShare(n) == nflag[n] >= 0 /\ Low(nflag[n]) # Upgrade - 1

SharedNode(t) ==
  /\ pc[t] = "node_shared" /\ CanShare(node[t])
  /\ SetNode(node[t], Word(t) + 1)
  /\ GoOn(t, "read")
  /\ UNCHANGED <<bflag, contents, size, call, history>>

\* value = iter->second->value, and unlock_shared of the node
ReadValue(t) ==
  /\ pc[t] = "read" /\ Word(t) >= 0
  /\ SetNode(node[t], IF Low(Word(t)) = 0 THEN Word(t) ELSE Word(t) - 1)
  /\ GoOn(t, "unshare")
  /\ UNCHANGED <<bflag, contents, size, call, history>>

UniqueNode(t) ==
  /\ pc[t] = "node_unique" /\ Word(t) = 0
  /\ SetNode(node[t], -1)
  /\ GoOn(t, IF op[t] = "set" THEN "write" ELSE "erase")
  /\ UNCHANGED <<bflag, contents, size, call, history>>

\* set: the value is written, and unlock_unique of the node
WriteValue(t) ==
  /\ pc[t] = "write"
  /\ SetNode(node[t], Word(t) + 1)
  /\ GoOn(t, "unshare")
  /\ UNCHANGED <<bflag, contents, size, call, history>>

\* erase: the node stays in the map, marked
MarkErased(t) ==
  /\ pc[t] = "erase"
  /\ SetNode(node[t], Erased)
  /\ GoOn(t, "unshare")
  /\ UNCHANGED <<bflag, contents, size, call, history>>

\* for_each: shared_lock of a node (skipped when erased) and the call of the
\* handler ...
EachNode(t) ==
  /\ pc[t] = "each"
  /\ \E n \in todo[t] :
       /\ todo' = [todo EXCEPT ![t] = @ \ {n}]
       /\ \/ /\ nflag[n] = Erased
             /\ UNCHANGED <<nflag, node, pc>>
          \/ /\ CanShare(n)
             /\ SetNode(n, nflag[n] + 1)
             /\ node' = [node EXCEPT ![t] = n]
             /\ Goto(t, "each_read")
  /\ UNCHANGED <<bflag, contents, size, call, old, saw, history>>

\* ... and then unlock_unique, which adds 1 to a node that was locked shared.
EachUnlock(t) ==
  /\ pc[t] = "each_read"
  /\ SetNode(node[t], Word(t) + 1)
  /\ GoOn(t, "each")
  /\ UNCHANGED <<bflag, contents, size, call, history>>

SharedDone(t) ==
  \/ pc[t] = "unshare"
  \/ pc[t] = "each" /\ todo[t] = {}

\* What unlock_shared leaves of the word f.
Unshared(f) == IF Low(f) = 0 THEN f ELSE f - 1

\* Mutant of UnlockShared: erase does not lower _size.
EraseUncounted(t) ==
  /\ SharedDone(t) /\ bflag >= 0
  /\ bflag' = Unshared(bflag)
  /\ Return(t)
  /\ UNCHANGED <<contents, nflag, size, call, history>>

\* unlock_shared of the bucket, and erase's _size--
UnlockShared(t) ==
  /\ SharedDone(t) /\ bflag >= 0
  /\ bflag' = Unshared(bflag)
  /\ size' = IF op[t] = "erase" THEN size - 1 ELSE size
  /\ Return(t)
  /\ UNCHANGED <<contents, nflag, call, history>>

-----------------------------------------------------------------------------
(* insert, up to the promotion of the upgradable lock                      *)

\* upgrad_lock(_bucket->_rw_flag): any number of threads may have it.
UpgradeBucket(t) ==
  /\ pc[t] = "upgrade"
  /\ bflag >= 0
  /\ bflag' = bflag + Upgrade
  /\ GoOn(t, "lookup")
  /\ UNCHANGED <<contents, nflag, size, call, history>>

Lookup(t) ==
  /\ pc[t] = "lookup"
  /\ node' = [node EXCEPT ![t] = map[key[t]]]
  /\ saw' = [saw EXCEPT ![t] = hasMap]
  /\ Goto(t, IF map[key[t]] # None THEN "old_node" ELSE "promote")
  /\ UNCHANGED <<table, call, old, todo, history>>

\* The steps for a key that is found, by the lookup or by the second one.
OnFirst(t, first, second) == IF pc[t] \in {"old_node", "revive", "revive_write"}
                             THEN first ELSE second

\* lock_unique of its node succeeds, the bucket is unlocked and insert
\* returns false; the node stays locked.
InsertExisting(t) ==
  /\ pc[t] \in {"old_node", "old_node2"} /\ Word(t) = 0
  /\ SetNode(node[t], -1)
  /\ GoOn(t, OnFirst(t, "downgrade_false", "unique_false"))
  /\ UNCHANGED <<bflag, contents, size, call, history>>

\* lock_unique finds the node erased ...
InsertErased(t) ==
  /\ pc[t] \in {"old_node", "old_node2"} /\ Word(t) = Erased
  /\ GoOn(t, OnFirst(t, "revive", "revive2"))
  /\ UNCHANGED <<table, call, history>>

\* Mutant of Revive: a store in the place of the compare-and-swap.
ReviveBlindly(t) ==
  /\ pc[t] \in {"revive", "revive2"}
  /\ SetNode(node[t], 1)
  /\ GoOn(t, OnFirst(t, "revive_write", "revive_write2"))
  /\ UNCHANGED <<bflag, contents, size, call, history>>

\* ... and a compare-and-swap makes its word 1.
Revive(t) ==
  /\ pc[t] \in {"revive", "revive2"} /\ Word(t) = Erased
  /\ SetNode(node[t], 1)
  /\ GoOn(t, OnFirst(t, "revive_write", "revive_write2"))
  /\ UNCHANGED <<bflag, contents, size, call, history>>

\* Another insert was first: this one returns true and leaves the bucket
\* upgrade-locked.
ReviveFails(t) ==
  /\ pc[t] = "revive" /\ Word(t) # Erased
  /\ lostRace' = lostRace + 1
  /\ size' = size + 1
  /\ Return(t)
  /\ UNCHANGED <<bflag, contents, nflag, call, leaked, overwrote, promoted>>

\* The same after the second lookup: only the bucket is left to unlock.
ReviveFails2(t) ==
  /\ pc[t] = "revive2" /\ Word(t) # Erased
  /\ lostRace' = lostRace + 1
  /\ GoOn(t, "unique_out")
  /\ UNCHANGED <<table, call, leaked, overwrote, promoted>>

\* The value is written, and unlock_unique of the node: the word is 2.
ReviveWrite(t) ==
  /\ pc[t] \in {"revive_write", "revive_write2"}
  /\ SetNode(node[t], Word(t) + 1)
  /\ GoOn(t, OnFirst(t, "downgrade_true", "unique_twice"))
  /\ UNCHANGED <<bflag, contents, size, call, history>>

\* Mutant of UnlockUpgrade: unlock_shared in the place of unlock_upgrad.
UnlockAsShared(t) ==
  /\ pc[t] \in {"downgrade_true", "downgrade_false"} /\ bflag >= 0
  /\ bflag' = Unshared(bflag)
  /\ size' = IF pc[t] = "downgrade_true" THEN size + 1 ELSE size
  /\ Return(t)
  /\ UNCHANGED <<contents, nflag, call, history>>

\* unlock_upgrad(_bucket->_rw_flag), and _size++ of an insert that succeeded
UnlockUpgrade(t) ==
  /\ pc[t] \in {"downgrade_true", "downgrade_false"} /\ bflag >= 0
  /\ bflag' = IF HasHigh(bflag) THEN bflag - Upgrade ELSE bflag
  /\ size' = IF pc[t] = "downgrade_true" THEN size + 1 ELSE size
  /\ Return(t)
  /\ UNCHANGED <<contents, nflag, call, history>>

-----------------------------------------------------------------------------
(* unlock_upgrad_and_lock                                                  *)

\* old[t] takes the value of the bucket's word.
LoadWord(t, l) ==
  /\ old' = [old EXCEPT ![t] = bflag]
  /\ Goto(t, l)
  /\ UNCHANGED <<table, call, node, saw, todo, history>>

\* The bucket's word goes from old[t] to f.
Swap(t, f, l) ==
  /\ bflag = old[t]
  /\ bflag' = f
  /\ promoted' = TRUE
  /\ GoOn(t, l)
  /\ UNCHANGED <<contents, nflag, size, call, leaked, lostRace, overwrote>>

\* No reader: a positive word is to be negated, a negative one exchanged.
PromoteLoad(t) ==
  /\ pc[t] = "promote" /\ Low(bflag) = 0 /\ bflag # 0
  /\ LoadWord(t, IF bflag > 0 THEN "negate" ELSE "exchange")

Negate(t) == pc[t] = "negate" /\ Swap(t, - old[t], "promote")

\* The failed compare-and-swap put the present word in _old_flag, which is
\* exchanged in the next statement, whatever it is.
NegateFails(t) ==
  /\ pc[t] = "negate" /\ bflag # old[t]
  /\ LoadWord(t, IF bflag = 0 THEN "promote" ELSE "exchange")

\* This thread's upgrade lock is exchanged for -2 ...
GiveUpUpgrade(t) == pc[t] = "exchange" /\ Swap(t, old[t] + (Upgrade - 2), "await")

GiveUpFails(t) ==
  /\ pc[t] = "exchange" /\ bflag # old[t]
  /\ GoOn(t, "promote")
  /\ UNCHANGED <<table, call, history>>

\* ... and once the word shows no other upgrade lock ...
AwaitOthers(t) ==
  /\ pc[t] = "await" /\ bflag >= - Upgrade
  /\ GoOn(t, "reload")
  /\ UNCHANGED <<table, call, history>>

\* ... it is loaded again and raised by 1: -1, if all went well.
Reload(t) == pc[t] = "reload" /\ LoadWord(t, "take")

TakeUnique(t) == pc[t] = "take" /\ Swap(t, old[t] + 1, "add")

\* When that fails the thread waits until the word changes once more.
TakeFails(t) == pc[t] = "take" /\ bflag # old[t] /\ LoadWord(t, "changed")

WordChanged(t) ==
  /\ pc[t] = "changed" /\ bflag # old[t]
  /\ GoOn(t, "take")
  /\ UNCHANGED <<table, call, history>>

-----------------------------------------------------------------------------
(* insert, with the unique lock of the bucket                              *)

\* There was no map when insert looked first: a new one takes the place of
\* whatever is there by now.  The key is looked up again, and added if it is
\* not there.  (All in one step: where two threads come here together, what
\* they do to one std::map is undefined, and these are the orderly outcomes.)
AddNode(t) ==
  /\ pc[t] = "add"
  /\ LET now == IF saw[t] THEN map ELSE [k \in Keys |-> None]
         found == now[key[t]] # None
     IN  /\ nodes' = IF found THEN nodes ELSE nodes + 1
         /\ map' = IF found THEN now ELSE [now EXCEPT ![key[t]] = nodes + 1]
         /\ node' = [node EXCEPT ![t] = now[key[t]]]
         /\ Goto(t, IF found THEN "old_node2" ELSE "unique_out")
  /\ hasMap' = TRUE
  /\ overwrote' = (overwrote \/ (hasMap /\ ~ saw[t]))
  /\ UNCHANGED <<bflag, nflag, size, call, old, saw, todo, leaked, lostRace, promoted>>

\* unlock_unique of the bucket.  An insert that revived a node after its
\* second lookup comes here twice.
UnlockUnique(t) ==
  /\ pc[t] \in {"unique_out", "unique_false"}
  /\ bflag' = bflag + 1
  /\ size' = IF pc[t] = "unique_out" THEN size + 1 ELSE size
  /\ Return(t)
  /\ UNCHANGED <<contents, nflag, call, history>>

UnlockTwice(t) ==
  /\ pc[t] = "unique_twice"
  /\ bflag' = bflag + 1
  /\ GoOn(t, "unique_out")
  /\ UNCHANGED <<contents, nflag, size, call, history>>

-----------------------------------------------------------------------------
Reader(t) ==
  \/ SharedBucket(t) \/ FindFails(t) \/ FindKey(t) \/ NodeErased(t)
  \/ SharedNode(t) \/ ReadValue(t) \/ UniqueNode(t) \/ WriteValue(t)
  \/ MarkErased(t) \/ EachNode(t) \/ EachUnlock(t) \/ UnlockShared(t)

Upgrader(t) ==
  \/ UpgradeBucket(t) \/ Lookup(t) \/ InsertExisting(t) \/ InsertErased(t)
  \/ Revive(t) \/ ReviveFails(t) \/ ReviveFails2(t) \/ ReviveWrite(t) \/ UnlockUpgrade(t)

Promotion(t) ==
  \/ PromoteLoad(t) \/ Negate(t) \/ NegateFails(t) \/ GiveUpUpgrade(t) \/ GiveUpFails(t)
  \/ AwaitOthers(t) \/ Reload(t) \/ TakeUnique(t) \/ TakeFails(t) \/ WordChanged(t)

Writer(t) == AddNode(t) \/ UnlockUnique(t) \/ UnlockTwice(t)

Step(t) == Reader(t) \/ Upgrader(t) \/ Promotion(t) \/ Writer(t)

Next == \E t \in Threads : Call(t) \/ Step(t)

Spec == Init /\ [][Next]_vars

\* The threads' own loops go on; each thread makes all its calls.
FairSpec == Spec /\ \A t \in Threads : WF_vars(Call(t) \/ Step(t))

-----------------------------------------------------------------------------
\* Between taking a lock of the bucket and giving it back
SharedSteps == {"find", "node_shared", "read", "node_unique", "write", "erase",
                "unshare", "each", "each_read"}
UpgradeSteps == {"lookup", "old_node", "revive", "revive_write", "downgrade_true",
                 "downgrade_false", "promote", "negate", "exchange"}
AwaitSteps == {"await", "reload", "take", "changed"}
UniqueSteps == {"add", "old_node2", "revive2", "revive_write2",
                "unique_twice", "unique_out", "unique_false"}

TypeOK ==
  /\ bflag \in Int /\ hasMap \in BOOLEAN /\ size \in Int
  /\ nodes \in 0 .. MaxNodes
  /\ map \in [Keys -> 1 .. nodes \cup {None}]
  /\ \A n \in Nodes : nflag[n] = Erased \/ nflag[n] \in -1 .. 2 * MaxNodes
  /\ pc \in [Threads -> SharedSteps \cup UpgradeSteps \cup AwaitSteps \cup
                          UniqueSteps \cup {"idle", "shared", "upgrade"}]
  /\ op \in [Threads -> AllOps]
  /\ key \in [Threads -> Keys \cup {None}]
  /\ node \in [Threads -> 1 .. nodes \cup {None}]
  /\ old \in [Threads -> Int]
  /\ saw \in [Threads -> BOOLEAN]
  /\ todo \in [Threads -> SUBSET (1 .. nodes)]
  /\ calls \in [Threads -> 0 .. MaxOps]
  /\ leaked \in Nat /\ lostRace \in Nat
  /\ overwrote \in BOOLEAN /\ promoted \in BOOLEAN

At(S) == {t \in Threads : pc[t] \in S}

\* The comment at concurrent_interval_table.h:30 gives the bucket's word as -1
\* for write and 0-N for read: while a thread changes the map no other reads it.
WriterAlone ==
  \A t \in At(UniqueSteps) :
    \A u \in Threads \ {t} : pc[u] \notin SharedSteps \cup UpgradeSteps \cup UniqueSteps

\* The other direction holds: when the word is -1, one thread has the unique
\* lock and nobody else is inside or on its way, whatever mixture of shared,
\* upgrade and promoted locks came before (328-365).
MinusOneIsAlone ==
  bflag = -1 =>
    /\ Cardinality(At(UniqueSteps)) = 1
    /\ At(SharedSteps \cup UpgradeSteps \cup AwaitSteps) = {}

\* Until an insert is promoted, the bucket's word counts its readers and
\* upgraders, those that returned without unlocking (176, 181, 185, 85, 89,
\* 203, 208, 212 and the lost race at 115) included: no path gives back a lock
\* twice or one it does not have.
WordCounts ==
  ~ promoted =>
    /\ Low(bflag) = Cardinality(At(SharedSteps)) + leaked
    /\ bflag \div Upgrade = Cardinality(At(UpgradeSteps)) + lostRace

\* The bucket's word counts its locks as long as it only counts, and -1 is a
\* lock of one thread always.
FlagCounts ==
  /\ TypeOK
  /\ MinusOneIsAlone
  /\ WordCounts

\* Two threads never write the value of one node at a time: set under -1,
\* insert of an erased key after it won the compare-and-swap.
OneNodeWriter ==
  \A t, u \in At({"write", "revive_write", "revive_write2"}) : node[t] = node[u] => t = u

LiveKeys == {k \in Keys : map[k] # None /\ nflag[map[k]] # Erased}

\* Nodes that are not erased and that no lookup finds any more
LostNodes == {n \in 1 .. nodes : nflag[n] # Erased} \ MappedNodes

\* When no operation runs, _size (163, 218) is the number of keys that are not
\* erased, whatever the promotions did.  It is too high by exactly the inserts
\* that found an erased node revived by another and counted all the same (115,
\* 140), and by the nodes of a map that an insert put its own in the place of
\* (130-133): without such an insert every node stays in the map.
SizeCounts ==
  At({"idle"}) = Threads =>
    /\ size = Cardinality(LiveKeys) + Cardinality(LostNodes) + lostRace
    /\ ~ overwrote => LostNodes = {}

\* The test test/interval_table_test.cpp:16-18 starts two threads that insert
\* keys of their own and joins them: both finish.
InsertsFinish == <>(\A t \in Threads : pc[t] = "idle" /\ calls[t] = MaxOps)
=============================================================================
