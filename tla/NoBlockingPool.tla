--------------------------- MODULE NoBlockingPool ---------------------------
(***************************************************************************)
(* container/no_blocking_pool.h: a pool of objects in Lists, each with its *)
(* own mutex, of which only try_lock is ever called, and one atomic        *)
(* counter _size that is changed while the list is locked, but after it.   *)
(*                                                                         *)
(* A list is the set of the objects in it: nobody is promised which of     *)
(* them pop_front returns.  The lists are tried in the order of their      *)
(* indices.                                                                *)
(*                                                                         *)
(* The specification is named PoolSpec, for ActiveServer_proofs extends    *)
(* this module and ActiveServer, which has a Spec and a None of its own.   *)
(***************************************************************************)
EXTENDS Integers, FiniteSets

CONSTANTS
  Callers,  \* the threads that call put and pop
  Items,    \* the objects
  Count,    \* _count, the number of lists
  Null

ASSUME CountAssumption == Count \in Nat \ {0}
ASSUME NullAssumption == Null \notin Items /\ Null \notin Callers

VARIABLES
  list,   \* list[i]: _pool[i]._pool
  lock,   \* lock[i]: the thread that holds _pool[i]._mu, or Null
  size,   \* _size
  pc,     \* next step of each thread
  slide,  \* slide[t]: the index put or pop is at
  obj,    \* obj[t]: the argument of put, or what pop took out
  held,   \* held[t]: the objects t owns
  got     \* got[t]: what t's last pop returned

poolVars == <<list, lock, size, pc, slide, obj, held, got>>

Lists == 0 .. Count - 1

PoolInit ==
  /\ list = [i \in Lists |-> {}]
  /\ lock = [i \in Lists |-> Null]
  /\ size = 0
  /\ pc = [t \in Callers |-> "idle"]
  /\ slide = [t \in Callers |-> 0]
  /\ obj = [t \in Callers |-> Null]
  /\ held \in [Callers -> SUBSET Items]
  /\ \A s, t \in Callers : s # t => held[s] \cap held[t] = {}
  /\ got = [t \in Callers |-> Null]

Goto(t, l) == pc' = [pc EXCEPT ![t] = l]

-----------------------------------------------------------------------------
(* put                                                                     *)

CallPut(t, x) ==
  /\ pc[t] = "idle" /\ x \in held[t]
  /\ obj' = [obj EXCEPT ![t] = x]
  /\ slide' = [slide EXCEPT ![t] = 0]
  /\ Goto(t, "put_try")
  /\ UNCHANGED <<list, lock, size, held, got>>

\* try_lock on the list at slide; when it is taken, on to the next, round
\* and round.
PutTry(t) ==
  /\ pc[t] = "put_try"
  /\ \/ /\ lock[slide[t]] = Null
        /\ lock' = [lock EXCEPT ![slide[t]] = t]
        /\ Goto(t, "put_push")
        /\ UNCHANGED slide
     \/ /\ lock[slide[t]] # Null
        /\ slide' = [slide EXCEPT ![t] = IF @ + 1 = Count THEN 0 ELSE @ + 1]
        /\ UNCHANGED <<lock, pc>>
  /\ UNCHANGED <<list, size, obj, held, got>>

PutPush(t) ==
  /\ pc[t] = "put_push"
  /\ list' = [list EXCEPT ![slide[t]] = @ \cup {obj[t]}]
  /\ Goto(t, "put_count")
  /\ UNCHANGED <<lock, size, slide, obj, held, got>>

\* _size++: from here the object is the pool's.
PutCount(t) ==
  /\ pc[t] = "put_count"
  /\ size' = size + 1
  /\ held' = [held EXCEPT ![t] = @ \ {obj[t]}]
  /\ obj' = [obj EXCEPT ![t] = Null]
  /\ Goto(t, "unlock")
  /\ UNCHANGED <<list, lock, slide, got>>

-----------------------------------------------------------------------------
(* pop                                                                     *)

CallPop(t) ==
  /\ pc[t] = "idle"
  /\ Goto(t, "pop_load")
  /\ UNCHANGED <<list, lock, size, slide, obj, held, got>>

\* Mutant of PopLoad: the last object is not popped.
PopLoadOffByOne(t) ==
  /\ pc[t] = "pop_load"
  /\ \/ /\ size <= 1
        /\ got' = [got EXCEPT ![t] = Null]
        /\ Goto(t, "idle")
        /\ UNCHANGED slide
     \/ /\ size > 1
        /\ slide' = [slide EXCEPT ![t] = 0]
        /\ Goto(t, "pop_try")
        /\ UNCHANGED got
  /\ UNCHANGED <<list, lock, size, obj, held>>

\* while(_size.load() != 0)
PopLoad(t) ==
  /\ pc[t] = "pop_load"
  /\ \/ /\ size = 0
        /\ got' = [got EXCEPT ![t] = Null]
        /\ Goto(t, "idle")
        /\ UNCHANGED slide
     \/ /\ size # 0
        /\ slide' = [slide EXCEPT ![t] = 0]
        /\ Goto(t, "pop_try")
        /\ UNCHANGED got
  /\ UNCHANGED <<list, lock, size, obj, held>>

\* The next index of the for loop, or the loop condition again.
NextList(t) ==
  /\ slide' = [slide EXCEPT ![t] = @ + 1]
  /\ Goto(t, IF slide[t] + 1 = Count THEN "pop_load" ELSE "pop_try")

PopTry(t) ==
  /\ pc[t] = "pop_try"
  /\ \/ /\ lock[slide[t]] = Null
        /\ lock' = [lock EXCEPT ![slide[t]] = t]
        /\ Goto(t, "pop_look")
        /\ UNCHANGED slide
     \/ /\ lock[slide[t]] # Null
        /\ NextList(t)
        /\ UNCHANGED lock
  /\ UNCHANGED <<list, size, obj, held, got>>

\* Mutant of PopTake: front() without pop_front().
FrontOnly(t) ==
  /\ pc[t] = "pop_look"
  /\ \E x \in list[slide[t]] :
       /\ obj' = [obj EXCEPT ![t] = x]
       /\ held' = [held EXCEPT ![t] = @ \cup {x}]
       /\ got' = [got EXCEPT ![t] = x]
  /\ Goto(t, "pop_count")
  /\ UNCHANGED <<list, lock, size, slide>>

\* front() and pop_front() of a list that is not empty
PopTake(t) ==
  /\ pc[t] = "pop_look"
  /\ \E x \in list[slide[t]] :
       /\ list' = [list EXCEPT ![slide[t]] = @ \ {x}]
       /\ obj' = [obj EXCEPT ![t] = x]
       /\ held' = [held EXCEPT ![t] = @ \cup {x}]
       /\ got' = [got EXCEPT ![t] = x]
  /\ Goto(t, "pop_count")
  /\ UNCHANGED <<lock, size, slide>>

\* Mutant of PopSkip: the lock of an empty list is kept.
SkipLocked(t) ==
  /\ pc[t] = "pop_look" /\ list[slide[t]] = {}
  /\ NextList(t)
  /\ UNCHANGED <<list, lock, size, obj, held, got>>

\* The list is empty: the lock goes, and on to the next list.
PopSkip(t) ==
  /\ pc[t] = "pop_look" /\ list[slide[t]] = {}
  /\ lock' = [lock EXCEPT ![slide[t]] = Null]
  /\ NextList(t)
  /\ UNCHANGED <<list, size, obj, held, got>>

\* _size--
PopCount(t) ==
  /\ pc[t] = "pop_count"
  /\ size' = size - 1
  /\ obj' = [obj EXCEPT ![t] = Null]
  /\ Goto(t, "unlock")
  /\ UNCHANGED <<list, lock, slide, held, got>>

\* The destructor of scoped_lock, and the return of put or pop.
Unlock(t) ==
  /\ pc[t] = "unlock"
  /\ lock' = [lock EXCEPT ![slide[t]] = Null]
  /\ Goto(t, "idle")
  /\ UNCHANGED <<list, size, slide, obj, held, got>>

-----------------------------------------------------------------------------
Call(t) == CallPop(t) \/ \E x \in Items : CallPut(t, x)

Step(t) ==
  \/ PutTry(t) \/ PutPush(t) \/ PutCount(t)
  \/ PopLoad(t) \/ PopTry(t) \/ PopTake(t) \/ PopSkip(t) \/ PopCount(t)
  \/ Unlock(t)

PoolNext == \E t \in Callers : Call(t) \/ Step(t)

PoolSpec == PoolInit /\ [][PoolNext]_poolVars

\* Every thread inside an operation is scheduled; no one has to call.
PoolFairness == \A t \in Callers : WF_poolVars(Step(t))

PoolFairSpec == PoolSpec /\ PoolFairness

-----------------------------------------------------------------------------
PoolTypeOK ==
  /\ list \in [Lists -> SUBSET Items]
  /\ lock \in [Lists -> Callers \cup {Null}]
  /\ size \in Int
  /\ pc \in [Callers -> {"idle", "put_try", "put_push", "put_count", "pop_load",
                         "pop_try", "pop_look", "pop_count", "unlock"}]
  /\ slide \in [Callers -> 0 .. Count]
  /\ \A t \in Callers : pc[t] \notin {"idle", "pop_load"} => slide[t] \in Lists
  /\ obj \in [Callers -> Items \cup {Null}]
  /\ held \in [Callers -> SUBSET Items]
  /\ got \in [Callers -> Items \cup {Null}]

\* t is pushing an object that _size does not count yet.
Uncounted == {obj[t] : t \in {t \in Callers : pc[t] = "put_count"}}

\* The objects of the pool: those in the lists that _size counts.
Stock == (UNION {list[i] : i \in Lists}) \ Uncounted

\* t took an object out and _size does not show it yet.
Taking == {t \in Callers : pc[t] = "pop_count"}

\* _size counts the objects in the pool and those just taken out, so a reader
\* never finds 0 while an object is there to be had (no_blocking_pool.h:54)
\* and the unsigned counter never wraps (61).
SizeExact == size = Cardinality(Stock) + Cardinality(Taking)

\* An object is at any time in one list or with one thread, and is counted:
\* none is lost, handed out twice or doubled, however puts and pops interleave.
OnePlace ==
  /\ PoolTypeOK
  /\ SizeExact
  /\ \A i, j \in Lists : i # j => list[i] \cap list[j] = {}
  /\ \A s, t \in Callers : s # t => held[s] \cap held[t] = {}
  /\ \A t \in Callers : held[t] \cap Stock = {}

\* The pool is an object pool: each put takes effect when it counts the
\* object, each pop when it takes one out or reads 0 in _size.
Pool == INSTANCE ObjectPool WITH Threads <- Callers, None <- Null, stock <- Stock

ImplementsPool == Pool!Spec

\* Unless all operations end again and again, some operation does: the loops
\* at no_blocking_pool.h:54 and 74 spin only while others make progress.
SomeOperationEnds ==
  \/ []<>(\A t \in Callers : pc[t] = "idle")
  \/ []<><<\E t \in Callers : pc[t] # "idle" /\ pc'[t] = "idle">>_pc
=============================================================================
