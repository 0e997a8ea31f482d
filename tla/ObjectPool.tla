----------------------------- MODULE ObjectPool -----------------------------
(***************************************************************************)
(* What a pool of reusable objects promises (container/no_blocking_pool.h):*)
(* pop returns an object that was put and not popped since, and returns 0  *)
(* only when the pool holds nothing; an object is in one place at a time.  *)
(***************************************************************************)
CONSTANTS
  Threads,  \* the callers
  Items,    \* the objects
  None      \* the null pointer

VARIABLES
  stock,  \* the objects in the pool
  held,   \* held[t]: the objects that thread t has
  got     \* got[t]: what t's last pop returned

vars == <<stock, held, got>>

Init ==
  /\ stock = {}
  /\ held \in [Threads -> SUBSET Items]
  /\ \A s, t \in Threads : s # t => held[s] \cap held[t] = {}
  /\ got = [t \in Threads |-> None]

Put(t, x) ==
  /\ x \in held[t]
  /\ stock' = stock \cup {x}
  /\ held' = [held EXCEPT ![t] = @ \ {x}]
  /\ UNCHANGED got

Pop(t, x) ==
  /\ x \in stock
  /\ stock' = stock \ {x}
  /\ held' = [held EXCEPT ![t] = @ \cup {x}]
  /\ got' = [got EXCEPT ![t] = x]

PopEmpty(t) ==
  /\ stock = {}
  /\ got' = [got EXCEPT ![t] = None]
  /\ UNCHANGED <<stock, held>>

Next ==
  \E t \in Threads :
    \/ \E x \in Items : Put(t, x) \/ Pop(t, x)
    \/ PopEmpty(t)

Spec == Init /\ [][Next]_vars
=============================================================================
