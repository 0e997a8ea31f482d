----------------------------- MODULE FifoQueue -----------------------------
(***************************************************************************)
(* What a concurrent first-in first-out queue promises: every operation    *)
(* takes effect at one moment, push at the back, pop at the front, and pop *)
(* fails only on an empty queue.                                           *)
(***************************************************************************)
EXTENDS Sequences

CONSTANTS
  Threads,
  Values,
  None     \* what pop returns when it fails

VARIABLES
  items,   \* the values in the queue, oldest first
  popped   \* popped[t]: what t's last pop returned

vars == <<items, popped>>

Init ==
  /\ items = <<>>
  /\ popped = [t \in Threads |-> None]

Push(v) ==
  /\ items' = Append(items, v)
  /\ UNCHANGED popped

Pop(t) ==
  /\ items # <<>>
  /\ popped' = [popped EXCEPT ![t] = Head(items)]
  /\ items' = Tail(items)

PopFails(t) ==
  /\ items = <<>>
  /\ popped' = [popped EXCEPT ![t] = None]
  /\ UNCHANGED items

Clear ==
  /\ items' = <<>>
  /\ UNCHANGED popped

Next ==
  \/ \E v \in Values : Push(v)
  \/ \E t \in Threads : Pop(t) \/ PopFails(t)
  \/ Clear

Spec == Init /\ [][Next]_vars
=============================================================================
