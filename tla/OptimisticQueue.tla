--------------------------- MODULE OptimisticQueue ---------------------------
(***************************************************************************)
(* container/optimistic_queue.h: a list that is linked both ways, with     *)
(* pushes and pops at both ends.  head names a node whose datum is gone;   *)
(* detail names the last node, or one before it.                           *)
(*                                                                         *)
(* A retired node keeps what it holds: the first scan of the hazard system *)
(* comes with the 33rd, and the model does not pop that many.  clear() is  *)
(* left out, for it does not compile, and so _list is always the same.     *)
(* compare_exchange_weak fails only if the value differs, as on x86.       *)
(* Each shared access is a step of its own.                                *)
(***************************************************************************)
EXTENDS Integers

CONSTANTS
  Threads,
  MaxPush,    \* bound on the pushes, a number
  None        \* the null pointer, no number

\* Node i holds the datum of push i; node 0 is that of get_list.
Nodes == 0 .. MaxPush

VARIABLES
  head, detail,   \* of the list
  next, prev,     \* of each node
  size,           \* size, as a difference (modulo 2^32 in the code)
  pc,
  end,            \* end[t]: _ptr_head or _ptr_detail of t
  near,           \* near[t]: _ptr_next or _ptr_prev of t
  new,            \* new[t]: the node that t pushes
  pushed,         \* how many were pushed
  pops            \* pops[n]: how often a pop returned the datum of n

list == <<head, detail, next, prev>>
locals == <<end, near, new>>
vars == <<list, size, pc, locals, pushed, pops>>

\* The constructor and get_list
Init ==
  /\ head = 0 /\ detail = 0
  /\ next = [n \in Nodes |-> None]
  /\ prev = [n \in Nodes |-> None]
  /\ size = 0
  /\ pc = [t \in Threads |-> "idle"]
  /\ end = [t \in Threads |-> None]
  /\ near = [t \in Threads |-> None]
  /\ new = [t \in Threads |-> None]
  /\ pushed = 0
  /\ pops = [n \in Nodes |-> 0]

Goto(t, l) == pc' = [pc EXCEPT ![t] = l]

\* t goes from l to the next step, with p in its first or its second pointer.
ReadEnd(t, l, p, then) ==
  /\ pc[t] = l
  /\ end' = [end EXCEPT ![t] = p]
  /\ Goto(t, then)
  /\ UNCHANGED <<list, size, near, new, pushed, pops>>

ReadNear(t, l, p, then) ==
  /\ pc[t] = l
  /\ near' = [near EXCEPT ![t] = p]
  /\ Goto(t, then)
  /\ UNCHANGED <<list, size, end, new, pushed, pops>>

Test(t, l, condition, then, otherwise) ==
  /\ pc[t] = l
  /\ Goto(t, IF condition THEN then ELSE otherwise)
  /\ UNCHANGED <<list, size, locals, pushed, pops>>

Return(t) ==
  /\ Goto(t, "idle")
  /\ end' = [end EXCEPT ![t] = None]
  /\ near' = [near EXCEPT ![t] = None]
  /\ new' = [new EXCEPT ![t] = None]

ReturnFalse(t, l) ==
  /\ pc[t] = l
  /\ Return(t)
  /\ UNCHANGED <<list, size, pushed, pops>>

Take(n) == pops' = [pops EXCEPT ![n] = @ + 1]

-----------------------------------------------------------------------------
(* push_front                                                              *)

\* get_node(data), for either push
CallPush(t, l) ==
  /\ pc[t] = "idle" /\ pushed < MaxPush
  /\ pushed' = pushed + 1
  /\ new' = [new EXCEPT ![t] = pushed + 1]
  /\ Goto(t, l)
  /\ UNCHANGED <<list, size, end, near, pops>>

\* head and its next are read, ...
FrontHead(t) == ReadEnd(t, "front_head", head, "front_next")
FrontNext(t) == ReadNear(t, "front_next", next[end[t]], "front_set")

\* ... and go into the new node, which nobody sees yet.
FrontSet(t) ==
  /\ pc[t] = "front_set"
  /\ prev' = [prev EXCEPT ![new[t]] = end[t]]
  /\ next' = [next EXCEPT ![new[t]] = near[t]]
  /\ Goto(t, "front_check")
  /\ UNCHANGED <<head, detail, size, locals, pushed, pops>>

FrontCheck(t) == Test(t, "front_check", end[t] = head, "front_link", "front_head")

\* The compare-and-swap of next, of a node that may not be the head any more
FrontLink(t) ==
  /\ pc[t] = "front_link"
  /\ IF next[end[t]] = near[t]
     THEN next' = [next EXCEPT ![end[t]] = new[t]] /\ Goto(t, "front_back")
     ELSE Goto(t, "front_head") /\ UNCHANGED next
  /\ UNCHANGED <<head, detail, prev, size, locals, pushed, pops>>

FrontBack(t) ==
  /\ pc[t] = "front_back"
  /\ prev' = IF near[t] = None THEN prev ELSE [prev EXCEPT ![near[t]] = new[t]]
  /\ Goto(t, "push_size")
  /\ UNCHANGED <<head, detail, next, size, locals, pushed, pops>>

\* size++ of either push
PushSize(t) ==
  /\ pc[t] = "push_size"
  /\ size' = size + 1
  /\ Return(t)
  /\ UNCHANGED <<list, pushed, pops>>

PushFront(t) ==
  \/ CallPush(t, "front_head")
  \/ FrontHead(t) \/ FrontNext(t) \/ FrontSet(t) \/ FrontCheck(t) \/ FrontLink(t)
  \/ FrontBack(t)

-----------------------------------------------------------------------------
(* pop_front                                                               *)

CallPop(t, l) == Test(t, "idle", TRUE, l, "idle")

PopHead(t) == ReadEnd(t, "pop_head", head, "pop_next")

\* An empty list, or one whose last node is the next
PopNext(t) ==
  ReadNear(t, "pop_next", next[end[t]],
           IF next[end[t]] = None THEN "false" ELSE "pop_last")

PopLast(t) == Test(t, "pop_last", near[t] = detail, "false", "pop_check")
PopCheck(t) == Test(t, "pop_check", end[t] = head, "pop_move", "pop_head")

\* The compare-and-swap of head: from here on the datum of the next is ours, ...
PopMove(t) ==
  /\ pc[t] = "pop_move"
  /\ IF head = end[t]
     THEN head' = near[t] /\ Goto(t, "pop_cut")
     ELSE Goto(t, "pop_head") /\ UNCHANGED head
  /\ UNCHANGED <<detail, next, prev, size, locals, pushed, pops>>

\* ... and only now does pop_back see that it is.
PopCut(t) ==
  /\ pc[t] = "pop_cut"
  /\ prev' = [prev EXCEPT ![near[t]] = None]
  /\ Goto(t, "pop_take")
  /\ UNCHANGED <<head, detail, next, size, locals, pushed, pops>>

\* The datum is copied; the old head is retired.
PopTake(t) ==
  /\ pc[t] = "pop_take"
  /\ Take(near[t])
  /\ Goto(t, "pop_size")
  /\ UNCHANGED <<list, size, locals, pushed>>

\* size-- of either pop
PopSize(t) ==
  /\ pc[t] = "pop_size"
  /\ size' = size - 1
  /\ Return(t)
  /\ UNCHANGED <<list, pushed, pops>>

PopFront(t) ==
  \/ CallPop(t, "pop_head")
  \/ PopHead(t) \/ PopNext(t) \/ PopLast(t) \/ PopCheck(t) \/ PopMove(t) \/ PopCut(t)
  \/ PopTake(t)

-----------------------------------------------------------------------------
(* push_back                                                               *)

BackEnd(t) ==
  ReadEnd(t, "back_end", detail, IF detail = None THEN "back_null" ELSE "back_next")

\* detail was null: it starts again at head.
BackNull(t) ==
  /\ pc[t] = "back_null"
  /\ detail' = head
  /\ Goto(t, "back_again")
  /\ UNCHANGED <<head, next, prev, size, locals, pushed, pops>>

\* detail may be null again, and push_back follows it: there the model ends.
BackAgain(t) == detail # None /\ ReadEnd(t, "back_again", detail, "back_next")

BackNext(t) == Test(t, "back_next", next[end[t]] # None, "back_read", "back_check")

\* next is read once more for the compare-and-swap, and may be null by now.
BackRead(t) == ReadNear(t, "back_read", next[end[t]], "back_help")

BackHelp(t) ==
  /\ pc[t] = "back_help"
  /\ detail' = IF detail = end[t] THEN near[t] ELSE detail
  /\ Goto(t, "back_again")
  /\ UNCHANGED <<head, next, prev, size, locals, pushed, pops>>

BackCheck(t) == Test(t, "back_check", end[t] = detail, "back_set", "back_end")

BackSet(t) ==
  /\ pc[t] = "back_set"
  /\ prev' = [prev EXCEPT ![new[t]] = end[t]]
  /\ Goto(t, "back_recheck")
  /\ UNCHANGED <<head, detail, next, size, locals, pushed, pops>>

BackRecheck(t) == Test(t, "back_recheck", end[t] = detail, "back_move", "back_end")

\* The compare-and-swap of detail, and then the link
BackMove(t) ==
  /\ pc[t] = "back_move"
  /\ IF detail = end[t]
     THEN detail' = new[t] /\ Goto(t, "back_link")
     ELSE Goto(t, "back_end") /\ UNCHANGED detail
  /\ UNCHANGED <<head, next, prev, size, locals, pushed, pops>>

BackLink(t) ==
  /\ pc[t] = "back_link"
  /\ next' = [next EXCEPT ![end[t]] = new[t]]
  /\ Goto(t, "push_size")
  /\ UNCHANGED <<head, detail, prev, size, locals, pushed, pops>>

PushBack(t) ==
  \/ CallPush(t, "back_end")
  \/ BackEnd(t) \/ BackNull(t) \/ BackAgain(t) \/ BackNext(t) \/ BackRead(t)
  \/ BackHelp(t) \/ BackCheck(t) \/ BackSet(t) \/ BackRecheck(t) \/ BackMove(t)
  \/ BackLink(t)

-----------------------------------------------------------------------------
(* pop_back                                                                *)

LastEnd(t) ==
  ReadEnd(t, "last_end", detail, IF detail = None THEN "last_null" ELSE "last_next")

LastNull(t) ==
  /\ pc[t] = "last_null"
  /\ detail' = head
  /\ Goto(t, "last_end")
  /\ UNCHANGED <<head, next, prev, size, locals, pushed, pops>>

LastNext(t) == Test(t, "last_next", next[end[t]] # None, "last_read", "last_check")
LastRead(t) == ReadNear(t, "last_read", next[end[t]], "last_help")

LastHelp(t) ==
  /\ pc[t] = "last_help"
  /\ detail' = IF detail = end[t] THEN near[t] ELSE detail
  /\ Goto(t, "last_end")
  /\ UNCHANGED <<head, next, prev, size, locals, pushed, pops>>

LastCheck(t) == Test(t, "last_check", end[t] = detail, "last_prev", "last_end")
LastPrev(t) == ReadNear(t, "last_prev", prev[end[t]], "last_recheck")
LastRecheck(t) == Test(t, "last_recheck", end[t] = detail, "last_head", "last_end")

\* The datum of head is gone, and prev is null once pop_front cut it.
LastHead(t) ==
  Test(t, "last_head", near[t] = head \/ near[t] = None, "false", "last_move")

\* detail is compared once more, and then by the compare-and-swap.
LastMove(t) ==
  /\ pc[t] = "last_move"
  /\ IF detail = end[t]
     THEN detail' = near[t] /\ Take(end[t]) /\ Goto(t, "last_cut")
     ELSE Goto(t, "last_end") /\ UNCHANGED <<detail, pops>>
  /\ UNCHANGED <<head, next, prev, size, locals, pushed>>

\* The datum was copied and the node retired; the list lets go of it.
LastCut(t) ==
  /\ pc[t] = "last_cut"
  /\ next' = IF next[near[t]] = end[t] THEN [next EXCEPT ![near[t]] = None] ELSE next
  /\ Goto(t, "pop_size")
  /\ UNCHANGED <<head, detail, prev, size, locals, pushed, pops>>

PopBack(t) ==
  \/ CallPop(t, "last_end")
  \/ LastEnd(t) \/ LastNull(t) \/ LastNext(t) \/ LastRead(t) \/ LastHelp(t)
  \/ LastCheck(t) \/ LastPrev(t) \/ LastRecheck(t) \/ LastHead(t) \/ LastMove(t)
  \/ LastCut(t)

-----------------------------------------------------------------------------
Next ==
  \E t \in Threads :
    \/ PushFront(t) \/ PopFront(t) \/ PushBack(t) \/ PopBack(t)
    \/ PushSize(t) \/ PopSize(t) \/ ReturnFalse(t, "false")

Spec == Init /\ [][Next]_vars

\* A deque returns each datum once ("lock-free deque", optimistic_queue.h:5).
\* This one does not: pop_front has moved head to the last node and not cut its
\* prev yet, and pop_back, which compares that prev with head, pops the node
\* again (120-121, 211-216).
PoppedOnce == \A n \in Nodes : pops[n] <= 1
=============================================================================
