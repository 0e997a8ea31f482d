------------------------------ MODULE MSQueue ------------------------------
(***************************************************************************)
(* container/msque.h: the lock-free queue of Michael and Scott.  A list    *)
(* with a dummy node at its _begin; _end is the last node or lags behind.  *)
(*                                                                         *)
(* Hazard pointers appear as what the queue needs of them (HazardSystem    *)
(* says when the code delivers it): a retired node is not reused while a   *)
(* record shows it.  A pointer is read and then published, in two steps.   *)
(*                                                                         *)
(* clear() frees the old list at once, with nothing that protects the list *)
(* object or the nodes that running operations are about to retire, so the *)
(* model allows it only while no operation runs.                           *)
(***************************************************************************)
EXTENDS Naturals, FiniteSets, Sequences

CONSTANTS
  Threads,
  Nodes,     \* the memory the list nodes are allocated from
  MaxPush,   \* bound on the number of pushes
  Width,     \* _size counts modulo Width, 2^32 in the code
  None       \* the null pointer, and no value

ASSUME BoundsAssumption == MaxPush \in Nat /\ Width \in Nat /\ Width > MaxPush
ASSUME MemoryAssumption == IsFiniteSet(Nodes)
ASSUME NoneAssumption == None \notin Nodes \cup Nat

VARIABLES
  begin, end,  \* _begin and _end of the list
  size,        \* _size
  next, data,  \* _next and data of each node
  mem,         \* mem[n]: "used", "retired" or "free"
  pc,          \* next step of each thread
  hb,          \* hb[t]: _hp->_hazard of push, _hp_begin->_hazard of pop
  hn,          \* hn[t]: next in push, _hp_next->_hazard in pop
  rd,          \* rd[t]: a pointer t has read and not published yet
  loc,         \* loc[t]: _node of push, end of pop
  popped,      \* popped[t]: what t's last pop returned
  sent         \* the number of pushes so far; push number i pushes i

list == <<begin, end, next, data>>
vars == <<list, size, mem, pc, hb, hn, rd, loc, popped, sent>>

Values == 1 .. MaxPush

Init ==
  /\ begin \in Nodes /\ end = begin
  /\ size = 0
  /\ next = [n \in Nodes |-> None]
  /\ data = [n \in Nodes |-> None]
  /\ mem = [n \in Nodes |-> IF n = begin THEN "used" ELSE "free"]
  /\ pc = [t \in Threads |-> "idle"]
  /\ hb = [t \in Threads |-> None]
  /\ hn = [t \in Threads |-> None]
  /\ rd = [t \in Threads |-> None]
  /\ loc = [t \in Threads |-> None]
  /\ popped = [t \in Threads |-> None]
  /\ sent = 0

Goto(t, l) == pc' = [pc EXCEPT ![t] = l]

\* p is read, to be published at the step l.
Read(t, p, l) ==
  /\ rd' = [rd EXCEPT ![t] = p]
  /\ Goto(t, l)

-----------------------------------------------------------------------------
(* push                                                                    *)

\* get_node(data) and acquire
CallPush(t) ==
  /\ pc[t] = "idle" /\ sent < MaxPush
  /\ \E n \in Nodes :
       /\ mem[n] = "free"
       /\ mem' = [mem EXCEPT ![n] = "used"]
       /\ data' = [data EXCEPT ![n] = sent + 1]
       /\ next' = [next EXCEPT ![n] = None]
       /\ loc' = [loc EXCEPT ![t] = n]
  /\ sent' = sent + 1
  /\ Goto(t, "push_read")
  /\ UNCHANGED <<begin, end, size, hb, hn, rd, popped>>

PushRead(t) ==
  /\ pc[t] = "push_read"
  /\ Read(t, end, "push_publish")
  /\ UNCHANGED <<list, size, mem, hb, hn, loc, popped, sent>>

PushPublish(t) ==
  /\ pc[t] = "push_publish"
  /\ hb' = [hb EXCEPT ![t] = rd[t]]
  /\ Goto(t, "push_check")
  /\ UNCHANGED <<list, size, mem, hn, rd, loc, popped, sent>>

\* _hazard is still _end, before and after _next is read; otherwise once more.
PushCheck(t) ==
  /\ pc[t] = "push_check"
  /\ Goto(t, IF hb[t] = end THEN "push_next" ELSE "push_read")
  /\ UNCHANGED <<list, size, mem, hb, hn, rd, loc, popped, sent>>

PushNext(t) ==
  /\ pc[t] = "push_next"
  /\ hn' = [hn EXCEPT ![t] = next[hb[t]]]
  /\ Goto(t, "push_again")
  /\ UNCHANGED <<list, size, mem, hb, rd, loc, popped, sent>>

PushAgain(t) ==
  /\ pc[t] = "push_again"
  /\ Goto(t, IF hb[t] # end THEN "push_read"
             ELSE IF hn[t] # None THEN "push_help" ELSE "push_link")
  /\ UNCHANGED <<list, size, mem, hb, hn, rd, loc, popped, sent>>

\* The compare-and-swap that moves _end on from p to n.
SwingEnd(p, n) == end' = IF end = p THEN n ELSE end

\* _end lags behind: help, and read it again.
PushHelp(t) ==
  /\ pc[t] = "push_help"
  /\ SwingEnd(hb[t], hn[t])
  /\ Goto(t, "push_read")
  /\ UNCHANGED <<begin, size, next, data, mem, hb, hn, rd, loc, popped, sent>>

\* Mutant of PushLink: a store in the place of the compare-and-swap of _next.
LinkBlindly(t) ==
  /\ pc[t] = "push_link"
  /\ next' = [next EXCEPT ![hb[t]] = loc[t]]
  /\ Goto(t, "push_swing")
  /\ UNCHANGED <<begin, end, size, data, mem, hb, hn, rd, loc, popped, sent>>

\* Mutant of PushLink: a failed compare-and-swap is tried again on the same node.
LinkAgain(t) ==
  /\ pc[t] = "push_link"
  /\ IF next[hb[t]] = None
     THEN next' = [next EXCEPT ![hb[t]] = loc[t]] /\ Goto(t, "push_swing")
     ELSE UNCHANGED <<next, pc>>
  /\ UNCHANGED <<begin, end, size, data, mem, hb, hn, rd, loc, popped, sent>>

\* The compare-and-swap of _next from null to the new node.
PushLink(t) ==
  /\ pc[t] = "push_link"
  /\ IF next[hb[t]] = None
     THEN next' = [next EXCEPT ![hb[t]] = loc[t]] /\ Goto(t, "push_swing")
     ELSE Goto(t, "push_read") /\ UNCHANGED next
  /\ UNCHANGED <<begin, end, size, data, mem, hb, hn, rd, loc, popped, sent>>

PushSwing(t) ==
  /\ pc[t] = "push_swing"
  /\ SwingEnd(hb[t], loc[t])
  /\ Goto(t, "push_size")
  /\ UNCHANGED <<begin, size, next, data, mem, hb, hn, rd, loc, popped, sent>>

\* The thread's records show nothing any more.
DropPointers(t) ==
  /\ hb' = [hb EXCEPT ![t] = None]
  /\ hn' = [hn EXCEPT ![t] = None]
  /\ rd' = [rd EXCEPT ![t] = None]
  /\ loc' = [loc EXCEPT ![t] = None]

\* Mutant of PushSize: _size is not raised.
PushUncounted(t) ==
  /\ pc[t] = "push_size"
  /\ DropPointers(t)
  /\ Goto(t, "idle")
  /\ UNCHANGED <<list, size, mem, popped, sent>>

\* release, and _size++
PushSize(t) ==
  /\ pc[t] = "push_size"
  /\ size' = (size + 1) % Width
  /\ DropPointers(t)
  /\ Goto(t, "idle")
  /\ UNCHANGED <<list, mem, popped, sent>>

-----------------------------------------------------------------------------
(* pop                                                                     *)

CallPop(t) ==
  /\ pc[t] = "idle"
  /\ Goto(t, "pop_read")
  /\ UNCHANGED <<list, size, mem, hb, hn, rd, loc, popped, sent>>

PopRead(t) ==
  /\ pc[t] = "pop_read"
  /\ Read(t, begin, "pop_publish")
  /\ UNCHANGED <<list, size, mem, hb, hn, loc, popped, sent>>

PopPublish(t) ==
  /\ pc[t] = "pop_publish"
  /\ hb' = [hb EXCEPT ![t] = rd[t]]
  /\ Goto(t, "pop_check")
  /\ UNCHANGED <<list, size, mem, hn, rd, loc, popped, sent>>

\* Mutant of PopCheck: _begin is not read again after the pointer is published.
PopUnchecked(t) ==
  /\ pc[t] = "pop_check"
  /\ Goto(t, "pop_end")
  /\ UNCHANGED <<list, size, mem, hb, hn, rd, loc, popped, sent>>

PopCheck(t) ==
  /\ pc[t] = "pop_check"
  /\ Goto(t, IF hb[t] = begin THEN "pop_end" ELSE "pop_read")
  /\ UNCHANGED <<list, size, mem, hb, hn, rd, loc, popped, sent>>

PopEnd(t) ==
  /\ pc[t] = "pop_end"
  /\ loc' = [loc EXCEPT ![t] = end]
  /\ Goto(t, "pop_next")
  /\ UNCHANGED <<list, size, mem, hb, hn, rd, popped, sent>>

\* _next of the first node is read; null means empty, whether or not that
\* node is still the first.
PopNext(t) ==
  /\ pc[t] = "pop_next"
  /\ IF next[hb[t]] = None
     THEN /\ popped' = [popped EXCEPT ![t] = None]
          /\ DropPointers(t)
          /\ Goto(t, "idle")
     ELSE /\ Read(t, next[hb[t]], "pop_publish_next")
          /\ UNCHANGED <<popped, hb, hn, loc>>
  /\ UNCHANGED <<list, size, mem, sent>>

PopPublishNext(t) ==
  /\ pc[t] = "pop_publish_next"
  /\ hn' = [hn EXCEPT ![t] = rd[t]]
  /\ Goto(t, "pop_again")
  /\ UNCHANGED <<list, size, mem, hb, rd, loc, popped, sent>>

\* Mutant of PopAgain: the test of begin == end is left out.
PopPastEnd(t) ==
  /\ pc[t] = "pop_again"
  /\ Goto(t, IF hb[t] # begin THEN "pop_read" ELSE "pop_swing")
  /\ UNCHANGED <<list, size, mem, hb, hn, rd, loc, popped, sent>>

\* The first node may also be the last that _end knows of: _end lags behind.
PopAgain(t) ==
  /\ pc[t] = "pop_again"
  /\ Goto(t, IF hb[t] # begin THEN "pop_read"
             ELSE IF loc[t] = hb[t] THEN "pop_help" ELSE "pop_swing")
  /\ UNCHANGED <<list, size, mem, hb, hn, rd, loc, popped, sent>>

PopHelp(t) ==
  /\ pc[t] = "pop_help"
  /\ SwingEnd(loc[t], hn[t])
  /\ Goto(t, "pop_read")
  /\ UNCHANGED <<begin, size, next, data, mem, hb, hn, rd, loc, popped, sent>>

\* The compare-and-swap of _begin; when it fails it leaves the present _begin
\* in _hp_begin->_hazard.  When it succeeds the value is the thread's, though
\* it is read later: popped has it at once, and PopData must not change it.
PopSwing(t) ==
  /\ pc[t] = "pop_swing"
  /\ IF begin = hb[t]
     THEN /\ begin' = hn[t]
          /\ popped' = [popped EXCEPT ![t] = data[hn[t]]]
          /\ Goto(t, "pop_data")
          /\ UNCHANGED rd
     ELSE /\ Read(t, begin, "pop_publish")
          /\ UNCHANGED <<begin, popped>>
  /\ UNCHANGED <<end, size, next, data, mem, hb, hn, loc, sent>>

\* data = _hp_next->_hazard->data, after the node was made the first
PopData(t) ==
  /\ pc[t] = "pop_data"
  /\ popped' = [popped EXCEPT ![t] = data[hn[t]]]
  /\ Goto(t, "pop_retire")
  /\ UNCHANGED <<list, size, mem, hb, hn, rd, loc, sent>>

PopRetire(t) ==
  /\ pc[t] = "pop_retire"
  /\ mem' = [mem EXCEPT ![hb[t]] = "retired"]
  /\ Goto(t, "pop_size")
  /\ UNCHANGED <<list, size, hb, hn, rd, loc, popped, sent>>

\* _size--, and release
PopSize(t) ==
  /\ pc[t] = "pop_size"
  /\ size' = (size + Width - 1) % Width
  /\ DropPointers(t)
  /\ Goto(t, "idle")
  /\ UNCHANGED <<list, mem, popped, sent>>

-----------------------------------------------------------------------------
PushSteps == {"push_read", "push_publish", "push_check", "push_next", "push_again",
              "push_help", "push_link", "push_swing", "push_size"}

\* A scan deallocates a retired node that no record shows.  The next that a push
\* has read is a local variable (msque.h:82): only a pop publishes it.
Free(n) ==
  /\ mem[n] = "retired"
  /\ \A t \in Threads : n # hb[t] /\ (n # hn[t] \/ pc[t] \in PushSteps)
  /\ mem' = [mem EXCEPT ![n] = "free"]
  /\ UNCHANGED <<list, size, pc, hb, hn, rd, loc, popped, sent>>

\* clear: a new empty list; every node of the old one is retired.
Clear ==
  /\ \A t \in Threads : pc[t] = "idle"
  /\ \E n \in Nodes :
       /\ mem[n] = "free"
       /\ begin' = n /\ end' = n
       /\ next' = [next EXCEPT ![n] = None]
       /\ mem' = [m \in Nodes |-> CASE m = n -> "used"
                                    [] mem[m] = "used" -> "retired"
                                    [] OTHER -> mem[m]]
  /\ size' = 0
  /\ UNCHANGED <<data, pc, hb, hn, rd, loc, popped, sent>>

Push(t) ==
  \/ PushRead(t) \/ PushPublish(t)
  \/ PushCheck(t) \/ PushNext(t) \/ PushAgain(t) \/ PushHelp(t)
  \/ PushLink(t) \/ PushSwing(t) \/ PushSize(t)

Pop(t) ==
  \/ PopRead(t) \/ PopPublish(t) \/ PopCheck(t) \/ PopEnd(t) \/ PopNext(t)
  \/ PopPublishNext(t) \/ PopAgain(t) \/ PopHelp(t)
  \/ PopSwing(t) \/ PopData(t) \/ PopRetire(t) \/ PopSize(t)

Next ==
  \/ \E t \in Threads : CallPush(t) \/ Push(t) \/ CallPop(t) \/ Pop(t)
  \/ \E n \in Nodes : Free(n)
  \/ Clear

Spec == Init /\ [][Next]_vars

\* Threads inside an operation are scheduled.
FairSpec == Spec /\ \A t \in Threads : WF_vars(Push(t) \/ Pop(t))

-----------------------------------------------------------------------------
(* The nodes from _begin on: Chain[0] is the dummy node.                   *)

Chain ==
  LET at[k \in 0 .. Cardinality(Nodes)] ==
        IF k = 0 THEN begin
        ELSE IF at[k - 1] = None THEN None ELSE next[at[k - 1]]
  IN  at

Length == Cardinality({k \in 1 .. Cardinality(Nodes) : Chain[k] # None})

Contents == [k \in 1 .. Length |-> data[Chain[k]]]

TypeOK ==
  /\ begin \in Nodes /\ end \in Nodes
  /\ size \in 0 .. Width - 1
  /\ next \in [Nodes -> Nodes \cup {None}]
  /\ data \in [Nodes -> Values \cup {None}]
  /\ mem \in [Nodes -> {"used", "retired", "free"}]
  /\ hb \in [Threads -> Nodes \cup {None}]
  /\ hn \in [Threads -> Nodes \cup {None}]
  /\ rd \in [Threads -> Nodes \cup {None}]
  /\ loc \in [Threads -> Nodes \cup {None}]
  /\ popped \in [Threads -> Values \cup {None}]
  /\ sent \in 0 .. MaxPush

\* _begin never passes _end, so a node is retired only once nothing of the
\* list leads to it (msque.h:134-138), and every node of the list is in use.
ListIntact ==
  /\ TypeOK
  /\ end \in {Chain[k] : k \in 0 .. Length}
  /\ \A k \in 0 .. Length : mem[Chain[k]] = "used"

\* A node whose fields are read or swapped is not deallocated memory: the
\* checks at msque.h:77, 84, 116 and 129 come where they are needed.
NoUseAfterFree ==
  \A t \in Threads :
    /\ pc[t] \in {"push_next", "push_link", "pop_next"} => mem[hb[t]] # "free"
    /\ pc[t] = "pop_data" => mem[hn[t]] # "free"

\* _size is changed after the list is (msque.h:106, 147), so it may be off,
\* even negative, while operations run; it is right whenever none does.
SizeSettles ==
  (\A t \in Threads : pc[t] = "idle") => size = Length

\* The queue is a FIFO queue whose operations are atomic: push takes effect
\* at the compare-and-swap of _next, pop at that of _begin or, when it fails,
\* at the read of a null _next.
Fifo == INSTANCE FifoQueue WITH items <- Contents

ImplementsFifo == Fifo!Spec

\* Lock-freedom: unless all operations end again and again, some operation
\* does; a thread starts over only because another one got on (msque.h:75-104,
\* 114-143).
SomeOperationEnds ==
  \/ []<>(\A t \in Threads : pc[t] = "idle")
  \/ []<><<\E t \in Threads : pc[t] # "idle" /\ pc'[t] = "idle">>_pc
=============================================================================
