---------------------------- MODULE ActorMailbox ----------------------------
(***************************************************************************)
(* What an active object (active/active.h) promises to the code that posts *)
(* to it: a mailbox per object, whose handlers are run one at a time, each *)
(* to its end before the next starts, in the order they were pushed.       *)
(* Nothing is said of threads, pools or flags.  ActiveServer implements    *)
(* this specification.                                                     *)
(***************************************************************************)
EXTENDS Naturals, Sequences

CONSTANTS
  Actives,    \* the mirco_active objects
  MaxEvents,  \* bound on the number of handlers posted in a behaviour
  None        \* no event

VARIABLES
  queue,  \* queue[a]: the events pushed on a and not yet started
  busy,   \* busy[a]: the event whose handler is running, or None
  done,   \* done[a]: the events whose handlers have returned, in that order
  next    \* the number the next posted event gets

vars == <<queue, busy, done, next>>

Events == 1 .. MaxEvents

Init ==
  /\ queue = [a \in Actives |-> <<>>]
  /\ busy = [a \in Actives |-> None]
  /\ done = [a \in Actives |-> <<>>]
  /\ next = 1

Post(a) ==
  /\ next <= MaxEvents
  /\ queue' = [queue EXCEPT ![a] = Append(@, next)]
  /\ next' = next + 1
  /\ UNCHANGED <<busy, done>>

Begin(a) ==
  /\ busy[a] = None
  /\ queue[a] # <<>>
  /\ busy' = [busy EXCEPT ![a] = Head(queue[a])]
  /\ queue' = [queue EXCEPT ![a] = Tail(@)]
  /\ UNCHANGED <<done, next>>

Finish(a) ==
  /\ busy[a] # None
  /\ done' = [done EXCEPT ![a] = Append(@, busy[a])]
  /\ busy' = [busy EXCEPT ![a] = None]
  /\ UNCHANGED <<queue, next>>

Next == \E a \in Actives : Post(a) \/ Begin(a) \/ Finish(a)

Spec == Init /\ [][Next]_vars

-----------------------------------------------------------------------------
Increasing(q) == \A i, j \in DOMAIN q : i < j => q[i] < q[j]

Below(q, n) == \A i \in DOMAIN q : q[i] < n

\* Handlers return in the order in which their events were posted and none
\* runs twice: finished, running and waiting events together are increasing.
InOrder ==
  \A a \in Actives :
    /\ Increasing(done[a])
    /\ Increasing(queue[a])
    /\ \A j \in DOMAIN queue[a] : Below(done[a], queue[a][j])
    /\ busy[a] # None =>
         /\ Below(done[a], busy[a])
         /\ \A j \in DOMAIN queue[a] : busy[a] < queue[a][j]
=============================================================================
