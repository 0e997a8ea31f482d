---------------------------- MODULE ActiveServer ----------------------------
(***************************************************************************)
(* active/: active objects and the server whose threads run them.          *)
(*                                                                         *)
(* An `active` is a handle on a mirco_active, taken from a pool of free    *)
(* ones.  post() pushes the handler on the mirco_active's event_que and,   *)
(* if it is the one that turns _run_flag from false to true, puts the      *)
(* mirco_active in the server's _active_pool.  A server thread takes a     *)
(* mirco_active out, runs handlers until event_que is empty, and only then *)
(* stores false in _run_flag.                                              *)
(*                                                                         *)
(* event_que is a linearizable queue here (see MSQueue) and the two pools  *)
(* are multisets (see NoBlockingPool); of the latter's protocol this       *)
(* module keeps that pop lowers _size only after it took the item out.     *)
(***************************************************************************)
EXTENDS Integers, Sequences, FiniteSets

CONSTANTS
  Actives,    \* the mirco_active objects `new` can return
  Handles,    \* the `active` objects of the program
  Workers,    \* the threads that start() can create
  Helpers,    \* threads that call the public do_one() themselves
  NThreads,   \* how many threads start() creates: nCurrentNum
  Posters,    \* the threads that call active::post
  MaxEvents,  \* bound on the number of handlers posted in a behaviour
  None

ASSUME MaxEventsAssumption == MaxEvents \in Nat
ASSUME ThreadsAssumption == Workers \cap Helpers = {}
ASSUME NThreadsAssumption == NThreads \in Nat
ASSUME NoneAssumption == None \notin Actives /\ None \notin Nat

VARIABLES
  bound,      \* bound[h]: the mirco_active of handle h, or None
  created,    \* the mirco_actives that `new` has returned
  stuck,      \* those whose uninitialised _run_flag happened to be true
  freePool,   \* _free_active_pool
  runFlag,    \* mirco_active::_run_flag
  queue,      \* mirco_active::event_que
  done,       \* history: the events whose handlers have returned, in order
  next,       \* the number the next posted event gets
  pool,       \* _active_pool: how many times each mirco_active is in it
  poolSize,   \* _active_pool._size
  serverRun,  \* active_server::_run_flag
  emptyFlag,  \* active_server::_empty_flag
  wpc, wact, wev,  \* server threads: next step, mirco_active, event in hand
  ppc, pact        \* posters: next step, mirco_active posted to

objects == <<bound, created, stuck, freePool>>
mailbox == <<queue, done, next>>
posters == <<ppc, pact>>
workers == <<wpc, wact, wev>>
server  == <<pool, poolSize, serverRun, emptyFlag>>
vars == <<objects, runFlag, mailbox, server, workers, posters>>

Threads == Workers \cup Helpers
Events == 1 .. MaxEvents

Init ==
  /\ bound = [h \in Handles |-> None]
  /\ created = {} /\ stuck = {} /\ freePool = {}
  /\ runFlag = [a \in Actives |-> FALSE]
  /\ queue = [a \in Actives |-> <<>>]
  /\ done = [a \in Actives |-> <<>>]
  /\ next = 1
  /\ pool = [a \in Actives |-> 0]
  /\ poolSize = 0
  /\ serverRun = FALSE /\ emptyFlag = FALSE
  /\ wpc = [w \in Threads |-> "off"]
  /\ wact = [w \in Threads |-> None]
  /\ wev = [w \in Threads |-> None]
  /\ ppc = [p \in Posters |-> "idle"]
  /\ pact = [p \in Posters |-> None]

-----------------------------------------------------------------------------
(* active::active, active::~active                                         *)

\* Mutant of Recycle: the mirco_active stays in the free pool.
RecycleTwice(h) ==
  /\ bound[h] = None
  /\ \E a \in freePool : bound' = [bound EXCEPT ![h] = a]
  /\ UNCHANGED <<created, stuck, freePool, runFlag, mailbox, server, workers, posters>>

\* get_mirco_active, the free pool is not empty.  Nothing of the recycled
\* mirco_active is reset: it may be scheduled, or hold its old owner's events.
Recycle(h) ==
  /\ bound[h] = None
  /\ \E a \in freePool :
       /\ bound' = [bound EXCEPT ![h] = a]
       /\ freePool' = freePool \ {a}
  /\ UNCHANGED <<created, stuck, runFlag, mailbox, server, workers, posters>>

\* get_mirco_active, the free pool is empty: `new`, and the constructor
\* leaves _run_flag with whatever value the memory had.
Create(h) ==
  /\ bound[h] = None
  /\ freePool = {}
  /\ \E a \in Actives \ created, f \in BOOLEAN :
       /\ bound' = [bound EXCEPT ![h] = a]
       /\ created' = created \cup {a}
       /\ runFlag' = [runFlag EXCEPT ![a] = f]
       /\ stuck' = IF f THEN stuck \cup {a} ELSE stuck
  /\ UNCHANGED <<freePool, mailbox, server, workers, posters>>

\* release_mirco_active.  No call of post on the handle is in progress (an
\* object is not destroyed under its own methods), but its events may be
\* queued or running.
Destroy(h) ==
  /\ bound[h] # None
  /\ \A p \in Posters : ppc[p] # "idle" => pact[p] # bound[h]
  /\ freePool' = freePool \cup {bound[h]}
  /\ bound' = [bound EXCEPT ![h] = None]
  /\ UNCHANGED <<created, stuck, runFlag, mailbox, server, workers, posters>>

-----------------------------------------------------------------------------
(* active::post -> mirco_active::post -> active_server::post               *)

\* Mutant of Push: _active_server->post is not called.
PushOnly(p, h) ==
  /\ ppc[p] = "idle" /\ bound[h] # None /\ next <= MaxEvents
  /\ queue' = [queue EXCEPT ![bound[h]] = Append(@, next)]
  /\ next' = next + 1
  /\ UNCHANGED <<objects, runFlag, done, server, workers, posters>>

\* event_que.push(_handle)
Push(p, h) ==
  /\ ppc[p] = "idle" /\ bound[h] # None /\ next <= MaxEvents
  /\ queue' = [queue EXCEPT ![bound[h]] = Append(@, next)]
  /\ next' = next + 1
  /\ ppc' = [ppc EXCEPT ![p] = "sched"]
  /\ pact' = [pact EXCEPT ![p] = bound[h]]
  /\ UNCHANGED <<objects, runFlag, done, server, workers>>

\* _run_flag.exchange(true)
Schedule(p) ==
  /\ ppc[p] = "sched"
  /\ ppc' = [ppc EXCEPT ![p] = IF runFlag[pact[p]] THEN "idle" ELSE "put"]
  /\ runFlag' = [runFlag EXCEPT ![pact[p]] = TRUE]
  /\ UNCHANGED <<objects, mailbox, server, workers, pact>>

\* _active_pool.put(_mirco_active)
Put(p) ==
  /\ ppc[p] = "put"
  /\ pool' = [pool EXCEPT ![pact[p]] = @ + 1]
  /\ poolSize' = poolSize + 1
  /\ ppc' = [ppc EXCEPT ![p] = "flag"]
  /\ UNCHANGED <<objects, runFlag, mailbox, serverRun, emptyFlag, workers, pact>>

\* _empty_flag.exchange(true)
FlagWork(p) ==
  /\ ppc[p] = "flag"
  /\ ppc' = [ppc EXCEPT ![p] = IF emptyFlag THEN "idle" ELSE "notify"]
  /\ emptyFlag' = TRUE
  /\ UNCHANGED <<objects, runFlag, mailbox, pool, poolSize, serverRun, workers, pact>>

\* _cond.notify_all(), without _mu: it wakes the threads asleep by now
Notify(p) ==
  /\ ppc[p] = "notify"
  /\ ppc' = [ppc EXCEPT ![p] = "idle"]
  /\ wpc' = [w \in Threads |-> IF wpc[w] = "asleep" THEN "pop" ELSE wpc[w]]
  /\ UNCHANGED <<objects, runFlag, mailbox, server, wact, wev, pact>>

-----------------------------------------------------------------------------
(* active_server::do_one and mirco_active::run                             *)

\* A thread of the program calls do_one() itself.
CallDoOne(w) ==
  /\ w \in Helpers /\ wpc[w] = "off"
  /\ wpc' = [wpc EXCEPT ![w] = "pop"]
  /\ UNCHANGED <<objects, runFlag, mailbox, server, wact, wev, posters>>

\* _active_pool.pop() finds a mirco_active ...
PopActive(w) ==
  /\ wpc[w] = "pop" /\ poolSize # 0
  /\ \E a \in Actives :
       /\ pool[a] > 0
       /\ pool' = [pool EXCEPT ![a] = @ - 1]
       /\ wact' = [wact EXCEPT ![w] = a]
  /\ wpc' = [wpc EXCEPT ![w] = "dec"]
  /\ UNCHANGED <<objects, runFlag, mailbox, poolSize, serverRun, emptyFlag, wev, posters>>

\* Mutant of LowerSize: _run_flag is cleared before run() instead of after it.
ClearBeforeRun(w) ==
  /\ wpc[w] = "dec"
  /\ poolSize' = poolSize - 1
  /\ runFlag' = [runFlag EXCEPT ![wact[w]] = FALSE]
  /\ wpc' = [wpc EXCEPT ![w] = "take"]
  /\ UNCHANGED <<objects, mailbox, pool, serverRun, emptyFlag, wact, wev, posters>>

\* ... and then lowers _size.
LowerSize(w) ==
  /\ wpc[w] = "dec"
  /\ poolSize' = poolSize - 1
  /\ wpc' = [wpc EXCEPT ![w] = "take"]
  /\ UNCHANGED <<objects, runFlag, mailbox, pool, serverRun, emptyFlag, wact, wev, posters>>

\* _active_pool.pop() reads _size == 0 and do_one returns false.
PopNothing(w) ==
  /\ wpc[w] = "pop" /\ poolSize = 0
  /\ wpc' = [wpc EXCEPT ![w] = IF w \in Workers THEN "chkrun" ELSE "off"]
  /\ UNCHANGED <<objects, runFlag, mailbox, server, wact, wev, posters>>

\* Mutant of TakeEvent: the newest event is popped.
TakeNewest(w) ==
  LET q == queue[wact[w]] IN
  /\ wpc[w] = "take" /\ q # <<>>
  /\ wev' = [wev EXCEPT ![w] = q[Len(q)]]
  /\ queue' = [queue EXCEPT ![wact[w]] = SubSeq(@, 1, Len(@) - 1)]
  /\ wpc' = [wpc EXCEPT ![w] = "handle"]
  /\ UNCHANGED <<objects, runFlag, done, next, server, wact, posters>>

\* Mutant of TakeEvent: the result of event_que.pop is not tested.
TakeUnchecked(w) ==
  /\ wpc[w] = "take"
  /\ IF queue[wact[w]] = <<>>
     THEN UNCHANGED <<queue, wev>>
     ELSE /\ wev' = [wev EXCEPT ![w] = Head(queue[wact[w]])]
          /\ queue' = [queue EXCEPT ![wact[w]] = Tail(@)]
  /\ wpc' = [wpc EXCEPT ![w] = "handle"]
  /\ UNCHANGED <<objects, runFlag, done, next, server, wact, posters>>

\* mirco_active::run: event_que.pop gives a handler, which is called.
TakeEvent(w) ==
  /\ wpc[w] = "take" /\ queue[wact[w]] # <<>>
  /\ wev' = [wev EXCEPT ![w] = Head(queue[wact[w]])]
  /\ queue' = [queue EXCEPT ![wact[w]] = Tail(@)]
  /\ wpc' = [wpc EXCEPT ![w] = "handle"]
  /\ UNCHANGED <<objects, runFlag, done, next, server, wact, posters>>

\* The handler returns.
HandlerReturns(w) ==
  /\ wpc[w] = "handle"
  /\ done' = [done EXCEPT ![wact[w]] = Append(@, wev[w])]
  /\ wev' = [wev EXCEPT ![w] = None]
  /\ wpc' = [wpc EXCEPT ![w] = "take"]
  /\ UNCHANGED <<objects, runFlag, queue, next, server, wact, posters>>

\* event_que.pop finds the queue empty and run() returns.
QueueEmpty(w) ==
  /\ wpc[w] = "take" /\ queue[wact[w]] = <<>>
  /\ wpc' = [wpc EXCEPT ![w] = "clear"]
  /\ UNCHANGED <<objects, runFlag, mailbox, server, wact, wev, posters>>

\* Mutant of ClearFlag: _run_flag is left on after run().
KeepFlag(w) ==
  /\ wpc[w] = "clear"
  /\ wact' = [wact EXCEPT ![w] = None]
  /\ wpc' = [wpc EXCEPT ![w] = IF w \in Workers THEN "pop" ELSE "off"]
  /\ UNCHANGED <<objects, runFlag, mailbox, server, wev, posters>>

\* _active->_run_flag.store(false), a step after the queue was seen empty;
\* do_one returns true.
ClearFlag(w) ==
  /\ wpc[w] = "clear"
  /\ runFlag' = [runFlag EXCEPT ![wact[w]] = FALSE]
  /\ wact' = [wact EXCEPT ![w] = None]
  /\ wpc' = [wpc EXCEPT ![w] = IF w \in Workers THEN "pop" ELSE "off"]
  /\ UNCHANGED <<objects, mailbox, server, wev, posters>>

-----------------------------------------------------------------------------
(* active_server::run, start and stop                                      *)

\* Mutant of CheckRun: the loop does not test _run_flag.
IgnoreRun(w) ==
  /\ wpc[w] = "chkrun"
  /\ wpc' = [wpc EXCEPT ![w] = "chksize"]
  /\ UNCHANGED <<objects, runFlag, mailbox, server, wact, wev, posters>>

\* _run_flag.load() == false: break
CheckRun(w) ==
  /\ wpc[w] = "chkrun"
  /\ wpc' = [wpc EXCEPT ![w] = IF serverRun THEN "chksize" ELSE "off"]
  /\ UNCHANGED <<objects, runFlag, mailbox, server, wact, wev, posters>>

\* _active_pool.size() == 0
CheckSize(w) ==
  /\ wpc[w] = "chksize"
  /\ wpc' = [wpc EXCEPT ![w] = IF poolSize = 0 THEN "setempty" ELSE "pop"]
  /\ UNCHANGED <<objects, runFlag, mailbox, server, wact, wev, posters>>

\* _empty_flag.store(false)
SetEmpty(w) ==
  /\ wpc[w] = "setempty"
  /\ emptyFlag' = FALSE
  /\ wpc' = [wpc EXCEPT ![w] = "sleep"]
  /\ UNCHANGED <<objects, runFlag, mailbox, pool, poolSize, serverRun, wact, wev, posters>>

\* timed_wait: from here a notification wakes the thread.
FallAsleep(w) ==
  /\ wpc[w] = "sleep"
  /\ wpc' = [wpc EXCEPT ![w] = "asleep"]
  /\ UNCHANGED <<objects, runFlag, mailbox, server, wact, wev, posters>>

\* Mutant of Timeout: wait in the place of timed_wait.
PlainWait(w) == wpc[w] = "asleep" /\ FALSE

\* The three seconds are over.
Timeout(w) ==
  /\ wpc[w] = "asleep"
  /\ wpc' = [wpc EXCEPT ![w] = "pop"]
  /\ UNCHANGED <<objects, runFlag, mailbox, server, wact, wev, posters>>

\* start(): threads of an earlier start() that have not ended yet go on.
Start ==
  /\ ~serverRun
  /\ serverRun' = TRUE
  /\ \E S \in SUBSET {w \in Workers : wpc[w] = "off"} :
       /\ Cardinality(S) = NThreads
       /\ wpc' = [w \in Threads |-> IF w \in S THEN "pop" ELSE wpc[w]]
  /\ UNCHANGED <<objects, runFlag, mailbox, pool, poolSize, emptyFlag, wact, wev, posters>>

\* stop(): nobody is woken.  Its join_all reads pointers to threads that are
\* gone (start() registers the address of a local), so it gives no guarantee.
Stop ==
  /\ serverRun
  /\ serverRun' = FALSE
  /\ UNCHANGED <<objects, runFlag, mailbox, pool, poolSize, emptyFlag, workers, posters>>

-----------------------------------------------------------------------------
ObjectStep(h) == Recycle(h) \/ Create(h) \/ Destroy(h)

PostStep(p) == Schedule(p) \/ Put(p) \/ FlagWork(p) \/ Notify(p)

DoOneStep(w) ==
  \/ PopActive(w) \/ LowerSize(w) \/ PopNothing(w)
  \/ TakeEvent(w) \/ HandlerReturns(w) \/ QueueEmpty(w) \/ ClearFlag(w)

RunStep(w) ==
  \/ CheckRun(w) \/ CheckSize(w) \/ SetEmpty(w) \/ FallAsleep(w) \/ Timeout(w)

Next ==
  \/ \E h \in Handles : ObjectStep(h)
  \/ \E p \in Posters : PostStep(p) \/ \E h \in Handles : Push(p, h)
  \/ \E w \in Threads : CallDoOne(w) \/ DoOneStep(w) \/ RunStep(w)
  \/ Start \/ Stop

Spec == Init /\ [][Next]_vars

\* Threads are scheduled, handlers return and timed_wait ends; nobody has to
\* post, to call do_one, to start or to stop.
Fairness ==
  /\ \A p \in Posters : WF_vars(PostStep(p))
  /\ \A w \in Threads : WF_vars(DoOneStep(w) \/ RunStep(w))

FairSpec == Spec /\ Fairness

-----------------------------------------------------------------------------
(* Who has the right to run a mirco_active                                 *)

\* w took a out of _active_pool and has not cleared its flag yet.
Owns(w, a) == wact[w] = a

\* p turned a's flag on and has not put it in _active_pool yet.
Putting(p, a) == ppc[p] = "put" /\ pact[p] = a

\* p pushed on a and has not tried a's flag yet.
Scheduling(p, a) == ppc[p] = "sched" /\ pact[p] = a

\* A run of a is on its way or under way.
Scheduled(a) ==
  \/ \E p \in Posters : Putting(p, a)
  \/ pool[a] > 0
  \/ \E w \in Threads : Owns(w, a)

\* a holds events, and no run of it is under way, on its way or being asked
\* for: nothing handles them before somebody posts to a again, if ever.
Stranded(a) ==
  /\ queue[a] # <<>>
  /\ ~ Scheduled(a)
  /\ \A p \in Posters : ~ Scheduling(p, a)

-----------------------------------------------------------------------------
HoldsActive == {"dec", "take", "handle", "clear"}

TypeOK ==
  /\ bound \in [Handles -> Actives \cup {None}]
  /\ created \subseteq Actives
  /\ stuck \subseteq created
  /\ freePool \subseteq created
  /\ runFlag \in [Actives -> BOOLEAN]
  /\ queue \in [Actives -> Seq(Nat)]
  /\ done \in [Actives -> Seq(Nat)]
  /\ next \in Nat
  /\ pool \in [Actives -> Nat]
  /\ poolSize \in Int
  /\ serverRun \in BOOLEAN /\ emptyFlag \in BOOLEAN
  /\ wpc \in [Threads -> HoldsActive \cup {"off", "pop", "chkrun", "chksize",
                                           "setempty", "sleep", "asleep"}]
  /\ wact \in [Threads -> Actives \cup {None}]
  /\ wev \in [Threads -> Nat \cup {None}]
  /\ ppc \in [Posters -> {"idle", "sched", "put", "flag", "notify"}]
  /\ pact \in [Posters -> Actives \cup {None}]

\* An active object is never run by two threads at once, although its
\* mirco_active passes through two pools, changes owner and is scheduled by
\* any poster: active_server.cpp:80 lets one poster put it, and only the
\* thread that ran it (39) lets the next one do so.
SerialActive ==
  \A a \in Actives : \A v, w \in Threads : Owns(v, a) /\ Owns(w, a) => v = w

\* A mirco_active with its flag on is going to be run, unless the flag has
\* been on since `new` (mirco_active.cpp:14 leaves it uninitialised); with the
\* flag off no run is pending, so no put can come twice.
FlagMeansScheduled ==
  \A a \in Actives : (runFlag[a] /\ a \notin stuck) <=> Scheduled(a)

\* Two handles never share a mirco_active, and a free one is nobody's: the
\* recycling through _free_active_pool gives each to one owner.
OneOwner ==
  /\ \A g, h \in Handles : bound[g] # None /\ bound[g] = bound[h] => g = h
  /\ \A h \in Handles : bound[h] \notin freePool

\* Events are stranded in a queue in two ways and no other.  A thread saw the
\* queue empty, an event pushed after that found the flag still on, and now
\* the thread turns it off (active_server.cpp:38-39 against 80).  Or the
\* mirco_active was made with its flag on (mirco_active.cpp:14 leaves it
\* uninitialised): then every post to it strands its event, and for ever.
StrandsInTwoWays ==
  [][\A a \in Actives :
       ~ Stranded(a) /\ Stranded(a)' =>
         IF a \in stuck
         THEN \E p \in Posters : Scheduling(p, a)
         ELSE \E w \in Threads : wpc[w] = "clear" /\ Owns(w, a)]_vars

\* Each active object is a mailbox whose handlers run one at a time in the
\* order pushed (mirco_active.cpp:39-49), whatever the threads do.
Busy(a) ==
  IF \E w \in Threads : wpc[w] = "handle" /\ Owns(w, a)
  THEN wev[CHOOSE w \in Threads : wpc[w] = "handle" /\ Owns(w, a)]
  ELSE None

Mailbox == INSTANCE ActorMailbox WITH busy <- [a \in Actives |-> Busy(a)]

ImplementsMailbox == Mailbox!Spec

\* What the mailbox is for: the handlers of an active object return in the
\* order in which their events were pushed, and none is called twice.
HandledInOrder == Mailbox!InOrder

\* While the server runs, an event that waits on a scheduled mirco_active is
\* handled in the end; a lost notification (active_server.cpp:52-55 against
\* 83-84) costs at most the three seconds of timed_wait.
WaitingEventIsHandled ==
  \A a \in Actives : \A e \in Events :
    (serverRun /\ pool[a] > 0 /\ e \in {queue[a][i] : i \in DOMAIN queue[a]})
      ~> (~ serverRun \/ e \in {done[a][i] : i \in DOMAIN done[a]})

\* After stop() every server thread ends (unless somebody starts again): none
\* sleeps for ever although stop() wakes nobody (active_server.cpp:74-77).
StopEndsThreads ==
  \A w \in Workers : ~ serverRun ~> (serverRun \/ wpc[w] = "off")
=============================================================================
