------------------------ MODULE ActiveServer_proofs ------------------------
(***************************************************************************)
(* Proofs about ActiveServer, for any number of objects, handles, posters, *)
(* server threads and events, and about the pools it keeps them in.        *)
(***************************************************************************)
EXTENDS ActiveServer, NoBlockingPool, FiniteSetTheorems, TLAPS

\* What a thread's and a poster's program counter says of what it holds.
Holdings ==
  /\ \A w \in Threads : wact[w] # None <=> wpc[w] \in HoldsActive
  /\ \A w \in Threads : wpc[w] = "handle" => wev[w] # None
  /\ \A p \in Posters : ppc[p] # "idle" => pact[p] # None

\* There is at most one permission to run a: with a poster about to put it,
\* in the pool, or with the thread that runs it.
OneRun ==
  \A a \in Actives :
    /\ pool[a] <= 1
    /\ \A p, q \in Posters : Putting(p, a) /\ Putting(q, a) => p = q
    /\ \A v, w \in Threads : Owns(v, a) /\ Owns(w, a) => v = w
    /\ \A p \in Posters : Putting(p, a) =>
         pool[a] = 0 /\ \A w \in Threads : ~ Owns(w, a)
    /\ pool[a] > 0 => \A w \in Threads : ~ Owns(w, a)

\* Only `new` makes a mirco_active's flag true without scheduling it.
Origin ==
  /\ \A a \in Actives \ created : ~ runFlag[a]
  /\ \A a \in stuck : runFlag[a]
  /\ \A h \in Handles : bound[h] # None => bound[h] \in created
  /\ \A p \in Posters : ppc[p] # "idle" => pact[p] \in created

IInv ==
  TypeOK /\ Holdings /\ Origin /\ OneOwner /\ OneRun /\ FlagMeansScheduled

-----------------------------------------------------------------------------
\* The initial states satisfy the inductive invariant.
LEMMA InitIInv == Init => IInv
<1> SUFFICES ASSUME Init PROVE IInv
  OBVIOUS
<1>1. TypeOK
  <2>1. queue \in [Actives -> Seq(Nat)] /\ done \in [Actives -> Seq(Nat)]
    <3>1. <<>> \in Seq(Nat)
      OBVIOUS
    <3> QED
      BY <3>1, Zenon DEF Init
  <2>2. runFlag \in [Actives -> BOOLEAN]
    BY Zenon DEF Init
  <2>3. serverRun \in BOOLEAN /\ emptyFlag \in BOOLEAN
    BY DEF Init
  <2>4. /\ wpc \in [Threads -> HoldsActive \cup {"off", "pop", "chkrun", "chksize",
                                           "setempty", "sleep", "asleep"}]
        /\ ppc \in [Posters -> {"idle", "sched", "put", "flag", "notify"}]
    BY DEF Init
  <2>5. /\ bound \in [Handles -> Actives \cup {None}]
        /\ wact \in [Threads -> Actives \cup {None}]
        /\ wev \in [Threads -> Nat \cup {None}]
        /\ pact \in [Posters -> Actives \cup {None}]
    BY DEF Init
  <2>6. /\ created \subseteq Actives /\ stuck \subseteq created
        /\ freePool \subseteq created
    BY DEF Init
  <2>7. next \in Nat /\ pool \in [Actives -> Nat] /\ poolSize \in Int
    BY DEF Init
  <2> QED
    BY <2>1, <2>2, <2>3, <2>4, <2>5, <2>6, <2>7 DEF TypeOK
<1>2. Holdings /\ Origin
  BY DEF Init, Holdings, Origin, HoldsActive
<1>3. OneOwner
  BY DEF Init, OneOwner
<1>4. OneRun /\ FlagMeansScheduled
  BY NoneAssumption DEF Init, OneRun, FlagMeansScheduled, Scheduled, Putting, Owns
<1> QED
  BY <1>1, <1>2, <1>3, <1>4 DEF IInv

\* Each step of each handle, poster and thread keeps every variable in its type.
LEMMA TypeStep == TypeOK /\ Holdings /\ Origin /\ [Next]_vars => TypeOK'
<1> SUFFICES ASSUME TypeOK, Holdings, Origin, [Next]_vars PROVE TypeOK'
  OBVIOUS
<1> USE NoneAssumption DEF TypeOK, Holdings, Origin, HoldsActive, Threads,
        objects, mailbox, server, workers, posters
<1>1. ASSUME NEW h \in Handles, ObjectStep(h) PROVE TypeOK'
  <2>1. CASE Recycle(h)
    BY <2>1 DEF Recycle
  <2>2. CASE Create(h)
    <3>1. PICK a \in Actives \ created, f \in BOOLEAN :
            /\ bound' = [bound EXCEPT ![h] = a]
            /\ created' = created \cup {a}
            /\ runFlag' = [runFlag EXCEPT ![a] = f]
            /\ stuck' = IF f THEN stuck \cup {a} ELSE stuck
      BY <2>2 DEF Create
    <3>2. runFlag' \in [Actives -> BOOLEAN]
      BY <3>1, Zenon
    <3>3. bound' \in [Handles -> Actives \cup {None}]
      BY <3>1
    <3>4. created' \subseteq Actives /\ stuck' \subseteq created'
      BY <3>1
    <3> QED
      BY <2>2, <3>2, <3>3, <3>4 DEF Create
  <2>3. CASE Destroy(h)
    BY <2>3 DEF Destroy
  <2> QED
    BY <1>1, <2>1, <2>2, <2>3 DEF ObjectStep
<1>2. ASSUME NEW p \in Posters, NEW h \in Handles, Push(p, h) PROVE TypeOK'
  BY <1>2 DEF Push
<1>3. ASSUME NEW p \in Posters, PostStep(p) PROVE TypeOK'
  <2>1. CASE Schedule(p)
    BY <2>1 DEF Schedule
  <2>2. CASE Put(p)
    BY <2>2 DEF Put
  <2>3. CASE FlagWork(p)
    BY <2>3 DEF FlagWork
  <2>4. CASE Notify(p)
    BY <2>4 DEF Notify
  <2> QED
    BY <1>3, <2>1, <2>2, <2>3, <2>4 DEF PostStep
<1>4. ASSUME NEW w \in Threads, CallDoOne(w) PROVE TypeOK'
  BY <1>4 DEF CallDoOne
<1>5. ASSUME NEW w \in Threads, DoOneStep(w) PROVE TypeOK'
  <2>1. CASE PopActive(w)
    BY <2>1 DEF PopActive
  <2>2. CASE LowerSize(w)
    BY <2>2 DEF LowerSize
  <2>3. CASE PopNothing(w)
    BY <2>3 DEF PopNothing
  <2>4. CASE TakeEvent(w)
    <3>1. wact[w] \in Actives /\ queue[wact[w]] \in Seq(Nat) /\ queue[wact[w]] # <<>>
      BY <2>4 DEF TakeEvent
    <3>2. Head(queue[wact[w]]) \in Nat /\ Tail(queue[wact[w]]) \in Seq(Nat)
      BY <3>1
    <3> QED
      BY <2>4, <3>1, <3>2 DEF TakeEvent
  <2>5. CASE HandlerReturns(w)
    <3>1. wact[w] \in Actives /\ wev[w] \in Nat
      BY <2>5 DEF HandlerReturns
    <3>2. Append(done[wact[w]], wev[w]) \in Seq(Nat)
      BY <3>1
    <3> QED
      BY <2>5, <3>1, <3>2 DEF HandlerReturns
  <2>6. CASE QueueEmpty(w)
    BY <2>6 DEF QueueEmpty
  <2>7. CASE ClearFlag(w)
    BY <2>7 DEF ClearFlag
  <2> QED
    BY <1>5, <2>1, <2>2, <2>3, <2>4, <2>5, <2>6, <2>7 DEF DoOneStep
<1>6. ASSUME NEW w \in Threads, RunStep(w) PROVE TypeOK'
  <2>1. CASE CheckRun(w)
    BY <2>1 DEF CheckRun
  <2>2. CASE CheckSize(w)
    BY <2>2 DEF CheckSize
  <2>3. CASE SetEmpty(w)
    BY <2>3 DEF SetEmpty
  <2>4. CASE FallAsleep(w)
    BY <2>4 DEF FallAsleep
  <2>5. CASE Timeout(w)
    BY <2>5 DEF Timeout
  <2> QED
    BY <1>6, <2>1, <2>2, <2>3, <2>4, <2>5 DEF RunStep
<1>7. CASE Start
  BY <1>7 DEF Start
<1>8. CASE Stop
  BY <1>8 DEF Stop
<1>9. CASE UNCHANGED vars
  BY <1>9 DEF vars
<1> QED
  BY <1>1, <1>2, <1>3, <1>4, <1>5, <1>6, <1>7, <1>8, <1>9 DEF Next

\* What threads and posters hold keeps agreeing with their program counters.
LEMMA HoldingsStep == TypeOK /\ Holdings /\ [Next]_vars => Holdings'
<1> SUFFICES ASSUME TypeOK, Holdings, [Next]_vars PROVE Holdings'
  OBVIOUS
<1> USE NoneAssumption DEF TypeOK, Holdings, HoldsActive, Threads,
        objects, mailbox, server, workers, posters
<1>1. ASSUME NEW h \in Handles, ObjectStep(h) PROVE Holdings'
  BY <1>1 DEF ObjectStep, Recycle, Create, Destroy
<1>2. ASSUME NEW p \in Posters, NEW h \in Handles, Push(p, h) PROVE Holdings'
  BY <1>2 DEF Push
<1>3. ASSUME NEW p \in Posters, PostStep(p) PROVE Holdings'
  <2>1. CASE Schedule(p)
    BY <2>1 DEF Schedule
  <2>2. CASE Put(p) \/ FlagWork(p)
    BY <2>2 DEF Put, FlagWork
  <2>3. CASE Notify(p)
    BY <2>3 DEF Notify
  <2> QED
    BY <1>3, <2>1, <2>2, <2>3 DEF PostStep
<1>4. ASSUME NEW w \in Threads, CallDoOne(w) PROVE Holdings'
  BY <1>4 DEF CallDoOne
<1>5. ASSUME NEW w \in Threads, DoOneStep(w) PROVE Holdings'
  <2>1. CASE PopActive(w)
    BY <2>1 DEF PopActive
  <2>2. CASE LowerSize(w) \/ PopNothing(w) \/ QueueEmpty(w)
    BY <2>2 DEF LowerSize, PopNothing, QueueEmpty
  <2>3. CASE TakeEvent(w)
    <3>1. wact[w] \in Actives /\ queue[wact[w]] \in Seq(Nat) /\ queue[wact[w]] # <<>>
      BY <2>3 DEF TakeEvent
    <3>2. Head(queue[wact[w]]) \in Nat
      BY <3>1
    <3> QED
      BY <2>3, <3>2 DEF TakeEvent
  <2>4. CASE HandlerReturns(w)
    BY <2>4 DEF HandlerReturns
  <2>5. CASE ClearFlag(w)
    BY <2>5 DEF ClearFlag
  <2> QED
    BY <1>5, <2>1, <2>2, <2>3, <2>4, <2>5 DEF DoOneStep
<1>6. ASSUME NEW w \in Threads, RunStep(w) PROVE Holdings'
  <2>1. CASE CheckRun(w) \/ CheckSize(w)
    BY <2>1 DEF CheckRun, CheckSize
  <2>2. CASE SetEmpty(w) \/ FallAsleep(w) \/ Timeout(w)
    BY <2>2 DEF SetEmpty, FallAsleep, Timeout
  <2> QED
    BY <1>6, <2>1, <2>2 DEF RunStep
<1>7. CASE Start
  <2>1. UNCHANGED <<wact, wev, ppc, pact>>
    BY <1>7 DEF Start
  <2>2. \A w \in Threads : wpc'[w] # wpc[w] => wpc[w] = "off" /\ wpc'[w] = "pop"
    BY <1>7 DEF Start
  <2> QED
    BY <2>1, <2>2
<1>8. CASE Stop
  BY <1>8 DEF Stop
<1>9. CASE UNCHANGED vars
  BY <1>9 DEF vars
<1> QED
  BY <1>1, <1>2, <1>3, <1>4, <1>5, <1>6, <1>7, <1>8, <1>9 DEF Next

\* The objects and handles stay in order: construction hands out a free or a
\* new mirco_active, destruction gives back one that no handle has.
LEMMA OwnerStep ==
  TypeOK /\ Origin /\ OneOwner /\ [Next]_vars => OneOwner'
<1> SUFFICES ASSUME TypeOK, Origin, OneOwner, [Next]_vars PROVE OneOwner'
  OBVIOUS
<1> USE NoneAssumption DEF TypeOK, Origin, OneOwner,
        objects, mailbox, server, workers, posters
<1>1. ASSUME NEW h \in Handles, ObjectStep(h) PROVE OneOwner'
  <2>1. CASE Recycle(h)
    BY <2>1 DEF Recycle
  <2>2. CASE Create(h)
    BY <2>2 DEF Create
  <2>3. CASE Destroy(h)
    BY <2>3 DEF Destroy
  <2> QED
    BY <1>1, <2>1, <2>2, <2>3 DEF ObjectStep
<1>2. CASE UNCHANGED objects
  BY <1>2
<1> QED
  BY <1>1, <1>2 DEF Next, vars, Push, PostStep, Schedule, Put, FlagWork, Notify,
     CallDoOne, DoOneStep, PopActive, LowerSize, PopNothing, TakeEvent,
     HandlerReturns, QueueEmpty, ClearFlag, RunStep, CheckRun, CheckSize,
     SetEmpty, FallAsleep, Timeout, Start, Stop

\* A step that leaves the flags, the pool and everybody's right to run alone.
SameRights ==
  /\ UNCHANGED <<runFlag, stuck, pool, wact>>
  /\ \A p \in Posters : \A a \in Actives : Putting(p, a)' = Putting(p, a)

\* Such a step disturbs neither who may run a mirco_active nor its flag.
LEMMA SameRightsStep ==
  OneRun /\ FlagMeansScheduled /\ SameRights => OneRun' /\ FlagMeansScheduled'
BY DEF OneRun, FlagMeansScheduled, SameRights, Scheduled, Owns

\* Most steps are of that kind.
LEMMA QuietSteps ==
  ASSUME TypeOK, Holdings,
         \/ \E h \in Handles : Recycle(h) \/ Destroy(h)
         \/ \E p \in Posters : FlagWork(p) \/ Notify(p)
         \/ \E p \in Posters, h \in Handles : Push(p, h)
         \/ \E w \in Threads :
              \/ CallDoOne(w) \/ RunStep(w)
              \/ LowerSize(w) \/ PopNothing(w) \/ TakeEvent(w)
              \/ HandlerReturns(w) \/ QueueEmpty(w)
         \/ Start \/ Stop \/ UNCHANGED vars
  PROVE  SameRights
<1> USE DEF SameRights, Putting, objects, mailbox, server, workers, posters
<1>1. CASE \E h \in Handles : Recycle(h) \/ Destroy(h)
  BY <1>1 DEF Recycle, Destroy
<1>2. CASE \E p \in Posters : FlagWork(p) \/ Notify(p)
  BY <1>2 DEF FlagWork, Notify, TypeOK
<1>3. CASE \E p \in Posters, h \in Handles : Push(p, h)
  BY <1>3 DEF Push, TypeOK
<1>4. CASE \E w \in Threads : CallDoOne(w) \/ RunStep(w)
  BY <1>4 DEF CallDoOne, RunStep, CheckRun, CheckSize, SetEmpty, FallAsleep, Timeout
<1>5. CASE \E w \in Threads :
             \/ LowerSize(w) \/ PopNothing(w) \/ TakeEvent(w)
             \/ HandlerReturns(w) \/ QueueEmpty(w)
  BY <1>5 DEF LowerSize, PopNothing, TakeEvent, HandlerReturns, QueueEmpty
<1>6. CASE Start \/ Stop \/ UNCHANGED vars
  BY <1>6 DEF Start, Stop, vars
<1> QED
  BY <1>1, <1>2, <1>3, <1>4, <1>5, <1>6

\* A permission to run moves from the flag to the poster, to the pool, to the
\* thread, and back to the flag, and is never doubled on the way.
LEMMA RightsStep == IInv /\ [Next]_vars => OneRun' /\ FlagMeansScheduled'
<1> SUFFICES ASSUME IInv, [Next]_vars PROVE OneRun' /\ FlagMeansScheduled'
  OBVIOUS
<1> USE NoneAssumption DEF IInv
<1>1. ASSUME NEW h \in Handles, Create(h) PROVE OneRun' /\ FlagMeansScheduled'
  <2>1. PICK a \in Actives \ created, f \in BOOLEAN :
          /\ runFlag' = [runFlag EXCEPT ![a] = f]
          /\ stuck' = IF f THEN stuck \cup {a} ELSE stuck
    BY <1>1 DEF Create
  <2>2. \A b \in Actives : Scheduled(b)' <=> Scheduled(b)
    BY <1>1 DEF Create, Scheduled, Putting, Owns, server, workers, posters
  <2>3. OneRun'
    BY <1>1 DEF Create, OneRun, Putting, Owns, server, workers, posters
  <2>4. ~ runFlag[a] /\ a \notin stuck
    BY <2>1 DEF Origin, TypeOK
  <2>5. \A b \in Actives : (runFlag[b] /\ b \notin stuck)' <=> (runFlag[b] /\ b \notin stuck)
    BY <2>1, <2>4 DEF TypeOK
  <2> QED
    BY <2>2, <2>3, <2>5 DEF FlagMeansScheduled
<1>2. ASSUME NEW p \in Posters, Schedule(p) PROVE OneRun' /\ FlagMeansScheduled'
  <2> DEFINE a == pact[p]
  <2>1. a \in Actives /\ ppc[p] = "sched"
    BY <1>2 DEF Schedule, TypeOK, Holdings
  <2>2. CASE runFlag[a]
    <3>1. SameRights
      BY <1>2, <2>1, <2>2 DEF Schedule, SameRights, Putting, TypeOK,
         objects, server, workers
    <3> QED
      BY <3>1, SameRightsStep
  <2>3. CASE ~ runFlag[a]
    <3>1. ~ Scheduled(a) /\ a \notin stuck
      BY <2>1, <2>3 DEF FlagMeansScheduled, Origin
    <3>2. \A q \in Posters : \A b \in Actives :
            Putting(q, b)' <=> Putting(q, b) \/ (q = p /\ b = a)
      BY <1>2, <2>1, <2>3 DEF Schedule, Putting, TypeOK
    <3>3. UNCHANGED <<pool, wact, stuck>>
      BY <1>2 DEF Schedule, objects, server, workers
    <3>4. \A b \in Actives : runFlag'[b] <=> runFlag[b] \/ b = a
      BY <1>2, <2>1 DEF Schedule, TypeOK
    <3>5. OneRun'
      BY <3>1, <3>2, <3>3, <2>1 DEF OneRun, Scheduled, Owns, TypeOK
    <3>6. \A b \in Actives : Scheduled(b)' <=> Scheduled(b) \/ b = a
      BY <3>2, <3>3, <2>1 DEF Scheduled, Owns
    <3>7. FlagMeansScheduled'
      BY <3>1, <3>3, <3>4, <3>6 DEF FlagMeansScheduled
    <3> QED
      BY <3>5, <3>7
  <2> QED
    BY <2>2, <2>3
<1>3. ASSUME NEW p \in Posters, Put(p) PROVE OneRun' /\ FlagMeansScheduled'
  <2> DEFINE a == pact[p]
  <2>1. a \in Actives /\ Putting(p, a)
    BY <1>3 DEF Put, TypeOK, Holdings, Putting
  <2>2. pool[a] = 0 /\ \A w \in Threads : ~ Owns(w, a)
    BY <2>1 DEF OneRun
  <2>3. \A q \in Posters : \A b \in Actives :
          Putting(q, b)' <=> Putting(q, b) /\ q # p
    BY <1>3, <2>1 DEF Put, Putting, TypeOK
  <2>4. \A b \in Actives : pool'[b] = IF b = a THEN 1 ELSE pool[b]
    BY <1>3, <2>1, <2>2 DEF Put, TypeOK
  <2>5. UNCHANGED <<wact, stuck, runFlag>>
    BY <1>3 DEF Put, objects, workers
  <2>6. \A q \in Posters : Putting(q, a) => q = p
    BY <2>1 DEF OneRun
  <2>7. OneRun'
    BY <2>1, <2>2, <2>3, <2>4, <2>5, <2>6 DEF OneRun, Owns, TypeOK
  <2>8. \A b \in Actives : Scheduled(b)' <=> Scheduled(b)
    BY <2>1, <2>2, <2>3, <2>4, <2>5, <2>6 DEF Scheduled, Owns, Putting
  <2> QED
    BY <2>5, <2>7, <2>8 DEF FlagMeansScheduled
<1>4. ASSUME NEW w \in Threads, PopActive(w) PROVE OneRun' /\ FlagMeansScheduled'
  <2>1. PICK a \in Actives :
          /\ pool[a] > 0
          /\ pool' = [pool EXCEPT ![a] = @ - 1]
          /\ wact' = [wact EXCEPT ![w] = a]
    BY <1>4 DEF PopActive
  <2>2. pool[a] = 1 /\ (\A v \in Threads : ~ Owns(v, a))
        /\ \A p \in Posters : ~ Putting(p, a)
    BY <2>1 DEF OneRun, TypeOK
  <2>3. wact[w] = None
    BY <1>4 DEF PopActive, Holdings, HoldsActive
  <2>4. \A b \in Actives : pool'[b] = IF b = a THEN 0 ELSE pool[b]
    BY <2>1, <2>2 DEF TypeOK
  <2>5. \A v \in Threads : \A b \in Actives :
          Owns(v, b)' <=> Owns(v, b) \/ (v = w /\ b = a)
    BY <2>1, <2>3 DEF Owns, TypeOK
  <2>6. UNCHANGED <<stuck, runFlag, ppc, pact>>
    BY <1>4 DEF PopActive, objects, posters
  <2>7. OneRun'
    BY <2>2, <2>4, <2>5, <2>6 DEF OneRun, Putting, TypeOK
  <2>8. \A b \in Actives : Scheduled(b)' <=> Scheduled(b)
    BY <2>1, <2>4, <2>5, <2>6 DEF Scheduled, Putting
  <2> QED
    BY <2>6, <2>7, <2>8 DEF FlagMeansScheduled
<1>5. ASSUME NEW w \in Threads, ClearFlag(w) PROVE OneRun' /\ FlagMeansScheduled'
  <2> DEFINE a == wact[w]
  <2>1. a \in Actives /\ Owns(w, a)
    BY <1>5 DEF ClearFlag, Holdings, HoldsActive, TypeOK, Owns
  <2>2. \A v \in Threads : Owns(v, a) => v = w
    BY <2>1 DEF OneRun
  <2>3. pool[a] = 0 /\ \A p \in Posters : ~ Putting(p, a)
    <3>1. pool[a] \in Nat /\ ~ (pool[a] > 0)
      BY <2>1 DEF OneRun, TypeOK
    <3>2. \A p \in Posters : ~ Putting(p, a)
      BY <2>1 DEF OneRun
    <3> QED
      BY <3>1, <3>2
  <2>4. \A v \in Threads : \A b \in Actives : Owns(v, b)' <=> Owns(v, b) /\ b # a
    BY <1>5, <2>1, <2>2 DEF ClearFlag, Owns, TypeOK
  <2>5. \A b \in Actives : runFlag'[b] <=> runFlag[b] /\ b # a
    BY <1>5, <2>1 DEF ClearFlag, TypeOK
  <2>6. UNCHANGED <<stuck, pool, ppc, pact>>
    BY <1>5 DEF ClearFlag, objects, server, posters
  <2>7. OneRun'
    BY <2>4, <2>6 DEF OneRun, Putting
  <2>8. \A b \in Actives : Scheduled(b)' <=> Scheduled(b) /\ b # a
    BY <2>2, <2>3, <2>4, <2>6 DEF Scheduled, Putting
  <2> QED
    BY <2>5, <2>6, <2>7, <2>8 DEF FlagMeansScheduled
<1>6. CASE SameRights
  BY <1>6, SameRightsStep
<1> QED
  BY <1>1, <1>2, <1>3, <1>4, <1>5, <1>6, QuietSteps
     DEF Next, ObjectStep, PostStep, DoOneStep


\* The flag of an object that `new` has not returned is off, the flag of a
\* stuck one stays on, and handles and posters have created objects only.
LEMMA OriginStep == IInv /\ [Next]_vars => Origin'
<1> SUFFICES ASSUME IInv, [Next]_vars PROVE Origin'
  OBVIOUS
<1> USE NoneAssumption DEF IInv, Origin, objects, mailbox, server, workers, posters
<1>1. ASSUME NEW h \in Handles, ObjectStep(h) PROVE Origin'
  <2>1. CASE Recycle(h)
    BY <2>1 DEF Recycle, TypeOK
  <2>2. CASE Create(h)
    <3>1. PICK a \in Actives \ created, f \in BOOLEAN :
            /\ bound' = [bound EXCEPT ![h] = a]
            /\ created' = created \cup {a}
            /\ runFlag' = [runFlag EXCEPT ![a] = f]
            /\ stuck' = IF f THEN stuck \cup {a} ELSE stuck
      BY <2>2 DEF Create
    <3>2. \A b \in Actives : b # a => runFlag'[b] = runFlag[b]
      BY <3>1
    <3>3. a \in stuck' => runFlag'[a]
      BY <3>1 DEF TypeOK
    <3>4. a \notin stuck
      BY <3>1 DEF TypeOK
    <3>5. \A g \in Handles : bound'[g] # None => bound'[g] \in created'
      BY <3>1 DEF TypeOK
    <3>6. \A p \in Posters : ppc'[p] # "idle" => pact'[p] \in created'
      BY <2>2, <3>1 DEF Create
    <3>7. \A b \in Actives \ created' : ~ runFlag'[b]
      BY <3>1, <3>2
    <3>8. \A b \in stuck' : runFlag'[b]
      BY <3>1, <3>2, <3>3 DEF TypeOK
    <3> QED
      BY <3>5, <3>6, <3>7, <3>8
  <2>3. CASE Destroy(h)
    BY <2>3 DEF Destroy, TypeOK
  <2> QED
    BY <1>1, <2>1, <2>2, <2>3 DEF ObjectStep
<1>2. ASSUME NEW p \in Posters, NEW h \in Handles, Push(p, h) PROVE Origin'
  BY <1>2 DEF Push, TypeOK
<1>3. ASSUME NEW p \in Posters, PostStep(p) PROVE Origin'
  <2>1. CASE Schedule(p)
    <3>1. pact[p] \in created
      BY <2>1 DEF Schedule
    <3>2. \A a \in Actives : runFlag'[a] <=> runFlag[a] \/ a = pact[p]
      BY <2>1, <3>1 DEF Schedule, TypeOK
    <3> QED
      BY <2>1, <3>1, <3>2 DEF Schedule, TypeOK
  <2>2. CASE Put(p) \/ FlagWork(p) \/ Notify(p)
    BY <2>2 DEF Put, FlagWork, Notify, TypeOK
  <2> QED
    BY <1>3, <2>1, <2>2 DEF PostStep
<1>4. ASSUME NEW w \in Threads, ClearFlag(w) PROVE Origin'
  <2>1. wact[w] \in Actives
    BY <1>4 DEF ClearFlag, Holdings, HoldsActive, TypeOK
  <2>2. wact[w] \notin stuck
    BY <2>1 DEF FlagMeansScheduled, Scheduled, Owns
  <2>3. \A a \in Actives : runFlag'[a] <=> runFlag[a] /\ a # wact[w]
    BY <1>4, <2>1 DEF ClearFlag, TypeOK
  <2> QED
    BY <1>4, <2>2, <2>3 DEF ClearFlag, TypeOK
<1>5. CASE UNCHANGED <<objects, runFlag, posters>>
  BY <1>5
<1> QED
  BY <1>1, <1>2, <1>3, <1>4, <1>5 DEF Next, vars, CallDoOne, DoOneStep, PopActive,
     LowerSize, PopNothing, TakeEvent, HandlerReturns, QueueEmpty, RunStep,
     CheckRun, CheckSize, SetEmpty, FallAsleep, Timeout, Start, Stop

\* The inductive invariant holds in every reachable state.
LEMMA Invariance == Spec => []IInv
<1>1. Init => IInv
  BY InitIInv
<1>2. IInv /\ [Next]_vars => IInv'
  BY TypeStep, HoldingsStep, OwnerStep, RightsStep, OriginStep DEF IInv
<1> QED
  BY <1>1, <1>2, PTL DEF Spec

-----------------------------------------------------------------------------
\* The variables of the server keep their types.
THEOREM ServerTypes == Spec => []TypeOK
<1>1. IInv => TypeOK
  BY DEF IInv
<1> QED
  BY <1>1, Invariance, PTL

\* No active object is ever run by two threads at once, for any number of
\* objects, posters and threads, stuck flags and recycled objects included.
THEOREM ServerSerial == Spec => []SerialActive
<1>1. IInv => SerialActive
  BY DEF IInv, OneRun, SerialActive
<1> QED
  BY <1>1, Invariance, PTL

\* A flag that is on, and was not so from birth, means a run to come.
THEOREM ServerFlag == Spec => []FlagMeansScheduled
<1>1. IInv => FlagMeansScheduled
  BY DEF IInv
<1> QED
  BY <1>1, Invariance, PTL

\* Every mirco_active has at most one handle, and none while it is free.
THEOREM ServerOwner == Spec => []OneOwner
<1>1. IInv => OneOwner
  BY DEF IInv
<1> QED
  BY <1>1, Invariance, PTL

\* An event is stranded only by a thread that clears the flag after it saw
\* the queue empty, and in a mirco_active made with its flag on by each post.
THEOREM ServerStrands == Spec => StrandsInTwoWays
<1> DEFINE Cleared(a) == \E w \in Threads : wpc[w] = "clear" /\ Owns(w, a)
           Posted(a) == \E p \in Posters : Scheduling(p, a)
           Safe == \A a \in Actives : ~ Stranded(a) /\ Stranded(a)' =>
                     IF a \in stuck THEN Posted(a) ELSE Cleared(a)
<1>1. ASSUME IInv, IInv', Next, NEW a \in Actives, a \in stuck',
             ~ Stranded(a), Stranded(a)', a \in stuck => ~ Posted(a)
      PROVE  FALSE
  <2> USE DEF IInv
  <2>1. ASSUME NEW p \in Posters, NEW h \in Handles, Push(p, h) PROVE FALSE
    <3>1. CASE bound[h] = a
      BY <1>1, <2>1, <3>1 DEF Push, Scheduling, Stranded, TypeOK
    <3>2. CASE bound[h] # a
      <4>1. queue'[a] = queue[a] /\ a \in stuck
        BY <1>1, <2>1, <3>2 DEF Push, objects, TypeOK
      <4>2. ~ Scheduled(a)
        BY <1>1, <4>1 DEF FlagMeansScheduled
      <4> QED
        BY <1>1, <4>1, <4>2 DEF Stranded
    <3> QED
      BY <3>1, <3>2
  <2>2. ASSUME NEW h \in Handles, Create(h) PROVE FALSE
    <3>1. queue' = queue
      BY <2>2 DEF Create, mailbox
    <3>2. a \notin stuck /\ (Scheduled(a) \/ Posted(a))
      BY <1>1, <3>1 DEF Stranded, FlagMeansScheduled
    <3>3. a \in created
      BY <1>1, <3>2 DEF FlagMeansScheduled, Origin, Scheduling
    <3>4. stuck' \subseteq stuck \cup (Actives \ created)
      BY <2>2 DEF Create
    <3> QED
      BY <1>1, <3>2, <3>3, <3>4
  <2>3. ASSUME NEW w \in Threads, TakeEvent(w) PROVE FALSE
    <3>1. queue'[a] # <<>> => queue[a] # <<>>
      BY <2>3 DEF TakeEvent, TypeOK
    <3>2. a \in stuck
      BY <1>1, <2>3 DEF TakeEvent, objects
    <3> QED
      BY <1>1, <3>1, <3>2 DEF Stranded, FlagMeansScheduled
  <2>4. CASE UNCHANGED <<queue, stuck>>
    BY <1>1, <2>4 DEF Stranded, FlagMeansScheduled
  <2> QED
    BY <1>1, <2>1, <2>2, <2>3, <2>4
       DEF Next, ObjectStep, Recycle, Destroy, PostStep, Schedule, Put, FlagWork, Notify,
           CallDoOne, DoOneStep, PopActive, LowerSize, PopNothing, HandlerReturns,
           QueueEmpty, ClearFlag, RunStep, CheckRun, CheckSize, SetEmpty, FallAsleep,
           Timeout, Start, Stop, objects, mailbox
<1>2. ASSUME IInv, IInv', Next, NEW a \in Actives, a \notin stuck',
             ~ Stranded(a), Stranded(a)'
      PROVE  Cleared(a)
  <2> USE DEF IInv
  <2>0. ASSUME NEW h \in Handles, Create(h) PROVE stuck \subseteq stuck'
    BY <2>0 DEF Create
  <2>00. a \notin stuck
    <3>1. stuck \subseteq stuck'
      BY <1>2, <2>0
         DEF Next, ObjectStep, Recycle, Destroy, Push, PostStep, Schedule, Put, FlagWork,
             Notify, CallDoOne, DoOneStep, PopActive, LowerSize, PopNothing, TakeEvent,
             HandlerReturns, QueueEmpty, ClearFlag, RunStep, CheckRun, CheckSize, SetEmpty,
             FallAsleep, Timeout, Start, Stop, objects
    <3> QED
      BY <1>2, <3>1
  <2>a. ~ (queue[a] # <<>> /\ ~ runFlag[a] /\ \A p \in Posters : ~ Scheduling(p, a))
    BY <1>2, <2>00 DEF Stranded, FlagMeansScheduled
  <2>b. queue'[a] # <<>> /\ ~ runFlag'[a] /\ \A p \in Posters : ~ Scheduling(p, a)'
    BY <1>2 DEF Stranded, FlagMeansScheduled
  <2>1. ASSUME NEW p \in Posters, NEW h \in Handles, Push(p, h) PROVE FALSE
    <3>1. CASE bound[h] = a
      BY <1>2, <2>b, <2>1, <3>1 DEF Push, Scheduling, TypeOK
    <3>2. CASE bound[h] # a
      <4>1. queue'[a] = queue[a] /\ runFlag'[a] = runFlag[a]
        BY <2>1, <3>2 DEF Push, TypeOK
      <4>2. \A q \in Posters : Scheduling(q, a) => Scheduling(q, a)'
        BY <2>1 DEF Push, Scheduling, TypeOK
      <4> QED
        BY <2>a, <2>b, <4>1, <4>2
    <3> QED
      BY <3>1, <3>2
  <2>2. ASSUME NEW p \in Posters, Schedule(p) PROVE FALSE
    <3>1. pact[p] \in Actives
      BY <1>2, <2>2 DEF Schedule, Holdings, TypeOK
    <3>2. pact[p] # a
      BY <1>2, <2>b, <2>2, <3>1 DEF Schedule, TypeOK
    <3>3. queue'[a] = queue[a] /\ runFlag'[a] = runFlag[a]
      BY <1>2, <2>2, <3>1, <3>2 DEF Schedule, TypeOK, mailbox
    <3>4. \A q \in Posters : Scheduling(q, a) => Scheduling(q, a)'
      BY <2>2, <3>2 DEF Schedule, Scheduling, TypeOK
    <3> QED
      BY <2>a, <2>b, <3>3, <3>4
  <2>3. ASSUME NEW w \in Threads, ClearFlag(w) PROVE Cleared(a)
    <3>1. UNCHANGED <<queue, ppc, pact>>
      BY <2>3 DEF ClearFlag, mailbox, posters
    <3>2. runFlag[a] /\ ~ runFlag'[a]
      BY <2>a, <2>b, <3>1 DEF Scheduling
    <3>3. wact[w] = a
      BY <2>3, <3>2 DEF ClearFlag, TypeOK
    <3> QED
      BY <2>3, <3>3 DEF ClearFlag, Owns
  <2>4. ASSUME NEW h \in Handles, Create(h) PROVE FALSE
    <3>1. UNCHANGED <<queue, ppc, pact>>
      BY <2>4 DEF Create, mailbox, posters
    <3>2. PICK b \in Actives \ created, f \in BOOLEAN : runFlag' = [runFlag EXCEPT ![b] = f]
      BY <2>4 DEF Create
    <3>3. runFlag[a] => runFlag'[a]
      BY <1>2, <3>2 DEF Origin, TypeOK
    <3> QED
      BY <2>a, <2>b, <3>1, <3>3 DEF Scheduling
  <2>5. ASSUME NEW w \in Threads, TakeEvent(w) PROVE FALSE
    <3>1. UNCHANGED <<runFlag, ppc, pact>>
      BY <2>5 DEF TakeEvent, posters
    <3>2. queue'[a] # <<>> => queue[a] # <<>>
      BY <2>5 DEF TakeEvent, TypeOK
    <3> QED
      BY <2>a, <2>b, <3>1, <3>2 DEF Scheduling
  <2>6. CASE /\ UNCHANGED <<queue, runFlag>>
             /\ \A p \in Posters : Scheduling(p, a) => Scheduling(p, a)'
    BY <2>6, <2>a, <2>b
  <2>7. ASSUME NEW p \in Posters, Put(p) \/ FlagWork(p) \/ Notify(p) PROVE FALSE
    <3>1. UNCHANGED <<queue, runFlag>>
      BY <2>7 DEF Put, FlagWork, Notify, mailbox
    <3>2. \A q \in Posters : Scheduling(q, a) => Scheduling(q, a)'
      BY <1>2, <2>7 DEF Put, FlagWork, Notify, Scheduling, TypeOK
    <3> QED
      BY <2>6, <3>1, <3>2, <2>a, <2>b
  <2>8. CASE UNCHANGED <<queue, runFlag, posters>>
    BY <2>8, <2>a, <2>b DEF posters, Scheduling
  <2> QED
    BY <1>2, <2>1, <2>2, <2>3, <2>4, <2>5, <2>7, <2>8
       DEF Next, ObjectStep, Recycle, Destroy, PostStep, CallDoOne, DoOneStep,
           PopActive, LowerSize, PopNothing, HandlerReturns, QueueEmpty, RunStep,
           CheckRun, CheckSize, SetEmpty, FallAsleep, Timeout, Start, Stop,
           vars, mailbox
<1>3. IInv /\ IInv' /\ [Next]_vars => [Safe]_vars
  <2> SUFFICES ASSUME IInv, IInv', Next, NEW a \in Actives, ~ Stranded(a), Stranded(a)'
               PROVE  IF a \in stuck THEN Posted(a) ELSE Cleared(a)
    OBVIOUS
  <2>1. stuck \subseteq stuck'
    BY DEF Next, ObjectStep, Recycle, Create, Destroy, Push, PostStep, Schedule, Put,
           FlagWork, Notify, CallDoOne, DoOneStep, PopActive, LowerSize, PopNothing,
           TakeEvent, HandlerReturns, QueueEmpty, ClearFlag, RunStep, CheckRun, CheckSize,
           SetEmpty, FallAsleep, Timeout, Start, Stop, objects
  <2> QED
    BY <1>1, <1>2, <2>1
<1> QED
  BY <1>3, Invariance, PTL DEF Spec, StrandsInTwoWays

-----------------------------------------------------------------------------
\* The event a mailbox is busy with is the one its thread has in hand.
LEMMA BusyIs ==
  ASSUME IInv, NEW a \in Actives, NEW w \in Threads, wpc[w] = "handle", Owns(w, a)
  PROVE  Busy(a) = wev[w]
BY DEF Busy, IInv, OneRun

\* Steps of threads outside handlers do not show in the mailbox.
LEMMA BusySame ==
  ASSUME UNCHANGED wev,
         \A w \in Threads : \A a \in Actives :
           (wpc[w] = "handle" /\ Owns(w, a))' <=> (wpc[w] = "handle" /\ Owns(w, a))
  PROVE  UNCHANGED [a \in Actives |-> Busy(a)]
<1> DEFINE Runs(w, a) == wpc[w] = "handle" /\ Owns(w, a)
<1>1. ASSUME NEW a \in Actives PROVE Busy(a)' = Busy(a)
  <2>1. \A w \in Threads : Runs(w, a)' <=> Runs(w, a)
    OBVIOUS
  <2>2. (CHOOSE w \in Threads : Runs(w, a))' = CHOOSE w \in Threads : Runs(w, a)
    BY <2>1
  <2> QED
    BY <2>1, <2>2 DEF Busy
<1> QED
  BY <1>1

\* The server implements the mailbox: handlers of one active object run one
\* at a time, each once, in the order in which they were posted.
THEOREM ServerImplementsMailbox == Spec => ImplementsMailbox
<1> USE NoneAssumption
<1>1. Init => Mailbox!Init
  BY DEF Init, Mailbox!Init, Busy
<1>2. IInv /\ IInv' /\ [Next]_vars => [Mailbox!Next]_Mailbox!vars
  <2> SUFFICES ASSUME IInv, IInv', [Next]_vars PROVE [Mailbox!Next]_Mailbox!vars
    OBVIOUS
  <2>1. ASSUME NEW p \in Posters, NEW h \in Handles, Push(p, h)
        PROVE  Mailbox!Post(bound[h]) /\ bound[h] \in Actives
    <3>1. UNCHANGED [a \in Actives |-> Busy(a)]
      BY <2>1, BusySame DEF Push, workers, Owns
    <3> QED
      BY <2>1, <3>1 DEF Push, Mailbox!Post, IInv, TypeOK
  <2>2. ASSUME NEW w \in Threads, TakeEvent(w)
        PROVE  \E a \in Actives : Mailbox!Begin(a)
    <3>0. PICK a \in Actives : a = wact[w]
      BY <2>2 DEF TakeEvent, IInv, Holdings, HoldsActive, TypeOK
    <3> DEFINE b == [x \in Actives |-> Busy(x)]
    <3>1. Owns(w, a)
      BY <3>0 DEF Owns
    <3>2. \A v \in Threads : Owns(v, a) => v = w
      BY <3>1 DEF IInv, OneRun
    <3>3. Busy(a) = None
      BY <2>2, <3>2 DEF TakeEvent, Busy
    <3>4. Busy(a)' = Head(queue[a])
      <4>1. wev'[w] = Head(queue[a]) /\ wpc'[w] = "handle" /\ Owns(w, a)'
        BY <2>2, <3>0 DEF TakeEvent, IInv, TypeOK, Owns
      <4>2. \A v \in Threads : Owns(v, a)' => v = w
        BY <2>2, <3>2 DEF TakeEvent, Owns
      <4> QED
        BY <4>1, <4>2 DEF Busy
    <3>5. ASSUME NEW x \in Actives, x # a PROVE Busy(x)' = Busy(x)
      <4>1. \A v \in Threads : Owns(v, x) => v # w
        BY <3>0, <3>5 DEF Owns
      <4>2. \A v \in Threads : Owns(v, x)' <=> Owns(v, x)
        BY <2>2 DEF TakeEvent, Owns
      <4>3. \A v \in Threads : v # w => wpc'[v] = wpc[v] /\ wev'[v] = wev[v]
        BY <2>2 DEF TakeEvent, IInv, TypeOK
      <4> QED
        BY <4>1, <4>2, <4>3 DEF Busy
    <3>6. b' = [b EXCEPT ![a] = Head(queue[a])]
      <4>1. \A x \in Actives : Busy(x)' = IF x = a THEN Head(queue[a]) ELSE Busy(x)
        BY <3>4, <3>5
      <4>2. b' = [x \in Actives |-> IF x = a THEN Head(queue[a]) ELSE Busy(x)]
        BY <4>1
      <4> QED
        BY <3>1, <4>2, Zenon
    <3> QED
      BY <2>2, <3>0, <3>3, <3>6 DEF TakeEvent, Mailbox!Begin
  <2>3. ASSUME NEW w \in Threads, HandlerReturns(w)
        PROVE  \E a \in Actives : Mailbox!Finish(a)
    <3>0. PICK a \in Actives : a = wact[w]
      BY <2>3 DEF HandlerReturns, IInv, Holdings, HoldsActive, TypeOK
    <3> DEFINE b == [x \in Actives |-> Busy(x)]
    <3>1. Owns(w, a) /\ wev[w] # None
      BY <2>3, <3>0 DEF HandlerReturns, IInv, Holdings, Owns
    <3>2. \A v \in Threads : Owns(v, a) => v = w
      BY <3>1 DEF IInv, OneRun
    <3>3. Busy(a) = wev[w]
      BY <2>3, <3>1, BusyIs DEF HandlerReturns
    <3>4. Busy(a)' = None
      <4>1. wpc'[w] = "take"
        BY <2>3 DEF HandlerReturns, IInv, TypeOK
      <4>2. \A v \in Threads : Owns(v, a)' => v = w
        BY <2>3, <3>2 DEF HandlerReturns, Owns
      <4> QED
        BY <4>1, <4>2 DEF Busy
    <3>5. ASSUME NEW x \in Actives, x # a PROVE Busy(x)' = Busy(x)
      <4>1. \A v \in Threads : Owns(v, x) => v # w
        BY <3>0, <3>5 DEF Owns
      <4>2. \A v \in Threads : Owns(v, x)' <=> Owns(v, x)
        BY <2>3 DEF HandlerReturns, Owns
      <4>3. \A v \in Threads : v # w => wpc'[v] = wpc[v] /\ wev'[v] = wev[v]
        BY <2>3 DEF HandlerReturns, IInv, TypeOK
      <4> QED
        BY <4>1, <4>2, <4>3 DEF Busy
    <3>6. b' = [b EXCEPT ![a] = None]
      <4>1. \A x \in Actives : Busy(x)' = IF x = a THEN None ELSE Busy(x)
        BY <3>4, <3>5
      <4>2. b' = [x \in Actives |-> IF x = a THEN None ELSE Busy(x)]
        BY <4>1
      <4> QED
        BY <3>1, <4>2, Zenon
    <3> QED
      BY <2>3, <3>0, <3>1, <3>3, <3>6 DEF HandlerReturns, Mailbox!Finish
  <2>4. ASSUME UNCHANGED <<mailbox, wev>>,
               \A w \in Threads : \A a \in Actives :
                 (wpc[w] = "handle" /\ Owns(w, a))' <=> (wpc[w] = "handle" /\ Owns(w, a))
        PROVE  UNCHANGED Mailbox!vars
    BY <2>4, BusySame DEF mailbox, Mailbox!vars
  <2>5. ASSUME \/ \E h \in Handles : ObjectStep(h)
               \/ \E p \in Posters : PostStep(p)
               \/ \E w \in Threads : CallDoOne(w)
               \/ Start \/ Stop \/ UNCHANGED vars
        PROVE  UNCHANGED Mailbox!vars
    <3>1. CASE \/ \E h \in Handles : ObjectStep(h)
               \/ \E p \in Posters : Schedule(p) \/ Put(p) \/ FlagWork(p)
               \/ Stop \/ UNCHANGED vars
      BY <2>4, <3>1 DEF ObjectStep, Recycle, Create, Destroy, Schedule, Put,
         FlagWork, Stop, vars, workers, Owns
    <3>2. CASE \E p \in Posters : Notify(p)
      BY <2>4, <3>2 DEF Notify, Owns, IInv, TypeOK
    <3>3. CASE Start
      <4>1. \A w \in Threads : wpc'[w] # wpc[w] => wpc[w] = "off" /\ wpc'[w] = "pop"
        BY <3>3 DEF Start
      <4> QED
        BY <2>4, <3>3, <4>1 DEF Start, Owns
    <3>4. CASE \E w \in Threads : CallDoOne(w)
      BY <2>4, <3>4 DEF CallDoOne, Owns, IInv, TypeOK
    <3> QED
      BY <2>5, <3>1, <3>2, <3>3, <3>4 DEF PostStep
  <2>6. ASSUME NEW w \in Threads,
               \/ PopActive(w) \/ LowerSize(w) \/ PopNothing(w)
               \/ QueueEmpty(w) \/ ClearFlag(w) \/ RunStep(w)
        PROVE  UNCHANGED Mailbox!vars
    <3>1. wpc[w] # "handle" /\ wpc'[w] # "handle"
      BY <2>6 DEF PopActive, LowerSize, PopNothing, QueueEmpty, ClearFlag, RunStep,
         CheckRun, CheckSize, SetEmpty, FallAsleep, Timeout, IInv, TypeOK
    <3>2. \A v \in Threads : v # w => wpc'[v] = wpc[v] /\ wact'[v] = wact[v]
      BY <2>6 DEF PopActive, LowerSize, PopNothing, QueueEmpty, ClearFlag, RunStep,
         CheckRun, CheckSize, SetEmpty, FallAsleep, Timeout, IInv, TypeOK
    <3>3. UNCHANGED <<mailbox, wev>>
      BY <2>6 DEF PopActive, LowerSize, PopNothing, QueueEmpty, ClearFlag, RunStep,
         CheckRun, CheckSize, SetEmpty, FallAsleep, Timeout
    <3>4. \A v \in Threads : \A a \in Actives :
            (wpc[v] = "handle" /\ Owns(v, a))' <=> (wpc[v] = "handle" /\ Owns(v, a))
      BY <3>1, <3>2 DEF Owns
    <3> QED
      BY <2>4, <3>3, <3>4
  <2> QED
    BY <2>1, <2>2, <2>3, <2>5, <2>6 DEF Next, DoOneStep, Mailbox!Next
<1> QED
  BY <1>1, <1>2, Invariance, PTL DEF Spec, ImplementsMailbox, Mailbox!Spec

-----------------------------------------------------------------------------
(* The mailbox handles its events in the order in which they were posted.  *)
(* InOrder is not inductive: a new event must be above all others, which   *)
(* holds because next is.                                                  *)

\* The event each mailbox is busy with.
Running == [a \in Actives |-> Busy(a)]

\* The state of the mailbox has its types.
MailTypes ==
  /\ queue \in [Actives -> Seq(Nat)]
  /\ Running \in [Actives -> Nat \cup {None}]
  /\ done \in [Actives -> Seq(Nat)]
  /\ next \in Nat

\* next is the number of no event yet.
NextIsNew ==
  \A a \in Actives :
    /\ Mailbox!Below(done[a], next) /\ Mailbox!Below(queue[a], next)
    /\ Running[a] # None => Running[a] < next

\* InOrder of the mailbox, said of Running.
MailOrder ==
  \A a \in Actives :
    /\ Mailbox!Increasing(done[a])
    /\ Mailbox!Increasing(queue[a])
    /\ \A j \in DOMAIN queue[a] : Mailbox!Below(done[a], queue[a][j])
    /\ Running[a] # None =>
         /\ Mailbox!Below(done[a], Running[a])
         /\ \A j \in DOMAIN queue[a] : Running[a] < queue[a][j]

MailInv == MailTypes /\ NextIsNew /\ MailOrder

\* What Append and Tail do to increasing sequences, and to bounded ones.
LEMMA AppendIncreasing ==
  ASSUME NEW q \in Seq(Nat), NEW n \in Nat, Mailbox!Increasing(q), Mailbox!Below(q, n)
  PROVE  /\ Append(q, n) \in Seq(Nat)
         /\ Mailbox!Increasing(Append(q, n))
  BY DEF Mailbox!Increasing, Mailbox!Below

LEMMA AppendBelow ==
  ASSUME NEW q \in Seq(Nat), NEW n \in Nat, NEW m \in Nat, Mailbox!Below(q, m), n < m
  PROVE  Mailbox!Below(Append(q, n), m)
  BY DEF Mailbox!Below

LEMMA TailIncreasing ==
  ASSUME NEW q \in Seq(Nat), q # <<>>, Mailbox!Increasing(q)
  PROVE  /\ Head(q) \in Nat /\ Head(q) = q[1] /\ 1 \in DOMAIN q
         /\ Tail(q) \in Seq(Nat)
         /\ Mailbox!Increasing(Tail(q))
         /\ \A j \in DOMAIN Tail(q) : j + 1 \in DOMAIN q /\ Tail(q)[j] = q[j + 1]
         /\ \A j \in DOMAIN Tail(q) : Head(q) < Tail(q)[j]
  BY DEF Mailbox!Increasing

\* A step on the mailbox a leaves the others as they were.
LEMMA MailPost ==
  ASSUME MailInv, NEW a \in Actives, Mailbox!Post(a)
  PROVE  MailInv'
<1> USE DEF MailInv, MailTypes
<1>1. /\ queue[a] \in Seq(Nat) /\ next \in Nat /\ Mailbox!Below(queue[a], next)
      /\ Mailbox!Increasing(queue[a])
  BY DEF NextIsNew, MailOrder
<1>2. /\ queue' = [queue EXCEPT ![a] = Append(queue[a], next)]
      /\ next' = next + 1 /\ Running' = Running /\ done' = done
  BY DEF Mailbox!Post, Running
<1>3. Append(queue[a], next) \in Seq(Nat) /\ Mailbox!Increasing(Append(queue[a], next))
  BY <1>1, AppendIncreasing
<1>4. MailTypes'
  BY <1>2, <1>3
<1>5. \A b \in Actives : Mailbox!Below(done[b], next') /\ Mailbox!Below(queue[b], next')
  BY <1>2 DEF NextIsNew, Mailbox!Below
<1>6. Mailbox!Below(Append(queue[a], next), next')
  BY <1>1, <1>2, <1>5, AppendBelow
<1>7. NextIsNew'
  BY <1>2, <1>5, <1>6 DEF NextIsNew, Mailbox!Below
<1>8. \A j \in DOMAIN queue'[a] : \/ j \in DOMAIN queue[a] /\ queue'[a][j] = queue[a][j]
                                  \/ queue'[a][j] = next
  BY <1>1, <1>2
<1>9. MailOrder'
  <2> SUFFICES ASSUME NEW b \in Actives
               PROVE  /\ Mailbox!Increasing(done[b])
                      /\ Mailbox!Increasing(queue'[b])
                      /\ \A j \in DOMAIN queue'[b] : Mailbox!Below(done[b], queue'[b][j])
                      /\ Running[b] # None =>
                           /\ Mailbox!Below(done[b], Running[b])
                           /\ \A j \in DOMAIN queue'[b] : Running[b] < queue'[b][j]
    BY <1>2 DEF MailOrder
  <2>1. CASE b = a
    BY <2>1, <1>2, <1>3, <1>8 DEF MailOrder, NextIsNew
  <2>2. CASE b # a
    BY <2>2, <1>2 DEF MailOrder
  <2> QED
    BY <2>1, <2>2
<1> QED
  BY <1>4, <1>7, <1>9

LEMMA MailBegin ==
  ASSUME MailInv, NEW a \in Actives, Mailbox!Begin(a)
  PROVE  MailInv'
<1> USE DEF MailInv, MailTypes
<1>1. /\ Running[a] = None /\ queue[a] \in Seq(Nat) /\ queue[a] # <<>> /\ Mailbox!Increasing(queue[a])
      /\ Running' = [Running EXCEPT ![a] = Head(queue[a])]
      /\ queue' = [queue EXCEPT ![a] = Tail(queue[a])]
      /\ done' = done /\ next' = next
  BY DEF Mailbox!Begin, Running, MailOrder
<1>2. /\ Head(queue[a]) \in Nat /\ Head(queue[a]) = queue[a][1] /\ 1 \in DOMAIN queue[a]
      /\ Tail(queue[a]) \in Seq(Nat) /\ Mailbox!Increasing(Tail(queue[a]))
      /\ \A j \in DOMAIN Tail(queue[a]) :
           j + 1 \in DOMAIN queue[a] /\ Tail(queue[a])[j] = queue[a][j + 1]
      /\ \A j \in DOMAIN Tail(queue[a]) : Head(queue[a]) < Tail(queue[a])[j]
  BY <1>1, TailIncreasing
<1>3. MailTypes'
  BY <1>1, <1>2
<1>4. Running'[a] = queue[a][1] /\ queue'[a] = Tail(queue[a])
  BY <1>1, <1>2
<1>5. \A b \in Actives : b # a => Running'[b] = Running[b] /\ queue'[b] = queue[b]
  BY <1>1
<1>6. NextIsNew'
  BY <1>1, <1>2, <1>4, <1>5 DEF NextIsNew, Mailbox!Below
<1>7. MailOrder'
  <2> SUFFICES ASSUME NEW b \in Actives
               PROVE  /\ Mailbox!Increasing(done[b])
                      /\ Mailbox!Increasing(queue'[b])
                      /\ \A j \in DOMAIN queue'[b] : Mailbox!Below(done[b], queue'[b][j])
                      /\ Running'[b] # None =>
                           /\ Mailbox!Below(done[b], Running'[b])
                           /\ \A j \in DOMAIN queue'[b] : Running'[b] < queue'[b][j]
    BY <1>1 DEF MailOrder
  <2>1. CASE b = a
    BY <2>1, <1>2, <1>4 DEF MailOrder
  <2>2. CASE b # a
    BY <2>2, <1>5 DEF MailOrder
  <2> QED
    BY <2>1, <2>2
<1> QED
  BY <1>3, <1>6, <1>7

LEMMA MailFinish ==
  ASSUME MailInv, NEW a \in Actives, Mailbox!Finish(a)
  PROVE  MailInv'
<1> USE DEF MailInv, MailTypes
<1>1. /\ Running[a] # None /\ Running[a] \in Nat /\ done[a] \in Seq(Nat)
      /\ Mailbox!Increasing(done[a]) /\ Mailbox!Below(done[a], Running[a])
      /\ Running' = [Running EXCEPT ![a] = None]
      /\ done' = [done EXCEPT ![a] = Append(done[a], Running[a])]
      /\ queue' = queue /\ next' = next
  BY DEF Mailbox!Finish, Running, MailOrder
<1>2. Append(done[a], Running[a]) \in Seq(Nat) /\ Mailbox!Increasing(Append(done[a], Running[a]))
  BY <1>1, AppendIncreasing
<1>3. MailTypes'
  BY <1>1, <1>2
<1>4. Running'[a] = None /\ done'[a] = Append(done[a], Running[a])
  BY <1>1
<1>5. \A b \in Actives : b # a => Running'[b] = Running[b] /\ done'[b] = done[b]
  BY <1>1
<1>6. \A m \in Nat : Mailbox!Below(done[a], m) /\ Running[a] < m => Mailbox!Below(done'[a], m)
  BY <1>1, <1>4, AppendBelow
<1>7. NextIsNew'
  BY <1>1, <1>4, <1>5, <1>6 DEF NextIsNew
<1>8. MailOrder'
  <2> SUFFICES ASSUME NEW b \in Actives
               PROVE  /\ Mailbox!Increasing(done'[b])
                      /\ Mailbox!Increasing(queue[b])
                      /\ \A j \in DOMAIN queue[b] : Mailbox!Below(done'[b], queue[b][j])
                      /\ Running'[b] # None =>
                           /\ Mailbox!Below(done'[b], Running'[b])
                           /\ \A j \in DOMAIN queue[b] : Running'[b] < queue[b][j]
    BY <1>1 DEF MailOrder
  <2>1. CASE b = a
    BY <2>1, <1>1, <1>2, <1>4, <1>6 DEF MailOrder
  <2>2. CASE b # a
    BY <2>2, <1>5 DEF MailOrder
  <2> QED
    BY <2>1, <2>2
<1> QED
  BY <1>3, <1>7, <1>8

\* Handlers return in the order of the posts and none runs twice
\* (mirco_active.cpp:39-49): the mailbox promises it, whoever implements it.
THEOREM MailboxInOrder == Mailbox!Spec => []Mailbox!InOrder
<1>1. Mailbox!Init => MailInv
  BY DEF Mailbox!Init, Running, MailInv, MailTypes, NextIsNew, MailOrder,
         Mailbox!Increasing, Mailbox!Below
<1>2. MailInv /\ [Mailbox!Next]_(Mailbox!vars) => MailInv'
  <2> SUFFICES ASSUME MailInv, [Mailbox!Next]_(Mailbox!vars) PROVE MailInv'
    OBVIOUS
  <2>1. ASSUME NEW a \in Actives, Mailbox!Post(a) PROVE MailInv'
    BY <2>1, MailPost
  <2>2. ASSUME NEW a \in Actives, Mailbox!Begin(a) PROVE MailInv'
    BY <2>2, MailBegin
  <2>3. ASSUME NEW a \in Actives, Mailbox!Finish(a) PROVE MailInv'
    BY <2>3, MailFinish
  <2>4. CASE UNCHANGED Mailbox!vars
    <3>1. queue' = queue /\ done' = done /\ next' = next /\ Running' = Running
      BY <2>4 DEF Mailbox!vars, Running
    <3>. QED  BY <3>1 DEF MailInv, MailTypes, NextIsNew, MailOrder,
                          Mailbox!Increasing, Mailbox!Below, Running
  <2> QED
    BY <2>1, <2>2, <2>3, <2>4 DEF Mailbox!Next
<1>3. MailInv => Mailbox!InOrder
  BY DEF MailInv, MailOrder, Running, Mailbox!InOrder
<1> QED
  BY <1>1, <1>2, <1>3, PTL DEF Mailbox!Spec

\* The handlers of an active object return in the order of the pushes and none
\* is called twice (mirco_active.cpp:39-49), whatever threads run it: the
\* mailbox promises it and the server implements the mailbox.
THEOREM ServerInOrder == Spec => []HandledInOrder
  BY MailboxInOrder, ServerImplementsMailbox, PTL DEF ImplementsMailbox, HandledInOrder
-----------------------------------------------------------------------------
(***************************************************************************)
(* NoBlockingPool, of which ActiveServer uses two (active_server.h:53),    *)
(* for any number of callers, objects and lists: an object is in one place *)
(* and _size counts what it should, and the pool is an ObjectPool.         *)
(*                                                                         *)
(* The argument: an object that a thread has and that is in a list is the  *)
(* one this thread is pushing, between the push and the ++ of _size; it    *)
(* has the list's lock, so nobody takes the object out meanwhile.          *)
(***************************************************************************)
\* Between try_lock and unlock
LockedSteps == {"put_push", "put_count", "pop_look", "pop_count", "unlock"}

PoolLocking == \A t \in Callers : pc[t] \in LockedSteps => lock[slide[t]] = t

\* put works on an object of the caller's; after the push it is in the list.
PoolPutting ==
  \A t \in Callers :
    /\ pc[t] \in {"put_try", "put_push", "put_count"} => obj[t] \in held[t]
    /\ pc[t] = "put_count" => obj[t] \in list[slide[t]]

\* Apart from that object, what a thread has is in no list.
PoolApart ==
  /\ \A i, j \in Lists : i # j => list[i] \cap list[j] = {}
  /\ \A s, t \in Callers : s # t => held[s] \cap held[t] = {}
  /\ \A t \in Callers, i \in Lists :
       \A x \in held[t] \cap list[i] : pc[t] = "put_count" /\ obj[t] = x

PoolFinite == IsFiniteSet(Stock) /\ IsFiniteSet(Taking)

PoolIInv == PoolTypeOK /\ PoolLocking /\ PoolPutting /\ PoolApart /\ PoolFinite /\ SizeExact

-----------------------------------------------------------------------------
\* What is in the pool, element by element.
LEMMA InStock ==
  \A x : x \in Stock <=> /\ \E i \in Lists : x \in list[i]
                         /\ \A t \in Callers : pc[t] = "put_count" => obj[t] # x
BY DEF Stock, Uncounted

\* The same of the next state.
LEMMA InStockNext ==
  \A x : x \in Stock' <=> /\ \E i \in Lists : x \in list'[i]
                          /\ \A t \in Callers : pc'[t] = "put_count" => obj'[t] # x
BY DEF Stock, Uncounted

\* What a thread finds in the list it has locked no other thread has: one that
\* is pushing it would have the lock.
LEMMA NotBeingPut ==
  ASSUME PoolTypeOK, PoolLocking, PoolPutting, PoolApart, NEW t \in Callers, pc[t] = "pop_look",
         NEW x \in list[slide[t]], NEW u \in Callers \ {t}
  PROVE  x \notin held[u]
<1> SUFFICES ASSUME x \in held[u] PROVE FALSE
  OBVIOUS
<1> USE DEF PoolTypeOK, LockedSteps
<1>1. slide[t] \in Lists
  OBVIOUS
<1>2. pc[u] = "put_count" /\ obj[u] = x
  BY <1>1 DEF PoolApart
<1>3. slide[u] \in Lists /\ x \in list[slide[u]]
  BY <1>2 DEF PoolPutting
<1>4. slide[u] = slide[t]
  BY <1>1, <1>3 DEF PoolApart
<1>5. lock[slide[t]] = t /\ lock[slide[u]] = u
  BY <1>2 DEF PoolLocking
<1> QED
  BY <1>4, <1>5

\* pop goes on to the next list, or to its loop condition; it may unlock.
LEMMA NextListStep ==
  ASSUME PoolTypeOK, PoolLocking, PoolPutting, PoolApart, NEW t \in Callers,
         pc[t] \in {"pop_try", "pop_look"}, NextList(t),
         UNCHANGED <<list, size, obj, held, got>>,
         lock' = lock \/ (pc[t] = "pop_look" /\ lock' = [lock EXCEPT ![slide[t]] = Null])
  PROVE  PoolTypeOK' /\ PoolLocking' /\ PoolPutting' /\ PoolApart'
<1> USE CountAssumption, NullAssumption DEF PoolTypeOK, LockedSteps, Goto, Lists
<1>1. /\ slide[t] \in Lists
      /\ slide' = [slide EXCEPT ![t] = @ + 1]
      /\ pc' = [pc EXCEPT ![t] = IF slide[t] + 1 = Count THEN "pop_load" ELSE "pop_try"]
  BY DEF NextList
<1>2. PoolTypeOK'
  <2>1. slide[t] + 1 \in 0 .. Count /\ (slide[t] + 1 # Count => slide[t] + 1 \in Lists)
    BY <1>1
  <2>2. lock' \in [Lists -> Callers \cup {Null}]
    OBVIOUS
  <2>3. /\ slide' \in [Callers -> 0 .. Count]
        /\ pc' \in [Callers -> {"idle", "put_try", "put_push", "put_count", "pop_load",
                         "pop_try", "pop_look", "pop_count", "unlock"}]
    BY <1>1, <2>1
  <2> QED
    BY <1>1, <2>1, <2>2, <2>3
<1>3. PoolLocking'
  <2> SUFFICES ASSUME NEW u \in Callers, pc'[u] \in LockedSteps PROVE lock'[slide'[u]] = u
    BY DEF PoolLocking
  <2>1. u # t /\ pc[u] \in LockedSteps /\ slide'[u] = slide[u] /\ slide[u] \in Lists
    BY <1>1
  <2>2. lock[slide[u]] = u
    BY <2>1 DEF PoolLocking
  <2>3. pc[t] = "pop_look" => lock[slide[t]] = t
    BY DEF PoolLocking
  <2> QED
    BY <2>1, <2>2, <2>3
<1>4. PoolPutting'
  BY <1>1 DEF PoolPutting
<1>5. PoolApart'
  BY <1>1 DEF PoolApart
<1> QED
  BY <1>2, <1>3, <1>4, <1>5

\* The invariant is inductive as far as it has no counting in it.
LEMMA PlacesStep ==
  ASSUME PoolTypeOK, PoolLocking, PoolPutting, PoolApart, [PoolNext]_poolVars
  PROVE  PoolTypeOK' /\ PoolLocking' /\ PoolPutting' /\ PoolApart'
<1> USE NullAssumption DEF PoolTypeOK, PoolLocking, PoolPutting, PoolApart, LockedSteps, Goto
<1>0. 0 \in Lists /\ 0 \in 0 .. Count /\ Lists \subseteq 0 .. Count
  BY CountAssumption DEF Lists
<1>1. ASSUME NEW t \in Callers, CallPop(t)
      PROVE  PoolTypeOK' /\ PoolLocking' /\ PoolPutting' /\ PoolApart'
  BY <1>1 DEF CallPop
<1>2. ASSUME NEW t \in Callers, NEW x \in Items, CallPut(t, x)
      PROVE  PoolTypeOK' /\ PoolLocking' /\ PoolPutting' /\ PoolApart'
  BY <1>0, <1>2 DEF CallPut
<1>3. ASSUME NEW t \in Callers, PutTry(t)
      PROVE  PoolTypeOK' /\ PoolLocking' /\ PoolPutting' /\ PoolApart'
  <2>1. CASE lock[slide[t]] = Null
    <3>1. /\ lock' = [lock EXCEPT ![slide[t]] = t]
          /\ pc[t] = "put_try" /\ pc' = [pc EXCEPT ![t] = "put_push"]
          /\ UNCHANGED <<list, size, slide, obj, held, got>>
      BY <1>3, <2>1 DEF PutTry
    <3>2. PoolTypeOK'
      BY <3>1
    <3>3. PoolLocking'
      BY <2>1, <3>1
    <3> QED
      BY <3>1, <3>2, <3>3
  <2>2. CASE lock[slide[t]] # Null
    <3>1. slide[t] \in Lists
      BY <1>3, <2>2 DEF PutTry
    <3> DEFINE i == IF slide[t] + 1 = Count THEN 0 ELSE slide[t] + 1
    <3>3. i \in Lists
      BY <3>1, CountAssumption DEF Lists
    <3> HIDE DEF i
    <3>2. /\ slide' = [slide EXCEPT ![t] = i]
          /\ pc[t] = "put_try"
          /\ UNCHANGED <<list, lock, size, pc, obj, held, got>>
      BY <1>3, <2>2 DEF PutTry, i
    <3> QED
      BY <1>0, <3>1, <3>2, <3>3
  <2> QED
    BY <2>1, <2>2
<1>4. ASSUME NEW t \in Callers, PutPush(t)
      PROVE  PoolTypeOK' /\ PoolLocking' /\ PoolPutting' /\ PoolApart'
  <2>1. slide[t] \in Lists /\ obj[t] \in Items
    BY <1>4 DEF PutPush
  <2>2. /\ list' = [list EXCEPT ![slide[t]] = @ \cup {obj[t]}]
        /\ pc[t] = "put_push" /\ pc' = [pc EXCEPT ![t] = "put_count"]
        /\ UNCHANGED <<lock, size, slide, obj, held, got>>
    BY <1>4 DEF PutPush
  <2>3. PoolTypeOK' /\ PoolLocking'
    BY <2>1, <2>2
  <2>4. PoolPutting'
    BY <2>1, <2>2
  <2>5. \A i \in Lists : obj[t] \notin list[i]
    BY <2>2
  <2>6. PoolApart'
    BY <2>1, <2>2, <2>5
  <2> QED
    BY <2>3, <2>4, <2>6
<1>5. ASSUME NEW t \in Callers, PutCount(t)
      PROVE  PoolTypeOK' /\ PoolLocking' /\ PoolPutting' /\ PoolApart'
  BY <1>5 DEF PutCount
<1>6. ASSUME NEW t \in Callers, PopLoad(t)
      PROVE  PoolTypeOK' /\ PoolLocking' /\ PoolPutting' /\ PoolApart'
  BY <1>0, <1>6 DEF PopLoad
<1>7. ASSUME NEW t \in Callers, PopTry(t)
      PROVE  PoolTypeOK' /\ PoolLocking' /\ PoolPutting' /\ PoolApart'
  <2>1. CASE lock[slide[t]] = Null
    <3>1. /\ lock' = [lock EXCEPT ![slide[t]] = t]
          /\ pc[t] = "pop_try" /\ pc' = [pc EXCEPT ![t] = "pop_look"]
          /\ UNCHANGED <<list, size, slide, obj, held, got>>
      BY <1>7, <2>1 DEF PopTry
    <3>2. PoolTypeOK'
      BY <3>1
    <3>3. PoolLocking'
      BY <2>1, <3>1
    <3> QED
      BY <3>1, <3>2, <3>3
  <2>2. CASE lock[slide[t]] # Null
    BY <1>7, <2>2, NextListStep DEF PopTry
  <2> QED
    BY <2>1, <2>2
<1>8. ASSUME NEW t \in Callers, PopTake(t)
      PROVE  PoolTypeOK' /\ PoolLocking' /\ PoolPutting' /\ PoolApart'
  <2>0. slide[t] \in Lists
    BY <1>8 DEF PopTake
  <2>1. PICK x \in list[slide[t]] :
          /\ list' = [list EXCEPT ![slide[t]] = @ \ {x}]
          /\ obj' = [obj EXCEPT ![t] = x]
          /\ held' = [held EXCEPT ![t] = @ \cup {x}]
          /\ got' = [got EXCEPT ![t] = x]
    BY <1>8 DEF PopTake
  <2>2. pc[t] = "pop_look" /\ pc' = [pc EXCEPT ![t] = "pop_count"]
        /\ UNCHANGED <<lock, size, slide>>
    BY <1>8 DEF PopTake
  <2>3. \A u \in Callers \ {t} : x \notin held[u]
    BY <2>0, <2>2, NotBeingPut
  <2>4. PoolTypeOK' /\ PoolLocking'
    BY <2>0, <2>1, <2>2
  <2>5. PoolPutting'
    BY <2>0, <2>1, <2>2, <2>3
  <2>6. PoolApart'
    BY <2>0, <2>1, <2>2, <2>3
  <2> QED
    BY <2>4, <2>5, <2>6
<1>9. ASSUME NEW t \in Callers, PopSkip(t)
      PROVE  PoolTypeOK' /\ PoolLocking' /\ PoolPutting' /\ PoolApart'
  <2>1. pc[t] = "pop_look" /\ lock' = [lock EXCEPT ![slide[t]] = Null]
        /\ NextList(t) /\ UNCHANGED <<list, size, obj, held, got>>
    BY <1>9 DEF PopSkip
  <2> QED
    BY <2>1, NextListStep
<1>10. ASSUME NEW t \in Callers, PopCount(t)
       PROVE  PoolTypeOK' /\ PoolLocking' /\ PoolPutting' /\ PoolApart'
  BY <1>10 DEF PopCount
<1>11. ASSUME NEW t \in Callers, Unlock(t)
       PROVE  PoolTypeOK' /\ PoolLocking' /\ PoolPutting' /\ PoolApart'
  BY <1>11 DEF Unlock
<1>12. CASE UNCHANGED poolVars
  BY <1>12 DEF poolVars
<1> QED
  BY <1>1, <1>2, <1>3, <1>4, <1>5, <1>6, <1>7, <1>8, <1>9, <1>10, <1>11, <1>12
  DEF PoolNext, Call, Step

-----------------------------------------------------------------------------
(* What a step does to the stock                                           *)

Quiet == UNCHANGED <<Stock, Taking, size, held>>

\* put counts its object.
Counts(t, x) ==
  /\ x \in held[t] \ Stock
  /\ Stock' = Stock \cup {x} /\ size' = size + 1
  /\ held' = [held EXCEPT ![t] = @ \ {x}]
  /\ UNCHANGED <<Taking, got>>

\* pop takes an object out ...
Takes(t, x) ==
  /\ x \in Stock /\ t \notin Taking
  /\ Stock' = Stock \ {x} /\ Taking' = Taking \cup {t}
  /\ held' = [held EXCEPT ![t] = @ \cup {x}]
  /\ got' = [got EXCEPT ![t] = x]
  /\ UNCHANGED size

\* ... and counts it.
Uncounts(t) ==
  /\ t \in Taking
  /\ Taking' = Taking \ {t} /\ size' = size - 1
  /\ UNCHANGED <<Stock, held, got>>

\* pop reads 0 in _size.
FindsNone(t) == Quiet /\ size = 0 /\ got' = [got EXCEPT ![t] = Null]

Effect ==
  \/ Quiet /\ UNCHANGED got
  \/ \E t \in Callers : FindsNone(t) \/ Uncounts(t) \/ \E x \in Items : Counts(t, x) \/ Takes(t, x)

\* A step that leaves the lists alone and enters or leaves no ++ or -- of
\* _size does nothing to the stock.
LEMMA QuietStep ==
  ASSUME PoolTypeOK, NEW t \in Callers, NEW l, UNCHANGED <<list, size, held>>,
         pc' = [pc EXCEPT ![t] = l],
         {pc[t], l} \cap {"put_count", "pop_count"} = {},
         \A u \in Callers \ {t} : obj'[u] = obj[u]
  PROVE  Quiet
<1>0. \A u \in Callers : /\ pc'[u] = "put_count" <=> pc[u] = "put_count"
                         /\ pc[u] = "put_count" => obj'[u] = obj[u]
  BY DEF PoolTypeOK
<1>1. Stock' = Stock
  <2>1. \A x : x \in Stock' <=> x \in Stock
    BY <1>0, InStock, InStockNext
  <2> QED
    BY <2>1
<1>2. Taking' = Taking
  BY DEF PoolTypeOK, Taking
<1> QED
  BY <1>1, <1>2 DEF Quiet

\* What a thread pushes or takes is not in the stock as long as it is its own.
LEMMA OwnNotInStock ==
  ASSUME PoolTypeOK, PoolApart, NEW t \in Callers, NEW x \in held[t]
  PROVE  x \notin Stock
BY InStock DEF PoolTypeOK, PoolApart

LEMMA EffectOfStep ==
  ASSUME PoolTypeOK, PoolLocking, PoolPutting, PoolApart, [PoolNext]_poolVars
  PROVE  Effect
<1> USE DEF Goto
<1>1. ASSUME NEW t \in Callers, CallPop(t) PROVE Effect
  BY <1>1, QuietStep DEF CallPop, Effect, PoolTypeOK
<1>2. ASSUME NEW t \in Callers, NEW x \in Items, CallPut(t, x) PROVE Effect
  BY <1>2, QuietStep DEF CallPut, Effect, PoolTypeOK
<1>3. ASSUME NEW t \in Callers, PutTry(t) PROVE Effect
  <2>1. \E l : pc' = [pc EXCEPT ![t] = l] /\ l \in {"put_try", "put_push"}
    BY <1>3 DEF PutTry, PoolTypeOK
  <2> QED
    BY <1>3, <2>1, QuietStep DEF PutTry, Effect
<1>4. ASSUME NEW t \in Callers, PutPush(t) PROVE Effect
  <2>1. slide[t] \in Lists /\ obj[t] \in held[t]
    BY <1>4 DEF PutPush, PoolTypeOK, PoolPutting
  <2>2. \A x : x \in Stock' <=> x \in Stock
    BY <1>4, <2>1, InStock, InStockNext, OwnNotInStock DEF PutPush, PoolTypeOK
  <2>3. Taking' = Taking
    BY <1>4 DEF PutPush, PoolTypeOK, Taking
  <2> QED
    BY <1>4, <2>2, <2>3 DEF PutPush, Effect, Quiet
<1>5. ASSUME NEW t \in Callers, PutCount(t) PROVE Effect
  <2>1. /\ slide[t] \in Lists /\ obj[t] \in held[t] /\ obj[t] \in list[slide[t]]
        /\ obj[t] \in Items
    BY <1>5 DEF PutCount, PoolTypeOK, PoolPutting
  <2>2. obj[t] \notin Stock
    BY <2>1, OwnNotInStock
  <2>3. \A u \in Callers \ {t} : pc[u] = "put_count" => obj[u] # obj[t]
    BY <2>1 DEF PoolPutting, PoolApart
  <2>4. \A x : x \in Stock' <=> x \in Stock \/ x = obj[t]
    BY <1>5, <2>1, <2>3, InStock, InStockNext DEF PutCount, PoolTypeOK
  <2>5. Taking' = Taking
    BY <1>5 DEF PutCount, PoolTypeOK, Taking
  <2>6. Stock' = Stock \cup {obj[t]}
    BY <2>4
  <2> QED
    BY <1>5, <2>1, <2>2, <2>5, <2>6 DEF PutCount, Effect, Counts
<1>6. ASSUME NEW t \in Callers, PopLoad(t) PROVE Effect
  <2>1. PICK l \in {"idle", "pop_try"} : pc' = [pc EXCEPT ![t] = l]
    BY <1>6 DEF PopLoad
  <2>2. Quiet
    <3>1. pc[t] = "pop_load" /\ UNCHANGED <<list, size, held, obj>>
      BY <1>6 DEF PopLoad
    <3> QED
      BY <2>1, <3>1, QuietStep
  <2> QED
    BY <1>6, <2>2 DEF PopLoad, Effect, FindsNone
<1>7. ASSUME NEW t \in Callers, PopTry(t) PROVE Effect
  <2>1. \E l : pc' = [pc EXCEPT ![t] = l] /\ l \in {"pop_load", "pop_try", "pop_look"}
    BY <1>7 DEF PopTry, NextList
  <2> QED
    BY <1>7, <2>1, QuietStep DEF PopTry, Effect
<1>8. ASSUME NEW t \in Callers, PopTake(t) PROVE Effect
  <2>1. pc[t] = "pop_look" /\ slide[t] \in Lists
    BY <1>8 DEF PopTake, PoolTypeOK
  <2>2. PICK x \in list[slide[t]] :
          /\ list' = [list EXCEPT ![slide[t]] = @ \ {x}]
          /\ obj' = [obj EXCEPT ![t] = x]
          /\ held' = [held EXCEPT ![t] = @ \cup {x}]
          /\ got' = [got EXCEPT ![t] = x]
    BY <1>8 DEF PopTake
  <2>3. \A u \in Callers \ {t} : x \notin held[u]
    BY <2>1, NotBeingPut
  <2>4. x \in Items /\ x \in Stock
    BY <2>1, <2>3, InStock DEF PoolTypeOK, PoolPutting
  <2>5. \A y : y \in Stock' <=> y \in Stock /\ y # x
    BY <1>8, <2>1, <2>2, InStock, InStockNext DEF PopTake, PoolTypeOK, PoolApart
  <2>6. Taking' = Taking \cup {t} /\ t \notin Taking
    BY <1>8, <2>1 DEF PopTake, PoolTypeOK, Taking
  <2>7. Stock' = Stock \ {x}
    BY <2>5
  <2> QED
    BY <1>8, <2>2, <2>4, <2>6, <2>7 DEF PopTake, Effect, Takes
<1>9. ASSUME NEW t \in Callers, PopSkip(t) PROVE Effect
  <2>1. \E l : pc' = [pc EXCEPT ![t] = l] /\ l \in {"pop_load", "pop_try"}
    BY <1>9 DEF PopSkip, NextList
  <2> QED
    BY <1>9, <2>1, QuietStep DEF PopSkip, Effect
<1>10. ASSUME NEW t \in Callers, PopCount(t) PROVE Effect
  <2>1. Taking' = Taking \ {t} /\ t \in Taking
    BY <1>10 DEF PopCount, PoolTypeOK, Taking
  <2>2. \A x : x \in Stock' <=> x \in Stock
    BY <1>10, InStock, InStockNext DEF PopCount, PoolTypeOK
  <2>3. Stock' = Stock
    BY <2>2
  <2> QED
    BY <1>10, <2>1, <2>3 DEF PopCount, Effect, Uncounts
<1>11. ASSUME NEW t \in Callers, Unlock(t) PROVE Effect
  BY <1>11, QuietStep DEF Unlock, Effect
<1>12. CASE UNCHANGED poolVars
  BY <1>12 DEF poolVars, Effect, Quiet, Stock, Uncounted, Taking
<1> QED
  BY <1>1, <1>2, <1>3, <1>4, <1>5, <1>6, <1>7, <1>8, <1>9, <1>10, <1>11, <1>12
  DEF PoolNext, Call, Step

\* _size stays the number of objects in the pool and of those just taken out.
LEMMA SizeStep ==
  ASSUME PoolFinite, SizeExact, Effect
  PROVE  PoolFinite' /\ SizeExact'
<1> USE DEF PoolFinite, SizeExact
<1>0. Cardinality(Stock) \in Nat /\ Cardinality(Taking) \in Nat
  BY FS_CardinalityType
<1>1. CASE Quiet
  BY <1>1 DEF Quiet
<1>2. ASSUME NEW t \in Callers, NEW x \in Items, Counts(t, x)
      PROVE  PoolFinite' /\ SizeExact'
  <2>1. IsFiniteSet(Stock') /\ Cardinality(Stock') = Cardinality(Stock) + 1
    BY <1>2, FS_AddElement DEF Counts
  <2> QED
    BY <1>0, <1>2, <2>1 DEF Counts
<1>3. ASSUME NEW t \in Callers, NEW x \in Items, Takes(t, x)
      PROVE  PoolFinite' /\ SizeExact'
  <2>1. IsFiniteSet(Stock') /\ Cardinality(Stock') = Cardinality(Stock) - 1
    BY <1>3, FS_RemoveElement DEF Takes
  <2>2. IsFiniteSet(Taking') /\ Cardinality(Taking') = Cardinality(Taking) + 1
    BY <1>3, FS_AddElement DEF Takes
  <2> QED
    BY <1>0, <1>3, <2>1, <2>2 DEF Takes
<1>4. ASSUME NEW t \in Callers, Uncounts(t)
      PROVE  PoolFinite' /\ SizeExact'
  <2>1. IsFiniteSet(Taking') /\ Cardinality(Taking') = Cardinality(Taking) - 1
    BY <1>4, FS_RemoveElement DEF Uncounts
  <2> QED
    BY <1>0, <1>4, <2>1 DEF Uncounts
<1> QED
  BY <1>1, <1>2, <1>3, <1>4 DEF Effect, FindsNone

-----------------------------------------------------------------------------
LEMMA PoolInitIInv == PoolInit => PoolIInv
<1> SUFFICES ASSUME PoolInit PROVE PoolIInv
  OBVIOUS
<1>0. 0 \in 0 .. Count
  BY CountAssumption
<1>1. PoolTypeOK /\ PoolLocking /\ PoolPutting /\ PoolApart
  BY <1>0 DEF PoolInit, PoolTypeOK, PoolLocking, LockedSteps, PoolPutting, PoolApart
<1>2. Stock = {} /\ Taking = {}
  <2>1. \A x : x \notin Stock
    BY InStock DEF PoolInit
  <2> QED
    BY <2>1 DEF PoolInit, Taking
<1>3. PoolFinite /\ SizeExact
  BY <1>2, FS_EmptySet DEF PoolInit, PoolFinite, SizeExact
<1> QED
  BY <1>1, <1>3 DEF PoolIInv

LEMMA PoolIInvStep == PoolIInv /\ [PoolNext]_poolVars => PoolIInv'
<1> SUFFICES ASSUME PoolIInv, [PoolNext]_poolVars PROVE PoolIInv'
  OBVIOUS
<1>1. PoolTypeOK' /\ PoolLocking' /\ PoolPutting' /\ PoolApart'
  BY PlacesStep DEF PoolIInv
<1>2. Effect
  BY EffectOfStep DEF PoolIInv
<1>3. PoolFinite' /\ SizeExact'
  BY <1>2, SizeStep DEF PoolIInv
<1> QED
  BY <1>1, <1>3 DEF PoolIInv

LEMMA PoolInvariant == PoolSpec => []PoolIInv
BY PoolInitIInv, PoolIInvStep, PTL DEF PoolSpec

LEMMA PoolIInvImplies == PoolIInv => OnePlace
<1> SUFFICES ASSUME PoolIInv PROVE OnePlace
  OBVIOUS
<1>1. \A t \in Callers : held[t] \cap Stock = {}
  BY OwnNotInStock DEF PoolIInv
<1> QED
  BY <1>1 DEF PoolIInv, OnePlace, PoolApart

\* An object is in one list or with one thread, and _size is exact: put and
\* pop of no_blocking_pool.h:48-95 lose and double nothing.
THEOREM PoolOnePlace == PoolSpec => []OnePlace
BY PoolInvariant, PoolIInvImplies, PTL

-----------------------------------------------------------------------------
(* Refinement                                                              *)

LEMMA PoolInitStock == PoolInit => Pool!Init
<1> SUFFICES ASSUME PoolInit PROVE Pool!Init
  OBVIOUS
<1>1. \A x : x \notin Stock
  BY InStock DEF PoolInit
<1> QED
  BY <1>1 DEF PoolInit, Pool!Init

\* pop may say that the pool is empty when _size is 0, for then it is.
LEMMA PoolStep == PoolIInv /\ Effect => [Pool!Next]_(Pool!vars)
<1> SUFFICES ASSUME PoolIInv, Effect PROVE [Pool!Next]_(Pool!vars)
  OBVIOUS
<1>0. Cardinality(Stock) \in Nat /\ Cardinality(Taking) \in Nat /\ IsFiniteSet(Stock)
  BY FS_CardinalityType DEF PoolIInv, PoolFinite
<1>1. ASSUME NEW t \in Callers, FindsNone(t) PROVE Pool!PopEmpty(t)
  <2>1. Cardinality(Stock) = 0
    BY <1>0, <1>1 DEF PoolIInv, SizeExact, FindsNone
  <2>2. Stock = {}
    BY <1>0, <2>1, FS_EmptySet
  <2> QED
    BY <1>1, <2>2 DEF FindsNone, Quiet, Pool!PopEmpty
<1>2. ASSUME NEW t \in Callers, NEW x \in Items, Counts(t, x) PROVE Pool!Put(t, x)
  BY <1>2 DEF Counts, Pool!Put
<1>3. ASSUME NEW t \in Callers, NEW x \in Items, Takes(t, x) PROVE Pool!Pop(t, x)
  BY <1>3 DEF Takes, Pool!Pop
<1>4. CASE Quiet /\ UNCHANGED got
  BY <1>4 DEF Quiet, Pool!vars
<1>5. ASSUME NEW t \in Callers, Uncounts(t) PROVE UNCHANGED Pool!vars
  BY <1>5 DEF Uncounts, Pool!vars
<1> QED
  BY <1>1, <1>2, <1>3, <1>4, <1>5 DEF Effect, Pool!Next

\* no_blocking_pool is an object pool: pop returns what was put and not popped
\* since, and nothing only when there is nothing.
THEOREM PoolImplementsPool == PoolSpec => ImplementsPool
<1>1. PoolIInv /\ [PoolNext]_poolVars => [Pool!Next]_(Pool!vars)
  BY EffectOfStep, PoolStep DEF PoolIInv
<1> QED
  BY <1>1, PoolInitStock, PoolInvariant, PTL DEF PoolSpec, ImplementsPool, Pool!Spec
=============================================================================
