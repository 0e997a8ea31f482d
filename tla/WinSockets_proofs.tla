------------------------- MODULE WinSockets_proofs --------------------------
(***************************************************************************)
(* For any number of sockets, handles and threads: a socket_base is in one *)
(* place, a chain of AcceptEx goes on until something ends it, and the     *)
(* connections stay within nMaxConnect.                                    *)
(***************************************************************************)
EXTENDS WinSockets, FiniteSetTheorems, WellFoundedInduction, TLAPS

-----------------------------------------------------------------------------
(* Sums.  Induction is the argument of the least counterexample, which     *)
(* speaks of sets and of no operator.                                      *)

\* Induction over the natural numbers, for a set of them.
LEMMA NatSet ==
  ASSUME NEW G \in SUBSET Nat, 0 \in G, \A n \in G : n + 1 \in G
  PROVE  G = Nat
<1> SUFFICES ASSUME Nat \ G # {} PROVE FALSE
  OBVIOUS
<1>1. PICK x \in Nat \ G : \A y \in Nat \ G : ~ (<<y, x>> \in OpToRel(<, Nat))
  BY NatLessThanWellFounded, WFMin, Zenon
<1>2. \A y \in Nat \ G : ~ (y < x)
  BY <1>1 DEF OpToRel
<1>3. x # 0 /\ x - 1 \in Nat
  OBVIOUS
<1>4. x - 1 \in G
  BY <1>2, <1>3
<1> QED
  BY <1>4

\* Induction over the subsets of a finite set, for a set of them.
LEMMA SubsetInduction ==
  ASSUME NEW S, IsFiniteSet(S), NEW G \in SUBSET (SUBSET S),
         \A T \in SUBSET S : (T = {} \/ \A x \in T : T \ {x} \in G) => T \in G
  PROVE  G = SUBSET S
<1> DEFINE B == (SUBSET S) \ G
           R == StrictSubsetOrdering(S)
           F == FiniteSubsetsOf(S)
<1> SUFFICES ASSUME B # {} PROVE FALSE
  OBVIOUS
<1>1. IsWellFoundedOn(R, F)
  BY FS_StrictSubsetOrderingWellFounded
<1>2. B \subseteq F
  BY FS_Subset DEF FiniteSubsetsOf
<1>3. PICK X \in B : \A Y \in B : <<Y, X>> \notin R
  <2> HIDE DEF B, R, F
  <2> QED
    BY <1>1, <1>2, WFMin, Zenon
<1>4. PICK x \in X : X \ {x} \in B
  BY <1>3
<1>5. <<X \ {x}, X>> \in R
  BY <1>4 DEF StrictSubsetOrdering
<1> QED
  BY <1>3, <1>4, <1>5

\* The element a sum starts with
Some(s) == CHOOSE x \in s : TRUE

LEMMA SomeIn == \A s : s # {} => Some(s) \in s
BY DEF Some

\* What a sum over a set is: of an element, and of the rest.
IsSum(f, S, iter) ==
  iter = [s \in SUBSET S |-> IF s = {} THEN 0
          ELSE f[Some(s)] + iter[s \ {Some(s)}]]

Partial(f, S) == CHOOSE iter : IsSum(f, S, iter)

\* The same for the subsets with n elements or less
IsSumTo(f, S, n, iter) ==
  iter = [s \in {s \in SUBSET S : Cardinality(s) <= n} |-> IF s = {} THEN 0
          ELSE f[Some(s)] + iter[s \ {Some(s)}]]

LEMMA SumIsPartial ==
  ASSUME NEW f
  PROVE  SumFunction(f) = Partial(f, DOMAIN f)[DOMAIN f]
BY DEF SumFunction, SumFunctionOnSet, FoldFunctionOnSet, MapThenFoldSet, Partial, IsSum, Some

LEMMA SumToExists ==
  ASSUME NEW f, NEW S, IsFiniteSet(S), NEW n \in Nat
  PROVE  \E iter : IsSumTo(f, S, n, iter)
<1> DEFINE G == {m \in Nat : \E iter : IsSumTo(f, S, m, iter)}
           D(m) == {s \in SUBSET S : Cardinality(s) <= m}
<1>0. \A s \in SUBSET S : IsFiniteSet(s) /\ Cardinality(s) \in Nat
  BY FS_Subset, FS_CardinalityType
<1>1. 0 \in G
  <2>1. \A s \in D(0) : s = {}
    BY <1>0, FS_EmptySet
  <2>2. IsSumTo(f, S, 0, [s \in D(0) |-> 0])
    BY <2>1 DEF IsSumTo
  <2> QED
    BY <2>2
<1>2. ASSUME NEW m \in G PROVE m + 1 \in G
  <2>1. PICK iter : IsSumTo(f, S, m, iter)
    OBVIOUS
  <2> DEFINE next == [s \in D(m + 1) |-> IF s = {} THEN 0
                      ELSE f[Some(s)] + iter[s \ {Some(s)}]]
  <2>2. ASSUME NEW s \in D(m) PROVE next[s] = iter[s] /\ s \in D(m + 1)
    <3>1. s \in D(m + 1)
      BY <1>0
    <3>2. iter[s] = IF s = {} THEN 0 ELSE f[Some(s)] + iter[s \ {Some(s)}]
      BY <2>1 DEF IsSumTo
    <3>3. next[s] = IF s = {} THEN 0 ELSE f[Some(s)] + iter[s \ {Some(s)}]
      BY <3>1
    <3> QED
      BY <3>1, <3>2, <3>3
  <2>3. ASSUME NEW s \in D(m + 1), s # {}
        PROVE  next[s] = f[Some(s)] + next[s \ {Some(s)}]
    <3>1. Some(s) \in s
      BY <2>3, SomeIn
    <3>2. s \ {Some(s)} \in D(m)
      BY <1>0, <3>1, FS_RemoveElement
    <3>3. next[s] = f[Some(s)] + iter[s \ {Some(s)}]
      BY <2>3
    <3> QED
      BY <2>2, <3>2, <3>3
  <2>4. IsSumTo(f, S, m + 1, next)
    BY <2>3 DEF IsSumTo
  <2> QED
    BY <2>4
<1>3. G = Nat
  <2> HIDE DEF G
  <2>1. G \in SUBSET Nat
    BY DEF G
  <2> QED
    BY <1>1, <1>2, <2>1, NatSet
<1> QED
  BY <1>3

LEMMA PartialIsSum ==
  ASSUME NEW f, NEW S, IsFiniteSet(S)
  PROVE  IsSum(f, S, Partial(f, S))
<1>1. Cardinality(S) \in Nat /\ \A s \in SUBSET S : Cardinality(s) <= Cardinality(S)
  BY FS_Subset, FS_CardinalityType
<1>2. PICK iter : IsSumTo(f, S, Cardinality(S), iter)
  BY <1>1, SumToExists
<1>3. {s \in SUBSET S : Cardinality(s) <= Cardinality(S)} = SUBSET S
  BY <1>1
<1>4. IsSum(f, S, iter)
  BY <1>2, <1>3 DEF IsSumTo, IsSum
<1> QED
  BY <1>4 DEF Partial

LEMMA PartialStep ==
  ASSUME NEW f, NEW S, IsFiniteSet(S), NEW T \in SUBSET S, T # {}
  PROVE  /\ Some(T) \in T
         /\ Partial(f, S)[T] = f[Some(T)] + Partial(f, S)[T \ {Some(T)}]
<1> DEFINE p == Partial(f, S)
<1>1. IsSum(f, S, p)
  BY PartialIsSum
<1> HIDE DEF p
<1>2. p[T] = f[Some(T)] + p[T \ {Some(T)}]
  BY <1>1 DEF IsSum
<1> QED
  BY <1>2, SomeIn DEF p

LEMMA PartialEmpty ==
  ASSUME NEW f, NEW S, IsFiniteSet(S)
  PROVE  Partial(f, S)[{}] = 0
<1> DEFINE p == Partial(f, S)
<1>1. IsSum(f, S, p)
  BY PartialIsSum
<1> HIDE DEF p
<1>2. p[{}] = 0
  BY <1>1 DEF IsSum
<1> QED
  BY <1>2 DEF p

\* A sum of natural numbers is one, and no less than any of them.
LEMMA PartialNat ==
  ASSUME NEW S, IsFiniteSet(S), NEW f \in [S -> Nat], NEW T \in SUBSET S
  PROVE  /\ Partial(f, S)[T] \in Nat
         /\ \A a \in T : f[a] <= Partial(f, S)[T]
         /\ (\A a \in T : f[a] = 0) => Partial(f, S)[T] = 0
<1> DEFINE p == Partial(f, S)
           Good(U) == /\ p[U] \in Nat
                      /\ \A a \in U : f[a] <= p[U]
                      /\ (\A a \in U : f[a] = 0) => p[U] = 0
           G == {U \in SUBSET S : Good(U)}
<1>1. ASSUME NEW U \in SUBSET S, U = {} \/ \A x \in U : U \ {x} \in G PROVE U \in G
  <2>1. CASE U = {}
    BY <2>1, PartialEmpty
  <2>2. CASE U # {}
    <3> DEFINE x == Some(U)
    <3>1. x \in U /\ p[U] = f[x] + p[U \ {x}]
      BY <2>2, PartialStep
    <3> HIDE DEF x
    <3>2. Good(U \ {x})
      BY <1>1, <2>2, <3>1
    <3> HIDE DEF p
    <3>3. f[x] \in Nat /\ p[U \ {x}] \in Nat
      BY <3>1, <3>2
    <3>4. ASSUME NEW a \in U PROVE f[a] <= p[U]
      <4>1. a # x => f[a] <= p[U \ {x}] /\ f[a] \in Nat
        BY <3>2
      <4> QED
        BY <3>1, <3>3, <4>1
    <3>5. (\A a \in U : f[a] = 0) => p[U] = 0
      BY <3>1, <3>2, <3>3
    <3> QED
      BY <3>1, <3>3, <3>4, <3>5
  <2> QED
    BY <2>1, <2>2
<1>2. G = SUBSET S
  <2> HIDE DEF G
  <2>1. G \in SUBSET (SUBSET S)
    BY DEF G
  <2> QED
    BY <1>1, <2>1, SubsetInduction
<1> QED
  BY <1>2

\* One of the numbers changes.
LEMMA PartialChange ==
  ASSUME NEW S, IsFiniteSet(S), NEW f \in [S -> Nat], NEW g \in [S -> Nat], NEW a \in S,
         \A x \in S \ {a} : g[x] = f[x], NEW T \in SUBSET S
  PROVE  Partial(g, S)[T] = Partial(f, S)[T] + (IF a \in T THEN g[a] - f[a] ELSE 0)
<1> DEFINE p == Partial(f, S)
           q == Partial(g, S)
           G == {U \in SUBSET S : q[U] = p[U] + (IF a \in U THEN g[a] - f[a] ELSE 0)}
<1>1. ASSUME NEW U \in SUBSET S, U = {} \/ \A x \in U : U \ {x} \in G PROVE U \in G
  <2>1. CASE U = {}
    BY <2>1, PartialEmpty
  <2>2. CASE U # {}
    <3> DEFINE x == Some(U)
    <3>1. x \in U /\ p[U] = f[x] + p[U \ {x}] /\ q[U] = g[x] + q[U \ {x}]
      <4>1. ASSUME NEW h
            PROVE  /\ Some(U) \in U
                   /\ Partial(h, S)[U] = h[Some(U)] + Partial(h, S)[U \ {Some(U)}]
        BY <2>2, PartialStep
      <4>2. q[U] = g[Some(U)] + q[U \ {Some(U)}]
        BY <4>1
      <4> QED
        BY <4>1, <4>2
    <3> HIDE DEF x
    <3>2. p[U \ {x}] \in Nat
      BY PartialNat
    <3> HIDE DEF p, q
    <3>3. U \ {x} \in G
      BY <1>1, <2>2, <3>1
    <3>4. q[U \ {x}] = p[U \ {x}] + (IF a \in U \ {x} THEN g[a] - f[a] ELSE 0)
      BY <3>3
    <3>5. CASE x = a
      BY <3>1, <3>2, <3>4, <3>5
    <3>6. CASE x # a
      BY <3>1, <3>2, <3>4, <3>6
    <3> QED
      BY <3>5, <3>6
  <2> QED
    BY <2>1, <2>2
<1>2. G = SUBSET S
  <2> HIDE DEF G
  <2>1. G \in SUBSET (SUBSET S)
    BY DEF G
  <2> QED
    BY <1>1, <2>1, SubsetInduction
<1> QED
  BY <1>2

LEMMA SumNat ==
  ASSUME NEW S, IsFiniteSet(S), NEW f \in [S -> Nat]
  PROVE  /\ SumFunction(f) \in Nat
         /\ \A a \in S : f[a] <= SumFunction(f)
         /\ (\A a \in S : f[a] = 0) => SumFunction(f) = 0
<1>1. SumFunction(f) = Partial(f, S)[S] /\ S \in SUBSET S
  BY SumIsPartial
<1> QED
  BY <1>1, PartialNat

LEMMA SumChange ==
  ASSUME NEW S, IsFiniteSet(S), NEW f \in [S -> Nat], NEW g \in [S -> Nat], NEW a \in S,
         \A x \in S \ {a} : g[x] = f[x]
  PROVE  SumFunction(g) = SumFunction(f) + g[a] - f[a]
<1>1. SumFunction(f) = Partial(f, S)[S] /\ SumFunction(g) = Partial(g, S)[S]
  BY SumIsPartial
<1>2. Partial(f, S)[S] \in Nat
  <2>1. S \in SUBSET S
    OBVIOUS
  <2> QED
    BY <2>1, PartialNat
<1>3. Partial(g, S)[S] = Partial(f, S)[S] + (IF a \in S THEN g[a] - f[a] ELSE 0)
  <2>1. S \in SUBSET S
    OBVIOUS
  <2> QED
    BY <2>1, PartialChange
<1> QED
  BY <1>1, <1>2, <1>3

-----------------------------------------------------------------------------
(* The invariant                                                           *)

\* The handles of a count, of all threads
Held(h, r) == SumFunction([t \in Threads |-> h[t][r]])

HoldType == [Threads -> [Refs -> 0 .. MaxHandles]]

\* The pool: what is in it was made.
PoolOK ==
  /\ made \subseteq Sockets /\ lost \subseteq made
  /\ pool \in [Sockets -> Nat] /\ fds \in Nat
  /\ \A s \in Sockets : pool[s] > 0 => s \in made

\* The handles: a count is the number of its handles, and while there are any,
\* or a destructor is about to read it, it has a socket_base.
CountsOK ==
  /\ sock \in [Refs -> Sockets \cup {None}]
  /\ ref \in [Refs -> Nat]
  /\ hold \in HoldType
  /\ dying \in [Threads -> Refs \cup {None}]
  /\ overlap \in BOOLEAN
  /\ \A r \in Refs : ref[r] = Held(hold, r)
  /\ \A r \in Refs : Live(r) => sock[r] \in made

\* The members of the socket_bases, and what is said of the connections
MembersOK ==
  /\ isdisconnect \in [Sockets -> BOOLEAN] /\ isaccept \in [Sockets -> BOOLEAN]
  /\ tries \in [Sockets -> Nat]
  /\ regAccept \in [Sockets -> BOOLEAN] /\ onAccept \in [Sockets -> BOOLEAN]
  /\ link \in [Sockets -> {"none", "listening", "on"}]
  /\ nConnect \in 0 .. Wrap - 1
  /\ guests \subseteq Sockets /\ cut \subseteq Sockets /\ starts \in Nat
  /\ unearned \in BOOLEAN /\ raced \in BOOLEAN
  /\ calls \in 0 .. MaxCalls

Operations ==
  [kind : {"none", "listen", "accept", "connect", "close"}, s : Sockets \cup {None},
   c : Sockets \cup {None}, r : Refs \cup {None}, err : BOOLEAN]

OpOK(o) ==
  /\ o \in Operations /\ o.kind \in {"accept", "connect", "close"} /\ o.s \in Sockets
  /\ o.kind = "accept" => o.c \in made

OpsOK == IsFiniteSet(ops) /\ \A o \in ops : OpOK(o)

\* The steps of OnAccept before and after the client has a handle
WithoutHandle == {"on_accept", "raise", "ask", "next", "client", "handle"}
Serving == WithoutHandle \cup {"handler", "drop"}

\* A thread knows its operation.
ThreadOK(t) ==
  /\ pc[t] \in {"listen", "first"} \cup Serving => cur[t].s \in Sockets
  /\ pc[t] \in Serving => cur[t].c \in made
  /\ pc[t] \in {"handler", "drop"} => cur[t].r \in Refs
  /\ pc[t] # "destroy" => dying[t] = None

ThreadsOK ==
  /\ pc \in [Threads -> Steps] /\ cur \in [Threads -> Operations]
  /\ num \in [Threads -> Nat]
  /\ \A t \in Threads : ThreadOK(t)

TypeInv == PoolOK /\ CountsOK /\ MembersOK /\ OpsOK /\ ThreadsOK

LEMMA TypeInvImplies == TypeInv => TypeOK
<1> SUFFICES ASSUME TypeInv PROVE TypeOK
  OBVIOUS
<1>1. HandlesTypeOK
  BY DEF TypeInv, PoolOK, CountsOK, HandlesTypeOK, Held, HoldType
<1>2. \A o \in ops : o.kind \in {"accept", "connect", "close"} /\ o.s \in Sockets
  BY DEF TypeInv, OpsOK, OpOK
<1>3. \A t \in Threads : cur[t].s \in Sockets \cup {None}
  BY DEF TypeInv, ThreadsOK, Operations
<1> QED
  BY <1>1, <1>2, <1>3 DEF TypeInv, MembersOK, ThreadsOK, TypeOK

-----------------------------------------------------------------------------
(* The handles                                                             *)

LEMMA HeldNat ==
  ASSUME NEW h \in HoldType, NEW r \in Refs
  PROVE  /\ Held(h, r) \in Nat
         /\ \A t \in Threads : h[t][r] <= Held(h, r)
         /\ (\A t \in Threads : h[t][r] = 0) => Held(h, r) = 0
<1> DEFINE f == [t \in Threads |-> h[t][r]]
<1>1. f \in [Threads -> Nat]
  BY PoolMaxAssumption DEF HoldType
<1>2. \A t \in Threads : f[t] = h[t][r]
  OBVIOUS
<1>3. Held(h, r) = SumFunction(f)
  BY DEF Held
<1> HIDE DEF f
<1> QED
  BY <1>1, <1>2, <1>3, SumNat, FiniteAssumption

LEMMA HeldStep ==
  ASSUME NEW h \in HoldType, NEW g \in HoldType, NEW r \in Refs, NEW t \in Threads,
         \A u \in Threads \ {t} : g[u][r] = h[u][r]
  PROVE  Held(g, r) = Held(h, r) + g[t][r] - h[t][r]
<1> DEFINE f(k) == [u \in Threads |-> k[u][r]]
<1>1. f(h) \in [Threads -> Nat] /\ f(g) \in [Threads -> Nat]
  BY PoolMaxAssumption DEF HoldType
<1>2. \A u \in Threads : f(h)[u] = h[u][r] /\ f(g)[u] = g[u][r]
  OBVIOUS
<1>3. Held(h, r) = SumFunction(f(h)) /\ Held(g, r) = SumFunction(f(g))
  BY DEF Held
<1> HIDE DEF f
<1>4. \A u \in Threads \ {t} : f(g)[u] = f(h)[u]
  BY <1>2
<1>5. SumFunction(f(g)) = SumFunction(f(h)) + f(g)[t] - f(h)[t]
  BY <1>1, <1>4, SumChange, FiniteAssumption
<1> QED
  BY <1>2, <1>3, <1>5

LEMMA HeldSame ==
  ASSUME NEW h \in HoldType, NEW g \in HoldType, NEW r \in Refs,
         \A u \in Threads : g[u][r] = h[u][r]
  PROVE  Held(g, r) = Held(h, r)
BY DEF Held

LEMMA HeldSet ==
  ASSUME NEW h \in HoldType, NEW g \in HoldType, NEW t \in Threads, NEW r \in Refs,
         \A u \in Threads, q \in Refs : u # t \/ q # r => g[u][q] = h[u][q]
  PROVE  /\ Held(g, r) = Held(h, r) + g[t][r] - h[t][r]
         /\ \A q \in Refs \ {r} : Held(g, q) = Held(h, q)
BY HeldStep, HeldSame

\* A handle is counted.
LEMMA HoldsCounted ==
  ASSUME CountsOK, NEW t \in Threads, NEW r \in Refs
  PROVE  /\ hold[t][r] \in 0 .. MaxHandles /\ hold[t][r] <= ref[r]
         /\ Holds(t, r) => Live(r) /\ sock[r] \in made
BY HeldNat DEF CountsOK, HoldType, Holds, Live

\* Nothing happens to the handles.
LEMMA CountsSame ==
  ASSUME CountsOK, UNCHANGED <<sock, ref, hold, dying, overlap>>, made \subseteq made'
  PROVE  CountsOK'
BY DEF CountsOK, Live

\* A count gets its first handle.
LEMMA CountsNew ==
  ASSUME CountsOK, NEW t \in Threads, NEW r \in Refs, NEW s \in made', NewHandle(t, r, s),
         UNCHANGED <<dying, overlap>>, made \subseteq made', made' \subseteq Sockets
  PROVE  CountsOK'
<1> USE DEF CountsOK
<1>1. ref[r] = 0 /\ \A u \in Threads : hold[u][r] = 0
  BY HoldsCounted DEF NewHandle, Live
<1>2. hold' = [hold EXCEPT ![t][r] = 1] /\ 1 \in 0 .. MaxHandles
  BY PoolMaxAssumption DEF NewHandle
<1>3. /\ hold' \in HoldType /\ hold'[t][r] = 1
      /\ \A u \in Threads, q \in Refs : u # t \/ q # r => hold'[u][q] = hold[u][q]
  BY <1>2 DEF HoldType
<1>4. Held(hold', r) = 1 /\ \A q \in Refs \ {r} : Held(hold', q) = Held(hold, q)
  BY <1>1, <1>3, HeldSet
<1>5. sock' \in [Refs -> Sockets \cup {None}] /\ ref' \in [Refs -> Nat]
  BY DEF NewHandle
<1>6. \A q \in Refs : Live(q)' => sock'[q] \in made'
  BY DEF NewHandle, Live
<1> QED
  BY <1>1, <1>3, <1>4, <1>5, <1>6 DEF NewHandle

LEMMA CountsCopy ==
  ASSUME CountsOK, NEW t \in Threads, NEW u \in Threads, NEW r \in Refs, CopyHandle(t, u, r)
  PROVE  CountsOK'
<1> USE DEF CountsOK
<1>1. hold' = [hold EXCEPT ![u][r] = @ + 1] /\ hold[u][r] + 1 \in 0 .. MaxHandles
  BY HoldsCounted, PoolMaxAssumption DEF CopyHandle
<1>2. /\ hold' \in HoldType /\ hold'[u][r] = hold[u][r] + 1
      /\ \A v \in Threads, q \in Refs : v # u \/ q # r => hold'[v][q] = hold[v][q]
  BY <1>1 DEF HoldType
<1>a. hold[u][r] \in Nat /\ Held(hold, r) \in Nat
  BY HoldsCounted, HeldNat, PoolMaxAssumption
<1>3. /\ Held(hold', r) = Held(hold, r) + 1
      /\ \A q \in Refs \ {r} : Held(hold', q) = Held(hold, q)
  BY <1>2, <1>a, HeldSet
<1>4. ref' \in [Refs -> Nat] /\ \A q \in Refs : Live(q)' => Live(q)
  BY HoldsCounted DEF CopyHandle, Live
<1> QED
  BY <1>2, <1>3, <1>4 DEF CopyHandle

LEMMA CountsAssign ==
  ASSUME CountsOK, NEW t \in Threads, NEW r \in Refs, NEW q \in Refs, AssignHandle(t, r, q)
  PROVE  CountsOK'
<1> USE DEF CountsOK
<1>0. ref[r] > 0 /\ hold[t][r] > 0 /\ r # q
  BY HoldsCounted DEF AssignHandle, Holds
<1>1. hold' \in HoldType
  BY <1>0 DEF AssignHandle, HoldType
<1>2. Held(hold', r) = Held(hold, r) - 1
  BY <1>0, <1>1, HeldStep DEF AssignHandle, HoldType
<1>3. Held(hold', q) = Held(hold, q) + 1
  BY <1>0, <1>1, HeldStep DEF AssignHandle, HoldType
<1>4. \A p \in Refs \ {r, q} : Held(hold', p) = Held(hold, p)
  BY <1>1, HeldSame DEF AssignHandle, HoldType
<1>5. ref' \in [Refs -> Nat] /\ \A p \in Refs : Live(p)' => Live(p)
  BY <1>0, HoldsCounted DEF AssignHandle, Live
<1> QED
  BY <1>0, <1>1, <1>2, <1>3, <1>4, <1>5 DEF AssignHandle

LEMMA CountsLower ==
  ASSUME CountsOK, NEW t \in Threads, NEW r \in Refs, LowerRef(t, r)
  PROVE  CountsOK'
<1> USE DEF CountsOK
<1>0. ref[r] > 0 /\ hold[t][r] > 0
  BY HoldsCounted DEF LowerRef, Holds
<1>1. hold' = [hold EXCEPT ![t][r] = @ - 1] /\ hold[t][r] - 1 \in 0 .. MaxHandles
  BY <1>0, HoldsCounted, PoolMaxAssumption DEF LowerRef
<1>2. /\ hold' \in HoldType /\ hold'[t][r] = hold[t][r] - 1
      /\ \A v \in Threads, q \in Refs : v # t \/ q # r => hold'[v][q] = hold[v][q]
  BY <1>1 DEF HoldType
<1>a. hold[t][r] \in Nat /\ Held(hold, r) \in Nat
  BY HoldsCounted, HeldNat, PoolMaxAssumption
<1>3. /\ Held(hold', r) = Held(hold, r) - 1
      /\ \A q \in Refs \ {r} : Held(hold', q) = Held(hold, q)
  BY <1>2, <1>a, HeldSet
<1>4. ref' \in [Refs -> Nat] /\ \A p \in Refs : Live(p)' => Live(p)
  BY <1>0 DEF LowerRef, Live
<1> QED
  BY <1>0, <1>2, <1>3, <1>4 DEF LowerRef

LEMMA CountsTest ==
  ASSUME CountsOK, NEW t \in Threads, TestRef(t)
  PROVE  CountsOK'
<1>1. \A p \in Refs : Live(p)' => Live(p)
  BY NoneAssumption DEF CountsOK, TestRef, Live
<1>2. made' = made /\ UNCHANGED <<sock, ref, hold, overlap>>
  BY DEF TestRef
<1>3. dying' \in [Threads -> Refs \cup {None}]
  BY DEF TestRef, CountsOK
<1> QED
  BY <1>1, <1>2, <1>3 DEF CountsOK

-----------------------------------------------------------------------------
(* What steps leave as it should be                                        *)

LEMMA PoolSame ==
  ASSUME PoolOK, UNCHANGED <<made, pool, lost>>, fds' = fds \/ fds' \in Nat
  PROVE  PoolOK' /\ made \subseteq made'
BY DEF PoolOK

\* A socket_base is taken, and may be lost at once.
LEMMA PoolGet ==
  ASSUME PoolOK, NEW s \in Sockets, GetSocket(s), lost' = lost \/ lost' = lost \cup {s}
  PROVE  PoolOK' /\ made \subseteq made' /\ s \in made'
<1>1. CASE pool[s] > 0 /\ pool' = [pool EXCEPT ![s] = @ - 1] /\ made' = made
  BY <1>1 DEF PoolOK, GetSocket
<1>2. CASE made' = made \cup {s} /\ pool' = pool
  BY <1>2 DEF PoolOK, GetSocket
<1> QED
  BY <1>1, <1>2 DEF GetSocket

LEMMA PoolRelease ==
  ASSUME PoolOK, NEW s \in made, Release(s), UNCHANGED <<made, fds>>
  PROVE  PoolOK' /\ made \subseteq made'
<1> HIDE DEF PoolSize
<1>1. CASE pool' = [pool EXCEPT ![s] = @ + 1] /\ lost' = lost
  BY <1>1 DEF PoolOK
<1>2. CASE lost' = lost \cup {s} /\ pool' = pool
  BY <1>2 DEF PoolOK
<1> QED
  BY <1>1, <1>2 DEF Release

LEMMA PoolThrows ==
  ASSUME PoolOK, GetThrows, lost' = lost \/ \E s \in made : lost' = lost \cup {s}
  PROVE  PoolOK' /\ made \subseteq made'
BY DEF PoolOK, GetThrows, Getfd

LEMMA MembersSame ==
  ASSUME MembersOK, UNCHANGED <<members, link, nConnect, history>>, calls' \in 0 .. MaxCalls
  PROVE  MembersOK'
BY DEF MembersOK, members, history

LEMMA OpsSame ==
  ASSUME OpsOK, ops' = ops, made \subseteq made'
  PROVE  OpsOK'
BY DEF OpsOK, OpOK

LEMMA OpsLess ==
  ASSUME OpsOK, NEW o \in ops, ops' = ops \ {o}, made \subseteq made'
  PROVE  OpsOK'
<1>1. IsFiniteSet(ops')
  BY FS_RemoveElement DEF OpsOK
<1> QED
  BY <1>1 DEF OpsOK, OpOK

LEMMA OpsMore ==
  ASSUME OpsOK, NEW o, o \in Operations, o.kind \in {"accept", "connect", "close"}, o.s \in Sockets,
         o.kind = "accept" => o.c \in made', ops' = ops \cup {o}, made \subseteq made'
  PROVE  OpsOK'
<1>1. IsFiniteSet(ops')
  BY FS_AddElement DEF OpsOK
<1> QED
  BY <1>1 DEF OpsOK, OpOK

LEMMA OperationIs ==
  ASSUME NEW kind \in {"listen", "accept", "connect", "close"}, NEW s \in Sockets \cup {None},
         NEW c \in Sockets \cup {None}
  PROVE  /\ Operation(kind, s, c) \in Operations /\ Nothing \in Operations
         /\ Operation(kind, s, c).kind = kind
         /\ Operation(kind, s, c).s = s /\ Operation(kind, s, c).c = c
BY DEF Operation, Nothing, Operations

\* No thread moves.
LEMMA ThreadsSame ==
  ASSUME ThreadsOK, UNCHANGED <<pc, cur, num, dying>>, made \subseteq made'
  PROVE  ThreadsOK'
BY DEF ThreadsOK, ThreadOK

\* One thread moves.
LEMMA ThreadMoves ==
  ASSUME ThreadsOK, NEW t \in Threads, made \subseteq made',
         pc' \in [Threads -> Steps], cur' \in [Threads -> Operations], num' \in [Threads -> Nat],
         \A u \in Threads \ {t} : pc'[u] = pc[u] /\ cur'[u] = cur[u] /\ dying'[u] = dying[u],
         ThreadOK(t)'
  PROVE  ThreadsOK'
BY DEF ThreadsOK, ThreadOK

\* A thread at rest, and one that returns to it
LEMMA ThreadDone ==
  ASSUME ThreadsOK, NEW t \in Threads, pc[t] # "destroy", Done(t), dying' = dying, made \subseteq made'
  PROVE  ThreadsOK'
<1>1. pc' \in [Threads -> Steps] /\ cur' \in [Threads -> Operations] /\ num' \in [Threads -> Nat]
  BY OperationIs DEF ThreadsOK, Done, Goto, Steps, Operations, Nothing
<1>2. \A u \in Threads \ {t} : pc'[u] = pc[u] /\ cur'[u] = cur[u] /\ dying'[u] = dying[u]
  BY DEF ThreadsOK, Done, Goto
<1>3. ThreadOK(t)'
  BY DEF ThreadsOK, ThreadOK, Done, Goto, Serving, WithoutHandle
<1> QED
  BY <1>1, <1>2, <1>3, ThreadMoves

\* A thread goes on with the same operation.
LEMMA ThreadGoes ==
  ASSUME ThreadsOK, NEW t \in Threads, NEW l \in Steps, Goto(t, l), cur' = cur,
         num' \in [Threads -> Nat], made \subseteq made',
         \A u \in Threads \ {t} : dying'[u] = dying[u],
         l # "destroy" => dying'[t] = None,
         l \in {"listen", "first"} \cup Serving => cur[t].s \in Sockets,
         l \in Serving => cur[t].c \in made,
         l \in {"handler", "drop"} => cur[t].r \in Refs
  PROVE  ThreadsOK'
<1>1. pc' \in [Threads -> Steps] /\ cur' \in [Threads -> Operations]
  BY DEF ThreadsOK, Goto
<1>2. \A u \in Threads \ {t} : pc'[u] = pc[u] /\ cur'[u] = cur[u] /\ dying'[u] = dying[u]
  BY DEF ThreadsOK, Goto
<1>3. ThreadOK(t)'
  BY DEF ThreadsOK, ThreadOK, Goto
<1> QED
  BY <1>1, <1>2, <1>3, ThreadMoves

LEMMA CallCounts ==
  ASSUME MembersOK, NEW t \in Threads, Call(t)
  PROVE  calls' \in 0 .. MaxCalls /\ pc[t] = "idle"
BY LimitsAssumption DEF MembersOK, Call

-----------------------------------------------------------------------------
(* The type invariant                                                      *)

\* The calls of a user that are over at once
LEMMA UserTypes ==
  ASSUME TypeInv, NEW t \in Threads
  PROVE  /\ Open(t) => TypeInv'
         /\ \A r \in Refs : Reopen(t, r) => TypeInv'
         /\ \A u \in Threads : \A r \in Refs : Copy(t, u, r) => TypeInv'
         /\ \A r \in Refs : \A q \in Refs : Assign(t, r, q) => TypeInv'
         /\ \A r \in Refs : RegisterAccept(t, r) => TypeInv'
         /\ \A r \in Refs : StopAccept(t, r) => TypeInv'
         /\ \A r \in Refs : CloseIdle(t, r) => TypeInv'
         /\ \A r \in Refs : Connect(t, r) => TypeInv'
<1> USE DEF TypeInv
<1>1. ASSUME Open(t) PROVE TypeInv'
  <2>a. CASE GetThrows /\ UNCHANGED <<isdisconnect, isaccept, sock, ref, hold>>
    <3>1. PoolOK' /\ made \subseteq made'
      BY <1>1, <2>a, PoolThrows DEF Open
    <3>2. CountsOK'
      BY <1>1, <2>a, <3>1, CountsSame DEF Open
    <3>3. MembersOK'
      BY <1>1, <2>a, MembersSame, CallCounts DEF Open, Unmoved, members
    <3>4. OpsOK' /\ ThreadsOK'
      BY <1>1, <3>1, OpsSame, ThreadsSame DEF Open, Unmoved, Waiting
    <3> QED
      BY <3>1, <3>2, <3>3, <3>4
  <2>b. SUFFICES ASSUME NEW s \in Sockets, NEW r \in Refs, GetReset(s), NewHandle(t, r, s) PROVE TypeInv'
    BY <1>1, <2>a DEF Open
  <2>1. PoolOK' /\ made \subseteq made'
    BY <1>1, <2>b, PoolGet DEF Open, GetReset
  <2>2. CountsOK'
    <3>1. s \in made' /\ made' \subseteq Sockets
      BY <1>1, <2>b, PoolGet DEF Open, GetReset, PoolOK
    <3> QED
      BY <1>1, <2>b, <2>1, <3>1, CountsNew DEF Open
  <2>3. MembersOK'
    BY <1>1, <2>b, CallCounts DEF Open, GetReset, Unmoved, MembersOK, history
  <2>4. OpsOK'
    BY <1>1, <2>1, OpsSame DEF Open, Unmoved
  <2>5. ThreadsOK'
    BY <1>1, <2>1, ThreadsSame DEF Open, Waiting
  <2> QED
    BY <2>1, <2>2, <2>3, <2>4, <2>5
<1>2. ASSUME NEW r \in Refs, Reopen(t, r) PROVE TypeInv'
  <2>1. PoolOK' /\ made \subseteq made'
    BY <1>2, PoolSame DEF Reopen, handles
  <2>2. CountsOK'
    BY <1>2, <2>1, CountsSame DEF Reopen, handles
  <2>3. MembersOK'
    BY <1>2, CallCounts DEF Reopen, Unmoved, MembersOK, history
  <2>4. OpsOK'
    BY <1>2, <2>1, OpsSame DEF Reopen, Unmoved
  <2>5. ThreadsOK'
    BY <1>2, <2>1, ThreadsSame DEF Reopen, Waiting, handles
  <2> QED
    BY <2>1, <2>2, <2>3, <2>4, <2>5
<1>3. ASSUME NEW u \in Threads, NEW r \in Refs, Copy(t, u, r) PROVE TypeInv'
  <2>1. PoolOK' /\ made \subseteq made'
    BY <1>3, PoolSame DEF Copy, CopyHandle
  <2>2. CountsOK'
    BY <1>3, CountsCopy DEF Copy
  <2>3. MembersOK'
    BY <1>3, MembersSame, CallCounts DEF Copy, Unmoved
  <2>4. OpsOK'
    BY <1>3, <2>1, OpsSame DEF Copy, Unmoved
  <2>5. ThreadsOK'
    BY <1>3, <2>1, ThreadsSame DEF Copy, CopyHandle, Waiting
  <2> QED
    BY <2>1, <2>2, <2>3, <2>4, <2>5
<1>4. ASSUME NEW r \in Refs, NEW q \in Refs, Assign(t, r, q) PROVE TypeInv'
  <2>1. PoolOK' /\ made \subseteq made'
    <3>1. sock[r] \in made
      BY <1>4, HoldsCounted DEF Assign, AssignHandle
    <3> QED
      BY <1>4, <3>1 DEF Assign, AssignHandle, PoolOK
  <2>2. CountsOK'
    BY <1>4, CountsAssign DEF Assign
  <2>3. MembersOK'
    BY <1>4, MembersSame, CallCounts DEF Assign, Unmoved
  <2>4. OpsOK'
    BY <1>4, <2>1, OpsSame DEF Assign, Unmoved
  <2>5. ThreadsOK'
    BY <1>4, <2>1, ThreadsSame DEF Assign, AssignHandle, Waiting
  <2> QED
    BY <2>1, <2>2, <2>3, <2>4, <2>5
<1>5. ASSUME NEW r \in Refs, RegisterAccept(t, r) PROVE TypeInv'
  <2>a. sock[r] \in made /\ made \subseteq Sockets
    BY <1>5, HoldsCounted DEF RegisterAccept, PoolOK
  <2>1. PoolOK' /\ made \subseteq made'
    BY <1>5, PoolSame DEF RegisterAccept, handles
  <2>2. CountsOK'
    BY <1>5, <2>1, CountsSame DEF RegisterAccept, handles
  <2>3. MembersOK'
    BY <1>5, <2>a, CallCounts DEF RegisterAccept, Unmoved, MembersOK, history
  <2>4. OpsOK'
    BY <1>5, <2>1, OpsSame DEF RegisterAccept, Unmoved
  <2>5. ThreadsOK'
    BY <1>5, <2>1, ThreadsSame DEF RegisterAccept, Waiting, handles
  <2> QED
    BY <2>1, <2>2, <2>3, <2>4, <2>5
<1>6. ASSUME NEW r \in Refs, StopAccept(t, r) PROVE TypeInv'
  <2>1. PoolOK' /\ made \subseteq made'
    BY <1>6, PoolSame DEF StopAccept, handles
  <2>2. CountsOK'
    BY <1>6, <2>1, CountsSame DEF StopAccept, handles
  <2>3. MembersOK'
    BY <1>6, CallCounts DEF StopAccept, Unmoved, MembersOK, history
  <2>4. OpsOK'
    BY <1>6, <2>1, OpsSame DEF StopAccept, Unmoved
  <2>5. ThreadsOK'
    BY <1>6, <2>1, ThreadsSame DEF StopAccept, Waiting, handles
  <2> QED
    BY <2>1, <2>2, <2>3, <2>4, <2>5
<1>7. ASSUME NEW r \in Refs, CloseIdle(t, r) PROVE TypeInv'
  <2>1. PoolOK' /\ made \subseteq made'
    BY <1>7, PoolSame DEF CloseIdle, handles
  <2>2. CountsOK'
    BY <1>7, <2>1, CountsSame DEF CloseIdle, handles
  <2>3. MembersOK'
    BY <1>7, CallCounts DEF CloseIdle, Unmoved, MembersOK, history
  <2>4. OpsOK'
    BY <1>7, <2>1, OpsSame DEF CloseIdle, Unmoved
  <2>5. ThreadsOK'
    BY <1>7, <2>1, ThreadsSame DEF CloseIdle, Waiting, handles
  <2> QED
    BY <2>1, <2>2, <2>3, <2>4, <2>5
<1>8. ASSUME NEW r \in Refs, Connect(t, r) PROVE TypeInv'
  <2>a. sock[r] \in made /\ made \subseteq Sockets
    BY <1>8, HoldsCounted DEF Connect, PoolOK
  <2>1. PoolOK' /\ made \subseteq made'
    BY <1>8, PoolSame DEF Connect, handles
  <2>2. CountsOK'
    BY <1>8, <2>1, CountsSame DEF Connect, handles
  <2>3. MembersOK'
    BY <1>8, CallCounts DEF Connect, MembersOK, history
  <2>4. OpsOK'
    <3> DEFINE o == Operation("connect", sock[r], None)
    <3>1. ops' = ops \/ ops' = ops \cup {o}
      BY <1>8 DEF Connect, Connecting
    <3>2. o \in Operations /\ o.kind = "connect" /\ o.s \in Sockets
      BY <2>a, OperationIs
    <3> HIDE DEF o
    <3> QED
      BY <2>1, <3>1, <3>2, OpsSame, OpsMore
  <2>5. ThreadsOK'
    BY <1>8, <2>1, ThreadsSame DEF Connect, Waiting, handles
  <2> QED
    BY <2>1, <2>2, <2>3, <2>4, <2>5
<1> QED
  BY <1>1, <1>2, <1>3, <1>4, <1>5, <1>6, <1>7, <1>8

\* The calls of a user that take more steps
LEMMA CallTypes ==
  ASSUME TypeInv, NEW t \in Threads
  PROVE  /\ \A r \in Refs : Destroy(t, r) => TypeInv'
         /\ Destroyed(t) => TypeInv'
         /\ \A r \in Refs : Listen(t, r) => TypeInv'
         /\ SetAccept(t) => TypeInv'
         /\ \A r \in Refs : Close(t, r) => TypeInv'
         /\ Uncount(t) => TypeInv'
         /\ Lower(t) => TypeInv'
<1> USE DEF TypeInv
<1>1. ASSUME NEW r \in Refs, Destroy(t, r) PROVE TypeInv'
  <2>1. PoolOK' /\ made \subseteq made'
    BY <1>1, PoolSame DEF Destroy, LowerRef
  <2>2. CountsOK'
    BY <1>1, CountsLower DEF Destroy
  <2>3. MembersOK'
    BY <1>1, MembersSame, CallCounts DEF Destroy, Unmoved
  <2>4. OpsOK'
    BY <1>1, <2>1, OpsSame DEF Destroy, Unmoved
  <2>5. ThreadsOK'
    <3>1. \A u \in Threads \ {t} : dying'[u] = dying[u]
      BY <1>1 DEF Destroy, LowerRef, CountsOK
    <3> QED
      BY <1>1, <2>1, <3>1, ThreadGoes DEF Destroy, ThreadsOK, Steps, Serving, WithoutHandle
  <2> QED
    BY <2>1, <2>2, <2>3, <2>4, <2>5
<1>2. ASSUME Destroyed(t) PROVE TypeInv'
  <2>1. PoolOK' /\ made \subseteq made'
    <3>1. dying[t] \in Refs /\ Live(dying[t])
      BY <1>2 DEF Destroyed, TestRef, CountsOK, Live
    <3>2. sock[dying[t]] \in made
      BY <3>1 DEF CountsOK
    <3> QED
      BY <1>2, <3>2, PoolRelease, PoolSame DEF Destroyed, TestRef
  <2>2. CountsOK'
    BY <1>2, CountsTest DEF Destroyed
  <2>3. MembersOK'
    BY <1>2, MembersSame DEF Destroyed, Unmoved, MembersOK
  <2>4. OpsOK'
    BY <1>2, <2>1, OpsSame DEF Destroyed, Unmoved
  <2>5. ThreadsOK'
    <3>1. \A u \in Threads : dying'[u] = IF u = t THEN None ELSE dying[u]
      BY <1>2 DEF Destroyed, TestRef, CountsOK
    <3> QED
      BY <1>2, <2>1, <3>1, ThreadGoes DEF Destroyed, ThreadsOK, Steps, Serving, WithoutHandle
  <2> QED
    BY <2>1, <2>2, <2>3, <2>4, <2>5
<1>3. ASSUME NEW r \in Refs, Listen(t, r) PROVE TypeInv'
  <2>a. sock[r] \in made /\ made \subseteq Sockets
    BY <1>3, HoldsCounted DEF Listen, PoolOK
  <2>1. PoolOK' /\ made \subseteq made'
    BY <1>3, PoolSame DEF Listen, handles
  <2>2. CountsOK'
    BY <1>3, <2>1, CountsSame DEF Listen, handles
  <2>3. MembersOK'
    BY <1>3, MembersSame, CallCounts DEF Listen, Unmoved
  <2>4. OpsOK'
    BY <1>3, <2>1, OpsSame DEF Listen, Unmoved
  <2>5. ThreadsOK'
    <3> DEFINE o == Operation("listen", sock[r], None)
    <3>1. o \in Operations /\ o.s \in Sockets
      BY <2>a, OperationIs
    <3>2. cur' = [cur EXCEPT ![t] = o] /\ pc' = [pc EXCEPT ![t] = "listen"] /\ UNCHANGED <<num, dying>> /\ pc[t] = "idle"
      BY <1>3 DEF Listen, Goto, handles, Call
    <3> HIDE DEF o
    <3>3. cur' \in [Threads -> Operations] /\ pc' \in [Threads -> Steps] /\ num' \in [Threads -> Nat]
      BY <3>1, <3>2 DEF ThreadsOK, Steps
    <3>4. \A u \in Threads \ {t} : pc'[u] = pc[u] /\ cur'[u] = cur[u] /\ dying'[u] = dying[u]
      BY <3>2 DEF ThreadsOK
    <3>5. ThreadOK(t)'
      BY <3>1, <3>2 DEF ThreadsOK, ThreadOK, Serving, WithoutHandle
    <3> QED
      BY <2>1, <3>3, <3>4, <3>5, ThreadMoves
  <2> QED
    BY <2>1, <2>2, <2>3, <2>4, <2>5
<1>4. ASSUME SetAccept(t) PROVE TypeInv'
  <2>a. cur[t].s \in Sockets /\ pc[t] = "listen"
    BY <1>4 DEF SetAccept, ThreadsOK, ThreadOK
  <2>1. PoolOK' /\ made \subseteq made'
    BY <1>4, PoolSame DEF SetAccept, handles
  <2>2. CountsOK'
    BY <1>4, <2>1, CountsSame DEF SetAccept, handles
  <2>3. MembersOK'
    BY <1>4, <2>a DEF SetAccept, MembersOK
  <2>4. OpsOK'
    BY <1>4, <2>1, OpsSame DEF SetAccept
  <2>5. ThreadsOK'
    <3>1. CASE Done(t)
      BY <1>4, <2>a, <2>1, <3>1, ThreadDone DEF SetAccept, handles
    <3>2. CASE Goto(t, "first") /\ UNCHANGED <<cur, num>>
      BY <1>4, <2>a, <2>1, <3>2, ThreadGoes DEF SetAccept, handles, ThreadsOK, ThreadOK, Steps, Serving, WithoutHandle
    <3> QED
      BY <1>4, <3>1, <3>2 DEF SetAccept
  <2> QED
    BY <2>1, <2>2, <2>3, <2>4, <2>5
<1>5. ASSUME NEW r \in Refs, Close(t, r) PROVE TypeInv'
  <2>a. sock[r] \in made /\ made \subseteq Sockets
    BY <1>5, HoldsCounted DEF Close, PoolOK
  <2>1. PoolOK' /\ made \subseteq made'
    BY <1>5, PoolSame DEF Close, handles
  <2>2. CountsOK'
    BY <1>5, <2>1, CountsSame DEF Close, handles
  <2>3. MembersOK'
    BY <1>5, CallCounts DEF Close, MembersOK, members
  <2>4. OpsOK'
    <3> DEFINE o == Operation("close", sock[r], None)
    <3>1. ops' = ops \cup {o}
      BY <1>5 DEF Close
    <3>2. o \in Operations /\ o.kind = "close" /\ o.s \in Sockets
      BY <2>a, OperationIs
    <3> HIDE DEF o
    <3> QED
      BY <2>1, <3>1, <3>2, OpsMore
  <2>5. ThreadsOK'
    BY <1>5, <2>1, ThreadGoes DEF Close, Call, handles, ThreadsOK, ThreadOK, Steps, Serving, WithoutHandle
  <2> QED
    BY <2>1, <2>2, <2>3, <2>4, <2>5
<1>6. ASSUME Uncount(t) PROVE TypeInv'
  <2>1. PoolOK' /\ made \subseteq made'
    BY <1>6, PoolSame DEF Uncount, ReadCount, handles
  <2>2. CountsOK'
    BY <1>6, <2>1, CountsSame DEF Uncount, ReadCount, handles
  <2>3. MembersOK'
    BY <1>6, MembersSame DEF Uncount, ReadCount, MembersOK
  <2>4. OpsOK'
    BY <1>6, <2>1, OpsSame DEF Uncount, ReadCount
  <2>5. ThreadsOK'
    <3>1. num' \in [Threads -> Nat]
      BY <1>6 DEF Uncount, ReadCount, ThreadsOK, MembersOK
    <3> QED
      BY <1>6, <2>1, <3>1, ThreadGoes DEF Uncount, ReadCount, handles, ThreadsOK, ThreadOK, Steps, Serving, WithoutHandle
  <2> QED
    BY <2>1, <2>2, <2>3, <2>4, <2>5
<1>7. ASSUME Lower(t) PROVE TypeInv'
  <2>1. PoolOK' /\ made \subseteq made'
    BY <1>7, PoolSame DEF Lower, handles
  <2>2. CountsOK'
    BY <1>7, <2>1, CountsSame DEF Lower, handles
  <2>3. MembersOK'
    <3>1. nConnect' \in 0 .. Wrap - 1
      <4>1. num[t] \in Nat /\ Wrap \in Nat \ {0}
        BY LimitsAssumption DEF ThreadsOK
      <4> QED
        BY <1>7, <4>1 DEF Lower
    <3> QED
      BY <1>7, <3>1 DEF Lower, MembersOK, members
  <2>4. OpsOK'
    BY <1>7, <2>1, OpsSame DEF Lower
  <2>5. ThreadsOK'
    BY <1>7, <2>1, ThreadDone DEF Lower, handles
  <2> QED
    BY <2>1, <2>2, <2>3, <2>4, <2>5
<1> QED
  BY <1>1, <1>2, <1>3, <1>4, <1>5, <1>6, <1>7

\* OnAccept
LEMMA AcceptTypes ==
  ASSUME TypeInv, NEW t \in Threads
  PROVE  /\ CountAccept(t) => TypeInv'
         /\ Raise(t) => TypeInv'
         /\ Ask(t) => TypeInv'
         /\ Client(t) => TypeInv'
         /\ Handle(t) => TypeInv'
         /\ \A u \in Threads : HandlerCopies(t, u) => TypeInv'
         /\ HandlerReturns(t) => TypeInv'
         /\ Drop(t) => TypeInv'
<1> USE DEF TypeInv
<1>1. ASSUME CountAccept(t) PROVE TypeInv'
  <2>1. PoolOK' /\ made \subseteq made'
    BY <1>1, PoolSame DEF CountAccept, ReadCount, handles
  <2>2. CountsOK'
    BY <1>1, <2>1, CountsSame DEF CountAccept, ReadCount, handles
  <2>3. MembersOK'
    BY <1>1, MembersSame DEF CountAccept, ReadCount, MembersOK
  <2>4. OpsOK'
    BY <1>1, <2>1, OpsSame DEF CountAccept, ReadCount
  <2>5. ThreadsOK'
    <3>1. num' \in [Threads -> Nat]
      BY <1>1 DEF CountAccept, ReadCount, ThreadsOK, MembersOK
    <3> QED
      BY <1>1, <2>1, <3>1, ThreadGoes DEF CountAccept, ReadCount, handles, ThreadsOK, ThreadOK, Steps, Serving, WithoutHandle
  <2> QED
    BY <2>1, <2>2, <2>3, <2>4, <2>5
<1>2. ASSUME Raise(t) PROVE TypeInv'
  <2>a. cur[t].s \in Sockets /\ pc[t] = "raise"
    BY <1>2 DEF Raise, ThreadsOK, ThreadOK, Serving, WithoutHandle
  <2>1. PoolOK' /\ made \subseteq made'
    BY <1>2, PoolSame DEF Raise, handles
  <2>2. CountsOK'
    BY <1>2, <2>1, CountsSame DEF Raise, handles
  <2>3. MembersOK'
    <3>1. nConnect' \in 0 .. Wrap - 1
      <4>1. num[t] \in Nat /\ Wrap \in Nat \ {0}
        BY LimitsAssumption DEF ThreadsOK
      <4> QED
        BY <1>2, <4>1 DEF Raise
    <3> QED
      BY <1>2, <2>a, <3>1 DEF Raise, MembersOK, members
  <2>4. OpsOK'
    BY <1>2, <2>1, OpsSame DEF Raise
  <2>5. ThreadsOK'
    <3>1. PICK l \in {"ask", "client"} : Goto(t, l)
      BY <1>2 DEF Raise
    <3>2. num' \in [Threads -> Nat] /\ UNCHANGED <<cur, dying>>
      BY <1>2 DEF Raise, ThreadsOK, handles
    <3> QED
      BY <2>a, <2>1, <3>1, <3>2, ThreadGoes DEF ThreadsOK, ThreadOK, Steps, Serving, WithoutHandle
  <2> QED
    BY <2>1, <2>2, <2>3, <2>4, <2>5
<1>0. ASSUME Ask(t) PROVE TypeInv'
  <2>a. cur[t].s \in Sockets /\ pc[t] = "ask"
    BY <1>0 DEF Ask, ThreadsOK, ThreadOK, Serving, WithoutHandle
  <2>1. PoolOK' /\ made \subseteq made'
    BY <1>0, PoolSame DEF Ask, handles
  <2>2. CountsOK'
    BY <1>0, <2>1, CountsSame DEF Ask, handles
  <2>3. MembersOK'
    BY <1>0, MembersSame DEF Ask, history, MembersOK
  <2>4. OpsOK'
    BY <1>0, <2>1, OpsSame DEF Ask
  <2>5. ThreadsOK'
    <3>1. PICK l \in {"next", "client"} : Goto(t, l)
      BY <1>0 DEF Ask
    <3>2. UNCHANGED <<num, cur, dying>>
      BY <1>0 DEF Ask, handles
    <3> QED
      BY <2>a, <2>1, <3>1, <3>2, ThreadGoes DEF ThreadsOK, ThreadOK, Steps, Serving, WithoutHandle
  <2> QED
    BY <2>1, <2>2, <2>3, <2>4, <2>5
<1>3. ASSUME Client(t) PROVE TypeInv'
  <2>1. PoolOK' /\ made \subseteq made'
    <3>1. fds' = fds \/ fds' \in Nat
      BY <1>3 DEF Client, Releasefd, PoolOK
    <3> QED
      BY <1>3, <3>1, PoolSame DEF Client
  <2>2. CountsOK'
    BY <1>3, <2>1, CountsSame DEF Client
  <2>3. MembersOK'
    <3>1. isdisconnect' \in [Sockets -> BOOLEAN]
      BY <1>3 DEF Client, MembersOK
    <3> QED
      BY <1>3, <3>1 DEF Client, MembersOK, history
  <2>4. OpsOK'
    BY <1>3, <2>1, OpsSame DEF Client
  <2>5. ThreadsOK'
    BY <1>3, <2>1, ThreadGoes DEF Client, handles, ThreadsOK, ThreadOK, Steps, Serving, WithoutHandle
  <2> QED
    BY <2>1, <2>2, <2>3, <2>4, <2>5
<1>4. ASSUME Handle(t) PROVE TypeInv'
  <2>a. PICK r \in Refs : NewHandle(t, r, cur[t].c) /\ cur' = [cur EXCEPT ![t].r = r]
    BY <1>4 DEF Handle
  <2>b. /\ pc[t] = "handle" /\ cur[t].s \in Sockets /\ cur[t].c \in made /\ made \subseteq Sockets
        /\ UNCHANGED <<made, pool, lost, fds, dying, overlap, members, num, calls>> /\ Unmoved
    BY <1>4 DEF Handle, ThreadsOK, ThreadOK, Serving, WithoutHandle, PoolOK
  <2>1. PoolOK' /\ made \subseteq made'
    BY <2>b, PoolSame
  <2>2. CountsOK'
    BY <2>a, <2>b, <2>1, CountsNew
  <2>3. MembersOK'
    BY <2>b, MembersSame DEF Unmoved, MembersOK
  <2>4. OpsOK'
    BY <2>b, <2>1, OpsSame DEF Unmoved
  <2>5. ThreadsOK'
    <3>1. PICK l \in {"handler", "drop"} : pc' = [pc EXCEPT ![t] = l]
      BY <1>4 DEF Handle, Goto
    <3>2. cur'[t].s = cur[t].s /\ cur'[t].c = cur[t].c /\ cur'[t].r = r
      BY <2>a DEF ThreadsOK, Operations
    <3>3. cur' \in [Threads -> Operations]
      BY <2>a DEF ThreadsOK, Operations
    <3>4. \A u \in Threads \ {t} : pc'[u] = pc[u] /\ cur'[u] = cur[u] /\ dying'[u] = dying[u]
      BY <2>a, <2>b, <3>1 DEF ThreadsOK
    <3>5. ThreadOK(t)'
      BY <2>b, <2>1, <3>1, <3>2 DEF ThreadsOK, ThreadOK, Serving, WithoutHandle
    <3>6. pc' \in [Threads -> Steps] /\ num' \in [Threads -> Nat]
      BY <2>b, <3>1 DEF ThreadsOK, Steps
    <3> QED
      BY <2>1, <3>3, <3>4, <3>5, <3>6, ThreadMoves
  <2> QED
    BY <2>1, <2>2, <2>3, <2>4, <2>5
<1>5. ASSUME NEW u \in Threads, HandlerCopies(t, u) PROVE TypeInv'
  <2>a. cur[t].r \in Refs
    BY <1>5 DEF HandlerCopies, ThreadsOK, ThreadOK
  <2>1. PoolOK' /\ made \subseteq made'
    BY <1>5, PoolSame DEF HandlerCopies, CopyHandle
  <2>2. CountsOK'
    BY <1>5, <2>a, CountsCopy DEF HandlerCopies
  <2>3. MembersOK'
    BY <1>5, MembersSame DEF HandlerCopies, Unmoved, MembersOK
  <2>4. OpsOK'
    BY <1>5, <2>1, OpsSame DEF HandlerCopies, Unmoved
  <2>5. ThreadsOK'
    BY <1>5, <2>1, ThreadGoes DEF HandlerCopies, CopyHandle, ThreadsOK, ThreadOK, Steps, Serving, WithoutHandle
  <2> QED
    BY <2>1, <2>2, <2>3, <2>4, <2>5
<1>6. ASSUME HandlerReturns(t) PROVE TypeInv'
  <2>1. PoolOK' /\ made \subseteq made'
    BY <1>6, PoolSame DEF HandlerReturns, handles
  <2>2. CountsOK'
    BY <1>6, <2>1, CountsSame DEF HandlerReturns, handles
  <2>3. MembersOK'
    BY <1>6, MembersSame DEF HandlerReturns, Unmoved, MembersOK
  <2>4. OpsOK'
    BY <1>6, <2>1, OpsSame DEF HandlerReturns, Unmoved
  <2>5. ThreadsOK'
    BY <1>6, <2>1, ThreadGoes DEF HandlerReturns, handles, ThreadsOK, ThreadOK, Steps, Serving, WithoutHandle
  <2> QED
    BY <2>1, <2>2, <2>3, <2>4, <2>5
<1>7. ASSUME Drop(t) PROVE TypeInv'
  <2>a. cur[t].r \in Refs /\ LowerRef(t, cur[t].r)
    BY <1>7 DEF Drop, ThreadsOK, ThreadOK
  <2>1. PoolOK' /\ made \subseteq made'
    BY <2>a, PoolSame DEF LowerRef
  <2>2. CountsOK'
    BY <2>a, CountsLower
  <2>3. MembersOK'
    BY <1>7, MembersSame DEF Drop, Unmoved, MembersOK
  <2>4. OpsOK'
    BY <1>7, <2>1, OpsSame DEF Drop, Unmoved
  <2>5. ThreadsOK'
    <3>1. cur' \in [Threads -> Operations] /\ pc' \in [Threads -> Steps] /\ num' \in [Threads -> Nat]
      BY <1>7, OperationIs DEF Drop, Goto, ThreadsOK, Steps, Operations, Nothing
    <3>2. \A u \in Threads \ {t} : pc'[u] = pc[u] /\ cur'[u] = cur[u] /\ dying'[u] = dying[u]
      BY <1>7 DEF Drop, Goto, LowerRef, ThreadsOK, CountsOK
    <3>3. ThreadOK(t)'
      BY <1>7 DEF Drop, Goto, ThreadsOK, ThreadOK, Serving, WithoutHandle
    <3> QED
      BY <2>1, <3>1, <3>2, <3>3, ThreadMoves
  <2> QED
    BY <2>1, <2>2, <2>3, <2>4, <2>5
<1> QED
  BY <1>0, <1>1, <1>2, <1>3, <1>4, <1>5, <1>6, <1>7

\* The AcceptEx
LEMMA NextTypes ==
  ASSUME TypeInv, NEW t \in Threads
  PROVE  /\ FirstAccept(t) => TypeInv'
         /\ NextAccept(t) => TypeInv'
<1> USE DEF TypeInv
<1>1. ASSUME FirstAccept(t) PROVE TypeInv'
  <2> DEFINE s == cur[t].s
  <2>a. s \in Sockets /\ pc[t] = "first"
    BY <1>1 DEF FirstAccept, ThreadsOK, ThreadOK
  <2>1. PoolOK' /\ made \subseteq made'
    <3>1. CASE \E c \in Sockets : Accepting(s, c) \/ NotAccepting(c)
      BY <1>1, <3>1, PoolGet DEF FirstAccept, Accepting, NotAccepting, GetReset
    <3>2. CASE AcceptThrows
      BY <1>1, <3>2, PoolThrows DEF FirstAccept, AcceptThrows
    <3> QED
      BY <1>1, <3>1, <3>2 DEF FirstAccept
  <2>2. CountsOK'
    BY <1>1, <2>1, CountsSame DEF FirstAccept
  <2>3. MembersOK'
    <3>1. isdisconnect' \in [Sockets -> BOOLEAN] /\ isaccept' \in [Sockets -> BOOLEAN]
      BY <1>1 DEF FirstAccept, Accepting, NotAccepting, AcceptThrows, GetReset, MembersOK
    <3>2. cut' \subseteq Sockets /\ starts' \in Nat
      BY <1>1, <2>a DEF FirstAccept, MembersOK
    <3> QED
      BY <1>1, <3>1, <3>2 DEF FirstAccept, MembersOK
  <2>4. OpsOK'
    <3>1. ASSUME NEW c \in Sockets, Accepting(s, c) PROVE OpsOK'
      <4> DEFINE o == Operation("accept", s, c)
      <4>1. ops' = ops \cup {o} /\ c \in made'
        BY <1>1, <3>1, PoolGet DEF FirstAccept, Accepting, GetReset
      <4>2. o \in Operations /\ o.kind = "accept" /\ o.s \in Sockets /\ o.c = c
        BY <2>a, OperationIs
      <4> HIDE DEF o
      <4> QED
        BY <2>1, <4>1, <4>2, OpsMore
    <3>2. CASE ops' = ops
      BY <2>1, <3>2, OpsSame
    <3> QED
      BY <1>1, <3>1, <3>2 DEF FirstAccept, NotAccepting, AcceptThrows
  <2>5. ThreadsOK'
    <3>1. CASE Done(t)
      BY <1>1, <2>a, <2>1, <3>1, ThreadDone DEF FirstAccept
    <3>2. CASE num' = [num EXCEPT ![t] = num[t] + 1] /\ UNCHANGED <<pc, cur>>
      <4>1. dying' = dying
        BY <1>1 DEF FirstAccept
      <4>2. num' \in [Threads -> Nat]
        <5>1. num[t] + 1 \in Nat
          BY DEF ThreadsOK
        <5> QED
          BY <3>2, <5>1 DEF ThreadsOK
      <4> QED
        BY <2>1, <3>2, <4>1, <4>2 DEF ThreadsOK, ThreadOK
    <3>3. Done(t) \/ (num' = [num EXCEPT ![t] = num[t] + 1] /\ UNCHANGED <<pc, cur>>)
      <4>1. CASE num[t] + 1 < Attempts
        BY <1>1, <4>1 DEF FirstAccept
      <4>2. CASE ~ (num[t] + 1 < Attempts)
        BY <1>1, <4>2 DEF FirstAccept
      <4> QED
        BY <4>1, <4>2
    <3> QED
      BY <3>1, <3>2, <3>3
  <2> QED
    BY <2>1, <2>2, <2>3, <2>4, <2>5
<1>2. ASSUME NextAccept(t) PROVE TypeInv'
  <2> DEFINE s == cur[t].s
  <2>a. s \in Sockets /\ cur[t].c \in made /\ pc[t] = "next"
    BY <1>2 DEF NextAccept, ThreadsOK, ThreadOK, Serving, WithoutHandle
  <2>1. PoolOK' /\ made \subseteq made'
    <3>1. CASE \E c \in Sockets : Accepting(s, c) \/ NotAccepting(c)
      BY <1>2, <3>1, PoolGet DEF NextAccept, Accepting, NotAccepting, GetReset
    <3>2. CASE GetThrows /\ lost' = lost \cup {cur[t].c}
      BY <1>2, <2>a, <3>2, PoolThrows DEF NextAccept
    <3> QED
      BY <1>2, <3>1, <3>2 DEF NextAccept
  <2>2. CountsOK'
    BY <1>2, <2>1, CountsSame DEF NextAccept
  <2>3. MembersOK'
    <3>1. isdisconnect' \in [Sockets -> BOOLEAN] /\ isaccept' \in [Sockets -> BOOLEAN]
      BY <1>2 DEF NextAccept, Accepting, NotAccepting, AcceptThrows, GetReset, MembersOK
    <3>2. cut' \subseteq Sockets
      BY <1>2, <2>a DEF NextAccept, MembersOK
    <3> QED
      BY <1>2, <3>1, <3>2 DEF NextAccept, MembersOK
  <2>4. OpsOK'
    <3>1. ASSUME NEW c \in Sockets, Accepting(s, c) PROVE OpsOK'
      <4> DEFINE o == Operation("accept", s, c)
      <4>1. ops' = ops \cup {o} /\ c \in made'
        BY <1>2, <3>1, PoolGet DEF NextAccept, Accepting, GetReset
      <4>2. o \in Operations /\ o.kind = "accept" /\ o.s \in Sockets /\ o.c = c
        BY <2>a, OperationIs
      <4> HIDE DEF o
      <4> QED
        BY <2>1, <4>1, <4>2, OpsMore
    <3>2. CASE ops' = ops
      BY <2>1, <3>2, OpsSame
    <3> QED
      BY <1>2, <3>1, <3>2 DEF NextAccept, NotAccepting, AcceptThrows
  <2>5. ThreadsOK'
    <3>1. CASE Done(t)
      BY <1>2, <2>a, <2>1, <3>1, ThreadDone DEF NextAccept
    <3>2. CASE Goto(t, "client") /\ UNCHANGED <<cur, num>>
      BY <1>2, <2>a, <2>1, <3>2, ThreadGoes DEF NextAccept, ThreadsOK, ThreadOK, Steps, Serving, WithoutHandle
    <3> QED
      BY <1>2, <3>1, <3>2 DEF NextAccept
  <2> QED
    BY <2>1, <2>2, <2>3, <2>4, <2>5
<1> QED
  BY <1>1, <1>2

\* network()
LEMMA RunTypes ==
  ASSUME TypeInv, NEW t \in Threads
  PROVE  /\ AcceptComplete(t) => TypeInv'
         /\ ConnectFails(t) => TypeInv'
         /\ ConnectComplete(t) => TypeInv'
         /\ CloseComplete(t) => TypeInv'
<1> USE DEF TypeInv
<1>1. ASSUME AcceptComplete(t) PROVE TypeInv'
  <2>a. PICK o \in ops, err \in BOOLEAN :
         /\ pc[t] = "idle" /\ o.kind = "accept"
         /\ ops' = ops \ {o}
         /\ cur' = [cur EXCEPT ![t] = [o EXCEPT !.err = err]]
         /\ IF err THEN UNCHANGED <<link, guests>>
            ELSE link' = [link EXCEPT ![o.c] = "on"] /\ guests' = guests \cup {o.c}
         /\ Goto(t, "on_accept")
         /\ UNCHANGED <<handles, members, nConnect, num, starts, cut, unearned, raced, calls>>
    BY <1>1 DEF AcceptComplete
  <2>b. OpOK(o) /\ o.c \in made /\ made \subseteq Sockets
    BY <2>a DEF OpsOK, OpOK, PoolOK
  <2>1. PoolOK' /\ made \subseteq made'
    BY <2>a, PoolSame DEF handles
  <2>2. CountsOK'
    BY <2>a, <2>1, CountsSame DEF handles
  <2>3. MembersOK'
    BY <2>a, <2>b DEF MembersOK, members
  <2>4. OpsOK'
    BY <2>a, <2>1, OpsLess
  <2>5. ThreadsOK'
    <3>1. [o EXCEPT !.err = err] \in Operations
      BY <2>b DEF OpOK, Operations
    <3>2. cur' \in [Threads -> Operations] /\ cur'[t].s = o.s /\ cur'[t].c = o.c
      BY <2>a, <2>b, <3>1 DEF ThreadsOK, OpOK, Operations
    <3>3. \A u \in Threads \ {t} : pc'[u] = pc[u] /\ cur'[u] = cur[u] /\ dying'[u] = dying[u]
      BY <2>a DEF Goto, ThreadsOK, handles
    <3>4. pc' \in [Threads -> Steps] /\ num' \in [Threads -> Nat]
      BY <2>a DEF Goto, ThreadsOK, Steps
    <3>5. ThreadOK(t)'
      BY <2>a, <2>b, <2>1, <3>2 DEF Goto, ThreadsOK, ThreadOK, OpOK, handles
    <3> QED
      BY <2>1, <3>2, <3>3, <3>4, <3>5, ThreadMoves
  <2> QED
    BY <2>1, <2>2, <2>3, <2>4, <2>5
<1>2. ASSUME ConnectFails(t) PROVE TypeInv'
  <2>1. PoolOK' /\ made \subseteq made'
    BY <1>2, PoolSame DEF ConnectFails, handles
  <2>2. CountsOK'
    BY <1>2, <2>1, CountsSame DEF ConnectFails, handles
  <2>3. MembersOK'
    <3>1. \A o \in ops : o.s \in Sockets
      BY DEF OpsOK, OpOK
    <3> QED
      BY <1>2, <3>1 DEF ConnectFails, MembersOK, history
  <2>4. OpsOK'
    BY <1>2, <2>1, OpsSame, OpsLess DEF ConnectFails
  <2>5. ThreadsOK'
    BY <1>2, <2>1, ThreadsSame DEF ConnectFails, Waiting, handles
  <2> QED
    BY <2>1, <2>2, <2>3, <2>4, <2>5
<1>3. ASSUME ConnectComplete(t) PROVE TypeInv'
  <2>1. PoolOK' /\ made \subseteq made'
    BY <1>3, PoolSame DEF ConnectComplete, handles
  <2>2. CountsOK'
    BY <1>3, <2>1, CountsSame DEF ConnectComplete, handles
  <2>3. MembersOK'
    <3>1. \A o \in ops : o.s \in Sockets
      BY DEF OpsOK, OpOK
    <3> QED
      BY <1>3, <3>1 DEF ConnectComplete, MembersOK, history
  <2>4. OpsOK'
    BY <1>3, <2>1, OpsLess DEF ConnectComplete
  <2>5. ThreadsOK'
    BY <1>3, <2>1, ThreadsSame DEF ConnectComplete, Waiting, handles
  <2> QED
    BY <2>1, <2>2, <2>3, <2>4, <2>5
<1>4. ASSUME CloseComplete(t) PROVE TypeInv'
  <2>1. PoolOK' /\ made \subseteq made'
    BY <1>4, PoolSame DEF CloseComplete, handles
  <2>2. CountsOK'
    BY <1>4, <2>1, CountsSame DEF CloseComplete, handles
  <2>3. MembersOK'
    BY <1>4 DEF CloseComplete, MembersOK, history
  <2>4. OpsOK'
    BY <1>4, <2>1, OpsLess DEF CloseComplete
  <2>5. ThreadsOK'
    BY <1>4, <2>1, ThreadsSame DEF CloseComplete, Waiting, handles
  <2> QED
    BY <2>1, <2>2, <2>3, <2>4, <2>5
<1> QED
  BY <1>1, <1>2, <1>3, <1>4

LEMMA InitTypes == Init => TypeInv
<1> SUFFICES ASSUME Init PROVE TypeInv
  OBVIOUS
<1> USE DEF Init, HandlesInit
<1>1. PoolOK
  BY DEF PoolOK
<1>2. CountsOK
  <2>1. hold \in HoldType /\ \A t \in Threads, r \in Refs : hold[t][r] = 0
    BY PoolMaxAssumption DEF HoldType
  <2>2. \A r \in Refs : Held(hold, r) = 0
    BY <2>1, HeldNat
  <2>3. \A r \in Refs : ~ Live(r)
    BY NoneAssumption DEF Live
  <2> QED
    BY <2>1, <2>2, <2>3 DEF CountsOK
<1>3. MembersOK
  <2>1. nConnect \in 0 .. Wrap - 1 /\ calls \in 0 .. MaxCalls /\ starts \in Nat
    BY LimitsAssumption
  <2>2. tries \in [Sockets -> Nat] /\ link \in [Sockets -> {"none", "listening", "on"}]
    OBVIOUS
  <2> QED
    BY <2>1, <2>2 DEF MembersOK
<1>4. OpsOK
  BY FS_EmptySet DEF OpsOK
<1>5. ThreadsOK
  <2>1. Nothing \in Operations
    BY DEF Nothing, Operations
  <2> QED
    BY <2>1 DEF ThreadsOK, ThreadOK, Steps, Serving, WithoutHandle
<1> QED
  BY <1>1, <1>2, <1>3, <1>4, <1>5 DEF TypeInv

LEMMA TypeStep ==
  ASSUME TypeInv, [Next]_vars
  PROVE  TypeInv'
<1>1. ASSUME NEW t \in Threads, User(t) PROVE TypeInv'
  BY <1>1, UserTypes, CallTypes DEF User
<1>2. ASSUME NEW t \in Threads, InCall(t) PROVE TypeInv'
  BY <1>2, CallTypes, NextTypes DEF InCall
<1>3. ASSUME NEW t \in Threads, OnAccept(t) PROVE TypeInv'
  BY <1>3, AcceptTypes, NextTypes DEF OnAccept
<1>4. ASSUME NEW t \in Threads, Run(t) PROVE TypeInv'
  BY <1>4, RunTypes DEF Run
<1>5. CASE UNCHANGED vars
  <2> USE <1>5 DEF TypeInv, vars, handles
  <2>1. PoolOK' /\ made \subseteq made'
    BY PoolSame
  <2>2. CountsOK' /\ OpsOK' /\ ThreadsOK'
    BY <2>1, CountsSame, OpsSame, ThreadsSame
  <2>3. MembersOK'
    BY MembersSame DEF MembersOK
  <2> QED
    BY <2>1, <2>2, <2>3
<1> QED
  BY <1>1, <1>2, <1>3, <1>4, <1>5 DEF Next

LEMMA Types == Spec => []TypeInv
<1>1. TypeInv /\ [Next]_vars => TypeInv'
  BY TypeStep
<1> QED
  BY InitTypes, <1>1, PTL DEF Spec

-----------------------------------------------------------------------------
(* The chain of AcceptEx                                                   *)

\* What keeps the chain of s: an AcceptEx, or a thread about to leave one
ChainOps(s) == {o \in ops : o.kind = "accept" /\ o.s = s}
Linking == {"first", "on_accept", "raise", "ask", "next"}

ChainOK(s) ==
  isaccept[s] /\ s \notin cut =>
    ChainOps(s) # {} \/ \E t \in Threads : cur[t].s = s /\ pc[t] \in Linking

\* No thread leaves the chain, and no AcceptEx does.
LEMMA ChainSame ==
  ASSUME TypeInv, NEW s \in Sockets, ChainOK(s),
         isaccept'[s] => isaccept[s], s \in cut => s \in cut',
         \A o \in ops : o.kind = "accept" => o \in ops',
         \A t \in Threads : pc[t] \in Linking => cur'[t].s = cur[t].s /\ pc'[t] \in Linking
  PROVE  ChainOK(s)'
BY DEF TypeInv, ChainOK, ChainOps

\* The steps that have nothing to do with it
LEMMA ChainUser ==
  ASSUME TypeInv, TypeInv', NEW t \in Threads, NEW s \in Sockets, ChainOK(s), User(t)
  PROVE  ChainOK(s)'
<1> USE DEF TypeInv
<1>a. pc[t] = "idle"
  BY DEF User, Open, Reopen, Destroy, RegisterAccept, Listen, StopAccept, Connect, CloseIdle, Close,
         Copy, Assign, Call
<1>1. isaccept'[s] => isaccept[s]
  BY DEF User, Open, Reopen, Destroy, RegisterAccept, Listen, StopAccept, Connect, CloseIdle, Close,
         Copy, Assign, GetReset, MembersOK, members
<1>2. cut' = cut
  BY DEF User, Open, Reopen, Destroy, RegisterAccept, Listen, StopAccept, Connect, CloseIdle, Close,
         Copy, Assign, Unmoved, history
<1>3. ops \subseteq ops'
  BY DEF User, Open, Reopen, Destroy, RegisterAccept, Listen, StopAccept, Connect, Connecting,
         CloseIdle, Close, Copy, Assign, Unmoved
<1>4. \A u \in Threads \ {t} : pc'[u] = pc[u] /\ cur'[u] = cur[u]
  BY DEF User, Open, Reopen, Destroy, RegisterAccept, Listen, StopAccept, Connect, CloseIdle, Close,
         Copy, Assign, Waiting, Goto, ThreadsOK
<1> QED
  BY <1>a, <1>1, <1>2, <1>3, <1>4, ChainSame DEF Linking

\* GetReset clears isaccept, and what Accepting leaves is a link of the chain.
LEMMA ChainAccepting ==
  ASSUME TypeInv, NEW s \in Sockets, NEW c \in Sockets, Accepting(s, c)
  PROVE  /\ ops \subseteq ops' /\ \A x \in Sockets : isaccept'[x] => isaccept[x]
         /\ \E o \in ops' : o.kind = "accept" /\ o.s = s
<1>1. Operation("accept", s, c) \in ops'
  BY DEF Accepting
<1>2. Operation("accept", s, c).kind = "accept" /\ Operation("accept", s, c).s = s
  BY OperationIs
<1>3. ops \subseteq ops' /\ \A x \in Sockets : isaccept'[x] => isaccept[x]
  BY DEF Accepting, GetReset, TypeInv, MembersOK
<1> QED
  BY <1>1, <1>2, <1>3

LEMMA ChainNot ==
  ASSUME TypeInv,
         \/ \E c \in Sockets : NotAccepting(c)
         \/ GetThrows /\ UNCHANGED <<isdisconnect, isaccept, ops>>
  PROVE  ops' = ops /\ \A x \in Sockets : isaccept'[x] => isaccept[x]
BY DEF NotAccepting, GetReset, TypeInv, MembersOK

\* A thread that leaves the chain of its listener ends it or has left an AcceptEx.
LEMMA ChainLeaves ==
  ASSUME TypeInv, NEW t \in Threads, NEW s \in Sockets, ChainOK(s),
         \A x \in Sockets : isaccept'[x] => isaccept[x], cut \subseteq cut' \cup {cur[t].s},
         ops \subseteq ops',
         \A u \in Threads \ {t} : pc'[u] = pc[u] /\ cur'[u] = cur[u],
         cur[t].s \in cut' \/ \E o \in ops' : o.kind = "accept" /\ o.s = cur[t].s
  PROVE  ChainOK(s)'
<1>1. CASE s = cur[t].s
  BY <1>1 DEF ChainOK, ChainOps
<1>2. CASE s # cur[t].s
  BY <1>2 DEF ChainOK, ChainOps
<1> QED
  BY <1>1, <1>2

LEMMA ChainCall ==
  ASSUME TypeInv, NEW t \in Threads, NEW s \in Sockets, ChainOK(s), InCall(t)
  PROVE  ChainOK(s)'
<1> USE DEF TypeInv
<1>1. CASE Destroyed(t)
  BY <1>1, ChainSame DEF Destroyed, Goto, Unmoved, members, history, ThreadsOK, Linking
<1>2. CASE SetAccept(t)
  <2> DEFINE x == cur[t].s
  <2>a. pc[t] = "listen" /\ \A u \in Threads \ {t} : pc'[u] = pc[u] /\ cur'[u] = cur[u]
    BY <1>2 DEF SetAccept, Done, Goto, ThreadsOK
  <2>b. ops' = ops /\ \A y \in Sockets \ {x} : isaccept'[y] = isaccept[y]
    BY <1>2 DEF SetAccept, MembersOK
  <2>c. x \in cut' \/ (pc'[t] = "first" /\ cur' = cur /\ cut' = cut)
    BY <1>2 DEF SetAccept, Goto, ThreadsOK
  <2>d. cut \subseteq cut' /\ cut' \subseteq cut \cup {x}
    BY <1>2 DEF SetAccept
  <2>1. CASE s = x
    BY <2>1, <2>c, <2>d DEF ChainOK, Linking
  <2>2. CASE s # x
    BY <2>2, <2>a, <2>b, <2>d DEF ChainOK, ChainOps, Linking
  <2> QED
    BY <2>1, <2>2
<1>3. CASE FirstAccept(t)
  <2>a. pc[t] = "first" /\ cur[t].s \in Sockets
    BY <1>3 DEF FirstAccept, ThreadsOK, ThreadOK
  <2>b. \A u \in Threads \ {t} : pc'[u] = pc[u] /\ cur'[u] = cur[u]
    BY <1>3 DEF FirstAccept, Done, Goto, ThreadsOK
  <2>1. CASE \E c \in Sockets : Accepting(cur[t].s, c) /\ cut' = cut \ {cur[t].s}
    BY <2>1, <2>a, <2>b, ChainAccepting, ChainLeaves
  <2>2. CASE /\ \/ \E c \in Sockets : NotAccepting(c)
                \/ GetThrows /\ UNCHANGED <<isdisconnect, isaccept, ops>>
             /\ cut' = cut \cup {cur[t].s}
    BY <2>2, <2>a, <2>b, ChainNot, ChainLeaves
  <2>3. CASE (\E c \in Sockets : NotAccepting(c)) /\ UNCHANGED <<pc, cur, cut>>
    BY <2>3, <2>a, ChainNot, ChainSame
  <2> QED
    BY <1>3, <2>1, <2>2, <2>3 DEF FirstAccept, AcceptThrows
<1>4. CASE Uncount(t)
  BY <1>4, ChainSame DEF Uncount, ReadCount, Goto, members, history, ThreadsOK, Linking
<1>5. CASE Lower(t)
  BY <1>5, ChainSame DEF Lower, Done, Goto, members, history, ThreadsOK, Linking
<1> QED
  BY <1>1, <1>2, <1>3, <1>4, <1>5 DEF InCall

LEMMA ChainServe ==
  ASSUME TypeInv, NEW t \in Threads, NEW s \in Sockets, ChainOK(s), OnAccept(t)
  PROVE  ChainOK(s)'
<1> USE DEF TypeInv
<1>1. CASE CountAccept(t)
  BY <1>1, ChainSame DEF CountAccept, ReadCount, Goto, members, history, ThreadsOK, Linking
<1>2. CASE Raise(t)
  <2>a. /\ pc[t] = "raise" /\ cur' = cur /\ ops' = ops /\ isaccept' = isaccept
        /\ \A u \in Threads \ {t} : pc'[u] = pc[u]
    BY <1>2 DEF Raise, Goto, members, ThreadsOK
  <2>b. num[t] \in Nat
    BY DEF ThreadsOK
  <2>1. CASE ~ (num[t] < MaxConnect)
    <3>1. cut' = cut \cup {cur[t].s}
      BY <1>2, <2>1 DEF Raise
    <3> QED
      BY <2>a, <3>1, ChainLeaves
  <2>2. CASE num[t] < MaxConnect
    <3>1. cut' = cut /\ pc'[t] = "ask"
      BY <1>2, <2>2 DEF Raise, Goto, ThreadsOK
    <3> QED
      BY <2>a, <3>1, ChainSame DEF Linking
  <2> QED
    BY <2>1, <2>2
<1>0. CASE Ask(t)
  <2>a. /\ pc[t] = "ask" /\ UNCHANGED <<cur, ops, isaccept, cut>>
        /\ \A u \in Threads \ {t} : pc'[u] = pc[u]
    BY <1>0 DEF Ask, Goto, members, history, ThreadsOK
  <2>1. CASE isaccept[cur[t].s]
    <3>1. pc'[t] = "next"
      BY <1>0, <2>1 DEF Ask, Goto, ThreadsOK
    <3> QED
      BY <2>a, <3>1, ChainSame DEF Linking
  <2>2. CASE ~ isaccept[cur[t].s]
    BY <2>a, <2>2 DEF ChainOK, ChainOps, Linking
  <2> QED
    BY <2>1, <2>2
<1>3. CASE NextAccept(t)
  <2>a. pc[t] = "next" /\ cur[t].s \in Sockets
    BY <1>3 DEF NextAccept, ThreadsOK, ThreadOK, Serving, WithoutHandle
  <2>b. \A u \in Threads \ {t} : pc'[u] = pc[u] /\ cur'[u] = cur[u]
    BY <1>3 DEF NextAccept, Done, Goto, ThreadsOK
  <2>1. CASE \E c \in Sockets : Accepting(cur[t].s, c) /\ cut' = cut
    BY <2>1, <2>a, <2>b, ChainAccepting, ChainLeaves
  <2>2. CASE /\ \/ \E c \in Sockets : NotAccepting(c)
                \/ GetThrows /\ UNCHANGED <<isdisconnect, isaccept, ops>>
             /\ cut' = cut \cup {cur[t].s}
    BY <2>2, <2>a, <2>b, ChainNot, ChainLeaves
  <2> QED
    BY <1>3, <2>1, <2>2 DEF NextAccept
<1>4. CASE Client(t)
  BY <1>4, ChainSame DEF Client, Goto, history, ThreadsOK, Linking
<1>5. CASE Handle(t)
  <2>1. \A u \in Threads : cur'[u].s = cur[u].s /\ (pc[u] \in Linking => pc'[u] = pc[u])
    <3>1. \A u \in Threads : pc[u] \in Linking => pc'[u] = pc[u]
      BY <1>5 DEF Handle, Goto, ThreadsOK, Linking
    <3>2. PICK r \in Refs : cur' = [cur EXCEPT ![t].r = r]
      BY <1>5 DEF Handle
    <3> QED
      BY <3>1, <3>2 DEF ThreadsOK, Operations
  <2> QED
    BY <1>5, <2>1, ChainSame DEF Handle, Unmoved, members, history
<1>6. CASE HandlerReturns(t)
  BY <1>6, ChainSame DEF HandlerReturns, Goto, Unmoved, members, history, ThreadsOK, Linking
<1>7. ASSUME NEW u \in Threads, HandlerCopies(t, u) PROVE ChainOK(s)'
  BY <1>7, ChainSame DEF HandlerCopies, Goto, Unmoved, members, history, ThreadsOK, Linking
<1>8. CASE Drop(t)
  BY <1>8, ChainSame DEF Drop, Goto, Unmoved, members, history, ThreadsOK, Linking
<1> QED
  BY <1>0, <1>1, <1>2, <1>3, <1>4, <1>5, <1>6, <1>7, <1>8 DEF OnAccept

LEMMA ChainRun ==
  ASSUME TypeInv, NEW t \in Threads, NEW s \in Sockets, ChainOK(s), Run(t)
  PROVE  ChainOK(s)'
<1> USE DEF TypeInv
<1>1. CASE AcceptComplete(t)
  <2>1. PICK o \in ops, err \in BOOLEAN :
          /\ pc[t] = "idle" /\ ops' = ops \ {o} /\ Goto(t, "on_accept")
          /\ cur' = [cur EXCEPT ![t] = [o EXCEPT !.err = err]]
          /\ UNCHANGED <<members, cut>>
    BY <1>1 DEF AcceptComplete
  <2>2. OpOK(o)
    BY DEF OpsOK
  <2>3. cur'[t].s = o.s /\ pc'[t] = "on_accept"
    BY <2>1, <2>2 DEF Goto, ThreadsOK, OpOK, Operations
  <2>4. \A u \in Threads \ {t} : pc'[u] = pc[u] /\ cur'[u] = cur[u]
    BY <2>1 DEF Goto, ThreadsOK
  <2>5. isaccept' = isaccept /\ cut' = cut
    BY <2>1 DEF members
  <2> QED
    BY <2>1, <2>3, <2>4, <2>5 DEF ChainOK, ChainOps, Linking
<1>2. ASSUME NEW o \in ops, o.kind # "accept", ops' = ops \/ ops' = ops \ {o},
             UNCHANGED <<isaccept, cut, pc, cur>>
      PROVE  ChainOK(s)'
  BY <1>2, ChainSame
<1>3. CASE ConnectFails(t) \/ ConnectComplete(t) \/ CloseComplete(t)
  <2>1. PICK o \in ops : o.kind \in {"connect", "close"} /\ (ops' = ops \/ ops' = ops \ {o})
    BY <1>3 DEF ConnectFails, ConnectComplete, CloseComplete
  <2>2. UNCHANGED <<isaccept, cut, pc, cur>>
    BY <1>3 DEF ConnectFails, ConnectComplete, CloseComplete, Waiting, history
  <2>3. o.kind # "accept"
    BY <2>1
  <2> QED
    BY <1>2, <2>1, <2>2, <2>3
<1> QED
  BY <1>1, <1>3 DEF Run

\* An AcceptEx is always there, or about to be: a listener with isaccept set waits
\* for a connection, unless its chain ended for good.
THEOREM ChainIsAlive == Spec => []ChainAlive
<1> DEFINE Chains == \A s \in Sockets : ChainOK(s)
<1>1. Init => Chains
  BY DEF Init, ChainOK
<1>2. TypeInv /\ TypeInv' /\ Chains /\ [Next]_vars => Chains'
  <2> SUFFICES ASSUME TypeInv, TypeInv', Chains, [Next]_vars, NEW s \in Sockets PROVE ChainOK(s)'
    OBVIOUS
  <2>1. CASE UNCHANGED vars
    BY <2>1, ChainSame DEF vars, members, history
  <2> QED
    BY <2>1, ChainUser, ChainCall, ChainServe, ChainRun DEF Next
<1>3. Chains => ChainAlive
  BY DEF ChainAlive, ChainOK, ChainOps, Linking
<1> HIDE DEF Chains
<1> QED
  BY Types, <1>1, <1>2, <1>3, PTL DEF Spec

-----------------------------------------------------------------------------
(* The limit                                                               *)

AcceptOps == {o \in ops : o.kind = "accept"}
At(S) == {t \in Threads : pc[t] \in S}
Chaining == {"on_accept", "raise", "ask", "next"}
Lowering == {"uncount", "lower"}

\* The threads that have accepted a connection and not counted it yet
Uncounted == {t \in Threads : pc[t] \in {"on_accept", "raise"} /\ ~ cur[t].err}

\* The links of all chains: none of them begins but with an async_accpet.
Chains == Cardinality(AcceptOps) + Cardinality(At(Chaining))

\* What nConnect is too large by, when it has wrapped
Offsets == {k * Wrap : k \in Nat}

LimitAt(m) ==
  /\ Cardinality(guests) + Cardinality(At(Lowering)) <= nConnect - m + Cardinality(Uncounted)
  /\ nConnect - m + Chains <= MaxConnect + starts

LimitOK ==
  /\ Chains <= starts
  /\ ~ unearned /\ ~ raced /\ MaxConnect + starts < Wrap => \E m \in Offsets : LimitAt(m)

LEMMA OffsetsAre ==
  /\ 0 \in Offsets
  /\ \A m \in Offsets : m \in Nat /\ m + Wrap \in Offsets
                        /\ (m = 0 \/ (m >= Wrap /\ m - Wrap \in Offsets))
<1> USE LimitsAssumption
<1>1. 0 \in Offsets
  <2>1. 0 = 0 * Wrap
    OBVIOUS
  <2> QED
    BY <2>1 DEF Offsets
<1>2. ASSUME NEW k \in Nat
      PROVE  /\ k * Wrap \in Nat /\ k * Wrap + Wrap = (k + 1) * Wrap
             /\ k # 0 => k - 1 \in Nat /\ k * Wrap - Wrap = (k - 1) * Wrap /\ k * Wrap >= Wrap
  <2>1. k * Wrap \in Nat /\ k * Wrap + Wrap = (k + 1) * Wrap
    OBVIOUS
  <2>2. ASSUME k # 0 PROVE k - 1 \in Nat /\ (k - 1) * Wrap \in Nat /\ k * Wrap = (k - 1) * Wrap + Wrap
    BY <2>2
  <2> QED
    BY <2>1, <2>2
<1>3. ASSUME NEW m \in Offsets
      PROVE  m \in Nat /\ m + Wrap \in Offsets /\ (m = 0 \/ (m >= Wrap /\ m - Wrap \in Offsets))
  <2>1. PICK k \in Nat : m = k * Wrap
    BY DEF Offsets
  <2>2. m \in Nat /\ m + Wrap = (k + 1) * Wrap
    BY <1>2, <2>1
  <2>3. CASE k = 0
    BY <2>1, <2>2, <2>3 DEF Offsets
  <2>4. CASE k # 0
    BY <1>2, <2>1, <2>2, <2>4 DEF Offsets
  <2> QED
    BY <2>3, <2>4
<1> QED
  BY <1>1, <1>3

Bit(b) == IF b THEN 1 ELSE 0

\* Two finite sets that differ in one element
LEMMA CardMove ==
  ASSUME NEW A, NEW B, NEW x, IsFiniteSet(A), A \ {x} = B \ {x}
  PROVE  /\ IsFiniteSet(B) /\ Cardinality(A) \in Nat /\ Cardinality(B) \in Nat
         /\ Cardinality(B) = Cardinality(A) + Bit(x \in B) - Bit(x \in A)
<1>1. ASSUME NEW S, IsFiniteSet(S)
      PROVE  /\ IsFiniteSet(S \ {x}) /\ Cardinality(S \ {x}) \in Nat /\ Cardinality(S) \in Nat
             /\ Cardinality(S) = Cardinality(S \ {x}) + Bit(x \in S)
  <2>1. Cardinality(S) \in Nat /\ IsFiniteSet(S \ {x}) /\ Cardinality(S \ {x}) \in Nat
    BY <1>1, FS_RemoveElement, FS_CardinalityType
  <2>2. CASE x \in S
    BY <1>1, <2>1, <2>2, FS_RemoveElement DEF Bit
  <2>3. CASE x \notin S
    <3>1. S \ {x} = S /\ Bit(x \in S) = 0
      BY <2>3 DEF Bit
    <3>2. Cardinality(S \ {x}) = Cardinality(S)
      BY <3>1
    <3> QED
      BY <2>1, <3>1, <3>2
  <2> QED
    BY <2>1, <2>2, <2>3
<1>2. IsFiniteSet(B)
  <2>1. IsFiniteSet((A \ {x}) \cup {x}) /\ B \subseteq (A \ {x}) \cup {x}
    BY <1>1, FS_AddElement
  <2> QED
    BY <2>1, FS_Subset
<1>3. Cardinality(A \ {x}) = Cardinality(B \ {x})
  OBVIOUS
<1>4. Bit(x \in A) \in Nat /\ Bit(x \in B) \in Nat
  BY DEF Bit
<1>5. /\ Cardinality(A) \in Nat /\ Cardinality(A \ {x}) \in Nat
      /\ Cardinality(A) = Cardinality(A \ {x}) + Bit(x \in A)
  BY <1>1
<1>6. /\ Cardinality(B) \in Nat
      /\ Cardinality(B) = Cardinality(B \ {x}) + Bit(x \in B)
  BY <1>1, <1>2
<1> QED
  BY <1>2, <1>3, <1>4, <1>5, <1>6

\* One thread moves.
LEMMA MoveCounts ==
  ASSUME NEW t \in Threads, \A u \in Threads \ {t} : pc'[u] = pc[u] /\ cur'[u] = cur[u]
  PROVE  /\ \A S : /\ Cardinality(At(S)) \in Nat /\ Cardinality(At(S)') \in Nat
                   /\ Cardinality(At(S)') = Cardinality(At(S)) + Bit(pc'[t] \in S) - Bit(pc[t] \in S)
         /\ Cardinality(Uncounted) \in Nat /\ Cardinality(Uncounted') \in Nat
         /\ Cardinality(Uncounted')
              = Cardinality(Uncounted) + Bit(t \in Uncounted') - Bit(t \in Uncounted)
<1>1. ASSUME NEW S
      PROVE  /\ Cardinality(At(S)) \in Nat /\ Cardinality(At(S)') \in Nat
             /\ Cardinality(At(S)') = Cardinality(At(S)) + Bit(pc'[t] \in S) - Bit(pc[t] \in S)
  <2>1. IsFiniteSet(At(S))
    BY FS_Subset, FiniteAssumption DEF At
  <2>2. At(S) \ {t} = At(S)' \ {t}
    BY DEF At
  <2>3. (t \in At(S)) = (pc[t] \in S) /\ (t \in At(S)') = (pc'[t] \in S)
    BY DEF At
  <2> QED
    BY <2>1, <2>2, <2>3, CardMove
<1>2. IsFiniteSet(Uncounted)
  BY FS_Subset, FiniteAssumption DEF Uncounted
<1>3. Uncounted \ {t} = Uncounted' \ {t}
  BY DEF Uncounted
<1>4. /\ Cardinality(Uncounted) \in Nat /\ Cardinality(Uncounted') \in Nat
      /\ Cardinality(Uncounted')
           = Cardinality(Uncounted) + Bit(t \in Uncounted') - Bit(t \in Uncounted)
  BY <1>2, <1>3, CardMove
<1> QED
  BY <1>1, <1>4

\* An operation comes or goes.
LEMMA OpsCounts ==
  ASSUME OpsOK
  PROVE  /\ Cardinality(AcceptOps) \in Nat
         /\ AcceptOps' = AcceptOps => Cardinality(AcceptOps') = Cardinality(AcceptOps)
         /\ \A o : ops' = ops \cup {o} =>
              /\ Cardinality(AcceptOps') \in Nat
              /\ Cardinality(AcceptOps') <= Cardinality(AcceptOps) + 1
              /\ o.kind # "accept" => AcceptOps' = AcceptOps
         /\ \A o \in ops : ops' = ops \ {o} =>
              /\ Cardinality(AcceptOps') \in Nat
              /\ o.kind = "accept" => Cardinality(AcceptOps') = Cardinality(AcceptOps) - 1
              /\ o.kind # "accept" => AcceptOps' = AcceptOps
<1>1. IsFiniteSet(AcceptOps)
  BY FS_Subset DEF OpsOK, AcceptOps
<1>2. ASSUME NEW o, ops' = ops \cup {o}
      PROVE  /\ Cardinality(AcceptOps') \in Nat
             /\ Cardinality(AcceptOps') <= Cardinality(AcceptOps) + 1
             /\ o.kind # "accept" => AcceptOps' = AcceptOps
  <2>1. AcceptOps \ {o} = AcceptOps' \ {o}
    BY <1>2 DEF AcceptOps
  <2>2. o.kind # "accept" => AcceptOps' = AcceptOps
    BY <1>2 DEF AcceptOps
  <2> QED
    BY <1>1, <2>1, <2>2, CardMove DEF Bit
<1>3. ASSUME NEW o \in ops, ops' = ops \ {o}
      PROVE  /\ Cardinality(AcceptOps') \in Nat
             /\ o.kind = "accept" => Cardinality(AcceptOps') = Cardinality(AcceptOps) - 1
             /\ o.kind # "accept" => AcceptOps' = AcceptOps
  <2>1. AcceptOps \ {o} = AcceptOps' \ {o} /\ o \notin AcceptOps'
    BY <1>3 DEF AcceptOps
  <2>2. o.kind # "accept" => AcceptOps' = AcceptOps
    BY <1>3 DEF AcceptOps
  <2>3. o.kind = "accept" => o \in AcceptOps
    BY DEF AcceptOps
  <2> QED
    BY <1>1, <2>1, <2>2, <2>3, CardMove DEF Bit
<1>4. Cardinality(AcceptOps) \in Nat
  BY <1>1, FS_CardinalityType
<1> QED
  BY <1>2, <1>3, <1>4

\* A step that has nothing to do with connections: at most a chain ends.
LEMMA LimitQuiet ==
  ASSUME TypeInv, LimitOK, NEW t \in Threads,
         \A u \in Threads \ {t} : pc'[u] = pc[u] /\ cur'[u] = cur[u],
         AcceptOps' = AcceptOps, UNCHANGED <<guests, nConnect, unearned, raced, starts>>,
         pc'[t] \in Chaining => pc[t] \in Chaining, (pc'[t] \in Lowering) = (pc[t] \in Lowering),
         (t \in Uncounted') = (t \in Uncounted)
  PROVE  LimitOK'
<1>1. Cardinality(AcceptOps) \in Nat /\ starts \in Nat /\ nConnect \in Nat
  BY OpsCounts, LimitsAssumption DEF TypeInv, MembersOK
<1>2. /\ Cardinality(At(Chaining)) \in Nat /\ Cardinality(At(Chaining)') \in Nat
      /\ Cardinality(At(Chaining)') <= Cardinality(At(Chaining))
      /\ Cardinality(At(Lowering)') = Cardinality(At(Lowering))
      /\ Cardinality(Uncounted') = Cardinality(Uncounted)
  BY MoveCounts DEF Bit
<1>3. Chains \in Nat /\ Chains' \in Nat /\ Chains' <= Chains
  BY <1>1, <1>2 DEF Chains
<1>4. ASSUME NEW m \in Offsets, LimitAt(m) PROVE LimitAt(m)'
  <2>1. m \in Nat
    BY OffsetsAre
  <2>2. nConnect - m + Chains <= MaxConnect + starts /\ nConnect' = nConnect /\ starts' = starts
    BY <1>4 DEF LimitAt
  <2>3. nConnect - m + Chains' <= MaxConnect + starts
    BY <1>1, <1>3, <2>1, <2>2, LimitsAssumption
  <2>4. guests' = guests
    OBVIOUS
  <2> QED
    BY <1>2, <1>4, <2>2, <2>3, <2>4 DEF LimitAt
<1>5. Chains' <= starts'
  BY <1>1, <1>3 DEF LimitOK
<1> QED
  BY <1>4, <1>5 DEF LimitOK

\* The numbers of a state that satisfies TypeInv
LEMMA LimitNat ==
  ASSUME TypeInv
  PROVE  /\ Cardinality(AcceptOps) \in Nat /\ Cardinality(At(Chaining)) \in Nat
         /\ Cardinality(At(Lowering)) \in Nat /\ Cardinality(Uncounted) \in Nat
         /\ Cardinality(guests) \in Nat /\ IsFiniteSet(guests)
         /\ starts \in Nat /\ nConnect \in 0 .. Wrap - 1
         /\ Chains \in Nat /\ Cardinality(Uncounted) <= Chains
<1>1. IsFiniteSet(At(Chaining)) /\ IsFiniteSet(At(Lowering)) /\ IsFiniteSet(Uncounted)
  BY FS_Subset, FiniteAssumption DEF At, Uncounted
<1>2. IsFiniteSet(AcceptOps) /\ IsFiniteSet(guests)
  BY FS_Subset, FiniteAssumption DEF TypeInv, OpsOK, MembersOK, AcceptOps
<1>3. Cardinality(Uncounted) <= Cardinality(At(Chaining))
  BY <1>1, FS_Subset DEF Uncounted, At, Chaining
<1>4. /\ Cardinality(AcceptOps) \in Nat /\ Cardinality(At(Chaining)) \in Nat
      /\ Cardinality(At(Lowering)) \in Nat /\ Cardinality(Uncounted) \in Nat
      /\ Cardinality(guests) \in Nat
  BY <1>1, <1>2, FS_CardinalityType
<1>5. starts \in Nat /\ nConnect \in 0 .. Wrap - 1
  BY DEF TypeInv, MembersOK
<1> QED
  BY <1>2, <1>3, <1>4, <1>5 DEF Chains

LEMMA LimitOthers ==
  ASSUME TypeInv, LimitOK, NEW t \in Threads, User(t), \A r \in Refs : ~ Close(t, r)
  PROVE  LimitOK'
<1> USE DEF TypeInv
<1>a. pc[t] = "idle"
  BY DEF User, Open, Reopen, Destroy, RegisterAccept, Listen, StopAccept, Connect, CloseIdle,
         Copy, Assign, Call
<1>1. UNCHANGED <<guests, nConnect, unearned, raced, starts>>
  BY DEF User, Open, Reopen, Destroy, RegisterAccept, Listen, StopAccept, Connect, CloseIdle,
         Copy, Assign, Unmoved, history
<1>2. AcceptOps' = AcceptOps
  <2>1. CASE ops' = ops
    BY <2>1 DEF AcceptOps
  <2>2. ASSUME NEW r \in Refs, ops' = ops \cup {Operation("connect", sock[r], None)}
        PROVE  AcceptOps' = AcceptOps
    <3>1. Operation("connect", sock[r], None).kind = "connect"
      BY DEF Operation, Nothing
    <3> QED
      BY <2>2, <3>1 DEF AcceptOps
  <2>3. ops' = ops \/ \E r \in Refs : ops' = ops \cup {Operation("connect", sock[r], None)}
    BY DEF User, Open, Reopen, Destroy, RegisterAccept, Listen, StopAccept, Connect, Connecting,
           CloseIdle, Copy, Assign, Unmoved
  <2> QED
    BY <2>1, <2>2, <2>3
<1>3. /\ \A u \in Threads \ {t} : pc'[u] = pc[u] /\ cur'[u] = cur[u]
      /\ pc'[t] \in {"idle", "destroy", "listen"}
  BY <1>a DEF User, Open, Reopen, Destroy, RegisterAccept, Listen, StopAccept, Connect, CloseIdle,
         Copy, Assign, Waiting, Goto, ThreadsOK
<1>4. (t \in Uncounted') = (t \in Uncounted)
  BY <1>a, <1>3 DEF Uncounted
<1> QED
  BY <1>a, <1>1, <1>2, <1>3, <1>4, LimitQuiet DEF Chaining, Lowering

\* nConnect is to be lowered for a client that was counted.
LEMMA LimitClose ==
  ASSUME TypeInv, TypeInv', LimitOK, NEW t \in Threads, NEW r \in Refs, Close(t, r)
  PROVE  LimitOK'
<1> USE DEF TypeInv
<1>1. pc[t] = "idle" /\ cur' = cur /\ UNCHANGED <<nConnect, raced, starts>>
  BY DEF Close, Call
<1>2. pc'[t] = "uncount" /\ \A u \in Threads \ {t} : pc'[u] = pc[u] /\ cur'[u] = cur[u]
  BY DEF Close, Goto, ThreadsOK
<1>3. guests' = guests \ {sock[r]} /\ (~ unearned' => ~ unearned /\ sock[r] \in guests)
  BY DEF Close
<1>4. Cardinality(AcceptOps') = Cardinality(AcceptOps)
  <2> DEFINE o == Operation("close", sock[r], None)
  <2>1. ops' = ops \cup {o} /\ o.kind = "close"
    BY DEF Close, Operation, Nothing
  <2> HIDE DEF o
  <2> QED
    BY <2>1, OpsCounts
<1>5. /\ Cardinality(At(Chaining)') = Cardinality(At(Chaining))
      /\ Cardinality(At(Lowering)') = Cardinality(At(Lowering)) + 1
      /\ Cardinality(Uncounted') = Cardinality(Uncounted)
  <2>1. t \notin Uncounted /\ t \notin Uncounted'
    BY <1>1, <1>2 DEF Uncounted
  <2> QED
    BY <1>1, <1>2, <2>1, MoveCounts DEF Bit, Chaining, Lowering
<1>6. Chains' = Chains
  BY <1>4, <1>5 DEF Chains
<1>7. ~ unearned' => Cardinality(guests') = Cardinality(guests) - 1
  BY <1>3, LimitNat, FS_RemoveElement
<1>8. ASSUME NEW m \in Offsets, LimitAt(m), ~ unearned' PROVE LimitAt(m)'
  BY <1>1, <1>5, <1>6, <1>7, <1>8, LimitNat, OffsetsAre DEF LimitAt
<1> QED
  BY <1>1, <1>3, <1>6, <1>8 DEF LimitOK

\* nConnect is lowered; at 0 it wraps.
LEMMA LimitLower ==
  ASSUME TypeInv, TypeInv', LimitOK, NEW t \in Threads, Lower(t)
  PROVE  LimitOK'
<1> USE DEF TypeInv
<1>1. pc[t] = "lower" /\ UNCHANGED <<ops, guests, starts, unearned>> /\ (~ raced' => ~ raced /\ num[t] = nConnect)
  BY DEF Lower
<1>2. pc'[t] = "idle" /\ \A u \in Threads \ {t} : pc'[u] = pc[u] /\ cur'[u] = cur[u]
  BY DEF Lower, Done, Goto, ThreadsOK
<1>3. /\ Cardinality(At(Chaining)') = Cardinality(At(Chaining))
      /\ Cardinality(At(Lowering)') = Cardinality(At(Lowering)) - 1
      /\ Cardinality(Uncounted') = Cardinality(Uncounted)
  <2>1. t \notin Uncounted /\ t \notin Uncounted'
    BY <1>1, <1>2 DEF Uncounted
  <2> QED
    BY <1>1, <1>2, <2>1, MoveCounts DEF Bit, Chaining, Lowering
<1>4. Chains' = Chains
  BY <1>1, <1>3 DEF Chains, AcceptOps
<1>5. ASSUME NEW m \in Offsets, ~ raced'
      PROVE  \E n \in Offsets : nConnect' - n = nConnect - m - 1
  <2>1. nConnect \in 0 .. Wrap - 1 /\ nConnect' = (nConnect + Wrap - 1) % Wrap /\ m \in Nat
    BY <1>1, <1>5, LimitNat, OffsetsAre DEF Lower
  <2>2. CASE nConnect = 0
    <3>1. nConnect' = Wrap - 1 /\ m + Wrap \in Offsets
      BY <2>1, <2>2, LimitsAssumption, OffsetsAre
    <3> QED
      BY <2>1, <2>2, <3>1, LimitsAssumption
  <2>3. CASE nConnect # 0
    <3>1. nConnect' = nConnect - 1
      BY <2>1, <2>3, LimitsAssumption
    <3> QED
      BY <2>1, <3>1
  <2> QED
    BY <2>2, <2>3
<1>6. ASSUME NEW m \in Offsets, LimitAt(m), ~ raced' PROVE \E n \in Offsets : LimitAt(n)'
  <2>1. PICK n \in Offsets : nConnect' - n = nConnect - m - 1
    BY <1>5, <1>6
  <2>2. n \in Nat /\ m \in Nat /\ nConnect' \in Nat /\ guests' = guests /\ starts' = starts
    BY <1>1, LimitNat, OffsetsAre, LimitsAssumption DEF MembersOK
  <2>3. LimitAt(n)'
    BY <1>3, <1>4, <1>6, <2>1, <2>2, LimitNat, LimitsAssumption DEF LimitAt
  <2> QED
    BY <2>3
<1> QED
  BY <1>1, <1>4, <1>6 DEF LimitOK

\* nConnect is raised.  It was below nMaxConnect, or had wrapped and counts for
\* less than 0; or the chain does not go on.
LEMMA LimitRaise ==
  ASSUME TypeInv, TypeInv', LimitOK, NEW t \in Threads, Raise(t)
  PROVE  LimitOK'
<1> USE DEF TypeInv
<1>1. /\ pc[t] = "raise" /\ UNCHANGED <<ops, cur, guests, starts, unearned>>
      /\ ~ raced' => ~ raced /\ num[t] = nConnect
  BY DEF Raise
<1>2. /\ pc'[t] \in {"ask", "client"} /\ (pc'[t] = "ask" => num[t] < MaxConnect)
      /\ \A u \in Threads \ {t} : pc'[u] = pc[u] /\ cur'[u] = cur[u]
  BY <1>1 DEF Raise, Goto, ThreadsOK
<1>3. /\ Cardinality(At(Lowering)') = Cardinality(At(Lowering))
      /\ Cardinality(Uncounted') >= Cardinality(Uncounted) - 1
      /\ pc'[t] = "ask" => Cardinality(At(Chaining)') = Cardinality(At(Chaining))
      /\ pc'[t] # "ask" => Cardinality(At(Chaining)') = Cardinality(At(Chaining)) - 1
  BY <1>1, <1>2, MoveCounts DEF Bit, Chaining, Lowering
<1>4. AcceptOps' = AcceptOps
  BY <1>1 DEF AcceptOps
<1>5. /\ pc'[t] = "ask" => Chains' = Chains
      /\ pc'[t] # "ask" => Chains' = Chains - 1
      /\ Chains >= 1
  <2>1. Cardinality(At(Chaining)) >= 1
    <3>1. t \in At(Chaining) /\ IsFiniteSet(At(Chaining))
      BY <1>1, FS_Subset, FiniteAssumption DEF At, Chaining
    <3>2. Cardinality(At(Chaining) \ {t}) = Cardinality(At(Chaining)) - 1
          /\ Cardinality(At(Chaining) \ {t}) \in Nat
      BY <3>1, FS_RemoveElement, FS_CardinalityType
    <3> QED
      BY <3>2, LimitNat
  <2> QED
    BY <1>3, <1>4, <2>1, LimitNat DEF Chains
<1>6. ASSUME NEW m \in Offsets, LimitAt(m), ~ raced', MaxConnect + starts < Wrap
      PROVE  \E n \in Offsets : nConnect' - n = nConnect - m + 1
  <2>1. nConnect \in 0 .. Wrap - 1 /\ nConnect' = (nConnect + 1) % Wrap /\ m \in Nat
    BY <1>1, <1>6, LimitNat, OffsetsAre DEF Raise
  <2>2. CASE nConnect + 1 < Wrap
    <3>1. nConnect' = nConnect + 1
      BY <2>1, <2>2, LimitsAssumption
    <3> QED
      BY <2>1, <3>1
  <2>3. CASE nConnect + 1 = Wrap
    <3>1. nConnect' = 0
      BY <2>1, <2>3, LimitsAssumption
    <3>2. m # 0
      <4>1. nConnect - m + Chains <= MaxConnect + starts
        BY <1>6 DEF LimitAt
      <4> QED
        BY <1>5, <1>6, <2>1, <2>3, <4>1, LimitNat, LimitsAssumption
    <3>3. m - Wrap \in Offsets
      BY <3>2, OffsetsAre
    <3> QED
      BY <2>1, <2>3, <3>1, <3>3, LimitsAssumption
  <2> QED
    BY <2>1, <2>2, <2>3, LimitsAssumption
<1>7. ASSUME NEW m \in Offsets, LimitAt(m), ~ raced', MaxConnect + starts < Wrap
      PROVE  \E n \in Offsets : LimitAt(n)'
  <2>1. PICK n \in Offsets : nConnect' - n = nConnect - m + 1
    BY <1>6, <1>7
  <2>2. n \in Nat /\ m \in Nat /\ nConnect' \in Nat /\ guests' = guests /\ starts' = starts
    BY <1>1, LimitNat, OffsetsAre, LimitsAssumption DEF MembersOK
  <2>3. /\ Cardinality(guests) + Cardinality(At(Lowering)) <= nConnect - m + Cardinality(Uncounted)
        /\ nConnect - m + Chains <= MaxConnect + starts
    BY <1>7 DEF LimitAt
  <2>4. nConnect' - n + Chains' <= MaxConnect + starts
    <3>1. CASE pc'[t] # "ask"
      BY <1>5, <2>1, <2>2, <2>3, <3>1, LimitNat, LimitsAssumption
    <3>2. CASE pc'[t] = "ask"
      <4>1. nConnect < MaxConnect
        BY <1>1, <1>2, <1>7, <3>2
      <4>2. nConnect - m < MaxConnect
        BY <2>2, <4>1, LimitNat, LimitsAssumption
      <4>3. Chains <= starts
        BY DEF LimitOK
      <4> QED
        BY <1>5, <2>1, <2>2, <3>2, <4>2, <4>3, LimitNat, LimitsAssumption
    <3> QED
      BY <3>1, <3>2
  <2>5. Cardinality(Uncounted') \in Nat
    BY <1>2, MoveCounts
  <2>6. LimitAt(n)'
    BY <1>3, <2>1, <2>2, <2>3, <2>4, <2>5, LimitNat, LimitsAssumption DEF LimitAt
  <2> QED
    BY <2>6
<1>8. Chains' <= starts'
  BY <1>1, <1>5, LimitNat DEF LimitOK
<1> QED
  BY <1>1, <1>7, <1>8 DEF LimitOK

\* A connection is accepted, or not: the chain goes on with the thread.
LEMMA LimitAccept ==
  ASSUME TypeInv, TypeInv', LimitOK, NEW t \in Threads, AcceptComplete(t)
  PROVE  LimitOK'
<1> USE DEF TypeInv
<1>1. PICK o \in ops, err \in BOOLEAN :
        /\ pc[t] = "idle" /\ o.kind = "accept" /\ ops' = ops \ {o}
        /\ cur' = [cur EXCEPT ![t] = [o EXCEPT !.err = err]]
        /\ IF err THEN guests' = guests ELSE guests' = guests \cup {o.c}
        /\ Goto(t, "on_accept")
        /\ UNCHANGED <<nConnect, starts, unearned, raced>>
  BY DEF AcceptComplete
<1>2. o \in Operations
  BY DEF OpsOK, OpOK
<1>3. pc'[t] = "on_accept" /\ \A u \in Threads \ {t} : pc'[u] = pc[u] /\ cur'[u] = cur[u]
  BY <1>1 DEF Goto, ThreadsOK
<1>4. cur'[t].err = err
  BY <1>1, <1>2 DEF ThreadsOK, Operations
<1>5. t \notin Uncounted /\ (~ err => t \in Uncounted')
  BY <1>1, <1>3, <1>4 DEF Uncounted
<1>6. /\ Cardinality(At(Chaining)') = Cardinality(At(Chaining)) + 1
      /\ Cardinality(At(Lowering)') = Cardinality(At(Lowering))
      /\ Cardinality(Uncounted') >= Cardinality(Uncounted)
      /\ ~ err => Cardinality(Uncounted') = Cardinality(Uncounted) + 1
      /\ Cardinality(Uncounted') \in Nat
  BY <1>1, <1>3, <1>5, MoveCounts DEF Bit, Chaining, Lowering
<1>7. Cardinality(AcceptOps') = Cardinality(AcceptOps) - 1
  BY <1>1, OpsCounts
<1>8. Chains' = Chains
  BY <1>6, <1>7, LimitNat DEF Chains
<1>9. /\ err => Cardinality(guests') = Cardinality(guests)
      /\ Cardinality(guests') \in Nat /\ Cardinality(guests') <= Cardinality(guests) + 1
  <2>1. CASE err
    BY <1>1, <2>1, LimitNat
  <2>2. CASE ~ err
    <3>1. guests' = guests \cup {o.c}
      BY <1>1, <2>2
    <3>2. IsFiniteSet(guests) /\ guests \ {o.c} = guests' \ {o.c}
      BY <3>1, LimitNat
    <3>3. /\ Cardinality(guests) \in Nat /\ Cardinality(guests') \in Nat
          /\ Cardinality(guests')
               = Cardinality(guests) + Bit(o.c \in guests') - Bit(o.c \in guests)
      BY <3>2, CardMove
    <3> QED
      BY <2>2, <3>3 DEF Bit
  <2> QED
    BY <2>1, <2>2
<1>10. Cardinality(guests') - Cardinality(guests) <= Cardinality(Uncounted') - Cardinality(Uncounted)
  BY <1>6, <1>9, LimitNat
<1>11. ASSUME NEW m \in Offsets, LimitAt(m) PROVE LimitAt(m)'
  <2>1. nConnect' = nConnect /\ starts' = starts /\ m \in Nat
    BY <1>1, OffsetsAre
  <2> QED
    BY <1>6, <1>8, <1>9, <1>10, <1>11, <2>1, LimitNat, LimitsAssumption DEF LimitAt
<1>12. UNCHANGED <<starts, unearned, raced>>
  BY <1>1
<1> QED
  BY <1>8, <1>11, <1>12 DEF LimitOK

\* The next link of a chain, or the first of a new one
LEMMA LimitLink ==
  ASSUME TypeInv, TypeInv', LimitOK, NEW t \in Threads, NEW c \in Sockets, Accepting(cur[t].s, c),
         \A u \in Threads \ {t} : pc'[u] = pc[u] /\ cur'[u] = cur[u],
         pc[t] \in {"first", "next"}, pc'[t] \in {"idle", "client"},
         starts' = starts + (IF pc[t] = "first" THEN 1 ELSE 0),
         UNCHANGED <<guests, nConnect, unearned, raced>>
  PROVE  LimitOK'
<1> USE DEF TypeInv
<1>1. Cardinality(AcceptOps') <= Cardinality(AcceptOps) + 1 /\ Cardinality(AcceptOps') \in Nat
  BY OpsCounts DEF Accepting
<1>2. t \notin Uncounted /\ t \notin Uncounted'
  BY DEF Uncounted
<1>3. /\ Cardinality(At(Chaining)') = Cardinality(At(Chaining)) - (IF pc[t] = "first" THEN 0 ELSE 1)
      /\ Cardinality(At(Chaining)') \in Nat
      /\ Cardinality(At(Lowering)') = Cardinality(At(Lowering))
      /\ Cardinality(Uncounted') = Cardinality(Uncounted)
  BY <1>2, MoveCounts DEF Bit, Chaining, Lowering
<1>4. Chains' \in Nat /\ Chains' - starts' <= Chains - starts /\ starts' \in Nat /\ starts <= starts'
  BY <1>1, <1>3, LimitNat DEF Chains
<1>5. ASSUME NEW m \in Offsets, LimitAt(m) PROVE LimitAt(m)'
  <2>1. nConnect - m + Chains <= MaxConnect + starts /\ m \in Nat
    BY <1>5, OffsetsAre DEF LimitAt
  <2>2. nConnect - m + Chains' <= MaxConnect + starts'
    BY <1>4, <2>1, LimitNat, LimitsAssumption
  <2>3. nConnect' = nConnect /\ guests' = guests
    OBVIOUS
  <2> QED
    BY <1>3, <1>5, <2>2, <2>3 DEF LimitAt
<1>6. Chains' <= starts'
  BY <1>4, LimitNat DEF LimitOK
<1>7. MaxConnect + starts' < Wrap => MaxConnect + starts < Wrap
  BY <1>4, LimitNat, LimitsAssumption
<1> QED
  BY <1>5, <1>6, <1>7 DEF LimitOK

LEMMA LimitCall ==
  ASSUME TypeInv, TypeInv', LimitOK, NEW t \in Threads, InCall(t)
  PROVE  LimitOK'
<1> USE DEF TypeInv
<1>1. CASE Destroyed(t)
  <2>1. AcceptOps' = AcceptOps /\ UNCHANGED <<guests, nConnect, unearned, raced, starts, cur>>
    BY <1>1 DEF Destroyed, Unmoved, history, AcceptOps
  <2>2. pc[t] = "destroy" /\ pc'[t] = "idle" /\ \A u \in Threads \ {t} : pc'[u] = pc[u]
    BY <1>1 DEF Destroyed, Goto, ThreadsOK
  <2> QED
    BY <2>1, <2>2, LimitQuiet DEF Chaining, Lowering, Uncounted
<1>2. CASE SetAccept(t)
  <2>1. AcceptOps' = AcceptOps /\ UNCHANGED <<guests, nConnect, unearned, raced, starts>>
    BY <1>2 DEF SetAccept, AcceptOps
  <2>2. /\ pc[t] = "listen" /\ pc'[t] \in {"first", "idle"}
        /\ \A u \in Threads \ {t} : pc'[u] = pc[u] /\ cur'[u] = cur[u]
    BY <1>2 DEF SetAccept, Done, Goto, ThreadsOK
  <2> QED
    BY <2>1, <2>2, LimitQuiet DEF Chaining, Lowering, Uncounted
<1>3. CASE FirstAccept(t)
  <2>1. pc[t] = "first" /\ UNCHANGED <<guests, nConnect, unearned, raced>>
    BY <1>3 DEF FirstAccept
  <2>2. /\ pc'[t] \in {"first", "idle"}
        /\ \A u \in Threads \ {t} : pc'[u] = pc[u] /\ cur'[u] = cur[u]
    BY <1>3, <2>1 DEF FirstAccept, Done, Goto, ThreadsOK
  <2>3. ASSUME NEW c \in Sockets, Accepting(cur[t].s, c), Done(t), starts' = starts + 1 PROVE LimitOK'
    <3>1. pc'[t] = "idle"
      BY <2>3 DEF Done, Goto, ThreadsOK
    <3> QED
      BY <2>1, <2>2, <2>3, <3>1, LimitLink
  <2>4. CASE ops' = ops /\ starts' = starts
    BY <2>1, <2>2, <2>4, LimitQuiet DEF Chaining, Lowering, Uncounted, AcceptOps
  <2> QED
    BY <1>3, <2>3, <2>4 DEF FirstAccept, NotAccepting, AcceptThrows
<1>4. CASE Uncount(t)
  <2>1. AcceptOps' = AcceptOps /\ UNCHANGED <<guests, nConnect, unearned, raced, starts, cur>>
    BY <1>4 DEF Uncount, ReadCount, history, AcceptOps
  <2>2. pc[t] = "uncount" /\ pc'[t] = "lower" /\ \A u \in Threads \ {t} : pc'[u] = pc[u]
    BY <1>4 DEF Uncount, ReadCount, Goto, ThreadsOK
  <2> QED
    BY <2>1, <2>2, LimitQuiet DEF Chaining, Lowering, Uncounted
<1> QED
  BY <1>1, <1>2, <1>3, <1>4, LimitLower DEF InCall

LEMMA LimitServe ==
  ASSUME TypeInv, TypeInv', LimitOK, NEW t \in Threads, OnAccept(t)
  PROVE  LimitOK'
<1> USE DEF TypeInv
<1>1. CASE CountAccept(t)
  <2>1. AcceptOps' = AcceptOps /\ UNCHANGED <<guests, nConnect, unearned, raced, starts, cur>>
    BY <1>1 DEF CountAccept, ReadCount, history, AcceptOps
  <2>2. pc[t] = "on_accept" /\ pc'[t] = "raise" /\ \A u \in Threads \ {t} : pc'[u] = pc[u]
    BY <1>1 DEF CountAccept, ReadCount, Goto, ThreadsOK
  <2> QED
    BY <2>1, <2>2, LimitQuiet DEF Chaining, Lowering, Uncounted
<1>0. CASE Ask(t)
  <2>1. UNCHANGED <<guests, nConnect, unearned, raced, starts, cur, ops>>
    BY <1>0 DEF Ask, history
  <2>2. pc[t] = "ask" /\ pc'[t] \in {"next", "client"} /\ \A u \in Threads \ {t} : pc'[u] = pc[u]
    BY <1>0 DEF Ask, Goto, ThreadsOK
  <2>3. CASE pc'[t] = "next"
    BY <2>1, <2>2, <2>3, LimitQuiet DEF Chaining, Lowering, Uncounted, AcceptOps
  <2>4. CASE pc'[t] = "client"
    BY <2>1, <2>2, <2>4, LimitQuiet DEF Chaining, Lowering, Uncounted, AcceptOps
  <2> QED
    BY <2>2, <2>3, <2>4
<1>2. CASE NextAccept(t)
  <2>1. pc[t] = "next" /\ UNCHANGED <<guests, nConnect, unearned, raced, starts>>
    BY <1>2 DEF NextAccept
  <2>2. /\ pc'[t] \in {"client", "idle"}
        /\ \A u \in Threads \ {t} : pc'[u] = pc[u] /\ cur'[u] = cur[u]
    BY <1>2 DEF NextAccept, Done, Goto, ThreadsOK
  <2>3. ASSUME NEW c \in Sockets, Accepting(cur[t].s, c) PROVE LimitOK'
    <3>1. starts' = starts + 0
      BY <2>1, LimitNat
    <3> QED
      BY <2>1, <2>2, <2>3, <3>1, LimitLink
  <2>4. CASE ops' = ops
    BY <2>1, <2>2, <2>4, LimitQuiet DEF Chaining, Lowering, Uncounted, AcceptOps
  <2> QED
    BY <1>2, <2>3, <2>4 DEF NextAccept, NotAccepting
<1>3. ASSUME UNCHANGED <<guests, nConnect, unearned, raced, starts, ops>>,
             pc[t] \in {"client", "handle", "handler", "drop"},
             pc'[t] \in {"handle", "handler", "drop", "destroy"},
             \A u \in Threads \ {t} : pc'[u] = pc[u] /\ cur'[u] = cur[u]
      PROVE  LimitOK'
  BY <1>3, LimitQuiet DEF Chaining, Lowering, Uncounted, AcceptOps
<1>4. CASE Client(t) \/ Handle(t) \/ HandlerReturns(t) \/ Drop(t) \/ \E u \in Threads : HandlerCopies(t, u)
  <2>1. UNCHANGED <<guests, nConnect, unearned, raced, starts, ops>>
    BY <1>4 DEF Client, Handle, HandlerReturns, HandlerCopies, Drop, Unmoved, history
  <2>2. pc[t] \in {"client", "handle", "handler", "drop"}
    BY <1>4 DEF Client, Handle, HandlerReturns, HandlerCopies, Drop
  <2>3. /\ pc'[t] \in {"handle", "handler", "drop", "destroy"}
        /\ \A u \in Threads \ {t} : pc'[u] = pc[u]
    BY <1>4 DEF Client, Handle, HandlerReturns, HandlerCopies, Drop, Goto, ThreadsOK
  <2>4. \A u \in Threads \ {t} : cur'[u] = cur[u]
    BY <1>4 DEF Client, Handle, HandlerReturns, HandlerCopies, Drop, ThreadsOK
  <2> QED
    BY <1>3, <2>1, <2>2, <2>3, <2>4
<1> QED
  BY <1>0, <1>1, <1>2, <1>4, LimitRaise DEF OnAccept

LEMMA LimitRun ==
  ASSUME TypeInv, TypeInv', LimitOK, NEW t \in Threads, Run(t)
  PROVE  LimitOK'
<1> USE DEF TypeInv
<1>1. CASE ConnectFails(t) \/ ConnectComplete(t) \/ CloseComplete(t)
  <2>1. PICK o \in ops : o.kind \in {"connect", "close"} /\ (ops' = ops \/ ops' = ops \ {o})
    BY <1>1 DEF ConnectFails, ConnectComplete, CloseComplete
  <2>2. UNCHANGED <<guests, nConnect, unearned, raced, starts, pc, cur>>
    BY <1>1 DEF ConnectFails, ConnectComplete, CloseComplete, Waiting, history
  <2>3. AcceptOps' = AcceptOps
    BY <2>1 DEF AcceptOps
  <2> QED
    BY <2>2, <2>3, LimitQuiet DEF Uncounted
<1> QED
  BY <1>1, LimitAccept DEF Run

\* As long as nConnect is only lowered for connections that raised it, and no two
\* threads write it at a time, the connections are no more than nMaxConnect, and
\* one for each chain of AcceptEx that was begun.
THEOREM LimitHolds == Spec => []WithinLimit
<1>1. Init => LimitOK
  <2> SUFFICES ASSUME Init PROVE LimitOK
    OBVIOUS
  <2>1. AcceptOps = {} /\ At(Chaining) = {} /\ At(Lowering) = {} /\ Uncounted = {} /\ guests = {}
    BY DEF Init, AcceptOps, At, Chaining, Lowering, Uncounted
  <2>2. starts = 0 /\ nConnect = 0
    BY DEF Init
  <2>3. Chains = 0
    BY <2>1, FS_EmptySet DEF Chains
  <2>4. LimitAt(0)
    BY <2>1, <2>2, <2>3, FS_EmptySet, LimitsAssumption DEF LimitAt
  <2> QED
    BY <2>2, <2>3, <2>4, OffsetsAre DEF LimitOK
<1>2. TypeInv /\ TypeInv' /\ LimitOK /\ [Next]_vars => LimitOK'
  <2> SUFFICES ASSUME TypeInv, TypeInv', LimitOK, [Next]_vars PROVE LimitOK'
    OBVIOUS
  <2>1. CASE UNCHANGED vars
    <3>1. UNCHANGED <<guests, nConnect, unearned, raced, starts, ops, pc, cur>>
      BY <2>1 DEF vars, history
    <3>2. /\ AcceptOps' = AcceptOps /\ At(Chaining)' = At(Chaining) /\ At(Lowering)' = At(Lowering)
          /\ Uncounted' = Uncounted
      BY <3>1 DEF AcceptOps, At, Uncounted
    <3>3. Chains' = Chains
      BY <3>2 DEF Chains
    <3>4. ASSUME NEW m \in Offsets, LimitAt(m) PROVE LimitAt(m)'
      BY <3>1, <3>2, <3>3, <3>4 DEF LimitAt
    <3> QED
      BY <3>1, <3>3, <3>4 DEF LimitOK
  <2>2. ASSUME NEW t \in Threads, User(t) PROVE LimitOK'
    BY <2>2, LimitClose, LimitOthers
  <2> QED
    BY <2>1, <2>2, LimitCall, LimitServe, LimitRun DEF Next
<1>3. TypeInv /\ LimitOK => WithinLimit
  <2> SUFFICES ASSUME TypeInv, LimitOK, ~ unearned, ~ raced, MaxConnect + starts < Wrap
               PROVE  Cardinality(guests) <= MaxConnect + starts
    BY DEF WithinLimit
  <2>1. PICK m \in Offsets : LimitAt(m)
    BY DEF LimitOK
  <2>2. m \in Nat
    BY OffsetsAre
  <2>3. /\ Cardinality(guests) + Cardinality(At(Lowering)) <= nConnect - m + Cardinality(Uncounted)
        /\ nConnect - m + Chains <= MaxConnect + starts
    BY <2>1 DEF LimitAt
  <2> QED
    BY <2>2, <2>3, LimitNat, LimitsAssumption
<1> QED
  BY Types, <1>1, <1>2, <1>3, PTL DEF Spec

-----------------------------------------------------------------------------
(* The places of a socket_base                                             *)

HandlesOf(s) == {r \in Refs : Live(r) /\ sock[r] = s}
AcceptsFor(s) == {o \in ops : o.kind = "accept" /\ o.c = s}

Places(s) ==
  pool[s] + Cardinality(HandlesOf(s)) + Cardinality(AcceptsFor(s)) + Cardinality(WithClient(s))
    + Bit(s \in lost)

\* How a step changes each of them
PoolDelta(s) == (pool'[s] - Bit(s \in made')) - (pool[s] - Bit(s \in made))
HandlesDelta(s) == Cardinality(HandlesOf(s)') - Cardinality(HandlesOf(s))
AcceptsDelta(s) == Cardinality(AcceptsFor(s)') - Cardinality(AcceptsFor(s))
WithDelta(s) == Cardinality(WithClient(s)') - Cardinality(WithClient(s))
LostDelta(s) == Bit(s \in lost') - Bit(s \in lost)

Balanced(s) == PoolDelta(s) + HandlesDelta(s) + AcceptsDelta(s) + WithDelta(s) + LostDelta(s) = 0

\* A count that is 0 is read by one destructor.
OneReader ==
  \A r \in Refs : \A t, u \in Threads : ref[r] = 0 /\ dying[t] = r /\ dying[u] = r => t = u

OwnerOK ==
  ~ overlap => OneReader /\ \A s \in Sockets : Places(s) = Bit(s \in made)

LEMMA PlacesNat ==
  ASSUME TypeInv, NEW s \in Sockets
  PROVE  /\ IsFiniteSet(HandlesOf(s)) /\ IsFiniteSet(AcceptsFor(s)) /\ IsFiniteSet(WithClient(s))
         /\ Cardinality(HandlesOf(s)) \in Nat /\ Cardinality(AcceptsFor(s)) \in Nat
         /\ Cardinality(WithClient(s)) \in Nat /\ pool[s] \in Nat
<1>1. IsFiniteSet(HandlesOf(s)) /\ IsFiniteSet(WithClient(s))
  BY FS_Subset, FiniteAssumption DEF HandlesOf, WithClient
<1>2. IsFiniteSet(AcceptsFor(s))
  BY FS_Subset DEF AcceptsFor, TypeInv, OpsOK
<1> QED
  BY <1>1, <1>2, FS_CardinalityType DEF TypeInv, PoolOK

\* What is in one place is not in another.
LEMMA OnePlace ==
  ASSUME TypeInv, NEW s \in Sockets, Places(s) = Bit(s \in made)
  PROVE  /\ s \notin made => /\ pool[s] = 0 /\ s \notin lost
                             /\ HandlesOf(s) = {} /\ AcceptsFor(s) = {} /\ WithClient(s) = {}
         /\ pool[s] > 0 \/ HandlesOf(s) # {} \/ AcceptsFor(s) # {} \/ WithClient(s) # {}
              => s \notin lost /\ s \in made
<1> DEFINE a == pool[s]
           b == Cardinality(HandlesOf(s))
           c == Cardinality(AcceptsFor(s))
           d == Cardinality(WithClient(s))
<1>1. a \in Nat /\ b \in Nat /\ c \in Nat /\ d \in Nat
  BY PlacesNat
<1>2. /\ (b = 0) = (HandlesOf(s) = {}) /\ (c = 0) = (AcceptsFor(s) = {})
      /\ (d = 0) = (WithClient(s) = {})
  BY PlacesNat, FS_EmptySet
<1>3. a + b + c + d + Bit(s \in lost) = Bit(s \in made)
  BY DEF Places
<1> HIDE DEF a, b, c, d
<1>4. s \notin made => a = 0 /\ b = 0 /\ c = 0 /\ d = 0 /\ s \notin lost
  BY <1>1, <1>3 DEF Bit
<1>5. a > 0 \/ b # 0 \/ c # 0 \/ d # 0 => s \notin lost /\ s \in made
  BY <1>1, <1>3 DEF Bit
<1> QED
  BY <1>2, <1>4, <1>5 DEF a

\* Steps that move no socket_base
LEMMA OwnerQuiet ==
  ASSUME TypeInv, OwnerOK, UNCHANGED <<made, pool, lost, sock>>,
         \A r \in Refs : Live(r)' = Live(r),
         \A s \in Sockets : AcceptsFor(s)' = AcceptsFor(s) /\ WithClient(s)' = WithClient(s),
         ~ overlap' => ~ overlap, ~ overlap' /\ OneReader => OneReader'
  PROVE  OwnerOK'
<1>1. ASSUME NEW s \in Sockets PROVE HandlesOf(s)' = HandlesOf(s)
  BY DEF HandlesOf
<1>2. ASSUME NEW s \in Sockets PROVE Places(s)' = Places(s)
  BY <1>1 DEF Places
<1> QED
  BY <1>2 DEF OwnerOK

\* How the places change
LEMMA HandlesMove ==
  ASSUME TypeInv, NEW s \in Sockets, NEW r \in Refs,
         \A q \in Refs \ {r} : (Live(q)' = Live(q)) /\ sock'[q] = sock[q]
  PROVE  HandlesDelta(s) = Bit(Live(r)' /\ sock'[r] = s) - Bit(Live(r) /\ sock[r] = s)
<1>1. HandlesOf(s) \ {r} = HandlesOf(s)' \ {r}
  BY DEF HandlesOf
<1>2. /\ (r \in HandlesOf(s)) = (Live(r) /\ sock[r] = s)
      /\ (r \in HandlesOf(s)') = (Live(r)' /\ sock'[r] = s)
  BY DEF HandlesOf
<1>3. IsFiniteSet(HandlesOf(s))
  BY PlacesNat
<1>4. /\ Cardinality(HandlesOf(s)) \in Nat /\ Cardinality(HandlesOf(s)') \in Nat
      /\ Cardinality(HandlesOf(s)')
           = Cardinality(HandlesOf(s)) + Bit(r \in HandlesOf(s)') - Bit(r \in HandlesOf(s))
  BY <1>1, <1>3, CardMove
<1> QED
  BY <1>2, <1>4 DEF HandlesDelta, Bit

LEMMA WithMove ==
  ASSUME TypeInv, NEW s \in Sockets, NEW t \in Threads,
         \A u \in Threads \ {t} : pc'[u] = pc[u] /\ cur'[u] = cur[u]
  PROVE  WithDelta(s) = Bit(pc'[t] \in WithoutHandle /\ cur'[t].c = s)
                          - Bit(pc[t] \in WithoutHandle /\ cur[t].c = s)
<1>1. WithClient(s) \ {t} = WithClient(s)' \ {t}
  BY DEF WithClient
<1>2. /\ (t \in WithClient(s)) = (pc[t] \in WithoutHandle /\ cur[t].c = s)
      /\ (t \in WithClient(s)') = (pc'[t] \in WithoutHandle /\ cur'[t].c = s)
  BY DEF WithClient, WithoutHandle
<1>3. IsFiniteSet(WithClient(s))
  BY PlacesNat
<1>4. /\ Cardinality(WithClient(s)) \in Nat /\ Cardinality(WithClient(s)') \in Nat
      /\ Cardinality(WithClient(s)')
           = Cardinality(WithClient(s)) + Bit(t \in WithClient(s)') - Bit(t \in WithClient(s))
  BY <1>1, <1>3, CardMove
<1> QED
  BY <1>2, <1>4 DEF WithDelta, Bit

LEMMA WithSame ==
  ASSUME TypeInv, NEW s \in Sockets, NEW t \in Threads,
         \A u \in Threads \ {t} : pc'[u] = pc[u] /\ cur'[u] = cur[u],
         pc'[t] \in WithoutHandle /\ cur'[t].c = s <=> pc[t] \in WithoutHandle /\ cur[t].c = s
  PROVE  WithClient(s)' = WithClient(s) /\ WithDelta(s) = 0
<1>1. WithClient(s)' = WithClient(s)
  BY DEF WithClient, WithoutHandle
<1> QED
  BY <1>1, PlacesNat DEF WithDelta

LEMMA AcceptsMove ==
  ASSUME TypeInv, NEW s \in Sockets, NEW o, ops' = ops \ {o} \/ ops' = ops \cup {o}
  PROVE  AcceptsDelta(s) = Bit(o \in ops' /\ o.kind = "accept" /\ o.c = s)
                             - Bit(o \in ops /\ o.kind = "accept" /\ o.c = s)
<1>1. AcceptsFor(s) \ {o} = AcceptsFor(s)' \ {o}
  BY DEF AcceptsFor
<1>2. /\ (o \in AcceptsFor(s)) = (o \in ops /\ o.kind = "accept" /\ o.c = s)
      /\ (o \in AcceptsFor(s)') = (o \in ops' /\ o.kind = "accept" /\ o.c = s)
  BY DEF AcceptsFor
<1>3. IsFiniteSet(AcceptsFor(s))
  BY PlacesNat
<1>4. /\ Cardinality(AcceptsFor(s)) \in Nat /\ Cardinality(AcceptsFor(s)') \in Nat
      /\ Cardinality(AcceptsFor(s)')
           = Cardinality(AcceptsFor(s)) + Bit(o \in AcceptsFor(s)') - Bit(o \in AcceptsFor(s))
  BY <1>1, <1>3, CardMove
<1> QED
  BY <1>2, <1>4 DEF AcceptsDelta, Bit

LEMMA AcceptsSame ==
  ASSUME TypeInv, NEW s \in Sockets,
         \/ ops' = ops
         \/ \E o : o.kind # "accept" /\ (ops' = ops \ {o} \/ ops' = ops \cup {o})
  PROVE  AcceptsFor(s)' = AcceptsFor(s) /\ AcceptsDelta(s) = 0
<1>1. AcceptsFor(s)' = AcceptsFor(s)
  BY DEF AcceptsFor
<1> QED
  BY <1>1, PlacesNat DEF AcceptsDelta

\* SocketPool::get takes a socket_base from the pool, or makes it.
LEMMA GetMoves ==
  ASSUME TypeInv, NEW c \in Sockets, GetSocket(c), NEW s \in Sockets
  PROVE  PoolDelta(s) = 0 - Bit(s = c) /\ (pool[c] > 0 \/ c \notin made)
<1> USE DEF TypeInv, PoolOK
<1>1. CASE pool[c] > 0 /\ pool' = [pool EXCEPT ![c] = @ - 1] /\ made' = made
  <2>1. pool'[s] = pool[s] - Bit(s = c) /\ pool[s] \in Nat /\ Bit(s = c) \in Nat
    BY <1>1 DEF Bit
  <2> QED
    BY <1>1, <2>1 DEF Bit, PoolDelta
<1>2. CASE c \notin made /\ made' = made \cup {c} /\ pool' = pool
  <2>1. Bit(s \in made') = Bit(s \in made) + Bit(s = c) /\ Bit(s \in made) \in Nat /\ Bit(s = c) \in Nat
    BY <1>2 DEF Bit
  <2>2. pool[s] \in Nat
    OBVIOUS
  <2> QED
    BY <1>2, <2>1, <2>2 DEF PoolDelta
<1> QED
  BY <1>1, <1>2 DEF GetSocket

LEMMA PoolStays ==
  ASSUME TypeInv, NEW s \in Sockets, UNCHANGED <<made, pool>>
  PROVE  PoolDelta(s) = 0
<1>1. pool[s] \in Nat /\ Bit(s \in made) \in Nat
  BY DEF TypeInv, PoolOK, Bit
<1> QED
  BY <1>1 DEF PoolDelta

\* One is lost.
LEMMA LostOne ==
  ASSUME NEW s, NEW c, lost' = lost \cup {c}, s = c => s \notin lost
  PROVE  LostDelta(s) = Bit(s = c)
BY DEF LostDelta, Bit

LEMMA LostSame ==
  ASSUME NEW s, lost' = lost
  PROVE  LostDelta(s) = 0
BY DEF LostDelta, Bit

LEMMA BitIs == \A b \in BOOLEAN : Bit(b) \in {0, 1} /\ (b => Bit(b) = 1) /\ (~ b => Bit(b) = 0)
BY DEF Bit

\* The places of a socket_base change, and whether it was made.
LEMMA Balance ==
  ASSUME TypeInv, TypeInv', NEW s \in Sockets, Places(s) = Bit(s \in made),
         Balanced(s)
  PROVE  Places(s)' = Bit(s \in made')
<1> DEFINE P == pool[s]
           Q == pool'[s]
           m == Bit(s \in made)
           n == Bit(s \in made')
           H == Cardinality(HandlesOf(s))
           A == Cardinality(AcceptsFor(s))
           W == Cardinality(WithClient(s))
           L == Bit(s \in lost)
           I == Cardinality(HandlesOf(s)')
           B == Cardinality(AcceptsFor(s)')
           X == Cardinality(WithClient(s)')
           M == Bit(s \in lost')
<1>1. P \in Int /\ Q \in Int
  BY DEF TypeInv, PoolOK
<1>2. m \in Int /\ n \in Int /\ L \in Int /\ M \in Int
  BY DEF Bit
<1>3. H \in Int /\ A \in Int /\ W \in Int
  BY PlacesNat
<1>4. I \in Int /\ B \in Int /\ X \in Int
  <2>1. IsFiniteSet(HandlesOf(s)') /\ IsFiniteSet(WithClient(s)')
    BY FS_Subset, FiniteAssumption DEF HandlesOf, WithClient
  <2>2. IsFiniteSet(AcceptsFor(s)')
    BY FS_Subset DEF AcceptsFor, TypeInv, OpsOK
  <2> QED
    BY <2>1, <2>2, FS_CardinalityType
<1>5. P + H + A + W + L = m
  BY DEF Places
<1>6. ((Q - n) - (P - m)) + (I - H) + (B - A) + (X - W) + (M - L) = 0
  BY DEF Balanced, PoolDelta, HandlesDelta, AcceptsDelta, WithDelta, LostDelta
<1>7. Places(s)' = Q + I + B + X + M
  BY DEF Places
<1> HIDE DEF P, Q, m, n, H, A, W, L, I, B, X, M
<1>8. Q + I + B + X + M = n
  BY <1>1, <1>2, <1>3, <1>4, <1>5, <1>6
<1> QED
  BY <1>7, <1>8 DEF n

\* Steps that move a socket_base
LEMMA OwnerMoves ==
  ASSUME TypeInv, TypeInv', OwnerOK, ~ overlap' => ~ overlap /\ OneReader',
         \A s \in Sockets : ~ overlap' /\ Places(s) = Bit(s \in made) => Balanced(s)
  PROVE  OwnerOK'
BY Balance DEF OwnerOK

\* The destructor lowers a count: it stays live, and nobody else is about to read
\* it if it becomes 0.
LEMMA LowerMoves ==
  ASSUME TypeInv, NEW t \in Threads, NEW r \in Refs, LowerRef(t, r), dying[t] = None
  PROVE  /\ UNCHANGED <<made, pool, lost, sock>> /\ \A q \in Refs : Live(q)' = Live(q)
         /\ ~ overlap' => ~ overlap /\ (OneReader => OneReader')
<1> USE DEF TypeInv
<1>1. Live(r) /\ ref[r] > 0 /\ ref[r] \in Nat
  BY HoldsCounted DEF LowerRef, Holds, CountsOK
<1>2. /\ dying'[t] = r /\ \A u \in Threads \ {t} : dying'[u] = dying[u]
      /\ ref'[r] = ref[r] - 1 /\ \A q \in Refs \ {r} : ref'[q] = ref[q]
  BY DEF LowerRef, CountsOK
<1>3. \A q \in Refs : Live(q)' = Live(q)
  <2>1. Live(r)'
    BY <1>2 DEF Live
  <2>2. ASSUME NEW q \in Refs \ {r} PROVE Live(q)' = Live(q)
    BY <1>2, NoneAssumption DEF Live
  <2>3. Live(r)' = Live(r)
    BY <1>1, <2>1 DEF Live
  <2> QED
    BY <2>2, <2>3
<1>4. ASSUME ~ overlap', OneReader PROVE OneReader'
  <2>1. ref[r] = 1 => \A u \in Threads : dying[u] # r
    BY <1>4 DEF LowerRef, CountsOK
  <2>2. SUFFICES ASSUME NEW q \in Refs, NEW u \in Threads, NEW v \in Threads,
                        ref'[q] = 0, dying'[u] = q, dying'[v] = q
                 PROVE  u = v
    BY DEF OneReader
  <2>3. CASE q = r
    BY <1>1, <1>2, <2>1, <2>2, <2>3
  <2>4. CASE q # r
    BY <1>2, <1>4, <2>2, <2>4 DEF OneReader
  <2> QED
    BY <2>3, <2>4
<1> QED
  BY <1>3, <1>4 DEF LowerRef, CountsOK

LEMMA CopyMoves ==
  ASSUME TypeInv, NEW t \in Threads, NEW u \in Threads, NEW r \in Refs, CopyHandle(t, u, r)
  PROVE  /\ UNCHANGED <<made, pool, lost, sock, overlap>> /\ \A q \in Refs : Live(q)' = Live(q)
         /\ OneReader => OneReader'
<1> USE DEF TypeInv
<1>1. ref[r] > 0 /\ ref[r] \in Nat /\ dying' = dying
  BY HoldsCounted DEF CopyHandle, Holds, CountsOK
<1>2. ref'[r] = ref[r] + 1 /\ \A q \in Refs \ {r} : ref'[q] = ref[q]
  BY DEF CopyHandle, CountsOK
<1>3. \A q \in Refs : Live(q)' = Live(q)
  BY <1>1, <1>2 DEF Live
<1>4. OneReader => OneReader'
  BY <1>1, <1>2 DEF OneReader
<1> QED
  BY <1>3, <1>4 DEF CopyHandle

\* The name of a count that is not live is given to the handle.
LEMMA NewMoves ==
  ASSUME TypeInv, NEW t \in Threads, NEW r \in Refs, NEW c \in Sockets, NewHandle(t, r, c), dying' = dying
  PROVE  /\ ~ Live(r) /\ Live(r)' /\ sock'[r] = c
         /\ \A q \in Refs \ {r} : (Live(q)' = Live(q)) /\ sock'[q] = sock[q]
         /\ OneReader => OneReader'
<1> USE DEF TypeInv
<1>1. ref'[r] = 1 /\ \A q \in Refs \ {r} : ref'[q] = ref[q]
  BY DEF NewHandle, CountsOK
<1>2. sock'[r] = c /\ \A q \in Refs \ {r} : sock'[q] = sock[q]
  BY DEF NewHandle, CountsOK
<1>3. Live(r)' /\ ~ Live(r) /\ \A q \in Refs \ {r} : Live(q)' = Live(q)
  BY <1>1 DEF Live, NewHandle
<1>4. OneReader => OneReader'
  BY <1>1 DEF OneReader
<1> QED
  BY <1>2, <1>3, <1>4

LEMMA OwnerOpen ==
  ASSUME TypeInv, TypeInv', OwnerOK, NEW t \in Threads, Open(t)
  PROVE  OwnerOK'
<1>1. \A s \in Sockets : AcceptsFor(s)' = AcceptsFor(s) /\ WithClient(s)' = WithClient(s)
  BY DEF Open, Unmoved, Waiting, AcceptsFor, WithClient
<1>2. CASE GetThrows /\ UNCHANGED <<sock, ref>>
  <2>1. UNCHANGED <<made, pool, lost, sock, ref, dying, overlap>>
    BY <1>2 DEF Open, GetThrows
  <2>2. \A r \in Refs : Live(r)' = Live(r)
    BY <2>1 DEF Live
  <2> QED
    BY <1>1, <2>1, <2>2, OwnerQuiet DEF OneReader
<1>3. ASSUME NEW c \in Sockets, NEW r \in Refs, GetSocket(c), NewHandle(t, r, c) PROVE OwnerOK'
  <2>1. UNCHANGED <<lost, dying, overlap>>
    BY DEF Open
  <2>2. ASSUME NEW s \in Sockets PROVE Balanced(s)
    <3>1. HandlesDelta(s) = Bit(s = c)
      <4>1. HandlesDelta(s) = Bit(Live(r)' /\ sock'[r] = s) - Bit(Live(r) /\ sock[r] = s)
        BY <1>3, <2>1, NewMoves, HandlesMove
      <4> QED
        BY <1>3, <2>1, <4>1, NewMoves DEF Bit
    <3>2. PoolDelta(s) = 0 - Bit(s = c) /\ LostDelta(s) = 0
      BY <1>3, <2>1, GetMoves, LostSame
    <3>3. AcceptsDelta(s) = 0 /\ WithDelta(s) = 0
      BY <1>1, PlacesNat DEF AcceptsDelta, WithDelta
    <3> QED
      BY <3>1, <3>2, <3>3 DEF Balanced, Bit
  <2> QED
    BY <1>3, <2>1, <2>2, NewMoves, OwnerMoves DEF OwnerOK
<1> QED
  BY <1>2, <1>3 DEF Open, GetReset

LEMMA OwnerAssign ==
  ASSUME TypeInv, TypeInv', OwnerOK, NEW t \in Threads, NEW r \in Refs, NEW q \in Refs, Assign(t, r, q)
  PROVE  OwnerOK'
<1> USE DEF TypeInv
<1>1. \A s \in Sockets : AcceptsFor(s)' = AcceptsFor(s) /\ WithClient(s)' = WithClient(s)
  BY DEF Assign, Unmoved, Waiting, AcceptsFor, WithClient
<1>2. r # q /\ ref[r] > 0 /\ ref[q] > 0 /\ ref[r] \in Nat /\ ref[q] \in Nat /\ sock[r] \in Sockets
  BY HoldsCounted DEF Assign, AssignHandle, Holds, CountsOK, PoolOK
<1>3. /\ ref'[r] = ref[r] - 1 /\ ref'[q] = ref[q] + 1 /\ \A p \in Refs \ {r, q} : ref'[p] = ref[p]
      /\ UNCHANGED <<made, pool, sock, dying>>
  BY <1>2 DEF Assign, AssignHandle, CountsOK
<1>4. \A p \in Refs \ {r} : Live(p)' = Live(p)
  BY <1>2, <1>3 DEF Live
<1>5. Live(r) /\ (Live(r)' \/ (ref[r] = 1 /\ \A u \in Threads : dying[u] # r))
  BY <1>2, <1>3 DEF Live
<1>6. ~ overlap' => ~ overlap /\ (OneReader => OneReader')
  <2>1. ASSUME ~ overlap', OneReader PROVE OneReader'
    <3>1. ref[r] = 1 => \A u, v \in Threads : dying[u] = r /\ dying[v] = r => u = v
      BY <2>1 DEF Assign, AssignHandle, CountsOK
    <3>2. SUFFICES ASSUME NEW p \in Refs, NEW u \in Threads, NEW v \in Threads,
                          ref'[p] = 0, dying'[u] = p, dying'[v] = p
                   PROVE  u = v
      BY DEF OneReader
    <3>3. CASE p = r
      BY <1>2, <1>3, <3>1, <3>2, <3>3
    <3>4. CASE p # r
      BY <1>2, <1>3, <2>1, <3>2, <3>4 DEF OneReader
    <3> QED
      BY <3>3, <3>4
  <2> QED
    BY <2>1 DEF Assign, AssignHandle, CountsOK
<1>7. CASE Live(r)'
  <2>1. ~ (ref[r] = 1 /\ \A u \in Threads : dying[u] # r)
    BY <1>2, <1>3, <1>7 DEF Live
  <2>2. lost' = lost
    BY <2>1 DEF Assign, AssignHandle
  <2>3. \A p \in Refs : Live(p)' = Live(p)
    <3>1. Live(r)' = Live(r)
      BY <1>5, <1>7 DEF Live
    <3> QED
      BY <1>4, <3>1
  <2> QED
    BY <1>1, <1>3, <1>6, <2>2, <2>3, OwnerQuiet
<1>8. CASE ~ Live(r)'
  <2> DEFINE x == sock[r]
  <2>1. lost' = lost \cup {x}
    BY <1>5, <1>8 DEF Assign, AssignHandle
  <2>2. ASSUME NEW s \in Sockets, Places(s) = Bit(s \in made) PROVE Balanced(s)
    <3>1. HandlesDelta(s) = 0 - Bit(s = x)
      <4>1. HandlesDelta(s) = Bit(Live(r)' /\ sock'[r] = s) - Bit(Live(r) /\ sock[r] = s)
        BY <1>3, <1>4, HandlesMove
      <4> QED
        BY <1>5, <1>8, <4>1 DEF Bit
    <3>2. s = x => s \notin lost
      <4>1. s = x => HandlesOf(s) # {}
        BY <1>5 DEF HandlesOf
      <4> QED
        BY <2>2, <4>1, OnePlace
    <3>3. LostDelta(s) = Bit(s = x) /\ PoolDelta(s) = 0
      BY <1>3, <2>1, <3>2, LostOne, PoolStays
    <3>4. AcceptsDelta(s) = 0 /\ WithDelta(s) = 0
      BY <1>1, PlacesNat DEF AcceptsDelta, WithDelta
    <3> QED
      BY <3>1, <3>3, <3>4 DEF Balanced, Bit
  <2> QED
    BY <1>6, <2>2, OwnerMoves DEF OwnerOK
<1> QED
  BY <1>7, <1>8

LEMMA OwnerUser ==
  ASSUME TypeInv, TypeInv', OwnerOK, NEW t \in Threads, User(t)
  PROVE  OwnerOK'
<1> USE DEF TypeInv
<1>a. pc[t] = "idle" /\ dying[t] = None
  <2>1. pc[t] = "idle"
    BY DEF User, Open, Reopen, Destroy, RegisterAccept, Listen, StopAccept, Connect, CloseIdle,
           Close, Copy, Assign, Call
  <2> QED
    BY <2>1 DEF ThreadsOK, ThreadOK
<1>1. ASSUME NEW r \in Refs, Reopen(t, r) \/ RegisterAccept(t, r) \/ Listen(t, r) \/ StopAccept(t, r)
                               \/ Connect(t, r) \/ CloseIdle(t, r) \/ Close(t, r)
      PROVE  OwnerOK'
  <2>1. UNCHANGED handles
    BY <1>1 DEF Reopen, RegisterAccept, Listen, StopAccept, Connect, CloseIdle, Close
  <2>2. ops' = ops \/ \E o : o.kind # "accept" /\ ops' = ops \cup {o}
    <3>1. \A s : Operation("connect", s, None).kind = "connect" /\ Operation("close", s, None).kind = "close"
      BY DEF Operation, Nothing
    <3>2. \/ ops' = ops
          \/ ops' = ops \cup {Operation("connect", sock[r], None)}
          \/ ops' = ops \cup {Operation("close", sock[r], None)}
      BY <1>1 DEF Reopen, RegisterAccept, Listen, StopAccept, Connect, Connecting, CloseIdle, Close,
                  Unmoved
    <3> QED
      BY <3>1, <3>2
  <2>3. /\ pc'[t] \notin WithoutHandle
        /\ \A u \in Threads \ {t} : pc'[u] = pc[u] /\ cur'[u] = cur[u]
    BY <1>1, <1>a DEF Reopen, RegisterAccept, Listen, StopAccept, Connect, CloseIdle, Close, Waiting,
                      Goto, ThreadsOK, WithoutHandle
  <2>4. \A s \in Sockets : AcceptsFor(s)' = AcceptsFor(s) /\ WithClient(s)' = WithClient(s)
    BY <1>a, <2>2, <2>3, AcceptsSame, WithSame DEF WithoutHandle
  <2>5. \A q \in Refs : Live(q)' = Live(q)
    BY <2>1 DEF handles, Live
  <2> QED
    BY <2>1, <2>4, <2>5, OwnerQuiet DEF handles, OneReader
<1>2. ASSUME NEW r \in Refs, Destroy(t, r) PROVE OwnerOK'
  <2>1. /\ pc'[t] = "destroy" /\ cur' = cur /\ ops' = ops
        /\ \A u \in Threads \ {t} : pc'[u] = pc[u]
    BY <1>2 DEF Destroy, Unmoved, Goto, ThreadsOK
  <2>2. \A s \in Sockets : AcceptsFor(s)' = AcceptsFor(s) /\ WithClient(s)' = WithClient(s)
    BY <1>a, <2>1, AcceptsSame, WithSame DEF WithoutHandle
  <2>3. LowerRef(t, r)
    BY <1>2 DEF Destroy
  <2> QED
    BY <1>a, <2>2, <2>3, LowerMoves, OwnerQuiet
<1>3. ASSUME NEW u \in Threads, NEW r \in Refs, Copy(t, u, r) PROVE OwnerOK'
  <2>1. \A s \in Sockets : AcceptsFor(s)' = AcceptsFor(s) /\ WithClient(s)' = WithClient(s)
    BY <1>3 DEF Copy, Unmoved, Waiting, AcceptsFor, WithClient
  <2>2. CopyHandle(t, u, r)
    BY <1>3 DEF Copy
  <2> QED
    BY <2>1, <2>2, CopyMoves, OwnerQuiet
<1> QED
  BY <1>1, <1>2, <1>3, OwnerOpen, OwnerAssign DEF User

\* The destructor reads a count.  It is alone if the count is 0.
LEMMA OwnerDestroyed ==
  ASSUME TypeInv, TypeInv', OwnerOK, NEW t \in Threads, Destroyed(t)
  PROVE  OwnerOK'
<1> USE DEF TypeInv
<1>0. PICK r \in Refs : r = dying[t]
  BY DEF Destroyed, TestRef, CountsOK
<1>a. PICK x : x = sock[r]
  OBVIOUS
<1>1. Live(r) /\ x \in Sockets
  BY <1>0, <1>a DEF CountsOK, PoolOK, Live
<1>2. UNCHANGED <<made, sock, ref, overlap>> /\ cur' = cur /\ ops' = ops
  BY DEF Destroyed, TestRef, Unmoved
<1>3. dying'[t] = None /\ \A u \in Threads \ {t} : dying'[u] = dying[u]
  BY DEF Destroyed, TestRef, CountsOK
<1>4. pc[t] = "destroy" /\ pc'[t] = "idle" /\ \A u \in Threads \ {t} : pc'[u] = pc[u]
  BY DEF Destroyed, Goto, ThreadsOK
<1>5. \A s \in Sockets : /\ AcceptsFor(s)' = AcceptsFor(s) /\ WithClient(s)' = WithClient(s)
                         /\ AcceptsDelta(s) = 0 /\ WithDelta(s) = 0
  BY <1>2, <1>4, AcceptsSame, WithSame DEF WithoutHandle
<1>6. \A q \in Refs \ {r} : Live(q)' = Live(q)
  BY <1>0, <1>2, <1>3, NoneAssumption DEF Live
<1>7. OneReader => OneReader'
  BY <1>2, <1>3, NoneAssumption DEF OneReader
<1>8. CASE ref[r] # 0
  <2>1. ref[r] > 0
    BY <1>8 DEF CountsOK
  <2>2. \A q \in Refs : Live(q)' = Live(q)
    <3>1. Live(r)' = Live(r)
      BY <1>2, <2>1 DEF Live
    <3> QED
      BY <1>6, <3>1
  <2>3. UNCHANGED <<pool, lost>>
    BY <1>0, <1>8 DEF Destroyed, TestRef
  <2> QED
    BY <1>2, <1>5, <1>7, <2>2, <2>3, OwnerQuiet
<1>9. CASE ref[r] = 0
  <2>0. Release(x)
    BY <1>0, <1>a, <1>9 DEF Destroyed, TestRef
  <2>1. OneReader => ~ Live(r)'
    <3>1. ASSUME OneReader, NEW u \in Threads, dying'[u] = r PROVE FALSE
      <4>1. u # t /\ dying[u] = r
        BY <1>3, <3>1, NoneAssumption
      <4> QED
        BY <1>0, <1>9, <3>1, <4>1 DEF OneReader
    <3> QED
      BY <1>2, <1>9, <3>1 DEF Live
  <2>2. ASSUME NEW s \in Sockets, ~ overlap, Places(s) = Bit(s \in made) PROVE Balanced(s)
    <3>1. HandlesDelta(s) = 0 - Bit(s = x)
      <4>1. HandlesDelta(s) = Bit(Live(r)' /\ sock'[r] = s) - Bit(Live(r) /\ sock[r] = s)
        BY <1>2, <1>6, HandlesMove
      <4>2. ~ Live(r)'
        BY <2>1, <2>2 DEF OwnerOK
      <4> QED
        BY <1>1, <1>a, <4>1, <4>2 DEF Bit
    <3>2. s = x => s \notin lost
      <4>1. s = x => HandlesOf(s) # {}
        BY <1>1, <1>a DEF HandlesOf
      <4> QED
        BY <2>2, <4>1, OnePlace
    <3>3. PoolDelta(s) + LostDelta(s) = Bit(s = x) /\ PoolDelta(s) \in Int /\ LostDelta(s) \in Int
      <4>1. CASE lost' = lost \cup {x} /\ pool' = pool
        <5>1. LostDelta(s) = Bit(s = x) /\ PoolDelta(s) = 0
          BY <1>2, <3>2, <4>1, LostOne, PoolStays
        <5> QED
          BY <5>1 DEF Bit
      <4>2. CASE pool' = [pool EXCEPT ![x] = @ + 1] /\ lost' = lost
        <5>1. pool[s] \in Nat /\ pool'[s] = pool[s] + Bit(s = x) /\ Bit(s = x) \in Nat
          BY <1>1, <4>2 DEF PoolOK, Bit
        <5>2. Bit(s \in made) \in Nat /\ Bit(s \in made') = Bit(s \in made)
          BY <1>2 DEF Bit
        <5>3. PoolDelta(s) = Bit(s = x)
          BY <5>1, <5>2 DEF PoolDelta
        <5>4. LostDelta(s) = 0
          BY <4>2, LostSame
        <5> QED
          BY <5>1, <5>3, <5>4
      <4> QED
        BY <2>0, <4>1, <4>2 DEF Release
    <3> QED
      BY <1>5, <3>1, <3>3 DEF Balanced, Bit
  <2> QED
    BY <1>2, <1>7, <2>2, OwnerMoves DEF OwnerOK
<1> QED
  BY <1>8, <1>9

\* do_async_accpet
LEMMA OwnerAccept ==
  ASSUME TypeInv, TypeInv', OwnerOK, NEW t \in Threads,
         UNCHANGED <<sock, ref, dying, overlap>>,
         \A s \in Sockets : WithDelta(s) = 0,
         \E c \in Sockets : (\E s \in Sockets : Accepting(s, c)) \/ NotAccepting(c)
  PROVE  OwnerOK'
<1> USE DEF TypeInv
<1>1. PICK c \in Sockets : GetSocket(c) /\ ((\E s \in Sockets : Accepting(s, c)) \/ NotAccepting(c))
  BY DEF Accepting, NotAccepting, GetReset
<1>2. \A r \in Refs : Live(r)' = Live(r)
  BY DEF Live
<1>3. OneReader => OneReader'
  BY DEF OneReader
<1>4. ASSUME NEW s \in Sockets, Places(s) = Bit(s \in made) PROVE Balanced(s)
  <2>1. HandlesDelta(s) = 0
    <3>1. HandlesOf(s)' = HandlesOf(s)
      BY <1>2 DEF HandlesOf
    <3> QED
      BY <3>1, PlacesNat DEF HandlesDelta
  <2>2. PoolDelta(s) = 0 - Bit(s = c) /\ (pool[c] > 0 \/ c \notin made)
    BY <1>1, GetMoves
  <2>3. CASE NotAccepting(c)
    <3>1. lost' = lost \cup {c} /\ ops' = ops
      BY <2>3 DEF NotAccepting
    <3>2. s = c => s \notin lost
      BY <1>4, <2>2, OnePlace
    <3>3. LostDelta(s) = Bit(s = c) /\ AcceptsDelta(s) = 0
      BY <3>1, <3>2, LostOne, AcceptsSame
    <3> QED
      BY <2>1, <2>2, <3>3 DEF Balanced, Bit
  <2>4. ASSUME NEW l \in Sockets, Accepting(l, c) PROVE Balanced(s)
    <3> DEFINE o == Operation("accept", l, c)
    <3>1. ops' = ops \cup {o} /\ lost' = lost /\ \A p \in ops : p.c # c
      BY <2>4 DEF Accepting, CanAccept
    <3>2. o.kind = "accept" /\ o.c = c
      BY OperationIs
    <3> HIDE DEF o
    <3>3. AcceptsDelta(s) = Bit(o \in ops' /\ o.kind = "accept" /\ o.c = s)
                              - Bit(o \in ops /\ o.kind = "accept" /\ o.c = s)
      BY <3>1, AcceptsMove
    <3>4. o \in ops' /\ o \notin ops
      BY <3>1, <3>2
    <3>5. AcceptsDelta(s) = Bit(s = c)
      BY <3>2, <3>3, <3>4 DEF Bit
    <3>6. LostDelta(s) = 0
      BY <3>1, LostSame
    <3> QED
      BY <2>1, <2>2, <3>5, <3>6 DEF Balanced, Bit
  <2> QED
    BY <1>1, <2>3, <2>4
<1> QED
  BY <1>3, <1>4, OwnerMoves DEF OwnerOK

LEMMA OwnerCall ==
  ASSUME TypeInv, TypeInv', OwnerOK, NEW t \in Threads, InCall(t)
  PROVE  OwnerOK'
<1> USE DEF TypeInv
<1>1. ASSUME UNCHANGED <<made, pool, lost, sock, ref, dying, overlap, ops>>,
             \A u \in Threads \ {t} : pc'[u] = pc[u] /\ cur'[u] = cur[u],
             pc[t] \notin WithoutHandle, pc'[t] \notin WithoutHandle
      PROVE  OwnerOK'
  <2>1. \A s \in Sockets : AcceptsFor(s)' = AcceptsFor(s) /\ WithClient(s)' = WithClient(s)
    BY <1>1, AcceptsSame, WithSame
  <2>2. \A r \in Refs : Live(r)' = Live(r)
    BY <1>1 DEF Live
  <2> QED
    BY <1>1, <2>1, <2>2, OwnerQuiet DEF OneReader
<1>2. CASE SetAccept(t) \/ Uncount(t) \/ Lower(t)
  <2>1. UNCHANGED <<made, pool, lost, sock, ref, dying, overlap, ops>>
    BY <1>2 DEF SetAccept, Uncount, Lower, ReadCount, handles
  <2>2. /\ pc[t] \in {"listen", "uncount", "lower"} /\ pc'[t] \in {"first", "idle", "lower"}
        /\ \A u \in Threads \ {t} : pc'[u] = pc[u] /\ cur'[u] = cur[u]
    BY <1>2 DEF SetAccept, Uncount, Lower, ReadCount, Done, Goto, ThreadsOK
  <2> QED
    BY <1>1, <2>1, <2>2 DEF WithoutHandle
<1>3. CASE FirstAccept(t)
  <2>1. pc[t] = "first" /\ UNCHANGED <<sock, ref, dying, overlap>> /\ cur[t].s \in Sockets
    BY <1>3 DEF FirstAccept, ThreadsOK, ThreadOK
  <2>2. /\ pc'[t] \in {"first", "idle"}
        /\ \A u \in Threads \ {t} : pc'[u] = pc[u] /\ cur'[u] = cur[u]
    BY <1>3, <2>1 DEF FirstAccept, Done, Goto, ThreadsOK
  <2>3. CASE AcceptThrows
    <3>1. UNCHANGED <<made, pool, lost, ops>>
      BY <2>3 DEF AcceptThrows, GetThrows
    <3> QED
      BY <1>1, <2>1, <2>2, <3>1 DEF WithoutHandle
  <2>4. CASE \E c \in Sockets : Accepting(cur[t].s, c) \/ NotAccepting(c)
    <3>1. \A s \in Sockets : WithDelta(s) = 0
      BY <2>1, <2>2, WithSame DEF WithoutHandle
    <3> QED
      BY <2>1, <2>4, <3>1, OwnerAccept
  <2> QED
    BY <1>3, <2>3, <2>4 DEF FirstAccept
<1> QED
  BY <1>2, <1>3, OwnerDestroyed DEF InCall

\* The client that was accepted goes from the AcceptEx to the thread.
LEMMA OwnerComplete ==
  ASSUME TypeInv, TypeInv', OwnerOK, NEW t \in Threads, AcceptComplete(t)
  PROVE  OwnerOK'
<1> USE DEF TypeInv
<1>1. PICK o \in ops, err \in BOOLEAN :
        /\ pc[t] = "idle" /\ o.kind = "accept" /\ ops' = ops \ {o}
        /\ cur' = [cur EXCEPT ![t] = [o EXCEPT !.err = err]]
        /\ Goto(t, "on_accept")
        /\ UNCHANGED handles
  BY DEF AcceptComplete
<1>2. o \in Operations
  BY DEF OpsOK, OpOK
<1>3. /\ pc'[t] = "on_accept" /\ cur'[t].c = o.c
      /\ \A u \in Threads \ {t} : pc'[u] = pc[u] /\ cur'[u] = cur[u]
  BY <1>1, <1>2 DEF Goto, ThreadsOK, Operations
<1>4. UNCHANGED <<made, pool, lost, sock, ref, dying, overlap>>
  BY <1>1 DEF handles
<1>5. ASSUME NEW s \in Sockets PROVE Balanced(s)
  <2>1. HandlesDelta(s) = 0
    <3>1. HandlesOf(s)' = HandlesOf(s)
      BY <1>4 DEF HandlesOf, Live
    <3> QED
      BY <3>1, PlacesNat DEF HandlesDelta
  <2>2. PoolDelta(s) = 0 /\ LostDelta(s) = 0
    BY <1>4, PoolStays, LostSame
  <2>3. AcceptsDelta(s) = 0 - Bit(o.c = s)
    <3>1. AcceptsDelta(s) = Bit(o \in ops' /\ o.kind = "accept" /\ o.c = s)
                              - Bit(o \in ops /\ o.kind = "accept" /\ o.c = s)
      BY <1>1, AcceptsMove
    <3> QED
      BY <1>1, <3>1 DEF Bit
  <2>4. WithDelta(s) = Bit(o.c = s)
    <3>1. WithDelta(s) = Bit(pc'[t] \in WithoutHandle /\ cur'[t].c = s)
                           - Bit(pc[t] \in WithoutHandle /\ cur[t].c = s)
      BY <1>3, WithMove
    <3> QED
      BY <1>1, <1>3, <3>1 DEF Bit, WithoutHandle
  <2> QED
    BY <2>1, <2>2, <2>3, <2>4 DEF Balanced, Bit
<1> QED
  BY <1>4, <1>5, OwnerMoves DEF OwnerOK, OneReader

LEMMA OwnerRun ==
  ASSUME TypeInv, TypeInv', OwnerOK, NEW t \in Threads, Run(t)
  PROVE  OwnerOK'
<1> USE DEF TypeInv
<1>1. CASE ConnectFails(t) \/ ConnectComplete(t) \/ CloseComplete(t)
  <2>1. PICK o \in ops : o.kind \in {"connect", "close"} /\ (ops' = ops \/ ops' = ops \ {o})
    BY <1>1 DEF ConnectFails, ConnectComplete, CloseComplete
  <2>2. UNCHANGED <<made, pool, lost, sock, ref, dying, overlap, pc, cur>>
    BY <1>1 DEF ConnectFails, ConnectComplete, CloseComplete, Waiting, handles
  <2>3. \A s \in Sockets : AcceptsFor(s)' = AcceptsFor(s) /\ WithClient(s)' = WithClient(s)
    BY <2>1, <2>2, AcceptsSame DEF WithClient
  <2>4. \A r \in Refs : Live(r)' = Live(r)
    BY <2>2 DEF Live
  <2> QED
    BY <2>2, <2>3, <2>4, OwnerQuiet DEF OneReader
<1> QED
  BY <1>1, OwnerComplete DEF Run

\* The client gets its first handle.
LEMMA OwnerHandle ==
  ASSUME TypeInv, TypeInv', OwnerOK, NEW t \in Threads, Handle(t)
  PROVE  OwnerOK'
<1> USE DEF TypeInv
<1>0. PICK c : c = cur[t].c
  OBVIOUS
<1>1. PICK r \in Refs : NewHandle(t, r, c) /\ cur' = [cur EXCEPT ![t].r = r]
  BY <1>0 DEF Handle
<1>2. pc[t] = "handle" /\ c \in Sockets
  BY <1>0 DEF Handle, ThreadsOK, ThreadOK, Serving, WithoutHandle, PoolOK
<1>3. UNCHANGED <<made, pool, lost, dying, overlap, ops>>
  BY DEF Handle, Unmoved
<1>4. /\ pc'[t] \notin WithoutHandle
      /\ \A u \in Threads \ {t} : pc'[u] = pc[u] /\ cur'[u] = cur[u]
  BY <1>1 DEF Handle, Goto, ThreadsOK, WithoutHandle
<1>5. ASSUME NEW s \in Sockets PROVE Balanced(s)
  <2>1. HandlesDelta(s) = Bit(s = c)
    <3>1. HandlesDelta(s) = Bit(Live(r)' /\ sock'[r] = s) - Bit(Live(r) /\ sock[r] = s)
      BY <1>1, <1>2, <1>3, NewMoves, HandlesMove
    <3> QED
      BY <1>1, <1>2, <1>3, <3>1, NewMoves DEF Bit
  <2>2. WithDelta(s) = 0 - Bit(s = c)
    <3>1. WithDelta(s) = Bit(pc'[t] \in WithoutHandle /\ cur'[t].c = s)
                           - Bit(pc[t] \in WithoutHandle /\ cur[t].c = s)
      BY <1>4, WithMove
    <3> QED
      BY <1>0, <1>2, <1>4, <3>1 DEF Bit, WithoutHandle
  <2>3. PoolDelta(s) = 0 /\ LostDelta(s) = 0 /\ AcceptsDelta(s) = 0
    BY <1>3, PoolStays, LostSame, AcceptsSame
  <2> QED
    BY <2>1, <2>2, <2>3 DEF Balanced, Bit
<1>6. OneReader => OneReader'
  BY <1>1, <1>2, <1>3, NewMoves
<1> QED
  BY <1>3, <1>5, <1>6, OwnerMoves DEF OwnerOK

LEMMA OwnerNext ==
  ASSUME TypeInv, TypeInv', OwnerOK, NEW t \in Threads, NextAccept(t)
  PROVE  OwnerOK'
<1> USE DEF TypeInv
<1>0. PICK c : c = cur[t].c
  OBVIOUS
<1>1. pc[t] = "next" /\ UNCHANGED <<sock, ref, dying, overlap>> /\ cur[t].s \in Sockets /\ c \in Sockets
  BY <1>0 DEF NextAccept, ThreadsOK, ThreadOK, Serving, WithoutHandle, PoolOK
<1>2. \A u \in Threads \ {t} : pc'[u] = pc[u] /\ cur'[u] = cur[u]
  BY DEF NextAccept, Done, Goto, ThreadsOK
<1>3. CASE /\ \E d \in Sockets : Accepting(cur[t].s, d) \/ NotAccepting(d)
           /\ Goto(t, "client") /\ cur' = cur
  <2>1. pc'[t] = "client"
    BY <1>3 DEF Goto, ThreadsOK
  <2>2. \A s \in Sockets : WithDelta(s) = 0
    BY <1>1, <1>2, <1>3, <2>1, WithSame DEF WithoutHandle
  <2> QED
    BY <1>1, <1>3, <2>2, OwnerAccept
<1>4. CASE GetThrows /\ ops' = ops /\ lost' = lost \cup {c} /\ Done(t)
  <2>1. UNCHANGED <<made, pool>>
    BY <1>4 DEF GetThrows
  <2>2. pc'[t] = "idle"
    BY <1>4 DEF Done, Goto, ThreadsOK
  <2>3. ASSUME NEW s \in Sockets, Places(s) = Bit(s \in made) PROVE Balanced(s)
    <3>1. HandlesDelta(s) = 0
      <4>1. HandlesOf(s)' = HandlesOf(s)
        BY <1>1 DEF HandlesOf, Live
      <4> QED
        BY <4>1, PlacesNat DEF HandlesDelta
    <3>2. PoolDelta(s) = 0 /\ AcceptsDelta(s) = 0
      BY <1>4, <2>1, PoolStays, AcceptsSame
    <3>3. WithDelta(s) = 0 - Bit(s = c)
      <4>1. WithDelta(s) = Bit(pc'[t] \in WithoutHandle /\ cur'[t].c = s)
                             - Bit(pc[t] \in WithoutHandle /\ cur[t].c = s)
        BY <1>2, WithMove
      <4> QED
        BY <1>0, <1>1, <2>2, <4>1 DEF Bit, WithoutHandle
    <3>4. LostDelta(s) = Bit(s = c)
      <4>1. s = c => WithClient(s) # {}
        BY <1>0, <1>1 DEF WithClient
      <4>2. s = c => s \notin lost
        BY <2>3, <4>1, OnePlace
      <4> QED
        BY <1>4, <4>2, LostOne
    <3> QED
      BY <3>1, <3>2, <3>3, <3>4 DEF Balanced, Bit
  <2> QED
    BY <1>1, <2>3, OwnerMoves DEF OwnerOK, OneReader
<1> QED
  BY <1>0, <1>3, <1>4 DEF NextAccept

LEMMA OwnerServe ==
  ASSUME TypeInv, TypeInv', OwnerOK, NEW t \in Threads, OnAccept(t)
  PROVE  OwnerOK'
<1> USE DEF TypeInv
<1>1. CASE CountAccept(t) \/ Raise(t) \/ Ask(t) \/ Client(t) \/ HandlerReturns(t)
  <2>1. UNCHANGED <<made, pool, lost, sock, ref, dying, overlap, ops, cur>>
    BY <1>1 DEF CountAccept, ReadCount, Raise, Ask, Client, HandlerReturns, Unmoved, handles
  <2>2. /\ (pc'[t] \in WithoutHandle) = (pc[t] \in WithoutHandle)
        /\ \A u \in Threads \ {t} : pc'[u] = pc[u]
    BY <1>1 DEF CountAccept, ReadCount, Raise, Ask, Client, HandlerReturns, Goto, ThreadsOK, WithoutHandle
  <2>3. \A s \in Sockets : AcceptsFor(s)' = AcceptsFor(s) /\ WithClient(s)' = WithClient(s)
    BY <2>1, <2>2, AcceptsSame, WithSame
  <2>4. \A r \in Refs : Live(r)' = Live(r)
    BY <2>1 DEF Live
  <2> QED
    BY <2>1, <2>3, <2>4, OwnerQuiet DEF OneReader
<1>2. ASSUME NEW u \in Threads, HandlerCopies(t, u) PROVE OwnerOK'
  <2>1. PICK r \in Refs : CopyHandle(t, u, r)
    BY <1>2 DEF HandlerCopies, ThreadsOK, ThreadOK
  <2>2. /\ pc[t] = "handler" /\ pc'[t] = "drop" /\ cur' = cur /\ ops' = ops
        /\ \A v \in Threads \ {t} : pc'[v] = pc[v]
    BY <1>2 DEF HandlerCopies, Goto, Unmoved, ThreadsOK
  <2>3. \A s \in Sockets : AcceptsFor(s)' = AcceptsFor(s) /\ WithClient(s)' = WithClient(s)
    BY <2>2, AcceptsSame, WithSame DEF WithoutHandle
  <2> QED
    BY <2>1, <2>3, CopyMoves, OwnerQuiet
<1>3. CASE Drop(t)
  <2>1. PICK r \in Refs : LowerRef(t, r)
    BY <1>3 DEF Drop, ThreadsOK, ThreadOK
  <2>2. /\ pc[t] = "drop" /\ pc'[t] = "destroy" /\ ops' = ops
        /\ \A u \in Threads \ {t} : pc'[u] = pc[u] /\ cur'[u] = cur[u]
    BY <1>3 DEF Drop, Goto, Unmoved, ThreadsOK
  <2>3. dying[t] = None
    BY <2>2 DEF ThreadsOK, ThreadOK
  <2>4. \A s \in Sockets : AcceptsFor(s)' = AcceptsFor(s) /\ WithClient(s)' = WithClient(s)
    BY <2>2, AcceptsSame, WithSame DEF WithoutHandle
  <2> QED
    BY <2>1, <2>3, <2>4, LowerMoves, OwnerQuiet
<1> QED
  BY <1>1, <1>2, <1>3, OwnerHandle, OwnerNext DEF OnAccept

\* Every socket_base is in one place, in the pool, with the handles of one count,
\* waiting for a client, with OnAccept, or lost, until two destructors are about
\* to read a count that is 0.
THEOREM OwnerIsOne == Spec => []OneOwner
<1>1. Init => OwnerOK
  <2> SUFFICES ASSUME Init PROVE OwnerOK
    OBVIOUS
  <2>1. OneReader
    BY NoneAssumption DEF Init, HandlesInit, OneReader
  <2>2. ASSUME NEW s \in Sockets PROVE Places(s) = Bit(s \in made)
    <3>1. HandlesOf(s) = {} /\ AcceptsFor(s) = {} /\ WithClient(s) = {}
      BY NoneAssumption DEF Init, HandlesInit, HandlesOf, Live, AcceptsFor, WithClient
    <3>2. pool[s] = 0 /\ s \notin made /\ s \notin lost
      BY DEF Init, HandlesInit
    <3> QED
      BY <3>1, <3>2, FS_EmptySet DEF Places, Bit
  <2> QED
    BY <2>1, <2>2 DEF OwnerOK
<1>2. TypeInv /\ TypeInv' /\ OwnerOK /\ [Next]_vars => OwnerOK'
  <2> SUFFICES ASSUME TypeInv, TypeInv', OwnerOK, [Next]_vars PROVE OwnerOK'
    OBVIOUS
  <2>1. CASE UNCHANGED vars
    <3>1. UNCHANGED <<made, pool, lost, sock, ref, dying, overlap, ops, pc, cur>>
      BY <2>1 DEF vars, handles
    <3> QED
      BY <3>1, OwnerQuiet DEF OneReader, Live, AcceptsFor, WithClient
  <2> QED
    BY <2>1, OwnerUser, OwnerCall, OwnerServe, OwnerRun DEF Next
<1>3. TypeInv /\ OwnerOK => OneOwner
  BY TypeInvImplies DEF OwnerOK, OneOwner, Places, HandlesOf, AcceptsFor, Bit
<1> QED
  BY Types, <1>1, <1>2, <1>3, PTL DEF Spec
=============================================================================
