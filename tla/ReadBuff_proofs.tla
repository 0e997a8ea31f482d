--------------------------- MODULE ReadBuff_proofs ---------------------------
(***************************************************************************)
(* For any number of threads, units, calls and any page size: the handlers *)
(* are given the stream once and in order as long as one WSARecv is out at *)
(* a time, and a socket that is to receive never ends up without one.      *)
(*                                                                         *)
(* The argument: while `twice` is false the WSARecv, its completion and    *)
(* the thread in OnRecv or in the flush of async_recv are one right that   *)
(* is handed on, and only who has it changes the buffer.                   *)
(***************************************************************************)
EXTENDS ReadBuff, FiniteSetTheorems, SequenceTheorems, TLAPS

\* The threads that will leave a WSARecv or read
ReceivingSteps == OnRecvSteps \cup AsyncRecvSteps
Receiving == {t \in Threads : pc[t] \in ReceivingSteps}

LocalsOK ==
  \A t \in Threads :
    /\ pc[t] = "recv" => at[t] \in Nat \X Nat \X (0 .. Room(buf))
    /\ pc[t] = "advance" => got[t] \in 0 .. Room(buf)
    /\ got[t] = -1 => failed

\* One WSARecv, completion or thread has the right to receive.
Single ==
  /\ \A t, u \in Receiving : t = u
  /\ Receiving # {} => armed = 0 /\ ready = 0
  /\ armed + ready <= 1

\* What a thread in OnRecv has read of the buffer is still so.
Current ==
  \A t \in Threads :
    /\ pc[t] = "recv" => at[t] = <<buf, slide, Room(buf) - slide>>
    /\ pc[t] = "advance" => slide + got[t] = Room(buf)

InOrder ==
  LET units == given \o Held IN
  /\ \A i, j \in DOMAIN units : i < j => units[i] < units[j]
  /\ Range(units) = 1 .. taken \ lost

Once == ~ stray /\ Single /\ Current /\ lost \subseteq 1 .. taken /\ InOrder

IInv == TypeOK /\ LocalsOK /\ IsFiniteSet(Receiving) /\ (~ twice => Once)

-----------------------------------------------------------------------------
(* The size of a buffer                                                    *)

\* A set of one more element has twice the subsets.
LEMMA PowerDoubles ==
  ASSUME NEW n \in Nat
  PROVE  2 ^ n \in Nat \ {0} /\ 2 ^ (n + 1) = 2 * 2 ^ n
<1> DEFINE S == 1 .. n
           T == SUBSET S
           U == {A \cup {n + 1} : A \in T}
<1>1. IsFiniteSet(S) /\ Cardinality(S) = n
  BY FS_Interval
<1>2. IsFiniteSet(T) /\ Cardinality(T) = 2 ^ n
  BY <1>1, FS_SUBSET
<1>3. IsFiniteSet(1 .. n + 1) /\ Cardinality(1 .. n + 1) = n + 1
  BY FS_Interval
<1>4. Cardinality(SUBSET (1 .. n + 1)) = 2 ^ (n + 1)
  BY <1>3, FS_SUBSET
<1>5. n + 1 \notin S
  OBVIOUS
<1>6. ExistsBijection(T, U)
  <2> DEFINE f == [A \in T |-> A \cup {n + 1}]
  <2>1. f \in [T -> U]
    OBVIOUS
  <2>2. \A A, B \in T : f[A] = f[B] => A = B
    <3> SUFFICES ASSUME NEW A \in T, NEW B \in T, A \cup {n + 1} = B \cup {n + 1}
                 PROVE  A = B
      OBVIOUS
    <3>1. n + 1 \notin A /\ n + 1 \notin B
      BY <1>5
    <3>2. A = (A \cup {n + 1}) \ {n + 1} /\ B = (B \cup {n + 1}) \ {n + 1}
      BY <3>1
    <3>. QED BY <3>2
  <2>3. \A C \in U : \E A \in T : f[A] = C
    OBVIOUS
  <2>4. f \in Bijection(T, U)
    BY <2>1, <2>2, <2>3 DEF Bijection, Injection, Surjection, IsInjective
  <2>. QED BY <2>4 DEF ExistsBijection
<1>7. IsFiniteSet(U) /\ Cardinality(U) = Cardinality(T)
  BY <1>2, <1>6, FS_Bijection
<1>8. T \cap U = {}
  BY <1>5
<1>9. SUBSET (1 .. n + 1) = T \cup U
  <2>0. 1 .. n + 1 = S \cup {n + 1}
    OBVIOUS
  <2>1. ASSUME NEW C \in SUBSET (1 .. n + 1) PROVE C \in T \cup U
    <3>1. CASE n + 1 \in C
      <4>1. C \ {n + 1} \in T
        BY <2>0
      <4>2. C = (C \ {n + 1}) \cup {n + 1}
        BY <3>1
      <4>. QED BY <4>1, <4>2
    <3>2. CASE n + 1 \notin C
      BY <3>2, <2>0
    <3>. QED BY <3>1, <3>2
  <2>2. ASSUME NEW C \in T \cup U PROVE C \in SUBSET (1 .. n + 1)
    BY <2>0
  <2>. QED BY <2>1, <2>2
<1>10. Cardinality(T \cup U) = Cardinality(T) + Cardinality(U) - Cardinality(T \cap U)
  BY <1>2, <1>7, FS_Union
<1>11. Cardinality(T \cap U) = 0
  BY <1>8, FS_EmptySet
<1>12. Cardinality(T) \in Nat /\ Cardinality(T) # 0
  <2>1. {} \in T
    OBVIOUS
  <2>. QED BY <1>2, <2>1, FS_CardinalityType, FS_EmptySet
<1>. QED
  <2> HIDE DEF T, U, S
  <2>1. Cardinality(T \cup U) = 2 ^ (n + 1)
    BY <1>4, <1>9
  <2>2. Cardinality(T \cup U) = Cardinality(T) + Cardinality(T) - 0
    BY <1>7, <1>10, <1>11
  <2>3. Cardinality(T) \in Nat \ {0} /\ Cardinality(T) = 2 ^ n
    BY <1>2, <1>12
  <2> DEFINE c == Cardinality(T)
             p == 2 ^ n
             q == 2 ^ (n + 1)
  <2>4. c \in Nat \ {0} /\ c = p /\ q = c + c - 0
    BY <2>1, <2>2, <2>3
  <2> HIDE DEF c, p, q
  <2>5. p \in Nat \ {0} /\ q = 2 * p
    BY <2>4
  <2>. QED BY <2>5 DEF p, q

LEMMA RoomDoubles ==
  ASSUME NEW b \in Nat
  PROVE  Room(b) \in Nat \ {0} /\ Room(b + 1) = 2 * Room(b)
<1> DEFINE p == 2 ^ b
           q == 2 ^ (b + 1)
<1>1. p \in Nat \ {0} /\ q = 2 * p
  BY PowerDoubles
<1>2. Room(b) = PageSize * p /\ Room(b + 1) = PageSize * q
  BY DEF Room
<1> HIDE DEF p, q
<1>3. PageSize \in Nat \ {0}
  BY PageSizeAssumption
<1>4. PageSize * p \in Nat \ {0}
  BY <1>1, <1>3
<1>5. PageSize * (2 * p) = 2 * (PageSize * p)
  BY <1>1, <1>3
<1>. QED BY <1>1, <1>2, <1>4, <1>5

-----------------------------------------------------------------------------
(* Types                                                                   *)

Arrivals ==
  /\ arrived \in 0 .. MaxUnits /\ taken \in 0 .. arrived
  /\ peer \in {"open", "closed", "reset"}
  /\ armed \in Nat /\ ready \in Nat
  /\ isrecv \in BOOLEAN /\ failed \in BOOLEAN /\ twice \in BOOLEAN /\ stray \in BOOLEAN
  /\ calls \in 0 .. MaxCalls

Buffers ==
  /\ buf \in Nat /\ slide \in 0 .. Room(buf)
  /\ cells \in [1 .. Room(buf) -> {0} \cup Units]

Locals ==
  /\ pc \in [Threads -> {"idle", "set"} \cup ReceivingSteps]
  /\ at \in [Threads -> Seq(Nat)]
  /\ got \in [Threads -> Int]

Past == given \in Seq({0} \cup Units) /\ lost \subseteq Units

LEMMA TypeParts == TypeOK <=> Arrivals /\ Buffers /\ Locals /\ Past
BY DEF TypeOK, Arrivals, Buffers, Locals, Past, ReceivingSteps

Typed == Arrivals /\ Buffers /\ Locals /\ Past /\ LocalsOK

LEMMA InitTyped == Init => Typed
<1> SUFFICES ASSUME Init PROVE Typed
  OBVIOUS
<1>1. Room(0) = PageSize
  <2> DEFINE p == 2 ^ 0
  <2>1. IsFiniteSet({}) /\ Cardinality({}) = 0
    BY FS_EmptySet
  <2>2. p = Cardinality(SUBSET {})
    BY <2>1, FS_SUBSET
  <2>3. SUBSET {} = {} \cup {{}}
    OBVIOUS
  <2>4. Cardinality({} \cup {{}}) = 1
    <3>1. IsFiniteSet({}) /\ {} \notin {}
      BY <2>1
    <3>2. Cardinality({} \cup {{}}) = Cardinality({}) + 1
      BY <3>1, FS_AddElement, Zenon
    <3>. QED BY <2>1, <3>2
  <2>5. p = 1 /\ Room(0) = PageSize * p
    BY <2>2, <2>3, <2>4 DEF Room
  <2> HIDE DEF p
  <2>. QED BY <2>5, PageSizeAssumption
<1>2. Arrivals
  <2>1. /\ arrived \in 0 .. MaxUnits /\ taken \in 0 .. arrived
        /\ armed \in Nat /\ ready \in Nat /\ calls \in 0 .. MaxCalls
    BY BoundsAssumption DEF Init
  <2>2. /\ peer \in {"open", "closed", "reset"} /\ isrecv \in BOOLEAN
        /\ failed \in BOOLEAN /\ twice \in BOOLEAN /\ stray \in BOOLEAN
    BY Zenon DEF Init
  <2>. QED BY <2>1, <2>2 DEF Arrivals
<1>6. Past
  BY DEF Init, Past
<1>5. Locals
  <2>1. <<0, 0, 0>> \in Seq(Nat)
    OBVIOUS
  <2>. QED BY <2>1 DEF Init, Locals
<1>3. Buffers
  BY <1>1, PageSizeAssumption DEF Init, Buffers
<1>4. LocalsOK
  BY DEF Init, LocalsOK
<1>. QED BY <1>2, <1>3, <1>4, <1>5, <1>6 DEF Typed

LEMMA FlatType ==
  ASSUME Typed PROVE [i \in 1 .. slide |-> cells[i]] \in Seq({0} \cup Units)
<1>1. slide \in Nat /\ slide <= Room(buf) /\ buf \in Nat /\ Room(buf) \in Nat
  BY RoomDoubles DEF Typed, Buffers
<1>2. \A i \in 1 .. slide : cells[i] \in {0} \cup Units
  BY <1>1 DEF Typed, Buffers
<1>. QED BY <1>1, <1>2

LEMMA TypedNext == Typed /\ [Next]_vars => Typed'
<1> SUFFICES ASSUME Typed, [Next]_vars PROVE Typed'
  OBVIOUS
<1>r. Room(buf) \in Nat \ {0} /\ Room(buf + 1) = 2 * Room(buf) /\ buf \in Nat
  BY RoomDoubles DEF Typed, Buffers
<1>f. [i \in 1 .. slide |-> cells[i]] \in Seq({0} \cup Units)
  BY FlatType
<1>1. ASSUME Arrive PROVE Typed'
  <2>1. Arrivals'
    BY <1>1, BoundsAssumption DEF Typed, Arrivals, Arrive, ops, history
  <2>2. Buffers'
    BY <1>1, <1>r DEF Typed, Buffers, Arrive, buffer
  <2>3. Locals'
    BY <1>1 DEF Typed, Locals, ReceivingSteps, OnRecvSteps, AsyncRecvSteps, Arrive, locals
  <2>4. Past'
    BY <1>1 DEF Typed, Past, Arrive, history
  <2>5. LocalsOK'
    BY <1>1, <1>r DEF Typed, Locals, LocalsOK, Arrive, buffer, locals, history
  <2>. QED BY <2>1, <2>2, <2>3, <2>4, <2>5 DEF Typed
<1>2. ASSUME NEW how \in {"closed", "reset"}, PeerEnds(how) PROVE Typed'
  <2>1. Arrivals'
    BY <1>2, BoundsAssumption DEF Typed, Arrivals, PeerEnds, ops, history
  <2>2. Buffers'
    BY <1>2, <1>r DEF Typed, Buffers, PeerEnds, buffer
  <2>3. Locals'
    BY <1>2 DEF Typed, Locals, ReceivingSteps, OnRecvSteps, AsyncRecvSteps, PeerEnds, locals
  <2>4. Past'
    BY <1>2 DEF Typed, Past, PeerEnds, history
  <2>5. LocalsOK'
    BY <1>2, <1>r DEF Typed, Locals, LocalsOK, PeerEnds, buffer, locals, history
  <2>. QED BY <2>1, <2>2, <2>3, <2>4, <2>5 DEF Typed
<1>3. ASSUME Signal PROVE Typed'
  <2>1. Arrivals'
    BY <1>3, BoundsAssumption DEF Typed, Arrivals, Signal, stream, history
  <2>2. Buffers'
    BY <1>3, <1>r DEF Typed, Buffers, Signal, buffer
  <2>3. Locals'
    BY <1>3 DEF Typed, Locals, ReceivingSteps, OnRecvSteps, AsyncRecvSteps, Signal, locals
  <2>4. Past'
    BY <1>3 DEF Typed, Past, Signal, history
  <2>5. LocalsOK'
    BY <1>3, <1>r DEF Typed, Locals, LocalsOK, Signal, buffer, locals, history
  <2>. QED BY <2>1, <2>2, <2>3, <2>4, <2>5 DEF Typed
<1>4. ASSUME NEW t \in Threads, RecvOff(t) PROVE Typed'
  <2>1. Arrivals'
    <3>1. /\ arrived' \in 0 .. MaxUnits /\ taken' \in 0 .. arrived'
          /\ armed' \in Nat /\ ready' \in Nat /\ calls' \in 0 .. MaxCalls
      BY <1>4, BoundsAssumption DEF Typed, Arrivals, RecvOff, StartCall, stream, ops, history
    <3>2. /\ peer' \in {"open", "closed", "reset"} /\ isrecv' \in BOOLEAN
          /\ failed' \in BOOLEAN /\ twice' \in BOOLEAN /\ stray' \in BOOLEAN
      BY <1>4, Zenon DEF Typed, Arrivals, RecvOff, StartCall, stream, ops, history
    <3>. QED BY <3>1, <3>2 DEF Arrivals
  <2>2. Buffers'
    BY <1>4, <1>r DEF Typed, Buffers, RecvOff, buffer
  <2>3. Locals'
    BY <1>4
      DEF Typed, Locals, ReceivingSteps, OnRecvSteps, AsyncRecvSteps, RecvOff, StartCall, locals
  <2>4. Past'
    BY <1>4 DEF Typed, Past, RecvOff, history
  <2>5. LocalsOK'
    BY <1>4, <1>r DEF Typed, Locals, LocalsOK, RecvOff, StartCall, buffer, locals, history
  <2>. QED BY <2>1, <2>2, <2>3, <2>4, <2>5 DEF Typed
<1>5. ASSUME NEW t \in Threads, RecvOn(t) PROVE Typed'
  <2>1. Arrivals'
    BY <1>5, BoundsAssumption DEF Typed, Arrivals, RecvOn, StartCall, stream, ops, history
  <2>2. Buffers'
    BY <1>5, <1>r DEF Typed, Buffers, RecvOn, buffer
  <2>3. Locals'
    BY <1>5 DEF Typed, Locals, ReceivingSteps, OnRecvSteps, AsyncRecvSteps, RecvOn, Goto,
         StartCall, locals
  <2>4. Past'
    BY <1>5 DEF Typed, Past, RecvOn, history
  <2>5. LocalsOK'
    BY <1>5, <1>r DEF Typed, Locals, LocalsOK, RecvOn, Goto, StartCall, buffer, locals, history
  <2>. QED BY <2>1, <2>2, <2>3, <2>4, <2>5 DEF Typed
<1>6. ASSUME NEW t \in Threads, SetRecv(t) PROVE Typed'
  <2>1. Arrivals'
    BY <1>6, BoundsAssumption DEF Typed, Arrivals, SetRecv, stream, ops
  <2>2. Buffers'
    BY <1>6, <1>r DEF Typed, Buffers, SetRecv, buffer
  <2>3. Locals'
    BY <1>6
      DEF Typed, Locals, ReceivingSteps, OnRecvSteps, AsyncRecvSteps, SetRecv, Goto, locals
  <2>4. Past'
    BY <1>6 DEF Typed, Past, SetRecv
  <2>5. LocalsOK'
    BY <1>6, <1>r DEF Typed, Locals, LocalsOK, SetRecv, Goto, buffer, locals
  <2>. QED BY <2>1, <2>2, <2>3, <2>4, <2>5 DEF Typed
<1>7. ASSUME NEW t \in Threads, Flush(t) PROVE Typed'
  <2>1. Arrivals'
    BY <1>7, BoundsAssumption DEF Typed, Arrivals, Flush, stream, ops
  <2>2. Buffers'
    BY <1>7, <1>r DEF Typed, Buffers, Flush, buffer
  <2>3. Locals'
    BY <1>7 DEF Typed, Locals, ReceivingSteps, OnRecvSteps, AsyncRecvSteps, Flush, Goto, locals
  <2>4. Past'
    <3>1. given' = given \o [i \in 1 .. slide |-> cells[i]] /\ lost' = lost
      BY <1>7 DEF Flush, Goto, stream, ops, buffer, locals
    <3>2. given' \in Seq({0} \cup Units)
      BY <3>1, <1>f DEF Typed, Past
    <3>. QED BY <3>1, <3>2 DEF Typed, Past
  <2>5. LocalsOK'
    BY <1>7, <1>r DEF Typed, Locals, LocalsOK, Flush, Goto, buffer, locals
  <2>. QED BY <2>1, <2>2, <2>3, <2>4, <2>5 DEF Typed
<1>8. ASSUME NEW t \in Threads, FlushReset(t) PROVE Typed'
  <2>1. Arrivals'
    BY <1>8, BoundsAssumption DEF Typed, Arrivals, FlushReset, stream, ops, history
  <2>2. Buffers'
    BY <1>8, <1>r DEF Typed, Buffers, FlushReset
  <2>3. Locals'
    BY <1>8
      DEF Typed, Locals, ReceivingSteps, OnRecvSteps, AsyncRecvSteps, FlushReset, Goto, locals
  <2>4. Past'
    BY <1>8 DEF Typed, Past, FlushReset, history
  <2>5. LocalsOK'
    BY <1>8, <1>r DEF Typed, Locals, LocalsOK, FlushReset, Goto, locals, history
  <2>. QED BY <2>1, <2>2, <2>3, <2>4, <2>5 DEF Typed
<1>9. ASSUME NEW t \in Threads, ArmFirst(t) PROVE Typed'
  <2>1. Arrivals'
    <3>1. /\ arrived' \in 0 .. MaxUnits /\ taken' \in 0 .. arrived'
          /\ armed' \in Nat /\ ready' \in Nat /\ calls' \in 0 .. MaxCalls
      BY <1>9, BoundsAssumption DEF Typed, Arrivals, ArmFirst, stream
    <3>2. /\ peer' \in {"open", "closed", "reset"} /\ isrecv' \in BOOLEAN
          /\ failed' \in BOOLEAN /\ twice' \in BOOLEAN /\ stray' \in BOOLEAN
      BY <1>9, Zenon DEF Typed, Arrivals, ArmFirst, stream
    <3>. QED BY <3>1, <3>2 DEF Arrivals
  <2>2. Buffers'
    BY <1>9, <1>r DEF Typed, Buffers, ArmFirst, buffer
  <2>3. Locals'
    BY <1>9
      DEF Typed, Locals, ReceivingSteps, OnRecvSteps, AsyncRecvSteps, ArmFirst, Goto, locals
  <2>4. Past'
    BY <1>9 DEF Typed, Past, ArmFirst
  <2>5. LocalsOK'
    BY <1>9, <1>r DEF Typed, Locals, LocalsOK, ArmFirst, Goto, buffer, locals
  <2>. QED BY <2>1, <2>2, <2>3, <2>4, <2>5 DEF Typed
<1>10. ASSUME NEW t \in Threads, Complete(t) PROVE Typed'
  <2>1. Arrivals'
    <3>1. /\ arrived' \in 0 .. MaxUnits /\ taken' \in 0 .. arrived'
          /\ armed' \in Nat /\ ready' \in Nat /\ calls' \in 0 .. MaxCalls
      BY <1>10, BoundsAssumption DEF Typed, Arrivals, Complete, stream
    <3>2. /\ peer' \in {"open", "closed", "reset"} /\ isrecv' \in BOOLEAN
          /\ failed' \in BOOLEAN /\ twice' \in BOOLEAN /\ stray' \in BOOLEAN
      BY <1>10, Zenon DEF Typed, Arrivals, Complete, stream
    <3>. QED BY <3>1, <3>2 DEF Arrivals
  <2>2. Buffers'
    BY <1>10, <1>r DEF Typed, Buffers, Complete, buffer
  <2>3. Locals'
    BY <1>10
      DEF Typed, Locals, ReceivingSteps, OnRecvSteps, AsyncRecvSteps, Complete, Goto, locals
  <2>4. Past'
    BY <1>10 DEF Typed, Past, Complete
  <2>5. LocalsOK'
    BY <1>10, <1>r DEF Typed, Locals, LocalsOK, Complete, Goto, buffer, locals
  <2>. QED BY <2>1, <2>2, <2>3, <2>4, <2>5 DEF Typed
<1>11. ASSUME NEW t \in Threads, ReadSize(t) PROVE Typed'
  <2>1. Arrivals'
    BY <1>11 DEF Typed, Arrivals, ReadSize, stream, ops, history
  <2>2. Buffers'
    BY <1>11 DEF Typed, Buffers, ReadSize, buffer
  <2> DEFINE here == <<buf, slide, Room(buf) - slide>>
  <2>a. slide \in Nat /\ Room(buf) - slide \in 0 .. Room(buf)
    BY <1>r DEF Typed, Buffers
  <2>b. here \in Seq(Nat) /\ here \in Nat \X Nat \X (0 .. Room(buf))
    BY <1>r, <2>a
  <2>c. at' = [at EXCEPT ![t] = here] /\ pc' = [pc EXCEPT ![t] = "recv"] /\ UNCHANGED <<got,
  buf, failed>>
    BY <1>11 DEF ReadSize, Goto, buffer, history
  <2> HIDE DEF here
  <2>3. Locals'
    BY <2>b, <2>c DEF Typed, Locals, ReceivingSteps, OnRecvSteps
  <2>4. Past'
    BY <1>11 DEF Typed, Past, ReadSize, history
  <2>5. LocalsOK'
    BY <2>b, <2>c DEF Typed, Locals, LocalsOK
  <2>. QED BY <2>1, <2>2, <2>3, <2>4, <2>5 DEF Typed
<1>12. ASSUME NEW t \in Threads, RecvFails(t) PROVE Typed'
  <2>1. Arrivals'
    <3>1. /\ arrived' \in 0 .. MaxUnits /\ taken' \in 0 .. arrived'
          /\ armed' \in Nat /\ ready' \in Nat /\ calls' \in 0 .. MaxCalls
      BY <1>12, BoundsAssumption DEF Typed, Arrivals, RecvFails, stream, ops
    <3>2. /\ peer' \in {"open", "closed", "reset"} /\ isrecv' \in BOOLEAN
          /\ failed' \in BOOLEAN /\ twice' \in BOOLEAN /\ stray' \in BOOLEAN
      BY <1>12, Zenon DEF Typed, Arrivals, RecvFails, stream, ops
    <3>. QED BY <3>1, <3>2 DEF Arrivals
  <2>2. Buffers'
    BY <1>12, <1>r DEF Typed, Buffers, RecvFails, buffer
  <2>3. Locals'
    BY <1>12
      DEF Typed, Locals, ReceivingSteps, OnRecvSteps, AsyncRecvSteps, RecvFails, Goto, Received
  <2>4. Past'
    BY <1>12 DEF Typed, Past, RecvFails
  <2>5. LocalsOK'
    BY <1>12, <1>r DEF Typed, Locals, LocalsOK, RecvFails, Goto, Received, buffer
  <2>. QED BY <2>1, <2>2, <2>3, <2>4, <2>5 DEF Typed
<1>13. ASSUME NEW t \in Threads, RecvNothing(t) PROVE Typed'
  <2>1. Arrivals'
    BY <1>13, BoundsAssumption DEF Typed, Arrivals, RecvNothing, stream, ops, history
  <2>2. Buffers'
    BY <1>13, <1>r DEF Typed, Buffers, RecvNothing, buffer
  <2>3. Locals'
    BY <1>13
      DEF Typed, Locals, ReceivingSteps, OnRecvSteps, AsyncRecvSteps, RecvNothing, Goto,
           Received
  <2>4. Past'
    BY <1>13 DEF Typed, Past, RecvNothing, history
  <2>5. LocalsOK'
    BY <1>13, <1>r DEF Typed, Locals, LocalsOK, RecvNothing, Goto, Received, buffer, history
  <2>. QED BY <2>1, <2>2, <2>3, <2>4, <2>5 DEF Typed
<1>14. ASSUME NEW t \in Threads, Recv(t) PROVE Typed'
  <2> DEFINE room == at[t][3]
             from == at[t][2]
             n == IF arrived - taken < room THEN arrived - taken ELSE room
  <2>a. room \in 0 .. Room(buf) /\ from \in Nat
    BY <1>14 DEF Recv, Typed, LocalsOK
  <2>b. /\ arrived \in Nat /\ arrived <= MaxUnits /\ MaxUnits \in Nat
        /\ taken \in Nat /\ arrived > taken
    BY <1>14, BoundsAssumption DEF Typed, Arrivals, Recv
  <2>c. n \in 0 .. Room(buf) /\ n <= arrived - taken /\ n <= room
    BY <1>r, <2>a, <2>b
  <2>d. /\ taken' = taken + n
        /\ \/ cells' = cells
           \/ cells' = [i \in DOMAIN cells |->
                          IF i \in from + 1 .. from + n THEN taken + i - from ELSE cells[i]]
        /\ stray' \in {stray, TRUE}
        /\ UNCHANGED <<arrived, peer, armed, ready, isrecv, buf, slide, given, failed,
                       twice, calls>>
    BY <1>14, Zenon DEF Recv, ops
  <2>e. \/ /\ n < room /\ lost' = lost \cup (taken + 1 .. taken + n)
           /\ Received(t, 0) /\ Goto(t, "test")
        \/ /\ ~ (n < room) /\ lost' = lost
           /\ Received(t, n) /\ Goto(t, "advance")
    BY <1>14, Zenon DEF Recv
  <2>f. taken + 1 .. taken + n \subseteq Units
    BY <2>b, <2>c DEF Units
  <2> HIDE DEF n, room, from
  <2>1. Arrivals'
    <3>1. taken' \in 0 .. arrived'
      BY <2>b, <2>c, <2>d, <1>r
    <3>. QED BY <2>d, <3>1 DEF Typed, Arrivals
  <2>2. Buffers'
    <3>1. \A i \in from + 1 .. from + n : taken + i - from \in taken + 1 .. taken + n
      BY <2>a, <2>b, <2>c, <1>r
    <3>2. \A i \in from + 1 .. from + n : taken + i - from \in Units
      BY <2>f, <3>1
    <3>3. cells' \in [1 .. Room(buf) -> {0} \cup Units]
      BY <2>d, <3>2 DEF Typed, Buffers
    <3>. QED BY <2>d, <3>3 DEF Typed, Buffers
  <2>3. Locals'
    <3>1. n \in Int /\ <<0, 0, 0>> \in Seq(Nat)
      BY <2>c, <1>r
    <3>4. /\ at' = [at EXCEPT ![t] = <<0, 0, 0>>]
          /\ got' = [got EXCEPT ![t] = 0] \/ got' = [got EXCEPT ![t] = n]
      BY <2>e, Zenon DEF Received
    <3>2. got' \in [Threads -> Int] /\ at' \in [Threads -> Seq(Nat)]
      BY <3>4, <3>1 DEF Typed, Locals
    <3>3. pc' \in [Threads -> {"idle", "set"} \cup ReceivingSteps]
      BY <2>e DEF Typed, Locals, Goto, ReceivingSteps, OnRecvSteps
    <3>. QED BY <3>2, <3>3 DEF Locals
  <2>4. Past'
    BY <2>d, <2>e, <2>f DEF Typed, Past
  <2>5. LocalsOK'
    <3>1. \/ pc' = [pc EXCEPT ![t] = "test"] /\ got' = [got EXCEPT ![t] = 0]
          \/ pc' = [pc EXCEPT ![t] = "advance"] /\ got' = [got EXCEPT ![t] = n]
      BY <2>e DEF Received, Goto
    <3>2. at' = [at EXCEPT ![t] = <<0, 0, 0>>] /\ UNCHANGED <<buf, failed>>
      BY <2>d, <2>e DEF Received
    <3>3. n # -1
      BY <2>c, <1>r
    <3>. QED BY <2>c, <3>1, <3>2, <3>3 DEF Typed, Locals, LocalsOK
  <2>. QED BY <2>1, <2>2, <2>3, <2>4, <2>5 DEF Typed
<1>15. ASSUME NEW t \in Threads, Advance(t) PROVE Typed'
  <2>a. /\ pc[t] = "advance" /\ buf' = buf + 1 /\ slide' = slide + got[t]
        /\ cells' = [i \in 1 .. Room(buf + 1) |-> IF i <= Room(buf) THEN cells[i] ELSE 0]
        /\ pc' = [pc EXCEPT ![t] = "size"] /\ got' = [got EXCEPT ![t] = 0]
        /\ at' = [at EXCEPT ![t] = <<0, 0, 0>>]
    BY <1>15 DEF Advance, Goto, Received
  <2>b. got[t] \in 0 .. Room(buf) /\ slide \in 0 .. Room(buf)
    BY <2>a DEF Typed, LocalsOK, Buffers
  <2>1. Arrivals'
    BY <1>15 DEF Typed, Arrivals, Advance, stream, ops, history
  <2>2. Buffers'
    <3>1. slide' \in 0 .. Room(buf')
      BY <1>r, <2>a, <2>b
    <3>2. \A i \in 1 .. Room(buf + 1) : i <= Room(buf) => i \in 1 .. Room(buf)
      BY <1>r
    <3>3. cells' \in [1 .. Room(buf') -> {0} \cup Units]
      BY <2>a, <3>2 DEF Typed, Buffers
    <3>. QED BY <1>r, <2>a, <3>1, <3>3 DEF Buffers
  <2>3. Locals'
    <3>1. <<0, 0, 0>> \in Seq(Nat)
      OBVIOUS
    <3>. QED BY <2>a, <3>1 DEF Typed, Locals, ReceivingSteps, OnRecvSteps
  <2>4. Past'
    BY <1>15 DEF Typed, Past, Advance, history
  <2>5. LocalsOK'
    <3>1. \A i \in 0 .. Room(buf) : i \in 0 .. Room(buf')
      BY <1>r, <2>a
    <3>2. failed' = failed
      BY <1>15 DEF Advance, history
    <3>. QED BY <2>a, <3>1, <3>2 DEF Typed, Locals, LocalsOK
  <2>. QED BY <2>1, <2>2, <2>3, <2>4, <2>5 DEF Typed
<1>16. ASSUME NEW t \in Threads, IsRecv(t) PROVE Typed'
  <2>a. /\ pc' \in {[pc EXCEPT ![t] = "handler"], [pc EXCEPT ![t] = "idle"]}
        /\ got' \in {got, [got EXCEPT ![t] = 0]}
        /\ at' \in {at, [at EXCEPT ![t] = <<0, 0, 0>>]}
    BY <1>16 DEF IsRecv, Goto, Received, locals
  <2>1. Arrivals'
    BY <1>16 DEF Typed, Arrivals, IsRecv, stream, ops, history
  <2>2. Buffers'
    BY <1>16 DEF Typed, Buffers, IsRecv, buffer
  <2>3. Locals'
    <3>1. <<0, 0, 0>> \in Seq(Nat)
      OBVIOUS
    <3>2. at' \in [Threads -> Seq(Nat)]
      BY <2>a, <3>1 DEF Typed, Locals
    <3>3. got' \in [Threads -> Int]
      BY <2>a DEF Typed, Locals
    <3>4. pc' \in [Threads -> {"idle", "set"} \cup ReceivingSteps]
      BY <2>a DEF Typed, Locals, ReceivingSteps, OnRecvSteps
    <3>. QED BY <3>2, <3>3, <3>4 DEF Locals
  <2>4. Past'
    BY <1>16 DEF Typed, Past, IsRecv, history
  <2>5. LocalsOK'
    <3>1. \A u \in Threads : got'[u] = got[u] \/ got'[u] = 0
      BY <2>a DEF Typed, Locals
    <3>2. \A u \in Threads : pc'[u] \in {"recv", "advance"} => u # t /\ pc'[u] = pc[u]
      BY <2>a DEF Typed, Locals
    <3>3. \A u \in Threads \ {t} : at'[u] = at[u] /\ got'[u] = got[u]
      BY <2>a DEF Typed, Locals
    <3>4. UNCHANGED <<buf, failed>>
      BY <1>16 DEF IsRecv, buffer, history
    <3>. QED BY <3>1, <3>2, <3>3, <3>4 DEF Typed, LocalsOK
  <2>. QED BY <2>1, <2>2, <2>3, <2>4, <2>5 DEF Typed
<1>17. ASSUME NEW t \in Threads, Handler(t) PROVE Typed'
  <2>1. Arrivals'
    BY <1>17, BoundsAssumption DEF Typed, Arrivals, Handler, stream, ops
  <2>2. Buffers'
    BY <1>17, <1>r DEF Typed, Buffers, Handler, buffer
  <2>3. Locals'
    BY <1>17
      DEF Typed, Locals, ReceivingSteps, OnRecvSteps, AsyncRecvSteps, Handler, Goto, locals
  <2>4. Past'
    <3>1. given' = given \o [i \in 1 .. slide |-> cells[i]] /\ lost' = lost
      BY <1>17 DEF Handler, Goto, stream, ops, buffer, locals
    <3>2. given' \in Seq({0} \cup Units)
      BY <3>1, <1>f DEF Typed, Past
    <3>. QED BY <3>1, <3>2 DEF Typed, Past
  <2>5. LocalsOK'
    BY <1>17, <1>r DEF Typed, Locals, LocalsOK, Handler, Goto, buffer, locals
  <2>. QED BY <2>1, <2>2, <2>3, <2>4, <2>5 DEF Typed
<1>18. ASSUME NEW t \in Threads, Reset(t) PROVE Typed'
  <2>1. Arrivals'
    BY <1>18, BoundsAssumption DEF Typed, Arrivals, Reset, stream, ops, history
  <2>2. Buffers'
    BY <1>18, <1>r DEF Typed, Buffers, Reset
  <2>3. Locals'
    BY <1>18
      DEF Typed, Locals, ReceivingSteps, OnRecvSteps, AsyncRecvSteps, Reset, Goto, Received
  <2>4. Past'
    BY <1>18 DEF Typed, Past, Reset, history
  <2>5. LocalsOK'
    BY <1>18, <1>r DEF Typed, Locals, LocalsOK, Reset, Goto, Received, history
  <2>. QED BY <2>1, <2>2, <2>3, <2>4, <2>5 DEF Typed
<1>19. ASSUME NEW t \in Threads, Arm(t) PROVE Typed'
  <2>1. Arrivals'
    <3>1. /\ arrived' \in 0 .. MaxUnits /\ taken' \in 0 .. arrived'
          /\ armed' \in Nat /\ ready' \in Nat /\ calls' \in 0 .. MaxCalls
      BY <1>19, BoundsAssumption DEF Typed, Arrivals, Arm, stream
    <3>2. /\ peer' \in {"open", "closed", "reset"} /\ isrecv' \in BOOLEAN
          /\ failed' \in BOOLEAN /\ twice' \in BOOLEAN /\ stray' \in BOOLEAN
      BY <1>19, Zenon DEF Typed, Arrivals, Arm, stream
    <3>. QED BY <3>1, <3>2 DEF Arrivals
  <2>2. Buffers'
    BY <1>19, <1>r DEF Typed, Buffers, Arm, buffer
  <2>3. Locals'
    BY <1>19 DEF Typed, Locals, ReceivingSteps, OnRecvSteps, AsyncRecvSteps, Arm, Goto, locals
  <2>4. Past'
    BY <1>19 DEF Typed, Past, Arm
  <2>5. LocalsOK'
    BY <1>19, <1>r DEF Typed, Locals, LocalsOK, Arm, Goto, buffer, locals
  <2>. QED BY <2>1, <2>2, <2>3, <2>4, <2>5 DEF Typed
<1>20. CASE UNCHANGED vars
  <2>1. Arrivals'
    BY <1>20, BoundsAssumption DEF Typed, Arrivals, vars, stream, ops, history
  <2>2. Buffers'
    BY <1>20, <1>r DEF Typed, Buffers, vars, buffer
  <2>3. Locals'
    BY <1>20 DEF Typed, Locals, ReceivingSteps, OnRecvSteps, AsyncRecvSteps, vars, locals
  <2>4. Past'
    BY <1>20 DEF Typed, Past, vars, history
  <2>5. LocalsOK'
    BY <1>20, <1>r DEF Typed, Locals, LocalsOK, vars, buffer, locals, history
  <2>. QED BY <2>1, <2>2, <2>3, <2>4, <2>5 DEF Typed
<1>. QED
  BY <1>1, <1>2, <1>3, <1>4, <1>5, <1>6, <1>7, <1>8, <1>9, <1>10, <1>11, <1>12, <1>13, <1>14,
       <1>15, <1>16, <1>17, <1>18, <1>19, <1>20
     DEF Next, Network, AsyncRecv, OnRecv

-----------------------------------------------------------------------------
(* One receiver                                                            *)

LEMMA ReceivingNext == Typed /\ IsFiniteSet(Receiving) /\ [Next]_vars => IsFiniteSet(Receiving)'
<1> SUFFICES ASSUME Typed, IsFiniteSet(Receiving), [Next]_vars PROVE IsFiniteSet(Receiving)'
  OBVIOUS
<1>1. CASE UNCHANGED pc
  BY <1>1 DEF Receiving
<1>2. ASSUME NEW t \in Threads, NEW l, pc' = [pc EXCEPT ![t] = l] PROVE IsFiniteSet(Receiving)'
  <2>1. Receiving' \subseteq Receiving \cup {t}
    BY <1>2 DEF Receiving, Typed, Locals
  <2>2. IsFiniteSet(Receiving \cup {t})
    BY FS_AddElement
  <2>. QED BY <2>1, <2>2, FS_Subset
<1>3. ASSUME NEW t \in Threads,
             RecvOff(t) \/ RecvOn(t) \/ AsyncRecv(t) \/ Complete(t) \/ OnRecv(t)
      PROVE  UNCHANGED pc \/ \E l : pc' = [pc EXCEPT ![t] = l]
  BY <1>3
    DEF RecvOff, RecvOn, AsyncRecv, Complete, OnRecv, SetRecv, Flush, FlushReset, ArmFirst,
              ReadSize, RecvFails, RecvNothing, Recv, Advance, IsRecv, Handler, Reset, Arm, Goto
<1>4. Network => UNCHANGED pc
  BY DEF Network, Arrive, PeerEnds, Signal
<1>. QED BY <1>1, <1>2, <1>3, <1>4 DEF Next, vars

LEMMA ReceiversPositive ==
  ASSUME Typed, IsFiniteSet(Receiving)
  PROVE  Receivers > 0 <=> armed + ready > 0 \/ Receiving # {}
<1> DEFINE c == Cardinality(Receiving)
<1>1. c \in Nat /\ (c = 0 <=> Receiving = {})
  BY FS_CardinalityType, FS_EmptySet
<1>2. Receivers = armed + ready + c
  BY DEF Receivers, Receiving, ReceivingSteps
<1>3. armed \in Nat /\ ready \in Nat
  BY DEF Typed, Arrivals
<1> HIDE DEF c
<1>. QED BY <1>1, <1>2, <1>3

\* Once there are two of them it is recorded for good.
LEMMA TwiceStays == [Next]_vars /\ ~ twice' => ~ twice
BY Zenon DEF Next, Network, AsyncRecv, OnRecv, vars, history, Arrive, PeerEnds, Signal,
     RecvOff, RecvOn,
       Complete, SetRecv, Flush, FlushReset, ArmFirst,
       ReadSize, RecvFails, RecvNothing, Recv, Advance, IsRecv, Handler, Reset, Arm

\* Nobody has begun with what the buffer holds, or has just filled it up.
Flat == [i \in 1 .. slide |-> cells[i]]

HeldFact ==
  /\ (\E t \in Threads : pc[t] \in {"reset", "flush_reset"}) => Held = <<>>
  /\ Single => \A t \in Threads :
       pc[t] = "advance" => Held = [i \in 1 .. slide + got[t] |-> cells[i]]
  /\ (\A t \in Threads : pc[t] \notin {"reset", "flush_reset", "advance"}) /\ slide \in Int
       => Held = Flat

LEMMA HeldIs == HeldFact
<1>1. ASSUME NEW t \in Threads, pc[t] \in {"reset", "flush_reset"} PROVE Held = <<>>
  BY <1>1 DEF Held
<1>2. ASSUME Single, NEW t \in Threads, pc[t] = "advance"
      PROVE  Held = [i \in 1 .. slide + got[t] |-> cells[i]]
  <2>1. \A u \in Threads \ {t} : pc[u] \notin ReceivingSteps
    BY <1>2 DEF Single, Receiving, ReceivingSteps, OnRecvSteps
  <2>2. {u \in Threads : pc[u] = "advance"} = {t}
    BY <1>2, <2>1 DEF ReceivingSteps, OnRecvSteps
  <2>3. ~ \E u \in Threads : pc[u] \in {"reset", "flush_reset"}
    BY <1>2, <2>1 DEF ReceivingSteps, OnRecvSteps, AsyncRecvSteps
  <2>4. (CHOOSE u \in {t} : TRUE) = t
    OBVIOUS
  <2>. QED BY <2>2, <2>3, <2>4 DEF Held
<1>3. ASSUME \A t \in Threads : pc[t] \notin {"reset", "flush_reset", "advance"}, slide \in Int
      PROVE  Held = Flat
  <2>1. {u \in Threads : pc[u] = "advance"} = {}
    BY <1>3
  <2>2. ~ \E u \in Threads : pc[u] \in {"reset", "flush_reset"}
    BY <1>3
  <2>3. slide + 0 = slide
    BY <1>3
  <2>. QED BY <2>1, <2>2, <2>3 DEF Held, Flat
<1>. QED BY <1>1, <1>2, <1>3 DEF HeldFact

LEMMA HeldNext == HeldFact'
BY HeldIs, PTL

LEMMA SameOrder ==
  ASSUME InOrder, given' \o Held' = given \o Held, taken' = taken, lost' = lost
  PROVE  InOrder'
BY DEF InOrder

LEMMA InitOnce == Init => Once /\ IsFiniteSet(Receiving)
<1> SUFFICES ASSUME Init PROVE Once /\ IsFiniteSet(Receiving)
  OBVIOUS
<1>1. Receiving = {}
  BY DEF Init, Receiving, ReceivingSteps, OnRecvSteps, AsyncRecvSteps
<1>2. Single /\ ~ stray
  BY <1>1 DEF Init, Single
<1>3. Current /\ lost \subseteq 1 .. taken
  BY DEF Init, Current
<1>4. Held = <<>>
  <2>1. Held = Flat
    BY HeldIs DEF Init, HeldFact
  <2>. QED BY <2>1 DEF Flat, Init
<1>5. InOrder
  <2>1. given \o Held = <<>>
    BY <1>4 DEF Init
  <2>2. Range(<<>>) = {}
    BY DEF Range
  <2>. QED BY <2>1, <2>2 DEF InOrder, Init
<1>. QED BY <1>1, <1>2, <1>3, <1>5, FS_EmptySet DEF Once

-----------------------------------------------------------------------------
(* The stream in order                                                      *)

\* The thread that receives is alone, and nothing is out.
LEMMA OneReceiver ==
  ASSUME Single, NEW t \in Threads, pc[t] \in ReceivingSteps
  PROVE  armed = 0 /\ ready = 0 /\ \A u \in Threads \ {t} : pc[u] \notin ReceivingSteps
BY DEF Single, Receiving

\* ... and goes on, or leaves a WSARecv, or ends.
LEMMA SingleGoesOn ==
  ASSUME Typed, Single, NEW t \in Threads, pc[t] \in ReceivingSteps, NEW l,
         pc' = [pc EXCEPT ![t] = l],
         \/ UNCHANGED <<armed, ready>>
         \/ l \notin ReceivingSteps /\ armed' = armed + 1 /\ ready' = ready
  PROVE  Single'
<1>1. armed = 0 /\ ready = 0 /\ \A u \in Threads \ {t} : pc[u] \notin ReceivingSteps
  BY OneReceiver
<1>2. Receiving' \subseteq {t} /\ (l \notin ReceivingSteps => Receiving' = {})
  BY <1>1 DEF Receiving, Typed, Locals
<1>. QED BY <1>1, <1>2 DEF Single

\* Held is all of the buffer that counts, before and after.
LEMMA FlatStays ==
  ASSUME Typed, NEW t \in Threads, NEW l, pc' = [pc EXCEPT ![t] = l],
         pc[t] \notin {"reset", "flush_reset", "advance"},
         l \notin {"reset", "flush_reset", "advance"},
         \A u \in Threads \ {t} : pc[u] \notin ReceivingSteps,
         UNCHANGED <<slide, given, taken, lost>>,
         \A i \in 1 .. slide : cells'[i] = cells[i],
         InOrder
  PROVE  InOrder'
<1>1. slide \in Int
  BY RoomDoubles DEF Typed, Buffers
<1>2. \A u \in Threads \ {t} : pc[u] \notin {"reset", "flush_reset", "advance"}
  BY DEF ReceivingSteps, OnRecvSteps, AsyncRecvSteps
<1>3. Held = Flat
  BY <1>1, <1>2, HeldIs DEF HeldFact
<1>4. \A u \in Threads : pc'[u] \notin {"reset", "flush_reset", "advance"}
  BY <1>2 DEF Typed, Locals
<1>5. Held' = Flat'
  BY <1>1, <1>4, HeldNext DEF HeldFact
<1>6. Flat' = Flat
  BY DEF Flat
<1>. QED BY <1>3, <1>5, <1>6, SameOrder

\* The buffer and the program counters that matter stay.
LEMMA HeldStays ==
  ASSUME UNCHANGED <<slide, cells, got, given, taken, lost>>,
         \A t \in Threads : pc'[t] = pc[t] \/ {pc[t], pc'[t]} \subseteq {"idle", "set"},
         InOrder
  PROVE  InOrder'
<1>1. {t \in Threads : pc[t] = "advance"}' = {t \in Threads : pc[t] = "advance"}
  OBVIOUS
<1>2. (\E t \in Threads : pc[t] \in {"reset", "flush_reset"})'
        <=> \E t \in Threads : pc[t] \in {"reset", "flush_reset"}
  OBVIOUS
<1>3. Held' = Held
  BY <1>1, <1>2 DEF Held
<1>. QED BY <1>3, SameOrder

\* All of the buffer that counts is handed out, and is to be reset.
LEMMA FlatIsGiven ==
  ASSUME Typed, NEW t \in Threads, NEW l, pc' = [pc EXCEPT ![t] = l],
         pc[t] \in {"flush", "handler"}, l \in {"reset", "flush_reset"},
         \A u \in Threads \ {t} : pc[u] \notin ReceivingSteps,
         given' = given \o Flat, UNCHANGED <<taken, lost>>,
         InOrder
  PROVE  InOrder'
<1>1. slide \in Int
  BY RoomDoubles DEF Typed, Buffers
<1>2. \A u \in Threads : pc[u] \notin {"reset", "flush_reset", "advance"}
  BY DEF ReceivingSteps, OnRecvSteps, AsyncRecvSteps
<1>3. Held = Flat
  BY <1>1, <1>2, HeldIs DEF HeldFact
<1>4. pc'[t] \in {"reset", "flush_reset"}
  BY DEF Typed, Locals
<1>5. Held' = <<>>
  BY <1>4, HeldNext DEF HeldFact
<1>6. given \in Seq({0} \cup Units) /\ Flat \in Seq({0} \cup Units)
  BY FlatType DEF Typed, Past, Flat
<1>7. given' \in Seq({0} \cup Units)
  BY <1>6
<1>8. given' \o <<>> = given'
  BY <1>7
<1>. QED BY <1>3, <1>5, <1>8, SameOrder

\* The reset.
LEMMA ResetStays ==
  ASSUME Typed, NEW t \in Threads, NEW l, pc' = [pc EXCEPT ![t] = l],
         pc[t] \in {"reset", "flush_reset"}, l \notin {"reset", "flush_reset", "advance"},
         \A u \in Threads \ {t} : pc[u] \notin ReceivingSteps,
         slide' = 0, UNCHANGED <<given, taken, lost>>,
         InOrder
  PROVE  InOrder'
<1>1. Held = <<>>
  BY HeldIs DEF HeldFact
<1>2. \A u \in Threads : pc'[u] \notin {"reset", "flush_reset", "advance"}
  BY DEF ReceivingSteps, OnRecvSteps, AsyncRecvSteps, Typed, Locals
<1>3. Held' = Flat'
  BY <1>2, HeldNext DEF HeldFact
<1>4. Flat' = <<>>
  BY DEF Flat
<1>. QED BY <1>1, <1>3, <1>4, SameOrder

\* No unit twice, and none before an earlier one
Increasing(u) == \A i, j \in DOMAIN u : i < j => u[i] < u[j]

\* What comes after all there was keeps the order.
LEMMA UnitsAppended ==
  ASSUME NEW u \in Seq(Int), NEW w \in Seq(Int), NEW k \in Nat,
         Increasing(u), Range(u) \subseteq 1 .. k,
         \A j \in 1 .. Len(w) : w[j] = k + j
  PROVE  Increasing(u \o w) /\ Range(u \o w) = Range(u) \cup (k + 1 .. k + Len(w))
<1> DEFINE v == u \o w
           n == Len(w)
<1>1. /\ Len(u) \in Nat /\ DOMAIN u = 1 .. Len(u) /\ n \in Nat
      /\ DOMAIN v = 1 .. Len(u) + n
      /\ \A i \in 1 .. Len(u) : v[i] = u[i]
      /\ \A i \in Len(u) + 1 .. Len(u) + n : v[i] = k + (i - Len(u))
  <2>1. /\ v \in Seq(Int) /\ Len(v) = Len(u) + n
        /\ \A i \in 1 .. Len(u) + n : v[i] = IF i <= Len(u) THEN u[i] ELSE w[i - Len(u)]
    BY ConcatProperties, Zenon
  <2>2. Len(u) \in Nat /\ DOMAIN u = 1 .. Len(u) /\ n \in Nat
    OBVIOUS
  <2> HIDE DEF v
  <2>3. DOMAIN v = 1 .. Len(u) + n
    BY <2>1
  <2>4. ASSUME NEW i \in Len(u) + 1 .. Len(u) + n PROVE v[i] = k + (i - Len(u))
    <3>1. i - Len(u) \in 1 .. n /\ ~ (i <= Len(u)) /\ i \in 1 .. Len(u) + n
      BY <2>2
    <3>. QED BY <2>1, <3>1
  <2>5. ASSUME NEW i \in 1 .. Len(u) PROVE v[i] = u[i]
    BY <2>1, <2>2
  <2>. QED BY <2>2, <2>3, <2>4, <2>5
<1> HIDE DEF v, n
<1>2. \A i \in 1 .. Len(u) : u[i] \in 1 .. k
  BY <1>1 DEF Range
<1>3. ASSUME NEW i \in DOMAIN v, NEW j \in DOMAIN v, i < j PROVE v[i] < v[j]
  <2>1. i \in Int /\ j \in Int
    BY <1>1
  <2>2. CASE j <= Len(u)
    BY <1>1, <1>3, <2>1, <2>2 DEF Increasing
  <2>3. CASE j > Len(u) /\ i <= Len(u)
    <3>1. v[i] <= k /\ v[i] \in Int
      BY <1>1, <1>2, <2>1, <2>3
    <3>3. j \in Len(u) + 1 .. Len(u) + n
      BY <1>1, <2>1, <2>3
    <3>2. v[j] = k + (j - Len(u))
      BY <1>1, <3>3
    <3>. QED BY <1>1, <2>1, <2>3, <3>1, <3>2
  <2>4. CASE i > Len(u)
    <3>1. i \in Len(u) + 1 .. Len(u) + n /\ j \in Len(u) + 1 .. Len(u) + n
      BY <1>1, <1>3, <2>1, <2>4
    <3>2. v[i] = k + (i - Len(u)) /\ v[j] = k + (j - Len(u))
      BY <1>1, <3>1
    <3>. QED BY <1>1, <1>3, <2>1, <3>2
  <2>5. j <= Len(u) \/ (j > Len(u) /\ i <= Len(u)) \/ i > Len(u)
    BY <1>1, <2>1
  <2>. QED BY <2>2, <2>3, <2>4, <2>5
<1>4. ASSUME NEW x \in Range(v) PROVE x \in Range(u) \cup (k + 1 .. k + n)
  <2>1. PICK i \in DOMAIN v : x = v[i]
    BY DEF Range
  <2>2. CASE i <= Len(u)
    BY <1>1, <2>1, <2>2 DEF Range
  <2>3. CASE i > Len(u)
    BY <1>1, <2>1, <2>3
  <2>. QED BY <1>1, <2>1, <2>2, <2>3
<1>5. ASSUME NEW x \in Range(u) \cup (k + 1 .. k + n) PROVE x \in Range(v)
  <2>1. CASE x \in Range(u)
    <3>1. PICK i \in DOMAIN u : x = u[i]
      BY <2>1 DEF Range
    <3>2. i \in DOMAIN v /\ v[i] = x
      BY <1>1, <3>1
    <3>. QED BY <3>2 DEF Range
  <2>2. CASE x \in k + 1 .. k + n
    <3>1. PICK i \in Len(u) + 1 .. Len(u) + n : i = Len(u) + (x - k)
      BY <1>1, <2>2
    <3>4. i \in 1 .. Len(u) + n
      BY <1>1, <3>1
    <3>2. v[i] = k + (i - Len(u)) /\ i \in DOMAIN v
      BY <1>1, <3>4, Zenon
    <3>3. v[i] = x
      BY <1>1, <2>2, <3>1, <3>2
    <3>. QED BY <3>2, <3>3 DEF Range
  <2>. QED BY <2>1, <2>2
<1>6. Increasing(v)
  BY <1>3 DEF Increasing
<1>7. Range(v) = Range(u) \cup (k + 1 .. k + n)
  BY <1>4, <1>5
<1>. QED BY <1>6, <1>7 DEF v, n

\* A recv() that fills the buffer adds the next units of the stream.
LEMMA RecvFills ==
  ASSUME Typed, Single, Single', NEW t \in Threads, pc[t] = "recv",
         pc' = [pc EXCEPT ![t] = "advance"],
         \A u \in Threads \ {t} : pc[u] \notin ReceivingSteps,
         NEW n \in Nat, slide + n = Room(buf), taken + n <= arrived,
         got' = [got EXCEPT ![t] = n], taken' = taken + n,
         cells' = [i \in DOMAIN cells |->
                     IF i \in slide + 1 .. slide + n THEN taken + i - slide ELSE cells[i]],
         UNCHANGED <<slide, given, lost>>,
         InOrder, lost \subseteq 1 .. taken
  PROVE  InOrder'
<1> DEFINE new == [j \in 1 .. n |-> taken + j]
<1>1. slide \in Nat /\ Room(buf) \in Nat /\ DOMAIN cells = 1 .. slide + n /\ taken \in Nat
  BY RoomDoubles DEF Typed, Buffers, Arrivals
<1>2. Held = Flat
  <2>1. \A u \in Threads : pc[u] \notin {"reset", "flush_reset", "advance"}
    BY DEF ReceivingSteps, OnRecvSteps, AsyncRecvSteps
  <2>. QED BY <1>1, <2>1, HeldIs DEF HeldFact
<1>3. Held' = [i \in 1 .. slide + n |-> cells'[i]]
  <2>1. pc'[t] = "advance" /\ got'[t] = n
    BY DEF Typed, Locals
  <2>. QED BY <2>1, HeldNext DEF HeldFact
<1>4. Flat \in Seq({0} \cup Units) /\ Len(Flat) = slide /\ given \in Seq({0} \cup Units)
  <2>1. Flat \in Seq({0} \cup Units) /\ given \in Seq({0} \cup Units)
    BY FlatType DEF Flat, Typed, Past
  <2>2. DOMAIN Flat = 1 .. slide
    BY DEF Flat
  <2>. QED BY <1>1, <2>1, <2>2
<1>5. Flat \in Seq(Int) /\ given \in Seq(Int) /\ new \in Seq(Int) /\ Len(new) = n
  <2>1. {0} \cup Units \subseteq Int
    BY DEF Units
  <2>2. \A j \in 1 .. n : taken + j \in Int
    BY <1>1
  <2>. QED BY <1>4, <2>1, <2>2
<1>6. Held' = Flat \o new
  <2> HIDE DEF new
  <2>1. DOMAIN (Flat \o new) = 1 .. slide + n /\ Flat \o new \in Seq(Int)
    BY <1>1, <1>4, <1>5
  <2>2. ASSUME NEW i \in 1 .. slide + n PROVE cells'[i] = (Flat \o new)[i]
    <3>1. CASE i <= slide
      <4>1. (Flat \o new)[i] = Flat[i] /\ Flat[i] = cells[i]
        BY <1>1, <1>4, <1>5, <3>1 DEF Flat
      <4>2. cells'[i] = cells[i]
        BY <1>1, <3>1
      <4>. QED BY <4>1, <4>2
    <3>2. CASE i > slide
      <4>1. i - slide \in 1 .. n /\ new[i - slide] = taken + (i - slide)
        BY <1>1, <3>2 DEF new
      <4>2. (Flat \o new)[i] = new[i - slide]
        <5>1. i \in Len(Flat) + 1 .. Len(Flat) + Len(new)
          BY <1>1, <1>4, <1>5, <3>2
        <5>2. (Flat \o new)[i] = new[i - Len(Flat)]
          BY <1>5, <5>1
        <5>. QED BY <1>4, <5>2
      <4>3. cells'[i] = taken + i - slide
        BY <1>1, <3>2
      <4>. QED BY <1>1, <4>1, <4>2, <4>3
    <3>3. i <= slide \/ i > slide
      BY <1>1
    <3>. QED BY <3>1, <3>2, <3>3, Zenon
  <2>3. Flat \o new = [i \in 1 .. slide + n |-> (Flat \o new)[i]]
    <3> DEFINE f == Flat \o new
    <3>1. f \in Seq(Int) /\ DOMAIN f = 1 .. slide + n
      BY <2>1
    <3> HIDE DEF f
    <3>2. f = [i \in DOMAIN f |-> f[i]]
      BY <3>1
    <3>3. f = [i \in 1 .. slide + n |-> f[i]]
      BY <3>1, <3>2
    <3>. QED BY <3>3 DEF f
  <2>. QED BY <1>3, <2>2, <2>3, Zenon
<1>7. given' \o Held' = (given \o Held) \o new
  <2> HIDE DEF new
  <2>1. (given \o Flat) \o new = given \o (Flat \o new)
    BY <1>5, ConcatAssociative
  <2>. QED BY <1>2, <1>6, <2>1
<1>8. given \o Held \in Seq(Int)
  BY <1>2, <1>5
<1>. QED
  <2> DEFINE u == given \o Held
             v == given' \o Held'
  <2>1. u \in Seq(Int) /\ Increasing(u) /\ Range(u) = 1 .. taken \ lost
    BY <1>8 DEF InOrder, Increasing
  <2>2. v = u \o new
    BY <1>7
  <2>3. new \in Seq(Int) /\ Len(new) = n /\ \A j \in 1 .. n : new[j] = taken + j
    BY <1>5
  <2>4. Increasing(v) /\ Range(v) = Range(u) \cup (taken + 1 .. taken + n)
    <3> HIDE DEF u, v, new
    <3>. QED BY <1>1, <2>1, <2>2, <2>3, UnitsAppended
  <2>5. Range(v) = 1 .. taken' \ lost'
    <3> HIDE DEF u, v
    <3>. QED BY <1>1, <2>1, <2>4
  <2>. QED BY <2>4, <2>5 DEF InOrder, Increasing

\* As long as there is one receiver each step keeps the order.
LEMMA OnceNext ==
  ASSUME Typed, IsFiniteSet(Receiving), Once, ~ twice, [Next]_vars, ~ twice'
  PROVE  Once'
<1>a. Single /\ Current /\ InOrder /\ ~ stray /\ lost \subseteq 1 .. taken
  BY DEF Once
<1>b. /\ slide \in Nat /\ slide <= Room(buf) /\ Room(buf) \in Nat
      /\ taken \in Nat /\ armed \in Nat /\ ready \in Nat
  BY RoomDoubles DEF Typed, Buffers, Arrivals
<1> USE <1>a
<1>1. ASSUME Arrive PROVE Once'
  <2>a. UNCHANGED <<buf, cells, slide, at, got, given, taken, lost, stray>>
    BY <1>1 DEF Arrive, ops, buffer, locals, history
  <2>b. pc' = pc
    BY <1>1 DEF Arrive
  <2>1. Single'
    BY <1>1, <2>b DEF Arrive, ops, Single, Receiving
  <2>2. Current'
    BY <2>a, <2>b DEF Current
  <2>3. InOrder'
    BY <2>a, <2>b, HeldStays
  <2>. QED BY <1>a, <2>a, <2>1, <2>2, <2>3 DEF Once
<1>2. ASSUME NEW how \in {"closed", "reset"}, PeerEnds(how) PROVE Once'
  <2>a. UNCHANGED <<buf, cells, slide, at, got, given, taken, lost, stray>>
    BY <1>2 DEF PeerEnds, ops, buffer, locals, history
  <2>b. pc' = pc
    BY <1>2 DEF PeerEnds
  <2>1. Single'
    BY <1>2, <2>b DEF PeerEnds, ops, Single, Receiving
  <2>2. Current'
    BY <2>a, <2>b DEF Current
  <2>3. InOrder'
    BY <2>a, <2>b, HeldStays
  <2>. QED BY <1>a, <2>a, <2>1, <2>2, <2>3 DEF Once
<1>3. ASSUME Signal PROVE Once'
  <2>a. UNCHANGED <<buf, cells, slide, at, got, given, taken, lost, stray>>
    BY <1>3 DEF Signal, stream, buffer, locals, history
  <2>b. pc' = pc
    BY <1>3 DEF Signal
  <2>1. Single'
    BY <1>3, <1>b, <2>b DEF Signal, Single, Receiving
  <2>2. Current'
    BY <2>a, <2>b DEF Current
  <2>3. InOrder'
    BY <2>a, <2>b, HeldStays
  <2>. QED BY <1>a, <2>a, <2>1, <2>2, <2>3 DEF Once
<1>4. ASSUME NEW t \in Threads, RecvOff(t) PROVE Once'
  <2>a. UNCHANGED <<buf, cells, slide, at, got, given, taken, lost, stray>>
    BY <1>4 DEF RecvOff, stream, ops, buffer, locals, history, StartCall
  <2>b. \A u \in Threads : pc'[u] = pc[u] \/ {pc[u], pc'[u]} \subseteq {"idle", "set"}
    BY <1>4 DEF RecvOff, StartCall, Typed, Locals
  <2>1. Single'
    <3>1. Receiving' = Receiving
      BY <2>b DEF Receiving, ReceivingSteps, OnRecvSteps, AsyncRecvSteps
    <3>2. UNCHANGED <<armed, ready>>
      BY <1>4 DEF RecvOff, ops
    <3>. QED BY <3>1, <3>2 DEF Single
  <2>2. Current'
    BY <2>a, <2>b DEF Current
  <2>3. InOrder'
    BY <2>a, <2>b, HeldStays
  <2>. QED BY <1>a, <2>a, <2>1, <2>2, <2>3 DEF Once
<1>5. ASSUME NEW t \in Threads, RecvOn(t) PROVE Once'
  <2>a. UNCHANGED <<buf, cells, slide, at, got, given, taken, lost, stray>>
    BY <1>5 DEF RecvOn, stream, ops, buffer, locals, history, StartCall
  <2>b. \A u \in Threads : pc'[u] = pc[u] \/ {pc[u], pc'[u]} \subseteq {"idle", "set"}
    BY <1>5 DEF RecvOn, StartCall, Goto, Typed, Locals
  <2>1. Single'
    <3>1. Receiving' = Receiving
      BY <2>b DEF Receiving, ReceivingSteps, OnRecvSteps, AsyncRecvSteps
    <3>2. UNCHANGED <<armed, ready>>
      BY <1>5 DEF RecvOn, ops
    <3>. QED BY <3>1, <3>2 DEF Single
  <2>2. Current'
    BY <2>a, <2>b DEF Current
  <2>3. InOrder'
    BY <2>a, <2>b, HeldStays
  <2>. QED BY <1>a, <2>a, <2>1, <2>2, <2>3 DEF Once
<1>6. ASSUME NEW t \in Threads, SetRecv(t) PROVE Once'
  <2>a. /\ pc[t] = "set"
        /\ pc' \in {[pc EXCEPT ![t] = "flush"], [pc EXCEPT ![t] = "arm_first"]}
        /\ UNCHANGED <<buf, cells, slide, given, taken, lost, stray, armed, ready, at, got>>
        /\ twice' = (twice \/ Receivers > 0)
    BY <1>6 DEF SetRecv, Goto, stream, ops, buffer, locals
  <2>o. armed = 0 /\ ready = 0 /\ \A u \in Threads \ {t} : pc[u] \notin ReceivingSteps
    <3>1. ~ (Receivers > 0)
      BY <2>a
    <3>2. ~ (armed + ready > 0) /\ Receiving = {}
      BY <3>1, ReceiversPositive
    <3>. QED BY <1>b, <3>2 DEF Receiving
  <2>l. PICK l \in {"flush", "arm_first"} : pc' = [pc EXCEPT ![t] = l]
    BY <2>a
  <2>1. Single'
    <3>1. Receiving' \subseteq {t}
      BY <2>l, <2>o DEF Receiving, Typed, Locals
    <3>. QED BY <2>a, <2>o, <3>1 DEF Single
  <2>2. Current'
    <3>1. \A u \in Threads : pc'[u] \notin {"recv", "advance"}
      BY <2>l, <2>o DEF Typed, Locals, ReceivingSteps, OnRecvSteps
    <3>. QED BY <3>1 DEF Current
  <2>3. InOrder'
    <3>1. \A i \in 1 .. slide : cells'[i] = cells[i]
      BY <2>a
    <3>2. pc[t] \notin {"reset", "flush_reset", "advance"} /\ l \notin {"reset",
    "flush_reset", "advance"}
      BY <2>a, <2>l
    <3>. QED BY <2>a, <2>l, <2>o, <3>1, <3>2, FlatStays
  <2>. QED BY <1>a, <2>a, <2>1, <2>2, <2>3 DEF Once
<1>7. ASSUME NEW t \in Threads, Flush(t) PROVE Once'
  <2>a. /\ pc[t] = "flush"
        /\ pc' = [pc EXCEPT ![t] = "flush_reset"]
        /\ UNCHANGED <<buf, cells, slide, taken, lost, stray, armed, ready>>
        /\ given' = given \o Flat
    BY <1>7 DEF Flat, Flush, Goto, stream, ops, buffer, locals
  <2>o. armed = 0 /\ ready = 0 /\ \A u \in Threads \ {t} : pc[u] \notin ReceivingSteps
    <3>1. pc[t] \in ReceivingSteps
      BY <2>a DEF ReceivingSteps, OnRecvSteps, AsyncRecvSteps
    <3>. QED BY <3>1, OneReceiver
  <2>l. PICK l \in {"flush_reset"} : pc' = [pc EXCEPT ![t] = l]
    BY <2>a
  <2>1. Single'
    <3>1. pc[t] \in ReceivingSteps
      BY <2>a DEF ReceivingSteps, OnRecvSteps, AsyncRecvSteps
    <3>2. \/ UNCHANGED <<armed, ready>>
          \/ l \notin ReceivingSteps /\ armed' = armed + 1 /\ ready' = ready
      BY <2>a, <2>l DEF ReceivingSteps, OnRecvSteps, AsyncRecvSteps
    <3>. QED BY <2>l, <3>1, <3>2, SingleGoesOn
  <2>2. Current'
    <3>1. \A u \in Threads : pc'[u] \notin {"recv", "advance"}
      BY <2>l, <2>o DEF Typed, Locals, ReceivingSteps, OnRecvSteps
    <3>. QED BY <3>1 DEF Current
  <2>3. InOrder'
    BY <2>a, <2>l, <2>o, FlatIsGiven DEF Flat
  <2>. QED BY <1>a, <2>a, <2>1, <2>2, <2>3 DEF Once
<1>8. ASSUME NEW t \in Threads, FlushReset(t) PROVE Once'
  <2>a. /\ pc[t] = "flush_reset"
        /\ pc' = [pc EXCEPT ![t] = "arm_first"]
        /\ UNCHANGED <<buf, cells, given, taken, lost, stray, armed, ready>>
        /\ slide' = 0
    BY <1>8 DEF FlushReset, Goto, stream, ops, locals, history
  <2>o. armed = 0 /\ ready = 0 /\ \A u \in Threads \ {t} : pc[u] \notin ReceivingSteps
    <3>1. pc[t] \in ReceivingSteps
      BY <2>a DEF ReceivingSteps, OnRecvSteps, AsyncRecvSteps
    <3>. QED BY <3>1, OneReceiver
  <2>l. PICK l \in {"arm_first"} : pc' = [pc EXCEPT ![t] = l]
    BY <2>a
  <2>1. Single'
    <3>1. pc[t] \in ReceivingSteps
      BY <2>a DEF ReceivingSteps, OnRecvSteps, AsyncRecvSteps
    <3>2. \/ UNCHANGED <<armed, ready>>
          \/ l \notin ReceivingSteps /\ armed' = armed + 1 /\ ready' = ready
      BY <2>a, <2>l DEF ReceivingSteps, OnRecvSteps, AsyncRecvSteps
    <3>. QED BY <2>l, <3>1, <3>2, SingleGoesOn
  <2>2. Current'
    <3>1. \A u \in Threads : pc'[u] \notin {"recv", "advance"}
      BY <2>l, <2>o DEF Typed, Locals, ReceivingSteps, OnRecvSteps
    <3>. QED BY <3>1 DEF Current
  <2>3. InOrder'
    BY <2>a, <2>l, <2>o, ResetStays
  <2>. QED BY <1>a, <2>a, <2>1, <2>2, <2>3 DEF Once
<1>9. ASSUME NEW t \in Threads, ArmFirst(t) PROVE Once'
  <2>a. /\ pc[t] = "arm_first"
        /\ pc' = [pc EXCEPT ![t] = "idle"]
        /\ UNCHANGED <<buf, cells, slide, given, taken, lost, stray>>
        /\ ready' = ready /\ armed' \in {armed, armed + 1}
    BY <1>9 DEF ArmFirst, Goto, stream, buffer, locals
  <2>o. armed = 0 /\ ready = 0 /\ \A u \in Threads \ {t} : pc[u] \notin ReceivingSteps
    <3>1. pc[t] \in ReceivingSteps
      BY <2>a DEF ReceivingSteps, OnRecvSteps, AsyncRecvSteps
    <3>. QED BY <3>1, OneReceiver
  <2>l. PICK l \in {"idle"} : pc' = [pc EXCEPT ![t] = l]
    BY <2>a
  <2>1. Single'
    <3>1. pc[t] \in ReceivingSteps
      BY <2>a DEF ReceivingSteps, OnRecvSteps, AsyncRecvSteps
    <3>2. \/ UNCHANGED <<armed, ready>>
          \/ l \notin ReceivingSteps /\ armed' = armed + 1 /\ ready' = ready
      BY <2>a, <2>l DEF ReceivingSteps, OnRecvSteps, AsyncRecvSteps
    <3>. QED BY <2>l, <3>1, <3>2, SingleGoesOn
  <2>2. Current'
    <3>1. \A u \in Threads : pc'[u] \notin {"recv", "advance"}
      BY <2>l, <2>o DEF Typed, Locals, ReceivingSteps, OnRecvSteps
    <3>. QED BY <3>1 DEF Current
  <2>3. InOrder'
    <3>1. \A i \in 1 .. slide : cells'[i] = cells[i]
      BY <2>a
    <3>2. pc[t] \notin {"reset", "flush_reset", "advance"} /\ l \notin {"reset",
    "flush_reset", "advance"}
      BY <2>a, <2>l
    <3>. QED BY <2>a, <2>l, <2>o, <3>1, <3>2, FlatStays
  <2>. QED BY <1>a, <2>a, <2>1, <2>2, <2>3 DEF Once
<1>10. ASSUME NEW t \in Threads, Complete(t) PROVE Once'
  <2>a. /\ pc[t] = "idle"
        /\ pc' = pc \/ pc' = [pc EXCEPT ![t] = "size"]
        /\ UNCHANGED <<buf, cells, slide, given, taken, lost, stray, armed, at, got>>
        /\ ready > 0 /\ ready' = ready - 1
    BY <1>10 DEF Complete, Goto, stream, buffer, locals
  <2>o. \A u \in Threads : pc[u] \notin ReceivingSteps
    BY <1>b, <2>a DEF Single, Receiving
  <2>l. PICK l \in {"idle", "size"} : pc' = [pc EXCEPT ![t] = l]
    BY <2>a DEF Typed, Locals
  <2>1. Single'
    <3>1. Receiving' \subseteq {t}
      BY <2>l, <2>o DEF Receiving, Typed, Locals
    <3>2. armed' = 0 /\ ready' = 0
      BY <1>b, <2>a DEF Single
    <3>. QED BY <3>1, <3>2 DEF Single
  <2>2. Current'
    <3>1. \A u \in Threads : pc'[u] \notin {"recv", "advance"}
      BY <2>l, <2>o DEF Typed, Locals, ReceivingSteps, OnRecvSteps
    <3>. QED BY <3>1 DEF Current
  <2>3. InOrder'
    <3>1. \A i \in 1 .. slide : cells'[i] = cells[i]
      BY <2>a
    <3>2. pc[t] \notin {"reset", "flush_reset", "advance"} /\ l \notin {"reset",
    "flush_reset", "advance"}
      BY <2>a, <2>l
    <3>. QED BY <2>a, <2>l, <2>o, <3>1, <3>2, FlatStays
  <2>. QED BY <1>a, <2>a, <2>1, <2>2, <2>3 DEF Once
<1>11. ASSUME NEW t \in Threads, ReadSize(t) PROVE Once'
  <2>a. /\ pc[t] = "size"
        /\ pc' = [pc EXCEPT ![t] = "recv"]
        /\ UNCHANGED <<buf, cells, slide, given, taken, lost, stray, armed, ready>>
        /\ at' = [at EXCEPT ![t] = <<buf, slide, Room(buf) - slide>>]
    BY <1>11 DEF ReadSize, Goto, stream, ops, buffer, history
  <2>o. armed = 0 /\ ready = 0 /\ \A u \in Threads \ {t} : pc[u] \notin ReceivingSteps
    <3>1. pc[t] \in ReceivingSteps
      BY <2>a DEF ReceivingSteps, OnRecvSteps, AsyncRecvSteps
    <3>. QED BY <3>1, OneReceiver
  <2>l. PICK l \in {"recv"} : pc' = [pc EXCEPT ![t] = l]
    BY <2>a
  <2>1. Single'
    <3>1. pc[t] \in ReceivingSteps
      BY <2>a DEF ReceivingSteps, OnRecvSteps, AsyncRecvSteps
    <3>2. \/ UNCHANGED <<armed, ready>>
          \/ l \notin ReceivingSteps /\ armed' = armed + 1 /\ ready' = ready
      BY <2>a, <2>l DEF ReceivingSteps, OnRecvSteps, AsyncRecvSteps
    <3>. QED BY <2>l, <3>1, <3>2, SingleGoesOn
  <2>2. Current'
    <3>1. \A u \in Threads \ {t} : pc'[u] \notin {"recv", "advance"}
      BY <2>l, <2>o DEF Typed, Locals, ReceivingSteps, OnRecvSteps
    <3>2. at'[t] = <<buf, slide, Room(buf) - slide>> /\ pc'[t] = "recv"
      BY <2>a DEF Typed, Locals
    <3>. QED BY <2>a, <3>1, <3>2 DEF Current
  <2>3. InOrder'
    <3>1. \A i \in 1 .. slide : cells'[i] = cells[i]
      BY <2>a
    <3>2. pc[t] \notin {"reset", "flush_reset", "advance"} /\ l \notin {"reset",
    "flush_reset", "advance"}
      BY <2>a, <2>l
    <3>. QED BY <2>a, <2>l, <2>o, <3>1, <3>2, FlatStays
  <2>. QED BY <1>a, <2>a, <2>1, <2>2, <2>3 DEF Once
<1>12. ASSUME NEW t \in Threads, RecvFails(t) PROVE Once'
  <2>a. /\ pc[t] = "recv"
        /\ pc' = [pc EXCEPT ![t] = "test"]
        /\ UNCHANGED <<buf, cells, slide, given, taken, lost, stray, armed, ready>>
    BY <1>12 DEF RecvFails, Goto, Received, stream, ops, buffer
  <2>o. armed = 0 /\ ready = 0 /\ \A u \in Threads \ {t} : pc[u] \notin ReceivingSteps
    <3>1. pc[t] \in ReceivingSteps
      BY <2>a DEF ReceivingSteps, OnRecvSteps, AsyncRecvSteps
    <3>. QED BY <3>1, OneReceiver
  <2>l. PICK l \in {"test"} : pc' = [pc EXCEPT ![t] = l]
    BY <2>a
  <2>1. Single'
    <3>1. pc[t] \in ReceivingSteps
      BY <2>a DEF ReceivingSteps, OnRecvSteps, AsyncRecvSteps
    <3>2. \/ UNCHANGED <<armed, ready>>
          \/ l \notin ReceivingSteps /\ armed' = armed + 1 /\ ready' = ready
      BY <2>a, <2>l DEF ReceivingSteps, OnRecvSteps, AsyncRecvSteps
    <3>. QED BY <2>l, <3>1, <3>2, SingleGoesOn
  <2>2. Current'
    <3>1. \A u \in Threads : pc'[u] \notin {"recv", "advance"}
      BY <2>l, <2>o DEF Typed, Locals, ReceivingSteps, OnRecvSteps
    <3>. QED BY <3>1 DEF Current
  <2>3. InOrder'
    <3>1. \A i \in 1 .. slide : cells'[i] = cells[i]
      BY <2>a
    <3>2. pc[t] \notin {"reset", "flush_reset", "advance"} /\ l \notin {"reset",
    "flush_reset", "advance"}
      BY <2>a, <2>l
    <3>. QED BY <2>a, <2>l, <2>o, <3>1, <3>2, FlatStays
  <2>. QED BY <1>a, <2>a, <2>1, <2>2, <2>3 DEF Once
<1>13. ASSUME NEW t \in Threads, RecvNothing(t) PROVE Once'
  <2>a. /\ pc[t] = "recv"
        /\ pc' = [pc EXCEPT ![t] = "test"]
        /\ UNCHANGED <<buf, cells, slide, given, taken, lost, stray, armed, ready>>
    BY <1>13 DEF RecvNothing, Goto, Received, stream, ops, buffer, history
  <2>o. armed = 0 /\ ready = 0 /\ \A u \in Threads \ {t} : pc[u] \notin ReceivingSteps
    <3>1. pc[t] \in ReceivingSteps
      BY <2>a DEF ReceivingSteps, OnRecvSteps, AsyncRecvSteps
    <3>. QED BY <3>1, OneReceiver
  <2>l. PICK l \in {"test"} : pc' = [pc EXCEPT ![t] = l]
    BY <2>a
  <2>1. Single'
    <3>1. pc[t] \in ReceivingSteps
      BY <2>a DEF ReceivingSteps, OnRecvSteps, AsyncRecvSteps
    <3>2. \/ UNCHANGED <<armed, ready>>
          \/ l \notin ReceivingSteps /\ armed' = armed + 1 /\ ready' = ready
      BY <2>a, <2>l DEF ReceivingSteps, OnRecvSteps, AsyncRecvSteps
    <3>. QED BY <2>l, <3>1, <3>2, SingleGoesOn
  <2>2. Current'
    <3>1. \A u \in Threads : pc'[u] \notin {"recv", "advance"}
      BY <2>l, <2>o DEF Typed, Locals, ReceivingSteps, OnRecvSteps
    <3>. QED BY <3>1 DEF Current
  <2>3. InOrder'
    <3>1. \A i \in 1 .. slide : cells'[i] = cells[i]
      BY <2>a
    <3>2. pc[t] \notin {"reset", "flush_reset", "advance"} /\ l \notin {"reset",
    "flush_reset", "advance"}
      BY <2>a, <2>l
    <3>. QED BY <2>a, <2>l, <2>o, <3>1, <3>2, FlatStays
  <2>. QED BY <1>a, <2>a, <2>1, <2>2, <2>3 DEF Once
<1>14. ASSUME NEW t \in Threads, Recv(t) PROVE Once'
  <2> DEFINE room == Room(buf) - slide
             n == IF arrived - taken < room THEN arrived - taken ELSE room
  <2>a. pc[t] = "recv" /\ arrived > taken /\ UNCHANGED <<armed, ready, buf, slide, given>>
    BY <1>14 DEF Recv, ops
  <2>h. at[t][1] = buf /\ at[t][2] = slide /\ at[t][3] = room
    BY <2>a DEF Current
  <2>n. n \in Nat /\ room \in Nat /\ taken + n <= arrived /\ n <= room
    BY <1>b, <2>a DEF Typed, Arrivals
  <2>b. /\ taken' = taken + n /\ stray' = stray
        /\ cells' = [i \in DOMAIN cells |->
                       IF i \in slide + 1 .. slide + n THEN taken + i - slide ELSE cells[i]]
    BY <1>14, <2>h DEF Recv
  <2>c. \/ /\ n < room /\ lost' = lost \cup (taken + 1 .. taken + n)
           /\ pc' = [pc EXCEPT ![t] = "test"]
        \/ /\ ~ (n < room) /\ lost' = lost /\ pc' = [pc EXCEPT ![t] = "advance"]
           /\ got' = [got EXCEPT ![t] = n]
    BY <1>14, <2>h DEF Recv, Received, Goto
  <2>o. armed = 0 /\ ready = 0 /\ \A u \in Threads \ {t} : pc[u] \notin ReceivingSteps
    <3>1. pc[t] \in ReceivingSteps
      BY <2>a DEF ReceivingSteps, OnRecvSteps, AsyncRecvSteps
    <3>. QED BY <3>1, OneReceiver
  <2>d. lost' \subseteq 1 .. taken'
    <3> HIDE DEF n, room
    <3>1. lost' \subseteq lost \cup (taken + 1 .. taken + n)
      BY <2>c
    <3>2. lost \cup (taken + 1 .. taken + n) \subseteq 1 .. taken + n
      BY <1>b, <2>n
    <3>. QED BY <2>b, <3>1, <3>2
  <2> HIDE DEF n, room
  <2>1. CASE n < room
    <3>1. lost' = lost \cup (taken + 1 .. taken + n) /\ pc' = [pc EXCEPT ![t] = "test"]
      BY <2>c, <2>1
    <3>2. Single'
      BY <2>a, <3>1, SingleGoesOn DEF ReceivingSteps, OnRecvSteps
    <3>3. Current'
      <4>1. \A u \in Threads : pc'[u] \notin {"recv", "advance"}
        BY <2>o, <3>1 DEF Typed, Locals, ReceivingSteps, OnRecvSteps
      <4>. QED BY <4>1 DEF Current
    <3>4. Held = Flat
      <4>1. \A u \in Threads : pc[u] \notin {"reset", "flush_reset", "advance"}
        BY <2>a, <2>o DEF ReceivingSteps, OnRecvSteps, AsyncRecvSteps
      <4>. QED BY <1>b, <4>1, HeldIs DEF HeldFact
    <3>5. Held' = Flat'
      <4>1. \A u \in Threads : pc'[u] \notin {"reset", "flush_reset", "advance"}
        BY <2>o, <3>1 DEF Typed, Locals, ReceivingSteps, OnRecvSteps, AsyncRecvSteps
      <4>2. slide' \in Int
        BY <1>b, <2>a
      <4>. QED BY <4>1, <4>2, HeldNext DEF HeldFact
    <3>6. Flat' = Flat
      <4>1. ASSUME NEW i \in 1 .. slide PROVE cells'[i] = cells[i]
        <5>1. i \in DOMAIN cells
          BY <1>b DEF Typed, Buffers
        <5>2. i \notin slide + 1 .. slide + n
          BY <1>b, <2>n
        <5>. QED BY <2>b, <5>1, <5>2
      <4>. QED BY <2>a, <4>1 DEF Flat
    <3>7. 1 .. taken' \ lost' = 1 .. taken \ lost
      BY <1>b, <2>b, <2>n, <3>1
    <3>8. given' \o Held' = given \o Held
      BY <2>a, <3>4, <3>5, <3>6
    <3>9. InOrder'
      BY <3>7, <3>8 DEF InOrder
    <3>. QED BY <2>b, <2>d, <3>2, <3>3, <3>9 DEF Once
  <2>2. CASE ~ (n < room)
    <3>1. lost' = lost /\ pc' = [pc EXCEPT ![t] = "advance"] /\ got' = [got EXCEPT ![t] = n]
      BY <2>c, <2>2
    <3>2. Single'
      BY <2>a, <3>1, SingleGoesOn DEF ReceivingSteps, OnRecvSteps
    <3>3. slide + n = Room(buf)
      BY <1>b, <2>2, <2>n DEF room
    <3>4. Current'
      <4>1. \A u \in Threads \ {t} : pc'[u] \notin {"recv", "advance"}
        BY <2>o, <3>1 DEF Typed, Locals, ReceivingSteps, OnRecvSteps
      <4>2. pc'[t] = "advance" /\ got'[t] = n
        BY <3>1 DEF Typed, Locals
      <4>. QED BY <2>a, <3>3, <4>1, <4>2 DEF Current
    <3>5. InOrder'
      BY <2>a, <2>b, <2>n, <2>o, <3>1, <3>2, <3>3, RecvFills
    <3>. QED BY <2>b, <2>d, <3>2, <3>4, <3>5 DEF Once
  <2>. QED BY <2>1, <2>2
<1>15. ASSUME NEW t \in Threads, Advance(t) PROVE Once'
  <2>a. /\ pc[t] = "advance" /\ pc' = [pc EXCEPT ![t] = "size"]
        /\ buf' = buf + 1 /\ slide' = slide + got[t]
        /\ cells' = [i \in 1 .. Room(buf + 1) |-> IF i <= Room(buf) THEN cells[i] ELSE 0]
        /\ UNCHANGED <<armed, ready, given, taken, lost, stray>>
    BY <1>15 DEF Advance, Goto, stream, ops, history
  <2>o. armed = 0 /\ ready = 0 /\ \A u \in Threads \ {t} : pc[u] \notin ReceivingSteps
    <3>1. pc[t] \in ReceivingSteps
      BY <2>a DEF ReceivingSteps, OnRecvSteps, AsyncRecvSteps
    <3>. QED BY <3>1, OneReceiver
  <2>1. Single'
    BY <2>a, SingleGoesOn DEF ReceivingSteps, OnRecvSteps
  <2>2. Current'
    <3>1. \A u \in Threads : pc'[u] \notin {"recv", "advance"}
      BY <2>a, <2>o DEF Typed, Locals, ReceivingSteps, OnRecvSteps
    <3>. QED BY <3>1 DEF Current
  <2>3. InOrder'
    <3>1. Held = [i \in 1 .. slide + got[t] |-> cells[i]]
      BY <2>a, HeldIs DEF HeldFact
    <3>2. slide + got[t] = Room(buf) /\ got[t] \in Int
      BY <2>a DEF Current, Typed, Locals
    <3>3. Held' = Flat'
      <4>1. \A u \in Threads : pc'[u] \notin {"reset", "flush_reset", "advance"}
        BY <2>a, <2>o DEF Typed, Locals, ReceivingSteps, OnRecvSteps, AsyncRecvSteps
      <4>2. slide' \in Int
        BY <1>b, <2>a, <3>2
      <4>. QED BY <4>1, <4>2, HeldNext DEF HeldFact
    <3>4. Flat' = [i \in 1 .. Room(buf) |-> cells[i]]
      <4>1. ASSUME NEW i \in 1 .. Room(buf) PROVE cells'[i] = cells[i]
        <5>1. buf \in Nat /\ Room(buf + 1) = 2 * Room(buf)
          BY RoomDoubles DEF Typed, Buffers
        <5>2. i \in 1 .. Room(buf + 1) /\ i <= Room(buf)
          BY <1>b, <5>1
        <5>. QED BY <2>a, <5>2
      <4>2. slide' = Room(buf)
        BY <2>a, <3>2
      <4>. QED BY <4>1, <4>2 DEF Flat
    <3>5. Held' = Held
      BY <3>1, <3>2, <3>3, <3>4
    <3>. QED BY <2>a, <3>5, SameOrder
  <2>. QED BY <2>a, <2>1, <2>2, <2>3 DEF Once
<1>16. ASSUME NEW t \in Threads, IsRecv(t) PROVE Once'
  <2>a. /\ pc[t] = "test"
        /\ pc' \in {[pc EXCEPT ![t] = "handler"], [pc EXCEPT ![t] = "idle"]}
        /\ UNCHANGED <<buf, cells, slide, given, taken, lost, stray, armed, ready>>
    BY <1>16 DEF IsRecv, Goto, Received, stream, ops, buffer, locals, history
  <2>o. armed = 0 /\ ready = 0 /\ \A u \in Threads \ {t} : pc[u] \notin ReceivingSteps
    <3>1. pc[t] \in ReceivingSteps
      BY <2>a DEF ReceivingSteps, OnRecvSteps, AsyncRecvSteps
    <3>. QED BY <3>1, OneReceiver
  <2>l. PICK l \in {"handler", "idle"} : pc' = [pc EXCEPT ![t] = l]
    BY <2>a
  <2>1. Single'
    <3>1. pc[t] \in ReceivingSteps
      BY <2>a DEF ReceivingSteps, OnRecvSteps, AsyncRecvSteps
    <3>2. \/ UNCHANGED <<armed, ready>>
          \/ l \notin ReceivingSteps /\ armed' = armed + 1 /\ ready' = ready
      BY <2>a, <2>l DEF ReceivingSteps, OnRecvSteps, AsyncRecvSteps
    <3>. QED BY <2>l, <3>1, <3>2, SingleGoesOn
  <2>2. Current'
    <3>1. \A u \in Threads : pc'[u] \notin {"recv", "advance"}
      BY <2>l, <2>o DEF Typed, Locals, ReceivingSteps, OnRecvSteps
    <3>. QED BY <3>1 DEF Current
  <2>3. InOrder'
    <3>1. \A i \in 1 .. slide : cells'[i] = cells[i]
      BY <2>a
    <3>2. pc[t] \notin {"reset", "flush_reset", "advance"} /\ l \notin {"reset",
    "flush_reset", "advance"}
      BY <2>a, <2>l
    <3>. QED BY <2>a, <2>l, <2>o, <3>1, <3>2, FlatStays
  <2>. QED BY <1>a, <2>a, <2>1, <2>2, <2>3 DEF Once
<1>17. ASSUME NEW t \in Threads, Handler(t) PROVE Once'
  <2>a. /\ pc[t] = "handler"
        /\ pc' = [pc EXCEPT ![t] = "reset"]
        /\ UNCHANGED <<buf, cells, slide, taken, lost, stray, armed, ready>>
        /\ given' = given \o Flat
    BY <1>17 DEF Flat, Handler, Goto, stream, ops, buffer, locals
  <2>o. armed = 0 /\ ready = 0 /\ \A u \in Threads \ {t} : pc[u] \notin ReceivingSteps
    <3>1. pc[t] \in ReceivingSteps
      BY <2>a DEF ReceivingSteps, OnRecvSteps, AsyncRecvSteps
    <3>. QED BY <3>1, OneReceiver
  <2>l. PICK l \in {"reset"} : pc' = [pc EXCEPT ![t] = l]
    BY <2>a
  <2>1. Single'
    <3>1. pc[t] \in ReceivingSteps
      BY <2>a DEF ReceivingSteps, OnRecvSteps, AsyncRecvSteps
    <3>2. \/ UNCHANGED <<armed, ready>>
          \/ l \notin ReceivingSteps /\ armed' = armed + 1 /\ ready' = ready
      BY <2>a, <2>l DEF ReceivingSteps, OnRecvSteps, AsyncRecvSteps
    <3>. QED BY <2>l, <3>1, <3>2, SingleGoesOn
  <2>2. Current'
    <3>1. \A u \in Threads : pc'[u] \notin {"recv", "advance"}
      BY <2>l, <2>o DEF Typed, Locals, ReceivingSteps, OnRecvSteps
    <3>. QED BY <3>1 DEF Current
  <2>3. InOrder'
    BY <2>a, <2>l, <2>o, FlatIsGiven DEF Flat
  <2>. QED BY <1>a, <2>a, <2>1, <2>2, <2>3 DEF Once
<1>18. ASSUME NEW t \in Threads, Reset(t) PROVE Once'
  <2>a. /\ pc[t] = "reset"
        /\ pc' \in {[pc EXCEPT ![t] = "idle"], [pc EXCEPT ![t] = "arm"]}
        /\ UNCHANGED <<buf, cells, given, taken, lost, stray, armed, ready>>
        /\ slide' = 0
    BY <1>18 DEF Reset, Goto, Received, stream, ops, history
  <2>o. armed = 0 /\ ready = 0 /\ \A u \in Threads \ {t} : pc[u] \notin ReceivingSteps
    <3>1. pc[t] \in ReceivingSteps
      BY <2>a DEF ReceivingSteps, OnRecvSteps, AsyncRecvSteps
    <3>. QED BY <3>1, OneReceiver
  <2>l. PICK l \in {"idle", "arm"} : pc' = [pc EXCEPT ![t] = l]
    BY <2>a
  <2>1. Single'
    <3>1. pc[t] \in ReceivingSteps
      BY <2>a DEF ReceivingSteps, OnRecvSteps, AsyncRecvSteps
    <3>2. \/ UNCHANGED <<armed, ready>>
          \/ l \notin ReceivingSteps /\ armed' = armed + 1 /\ ready' = ready
      BY <2>a, <2>l DEF ReceivingSteps, OnRecvSteps, AsyncRecvSteps
    <3>. QED BY <2>l, <3>1, <3>2, SingleGoesOn
  <2>2. Current'
    <3>1. \A u \in Threads : pc'[u] \notin {"recv", "advance"}
      BY <2>l, <2>o DEF Typed, Locals, ReceivingSteps, OnRecvSteps
    <3>. QED BY <3>1 DEF Current
  <2>3. InOrder'
    BY <2>a, <2>l, <2>o, ResetStays
  <2>. QED BY <1>a, <2>a, <2>1, <2>2, <2>3 DEF Once
<1>19. ASSUME NEW t \in Threads, Arm(t) PROVE Once'
  <2>a. /\ pc[t] = "arm"
        /\ pc' = [pc EXCEPT ![t] = "idle"]
        /\ UNCHANGED <<buf, cells, slide, given, taken, lost, stray>>
        /\ ready' = ready /\ armed' \in {armed, armed + 1}
    BY <1>19 DEF Arm, Goto, stream, buffer, locals
  <2>o. armed = 0 /\ ready = 0 /\ \A u \in Threads \ {t} : pc[u] \notin ReceivingSteps
    <3>1. pc[t] \in ReceivingSteps
      BY <2>a DEF ReceivingSteps, OnRecvSteps, AsyncRecvSteps
    <3>. QED BY <3>1, OneReceiver
  <2>l. PICK l \in {"idle"} : pc' = [pc EXCEPT ![t] = l]
    BY <2>a
  <2>1. Single'
    <3>1. pc[t] \in ReceivingSteps
      BY <2>a DEF ReceivingSteps, OnRecvSteps, AsyncRecvSteps
    <3>2. \/ UNCHANGED <<armed, ready>>
          \/ l \notin ReceivingSteps /\ armed' = armed + 1 /\ ready' = ready
      BY <2>a, <2>l DEF ReceivingSteps, OnRecvSteps, AsyncRecvSteps
    <3>. QED BY <2>l, <3>1, <3>2, SingleGoesOn
  <2>2. Current'
    <3>1. \A u \in Threads : pc'[u] \notin {"recv", "advance"}
      BY <2>l, <2>o DEF Typed, Locals, ReceivingSteps, OnRecvSteps
    <3>. QED BY <3>1 DEF Current
  <2>3. InOrder'
    <3>1. \A i \in 1 .. slide : cells'[i] = cells[i]
      BY <2>a
    <3>2. pc[t] \notin {"reset", "flush_reset", "advance"} /\ l \notin {"reset",
    "flush_reset", "advance"}
      BY <2>a, <2>l
    <3>. QED BY <2>a, <2>l, <2>o, <3>1, <3>2, FlatStays
  <2>. QED BY <1>a, <2>a, <2>1, <2>2, <2>3 DEF Once
<1>20. CASE UNCHANGED vars
  <2>a. UNCHANGED <<buf, cells, slide, at, got, given, taken, lost, stray, pc, armed, ready>>
    BY <1>20 DEF vars, stream, ops, buffer, locals, history
  <2>1. Single' /\ Current'
    BY <2>a DEF Single, Receiving, Current
  <2>3. InOrder'
    BY <2>a, HeldStays
  <2>. QED BY <1>a, <2>a, <2>1, <2>3 DEF Once
<1>. QED
  BY <1>1, <1>2, <1>3, <1>4, <1>5, <1>6, <1>7, <1>8, <1>9, <1>10, <1>11, <1>12, <1>13, <1>14,
       <1>15, <1>16, <1>17, <1>18, <1>19, <1>20
     DEF Next, Network, AsyncRecv, OnRecv

-----------------------------------------------------------------------------
(* The theorems                                                            *)

LEMMA InvStep == IInv /\ [Next]_vars => IInv'
<1> SUFFICES ASSUME IInv, [Next]_vars PROVE IInv'
  OBVIOUS
<1>1. Typed /\ IsFiniteSet(Receiving)
  BY TypeParts DEF IInv, Typed
<1>2. Typed'
  BY <1>1, TypedNext
<1>3. TypeOK' /\ LocalsOK'
  <2> DEFINE P == TypeOK <=> Arrivals /\ Buffers /\ Locals /\ Past
  <2>1. P
    BY TypeParts
  <2>2. P'
    BY TypeParts, PTL
  <2>. QED BY <1>2, <2>2 DEF Typed
<1>4. IsFiniteSet(Receiving)'
  BY <1>1, ReceivingNext
<1>5. ~ twice' => Once'
  BY <1>1, OnceNext, TwiceStays DEF IInv
<1>. QED BY <1>3, <1>4, <1>5 DEF IInv

LEMMA InvAlways == Spec => []IInv
<1>1. Init => IInv
  BY InitTyped, InitOnce, TypeParts DEF IInv, Typed
<1>. QED BY <1>1, InvStep, PTL DEF Spec

\* The handlers are given what arrives in its order and no unit twice, and what
\* they were not given is in the buffer, for any stream and any page size.  Two
\* exceptions remain, those of the property: what a recv() that did not fill the
\* buffer took is lost (socket_base_win32.cpp:368), and nothing is said once two
\* WSARecv are out at a time.
THEOREM ReceiverInOrder == Spec => []StreamInOrder
<1>1. IInv => StreamInOrder
  BY DEF IInv, Once, InOrder, StreamInOrder, OwnBuffer
<1>. QED BY <1>1, InvAlways, PTL

\* While isrecv is set and nothing failed, a WSARecv is out, or complete, or a
\* thread is going to leave one.
Heard == isrecv /\ ~ failed => armed + ready > 0 \/ Receiving # {}

LEMMA HeardNext == Typed /\ Heard /\ [Next]_vars => Heard'
<1> SUFFICES ASSUME Typed, Heard, [Next]_vars, isrecv', ~ failed'
             PROVE  (armed + ready > 0 \/ Receiving # {})'
  BY DEF Heard
<1>b. armed \in Nat /\ ready \in Nat
  BY DEF Typed, Arrivals
<1> DEFINE Goal == (armed + ready > 0 \/ Receiving # {})'
<1>m. ASSUME NEW t \in Threads, NEW l \in ReceivingSteps, pc' = [pc EXCEPT ![t] = l]
      PROVE  Goal
  BY <1>m DEF Receiving, Typed, Locals
<1>s. ASSUME Receiving' = Receiving, UNCHANGED <<isrecv, failed>>,
armed' + ready' = armed + ready
      PROVE  Goal
  BY <1>s DEF Heard
<1>1. CASE Network
  <2>1. UNCHANGED <<pc, isrecv, failed>>
    BY <1>1 DEF Network, Arrive, PeerEnds, Signal, history
  <2>2. armed' + ready' = armed + ready
    <3>1. CASE Signal
      BY <3>1, <1>b DEF Signal
    <3>2. CASE UNCHANGED ops
      BY <3>2 DEF ops
    <3>. QED BY <1>1, <3>1, <3>2 DEF Network, Arrive, PeerEnds
  <2>. QED BY <2>1, <2>2, <1>s DEF Receiving
<1>2. ASSUME NEW t \in Threads, RecvOff(t) PROVE Goal
  BY <1>2 DEF RecvOff
<1>3. ASSUME NEW t \in Threads, RecvOn(t) PROVE Goal
  <2>1. \A u \in Threads : pc'[u] = pc[u] \/ {pc[u], pc'[u]} \subseteq {"idle", "set"}
    BY <1>3 DEF RecvOn, StartCall, Goto, Typed, Locals
  <2>2. Receiving' = Receiving
    BY <2>1 DEF Receiving, ReceivingSteps, OnRecvSteps, AsyncRecvSteps
  <2>3. UNCHANGED <<isrecv, failed, armed, ready>>
    BY <1>3 DEF RecvOn, ops, history
  <2>. QED BY <2>2, <2>3, <1>s
<1>4. ASSUME NEW t \in Threads,
             \/ SetRecv(t) \/ Flush(t) \/ FlushReset(t)
             \/ ReadSize(t) \/ RecvFails(t) \/ RecvNothing(t) \/ Recv(t) \/ Advance(t)
             \/ Handler(t)
      PROVE  Goal
  <2>1. \E l \in ReceivingSteps : pc' = [pc EXCEPT ![t] = l]
    BY <1>4
      DEF SetRecv, Flush, FlushReset, ReadSize, RecvFails, RecvNothing, Recv, Advance, Handler,
          Goto, ReceivingSteps, OnRecvSteps, AsyncRecvSteps
  <2>. QED BY <2>1, <1>m
<1>5. ASSUME NEW t \in Threads, ArmFirst(t) \/ Arm(t) PROVE Goal
  <2>1. armed' = armed + 1 /\ ready' = ready
    BY <1>5 DEF ArmFirst, Arm
  <2>. QED BY <1>b, <2>1
\* With an error the handler is told, and failed is set.
<1>6. ASSUME NEW t \in Threads, Complete(t) PROVE Goal
  <2>1. pc' = [pc EXCEPT ![t] = "size"]
    BY <1>6 DEF Complete, Goto
  <2>. QED BY <2>1, <1>m DEF ReceivingSteps, OnRecvSteps
\* isrecv was set when it was tested, for it is now.
<1>7. ASSUME NEW t \in Threads, IsRecv(t) PROVE Goal
  <2>1. pc' = [pc EXCEPT ![t] = "handler"]
    BY <1>7 DEF IsRecv, Goto
  <2>. QED BY <2>1, <1>m DEF ReceivingSteps, OnRecvSteps
<1>8. ASSUME NEW t \in Threads, Reset(t) PROVE Goal
  <2>1. ~ failed
    BY <1>8 DEF Reset, history
  <2>2. got[t] # -1
    BY <2>1 DEF Typed, LocalsOK
  <2>3. pc' = [pc EXCEPT ![t] = "arm"]
    BY <1>8, <2>2 DEF Reset, Goto
  <2>. QED BY <2>3, <1>m DEF ReceivingSteps, OnRecvSteps
<1>9. CASE UNCHANGED vars
  BY <1>9, <1>s DEF vars, history, ops, Receiving
<1>10. ASSUME NEW t \in Threads, AsyncRecv(t) \/ OnRecv(t) PROVE Goal
  BY <1>4, <1>5, <1>7, <1>8, <1>10 DEF AsyncRecv, OnRecv
<1>. QED BY <1>1, <1>2, <1>3, <1>6, <1>9, <1>10 DEF Next

\* While the reception is on somebody sees to it that there will be a WSARecv: the
\* test of isrecv by the thread in OnRecv cannot leave the socket deaf
\* (socket_base_win32.cpp:390).
THEOREM ReceiverNeverDeaf == Spec => []NeverDeaf
<1>1. Init => Heard
  BY DEF Init, Heard
<1>2. IInv => Typed /\ IsFiniteSet(Receiving)
  BY TypeParts DEF IInv, Typed
<1>3. IInv /\ Heard /\ [Next]_vars => Heard'
  BY <1>2, HeardNext
<1>4. Typed /\ IsFiniteSet(Receiving) /\ Heard => NeverDeaf
  BY ReceiversPositive DEF Heard, NeverDeaf
<1>5. IInv /\ Heard => NeverDeaf
  BY <1>2, <1>4
<1>. QED BY <1>1, <1>3, <1>5, InvAlways, PTL DEF Spec
=============================================================================
