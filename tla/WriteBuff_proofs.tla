--------------------------- MODULE WriteBuff_proofs ---------------------------
(***************************************************************************)
(* For any number of threads, messages and sizes: one sender at a time,    *)
(* the kernel's pages stay as they are, the messages go out as SendStream  *)
(* promises, and nothing is left behind but through the gap that missed    *)
(* records.                                                                *)
(*                                                                         *)
(* The argument: _mu of the buffer that is written makes the exchange wait *)
(* for a writer and a writer see the exchange, so who copies has           *)
(* write_buff_; and between test_and_set and clear only the holder of the  *)
(* flag, or the kernel, has to do with the other one, which is empty       *)
(* whenever the flag is free.                                              *)
(***************************************************************************)
EXTENDS WriteBuff, FiniteSetTheorems, SequenceTheorems,
        WellFoundedInduction, TLAPS

\* Between lock and unlock
MuSteps == {"write_check", "write_stale", "copy", "new_page", "write_unlock", "test",
            "give_up", "stale", "empty", "clear_unused", "store_write", "put_open",
            "store_send", "send_unlock"}

Locking ==
  /\ \A t \in Threads : pc[t] \in MuSteps => mu[cur[t]] = t
  /\ \A b \in Buffers : mu[b] # None => pc[mu[b]] \in MuSteps /\ cur[mu[b]] = b

\* The flag is with one thread, with the kernel, or lost with the connection.
FlagOnce ==
  /\ \A t, u \in Threads : pc[t] \in FlagSteps /\ pc[u] \in FlagSteps => t = u
  /\ \A t \in Threads : pc[t] \in FlagSteps => flight = <<>> /\ ~ broken
  /\ flight # <<>> => ~ broken
  /\ flag <=> (\E t \in Threads : pc[t] \in FlagSteps) \/ flight # <<>> \/ broken

\* The send buffer is the other one, but between the two stores of the exchange.
Exchanging == {"put_open", "store_send"}

Current ==
  /\ \A t \in Threads :
       /\ pc[t] \in {"copy", "new_page", "write_unlock", "empty", "store_write"}
            => cur[t] = write
       /\ pc[t] \in Exchanging => cur[t] # write /\ send = write
       /\ pc[t] \in {"send_unlock", "wsasend"} => cur[t] = send
  /\ write = send => \E t \in Threads : pc[t] \in Exchanging

\* What the steps of the copying and the exchange leave in the buffers
Contents ==
  /\ \A t \in Threads :
       /\ pc[t] \in WriteSteps \ {"write_unlock"} => msg[t] \in Messages
       /\ pc[t] = "new_page" => slide[cur[t]] = 0
       /\ pc[t] \in {"store_write", "put_open"} => pages[cur[t]] # <<>> \/ slide[cur[t]] > 0
       /\ pc[t] \in {"store_send", "send_unlock", "wsasend"} => pages[cur[t]] # <<>>
  /\ flight # <<>> => pages[send] = flight

\* Nothing is in the send buffer but on its way out.
LeavingSteps == Exchanging \cup {"send_unlock", "wsasend", "clear"}

SendEmpty ==
  (\A t \in Threads : pc[t] \notin LeavingSteps) /\ flight = <<>> /\ ~ broken
    => pages[send] = <<>> /\ slide[send] = 0

IInv == TypeOK /\ Locking /\ FlagOnce /\ Current /\ Contents /\ SendEmpty

\* For NothingLeftBehind: who will yet send what is in the write buffer
Responsible(t) ==
  \/ pc[t] \in WriteSteps \cup Exchanging \cup OnSendSteps
                \cup {"load", "send_unlock", "wsasend"}
  \/ cur[t] = write /\ pc[t] \in {"try_lock", "wait_lock", "test", "stale", "empty", "store_write"}

Unneeded ==
  \A t \in Threads : pc[t] = "clear_unused" /\ cur[t] = write
                       => pages[write] = <<>> /\ slide[write] = 0

Cared ==
  \/ pages[write] = <<>> /\ slide[write] = 0
  \/ missed \/ broken \/ flight # <<>>
  \/ \E t \in Threads : Responsible(t)

\* For ImplementsStream: what is in the buffers and on the wire was copied, and a
\* thread's message was not.
Copied == {m \in 1 .. calls : \A t \in Threads : msg[t] # m}

Fresh ==
  /\ pages \in [Buffers -> Seq(Seq(Copied) \ {<<>>})]
  /\ open \in [Buffers -> Seq(Copied)]
  /\ wire \in Seq(Copied)
  /\ \A t \in Threads : msg[t] # None => msg[t] <= calls
  /\ \A t, u \in Threads : t # u /\ msg[t] # None => msg[t] # msg[u]

-----------------------------------------------------------------------------
\* Induction over the natural numbers, with a set for the property
LEMMA SetInduction ==
  ASSUME NEW S, 0 \in S, \A n \in Nat : n \in S => n + 1 \in S
  PROVE  Nat \subseteq S
<1> SUFFICES ASSUME Nat \ S # {} PROVE FALSE
  OBVIOUS
<1> DEFINE R == {ss \in Nat \X Nat : ss[1] < ss[2]}
<1>1. IsWellFoundedOn(R, Nat)
  BY NatLessThanWellFounded DEF OpToRel
<1>2. PICK m \in Nat \ S : \A y \in Nat \ S : ~ (<<y, m>> \in R)
  <2> HIDE DEF R
  <2>1. Nat \ S \subseteq Nat
    OBVIOUS
  <2>. QED BY <1>1, <2>1, WFMin
<1>3. m # 0 /\ m - 1 \in Nat
  OBVIOUS
<1>4. <<m - 1, m>> \in R
  BY <1>3
<1>5. m - 1 \in S
  BY <1>2, <1>3, <1>4
<1>6. (m - 1) + 1 \in S
  BY <1>3, <1>5
<1>. QED BY <1>3, <1>6

\* What the recursion of FlattenSeq says of its function
Flattens(f, s, n) == f = [i \in 1 .. n |-> IF i = 1 THEN s[i] ELSE f[i - 1] \o s[i]]

\* There is one such function, ...
LEMMA FlattenedOnce ==
  ASSUME NEW s, NEW n \in Nat, NEW f, Flattens(f, s, n), NEW g, Flattens(g, s, n)
  PROVE  f = g
<1> DEFINE P == {k \in Nat : k \in 1 .. n => f[k] = g[k]}
<1>1. \A k \in 1 .. n : /\ f[k] = IF k = 1 THEN s[k] ELSE f[k - 1] \o s[k]
                        /\ g[k] = IF k = 1 THEN s[k] ELSE g[k - 1] \o s[k]
  BY DEF Flattens
<1>2. 0 \in P
  OBVIOUS
<1>3. ASSUME NEW k \in Nat, k \in P PROVE k + 1 \in P
  <2>1. CASE k + 1 \in 1 .. n /\ k # 0
    <3>1. k \in 1 .. n /\ k + 1 # 1 /\ (k + 1) - 1 = k
      BY <2>1
    <3>2. f[k] = g[k]
      BY <1>3, <3>1
    <3>3. f[k + 1] = f[k] \o s[k + 1] /\ g[k + 1] = g[k] \o s[k + 1]
      BY <1>1, <2>1, <3>1
    <3>4. f[k + 1] = g[k + 1]
      BY <3>2, <3>3, Zenon
    <3>. QED BY <3>4
  <2>2. CASE k + 1 \in 1 .. n /\ k = 0
    BY <1>1, <2>2
  <2>. QED BY <2>1, <2>2
<1>4. Nat \subseteq P
  <2>. HIDE DEF P
  <2>. QED BY <1>2, <1>3, SetInduction
<1>5. \A k \in 1 .. n : f[k] = g[k]
  BY <1>4
<1>6. f = [k \in 1 .. n |-> f[k]] /\ g = [k \in 1 .. n |-> g[k]]
  BY DEF Flattens
<1>. QED BY <1>5, <1>6

\* ... it goes on to one element more, ...
LEMMA FlattenedStep ==
  ASSUME NEW s, NEW n \in Nat, NEW f, Flattens(f, s, n), NEW r, NEW x,
         \A i \in 1 .. n : r[i] = s[i], r[n + 1] = x
  PROVE  \E g : Flattens(g, r, n + 1) /\ g[n + 1] = IF n = 0 THEN x ELSE f[n] \o x
<1> DEFINE y == IF n = 0 THEN x ELSE f[n] \o x
           g == [i \in 1 .. n + 1 |-> IF i = n + 1 THEN y ELSE f[i]]
<1>1. \A i \in 1 .. n : f[i] = IF i = 1 THEN s[i] ELSE f[i - 1] \o s[i]
  BY DEF Flattens
<1>2. \A i \in 1 .. n : g[i] = f[i]
  OBVIOUS
<1>3. g[n + 1] = y
  OBVIOUS
<1>4. \A i \in 1 .. n + 1 : g[i] = IF i = 1 THEN r[i] ELSE g[i - 1] \o r[i]
  <2> SUFFICES ASSUME NEW i \in 1 .. n + 1
               PROVE  g[i] = IF i = 1 THEN r[i] ELSE g[i - 1] \o r[i]
    OBVIOUS
  <2>. HIDE DEF g
  <2>1. CASE i = n + 1 /\ n = 0
    BY <1>3, <2>1
  <2>2. CASE i = n + 1 /\ n # 0
    <3>1. n \in 1 .. n /\ i - 1 = n /\ i # 1
      BY <2>2
    <3>. QED BY <1>2, <1>3, <2>2, <3>1
  <2>3. CASE i \in 1 .. n /\ i = 1
    BY <1>1, <1>2, <2>3
  <2>4. CASE i \in 1 .. n /\ i # 1
    <3>1. i - 1 \in 1 .. n
      BY <2>4
    <3>. QED BY <1>1, <1>2, <2>4, <3>1
  <2>. QED BY <2>1, <2>2, <2>3, <2>4
<1>5. g = [i \in 1 .. n + 1 |-> g[i]]
  OBVIOUS
<1>. HIDE DEF g
<1>6. Flattens(g, r, n + 1)
  BY <1>4, <1>5 DEF Flattens
<1>. QED BY <1>3, <1>6

\* ... and so it exists for every sequence.
LEMMA FlattenedExists ==
  ASSUME NEW s, NEW n \in Nat
  PROVE  \E f : Flattens(f, s, n)
<1> DEFINE P == {k \in Nat : \E f : Flattens(f, s, k)}
<1>1. 0 \in P
  <2>1. Flattens([i \in 1 .. 0 |-> i], s, 0)
    BY DEF Flattens
  <2>. QED BY <2>1
<1>2. ASSUME NEW k \in Nat, k \in P PROVE k + 1 \in P
  <2>1. PICK f : Flattens(f, s, k)
    BY <1>2
  <2>2. \E g : Flattens(g, s, k + 1)
    BY <2>1, FlattenedStep
  <2>. QED BY <2>2
<1>3. Nat \subseteq P
  <2>. HIDE DEF P
  <2>. QED BY <1>1, <1>2, SetInduction
<1>. QED BY <1>3

LEMMA FlattenedLast ==
  ASSUME NEW s, Len(s) \in Nat \ {0}, NEW f, Flattens(f, s, Len(s))
  PROVE  FlattenSeq(s) = f[Len(s)]
<1> DEFINE g == CHOOSE g : g = [i \in 1 .. Len(s) |-> IF i = 1 THEN s[i] ELSE g[i - 1] \o s[i]]
<1>1. Flattens(g, s, Len(s))
  BY DEF Flattens
<1>2. f = g
  BY <1>1, FlattenedOnce
<1>. QED BY <1>2 DEF FlattenSeq

\* What FlattenSeq makes of no sequence, and of one sequence more
LEMMA FlattenEmpty == FlattenSeq(<<>>) = <<>>
BY DEF FlattenSeq

LEMMA FlattenAppend ==
  ASSUME NEW S, NEW s \in Seq(Seq(S)), NEW x \in Seq(S)
  PROVE  FlattenSeq(Append(s, x)) = FlattenSeq(s) \o x
<1> DEFINE n == Len(s)
           r == Append(s, x)
<1>1. n \in Nat /\ Len(r) = n + 1 /\ r[n + 1] = x /\ \A i \in 1 .. n : r[i] = s[i]
  BY AppendProperties
<1>2. PICK f : Flattens(f, s, n)
  BY <1>1, FlattenedExists
<1>3. FlattenSeq(r) = IF n = 0 THEN x ELSE f[n] \o x
  <2>. HIDE DEF n, r
  <2>1. PICK g : Flattens(g, r, n + 1) /\ g[n + 1] = IF n = 0 THEN x ELSE f[n] \o x
    BY <1>1, <1>2, FlattenedStep
  <2>2. Len(r) \in Nat \ {0} /\ Flattens(g, r, Len(r))
    BY <1>1, <2>1
  <2>3. FlattenSeq(r) = g[Len(r)]
    BY <2>2, FlattenedLast
  <2>. QED BY <1>1, <2>1, <2>3
<1>4. CASE n = 0
  <2>1. s = <<>>
    BY <1>4
  <2>2. <<>> \o x = x
    OBVIOUS
  <2>. QED BY <1>3, <1>4, <2>1, <2>2, FlattenEmpty
<1>5. CASE n # 0
  BY <1>1, <1>2, <1>3, <1>5, FlattenedLast
<1>. QED BY <1>4, <1>5

LEMMA FlattenType ==
  ASSUME NEW S, NEW s \in Seq(Seq(S))
  PROVE  /\ FlattenSeq(s) \in Seq(S)
         /\ s # <<>> /\ s[Len(s)] # <<>> => FlattenSeq(s) # <<>>
<1> DEFINE n == Len(s)
<1>1. n \in Nat /\ \A i \in 1 .. n : s[i] \in Seq(S)
  OBVIOUS
<1>2. PICK f : Flattens(f, s, n)
  BY <1>1, FlattenedExists
<1>3. \A i \in 1 .. n : f[i] = IF i = 1 THEN s[i] ELSE f[i - 1] \o s[i]
  BY <1>2 DEF Flattens
<1>4. \A k \in Nat : k \in 1 .. n => f[k] \in Seq(S)
  <2>. DEFINE P == {k \in Nat : k \in 1 .. n => f[k] \in Seq(S)}
  <2>1. 0 \in P
    OBVIOUS
  <2>2. ASSUME NEW k \in Nat, k \in P PROVE k + 1 \in P
    <3>. SUFFICES ASSUME k + 1 \in 1 .. n PROVE f[k + 1] \in Seq(S)
      OBVIOUS
    <3>. HIDE DEF n
    <3>1. CASE k = 0
      BY <1>1, <1>3, <3>1
    <3>2. CASE k # 0
      <4>1. k + 1 # 1 /\ (k + 1) - 1 = k /\ k \in 1 .. n
        BY <1>1, <3>2
      <4>2. f[k + 1] = f[k] \o s[k + 1]
        BY <1>3, <4>1
      <4>3. f[k] \in Seq(S) /\ s[k + 1] \in Seq(S)
        BY <1>1, <2>2, <4>1
      <4>. QED BY <4>2, <4>3
    <3>. QED BY <3>1, <3>2
  <2>3. Nat \subseteq P
    <3>. HIDE DEF P
    <3>. QED BY <2>1, <2>2, SetInduction
  <2>. QED BY <2>3
<1>5. CASE n = 0
  <2>1. s = <<>>
    BY <1>5
  <2>2. <<>> \in Seq(S)
    OBVIOUS
  <2>. QED BY <2>1, <2>2, FlattenEmpty
<1>6. CASE n # 0
  <2>1. FlattenSeq(s) = f[n]
    BY <1>1, <1>2, <1>6, FlattenedLast
  <2>2. f[n] \in Seq(S)
    BY <1>1, <1>4, <1>6
  <2>3. s[n] # <<>> => f[n] # <<>>
    <3>1. CASE n = 1
      BY <1>3, <3>1
    <3>2. CASE n # 1
      <4>. HIDE DEF n
      <4>1. n - 1 \in 1 .. n /\ n \in 1 .. n
        BY <1>1, <1>6, <3>2
      <4>2. f[n] = f[n - 1] \o s[n]
        BY <1>3, <3>2, <4>1
      <4>3. f[n - 1] \in Seq(S) /\ s[n] \in Seq(S)
        BY <1>1, <1>4, <4>1
      <4>. QED BY <4>2, <4>3
    <3>. QED BY <3>1, <3>2
  <2>. QED BY <2>1, <2>2, <2>3
<1>. QED BY <1>5, <1>6

\* A WSASend takes the front of what is unsent.
LEMMA SubSeqOfConcat ==
  ASSUME NEW S, NEW s \in Seq(S), NEW u \in Seq(S)
  PROVE  /\ SubSeq(s \o u, 1, Len(s)) = s
         /\ SubSeq(s \o u, Len(s) + 1, Len(s \o u)) = u
<1> DEFINE v == s \o u
<1>1. /\ v \in Seq(S) /\ Len(v) = Len(s) + Len(u)
      /\ \A i \in 1 .. Len(s) : v[i] = s[i]
      /\ \A i \in 1 .. Len(u) : v[Len(s) + i] = u[i]
  OBVIOUS
<1>. HIDE DEF v
<1>2. SubSeq(v, 1, Len(s)) = s
  <2>1. Len(s) \in Nat /\ \A i \in 1 .. Len(s) : v[i] \in S
    BY <1>1
  <2>2. /\ SubSeq(v, 1, Len(s)) \in Seq(S) /\ Len(SubSeq(v, 1, Len(s))) = Len(s)
        /\ \A i \in 1 .. Len(s) : SubSeq(v, 1, Len(s))[i] = s[i]
    BY <1>1, <2>1
  <2>. QED BY <2>2
<1>3. SubSeq(v, Len(s) + 1, Len(v)) = u
  <2>1. Len(s) \in Nat /\ Len(u) \in Nat
    OBVIOUS
  <2>2. /\ SubSeq(v, Len(s) + 1, Len(v)) \in Seq(S)
        /\ Len(SubSeq(v, Len(s) + 1, Len(v))) = Len(u)
        /\ \A i \in 1 .. Len(u) : SubSeq(v, Len(s) + 1, Len(v))[i] = u[i]
    BY <1>1, <2>1
  <2>3. SubSeq(v, Len(s) + 1, Len(v)) \in Seq(S)
    BY <2>2
  <2>. QED BY <2>2, <2>3, SeqEqual
<1>. QED BY <1>2, <1>3 DEF v

\* A page that is made for one message is large enough for it.
LEMMA RoundedUp ==
  ASSUME NEW n \in Nat, NEW u \in Nat \ {0}
  PROVE  ((n + u - 1) \div u) * u \in Nat /\ n <= ((n + u - 1) \div u) * u
<1> DEFINE a == n + u - 1
           q == a \div u
           r == a % u
           p == u * q
<1>1. a \in Nat
  OBVIOUS
<1>2. q \in Nat /\ r \in 0 .. u - 1
  <2>. HIDE DEF a
  <2>1. q \in Nat
    BY <1>1
  <2>2. r \in 0 .. u - 1
    BY <1>1
  <2>. QED BY <2>1, <2>2
<1>3. a = p + r
  <2>. HIDE DEF a
  <2>. QED BY <1>1
<1>. HIDE DEF q, r
<1>4. p = q * u /\ q * u \in Nat
  BY <1>2
<1>5. n <= p
  <2>1. p \in Nat
    BY <1>4
  <2>. HIDE DEF p
  <2>. QED BY <1>2, <1>3, <2>1
<1>. QED
  BY <1>4, <1>5 DEF q

LEMMA Constants ==
  /\ Size \in [Messages -> Nat \ {0}]
  /\ PageSize \in Nat /\ Unit \in Nat \ {0}
  /\ None \notin Threads /\ None \notin Messages
BY SizesAssumption, NoneAssumption DEF Messages

LEMMA Appended ==
  ASSUME NEW S, NEW s \in Seq(S), NEW x \in S
  PROVE  Append(s, x) \in Seq(S) /\ Append(s, x) # <<>>
BY AppendProperties

\* Of TypeOK, what most steps need: the functions of the threads and of the locks
LEMMA LocalTypes ==
  IInv => /\ pc \in [Threads -> {"idle"} \cup WriteSteps \cup SendSteps \cup OnSendSteps]
          /\ cur \in [Threads -> Buffers] /\ mu \in [Buffers -> Threads \cup {None}]
          /\ write \in Buffers /\ send \in Buffers
BY DEF IInv, TypeOK

LEMMA WriteStep == ASSUME IInv, NEW t \in Threads, Write(t) PROVE IInv'
<1> USE Constants
    DEF WriteSteps, SendSteps, OnSendSteps, FlagSteps, LeavingSteps,
        Exchanging, MuSteps, Buffers, Goto, Unlocked, buffers, net, locals
<1>1. CASE WriteLoad(t)
  <2>. /\ pc[t] = "write_load"
       /\ pc' = [pc EXCEPT ![t] = "write_lock"] /\ cur' = [cur EXCEPT ![t] = write]
       /\ UNCHANGED <<write, send, mu, pages, open, slide, room, flag, flight, wire, broken, msg, handler, calls, missed>>
    BY <1>1 DEF WriteLoad
  <2>1. TypeOK'
    BY DEF IInv, TypeOK
  <2>2. Locking'
    BY LocalTypes DEF IInv, Locking
  <2>3. FlagOnce'
    BY LocalTypes DEF IInv, FlagOnce
  <2>4. Current'
    BY LocalTypes DEF IInv, Current
  <2>5. Contents'
    BY DEF IInv, TypeOK, Contents
  <2>6. SendEmpty'
    BY DEF IInv, TypeOK, SendEmpty
  <2>. QED BY <2>1, <2>2, <2>3, <2>4, <2>5, <2>6 DEF IInv
<1>2. CASE WriteLock(t)
  <2>. /\ pc[t] = "write_lock"
       /\ UNCHANGED <<write, send, pages, open, slide, room, flag, flight, wire, broken, cur, msg, handler, calls, missed>>
    BY <1>2 DEF WriteLock
  <2>1. CASE mu[cur[t]] = None
    <3>. mu' = [mu EXCEPT ![cur[t]] = t] /\ pc' = [pc EXCEPT ![t] = "write_check"]
      BY <1>2, <2>1 DEF WriteLock
    <3>1. TypeOK'
      BY DEF IInv, TypeOK
    <3>2. Locking'
      BY <2>1 DEF IInv, TypeOK, Locking
    <3>3. FlagOnce'
      BY LocalTypes DEF IInv, FlagOnce
    <3>4. Current' /\ Contents' /\ SendEmpty'
      BY DEF IInv, TypeOK, Current, Contents, SendEmpty
    <3>. QED BY <3>1, <3>2, <3>3, <3>4 DEF IInv
  <2>2. CASE mu[cur[t]] # None
    <3>. mu' = mu /\ pc' = [pc EXCEPT ![t] = "write_load"]
      BY <1>2, <2>2 DEF WriteLock
    <3>1. TypeOK' /\ Locking'
      BY DEF IInv, TypeOK, Locking
    <3>2. FlagOnce'
      BY LocalTypes DEF IInv, FlagOnce
    <3>3. Current' /\ Contents' /\ SendEmpty'
      BY DEF IInv, TypeOK, Current, Contents, SendEmpty
    <3>. QED BY <3>1, <3>2, <3>3 DEF IInv
  <2>. QED BY <2>1, <2>2
<1>3. CASE WriteCheck(t)
  <2>. /\ pc[t] = "write_check"
       /\ pc' = [pc EXCEPT ![t] = IF cur[t] = write THEN "copy" ELSE "write_stale"]
       /\ UNCHANGED <<write, send, mu, pages, open, slide, room, flag, flight, wire, broken, cur, msg, handler, calls, missed>>
    BY <1>3 DEF WriteCheck
  <2>1. TypeOK'
    BY DEF IInv, TypeOK
  <2>2. Locking'
    BY LocalTypes DEF IInv, Locking
  <2>3. FlagOnce'
    BY LocalTypes DEF IInv, FlagOnce
  <2>4. Current'
    BY LocalTypes DEF IInv, Current
  <2>5. Contents'
    BY DEF IInv, TypeOK, Contents
  <2>6. SendEmpty'
    BY DEF IInv, TypeOK, SendEmpty
  <2>. QED BY <2>1, <2>2, <2>3, <2>4, <2>5, <2>6 DEF IInv
<1>4. CASE WriteStale(t)
  <2>. /\ pc[t] = "write_stale"
       /\ pc' = [pc EXCEPT ![t] = "write_load"]
       /\ mu' = [mu EXCEPT ![cur[t]] = None]
       /\ cur' = [cur EXCEPT ![t] = 0]
       /\ UNCHANGED <<write, send, pages, open, slide, room, flag, flight, wire, broken, msg, handler, calls, missed>>
    BY <1>4 DEF WriteStale
  <2>1. TypeOK'
    BY DEF IInv, TypeOK
  <2>2. Locking'
    BY LocalTypes DEF IInv, Locking
  <2>3. FlagOnce'
    BY LocalTypes DEF IInv, FlagOnce
  <2>4. Current'
    BY LocalTypes DEF IInv, Current
  <2>5. Contents'
    BY DEF IInv, TypeOK, Contents
  <2>6. SendEmpty'
    BY DEF IInv, TypeOK, SendEmpty
  <2>. QED BY <2>1, <2>2, <2>3, <2>4, <2>5, <2>6 DEF IInv
<1>5. CASE CopyFits(t)
  <2>. DEFINE b == cur[t]
              m == msg[t]
  <2>. /\ pc[t] = "copy" /\ slide[b] + Size[m] <= room[b]
       /\ pc' = [pc EXCEPT ![t] = "write_unlock"]
       /\ open' = [open EXCEPT ![b] = Append(@, m)]
       /\ slide' = [slide EXCEPT ![b] = @ + Size[m]]
       /\ msg' = [msg EXCEPT ![t] = None]
       /\ UNCHANGED <<write, send, mu, pages, room, flag, flight, wire, broken, cur, handler, calls, missed>>
    BY <1>5 DEF CopyFits, Fits
  <2>1. b \in Buffers /\ b = write /\ m \in Messages /\ Size[m] \in Nat \ {0}
    BY DEF IInv, TypeOK, Current, Contents
  <2>2. Append(open[b], m) \in Seq(Messages) \ {<<>>}
    <3>1. open[b] \in Seq(Messages)
      BY <2>1 DEF IInv, TypeOK
    <3>. QED BY <2>1, <3>1, Appended
  <2>3. slide[b] + Size[m] \in Nat \ {0}
    <3>1. slide[b] \in Nat
      BY <2>1 DEF IInv, TypeOK
    <3>. QED BY <2>1, <3>1
  <2>4. open'[b] # <<>> /\ slide'[b] > 0 /\ slide'[b] <= room[b]
    <3>1. slide'[b] = slide[b] + Size[m] /\ open'[b] = Append(open[b], m)
      BY <2>1 DEF IInv, TypeOK
    <3>. QED BY <2>2, <2>3, <3>1
  <2>5. TypeOK'
    <3>1. open' \in [Buffers -> Seq(Messages)] /\ slide' \in [Buffers -> Nat]
      BY <2>1, <2>2, <2>3 DEF IInv, TypeOK
    <3>2. \A x \in Buffers : slide'[x] <= room[x] /\ (slide'[x] > 0 <=> open'[x] # <<>>)
      BY <2>1, <2>4 DEF IInv, TypeOK
    <3>. QED BY <3>1, <3>2 DEF IInv, TypeOK
  <2>6. Locking'
    BY LocalTypes DEF IInv, Locking
  <2>7. FlagOnce'
    BY LocalTypes DEF IInv, FlagOnce
  <2>8. Current'
    BY LocalTypes DEF IInv, Current
  <2>9. Contents'
    <3>1. \A u \in Threads : pc'[u] \in WriteSteps \ {"write_unlock"} => msg'[u] \in Messages
      BY DEF IInv, TypeOK, Contents
    <3>2. \A u \in Threads : pc'[u] = "new_page" => slide'[cur[u]] = 0
      <4>1. \A u \in Threads : pc'[u] = "new_page" => u # t /\ pc[u] = "new_page" /\ cur[u] # b
        BY DEF IInv, TypeOK, Locking
      <4>. QED BY <4>1 DEF IInv, TypeOK, Contents
    <3>3. \A u \in Threads : pc'[u] \in {"store_write", "put_open"}
                              => pages[cur[u]] # <<>> \/ slide'[cur[u]] > 0
      BY <2>4 DEF IInv, TypeOK, Contents
    <3>4. \A u \in Threads : pc'[u] \in {"store_send", "send_unlock", "wsasend"}
                              => pages[cur[u]] # <<>>
      BY DEF IInv, TypeOK, Contents
    <3>. QED BY <3>1, <3>2, <3>3, <3>4 DEF IInv, Contents
  <2>10. SendEmpty'
    BY <2>1 DEF IInv, TypeOK, SendEmpty, Current
  <2>. QED BY <2>5, <2>6, <2>7, <2>8, <2>9, <2>10 DEF IInv
<1>6. CASE CopyPutBuff(t)
  <2>. DEFINE b == cur[t]
  <2>. /\ pc[t] = "copy"
       /\ pc' = [pc EXCEPT ![t] = "new_page"]
       /\ pages' = IF slide[b] > 0 THEN [pages EXCEPT ![b] = Append(@, open[b])] ELSE pages
       /\ open' = [open EXCEPT ![b] = <<>>]
       /\ slide' = [slide EXCEPT ![b] = 0]
       /\ UNCHANGED <<write, send, mu, room, flag, flight, wire, broken, cur, msg, handler, calls, missed>>
    BY <1>6 DEF CopyPutBuff, PutBuff
  <2>1. b \in Buffers /\ b = write /\ mu[b] = t
    BY DEF IInv, TypeOK, Current, Locking
  <2>2. pages'[b] \in Seq(Seq(Messages) \ {<<>>}) /\ (pages'[b] = pages[b] \/ pages'[b] # <<>>)
    <3>1. slide[b] > 0 => open[b] \in Seq(Messages) \ {<<>>}
      BY <2>1 DEF IInv, TypeOK
    <3>2. pages[b] \in Seq(Seq(Messages) \ {<<>>})
      BY <2>1 DEF IInv, TypeOK
    <3>. QED BY <2>1, <3>1, <3>2, Appended
  <2>3. pages' = [pages EXCEPT ![b] = pages'[b]]
    BY <2>1 DEF IInv, TypeOK
  <2>4. TypeOK'
    <3>1. pages' \in [Buffers -> Seq(Seq(Messages) \ {<<>>})]
      BY <2>1, <2>2, <2>3 DEF IInv, TypeOK
    <3>2. open' \in [Buffers -> Seq(Messages)] /\ slide' \in [Buffers -> Nat]
      <4>1. <<>> \in Seq(Messages)
        OBVIOUS
      <4>2. open' \in [Buffers -> Seq(Messages)]
        BY <2>1, <4>1 DEF IInv, TypeOK
      <4>3. slide' \in [Buffers -> Nat]
        BY <2>1 DEF IInv, TypeOK
      <4>. QED BY <4>2, <4>3
    <3>3. slide'[b] = 0 /\ open'[b] = <<>> /\ 0 <= room[b]
      <4>1. room[b] \in Nat /\ slide'[b] = 0 /\ open'[b] = <<>>
        BY <2>1 DEF IInv, TypeOK
      <4>. QED BY <4>1
    <3>4. \A x \in Buffers : slide'[x] <= room[x] /\ (slide'[x] > 0 <=> open'[x] # <<>>)
      BY <2>1, <3>3 DEF IInv, TypeOK
    <3>. QED BY <3>1, <3>2, <3>4 DEF IInv, TypeOK
  <2>5. Locking'
    BY LocalTypes DEF IInv, Locking
  <2>6. FlagOnce'
    BY LocalTypes DEF IInv, FlagOnce
  <2>7. Current'
    BY LocalTypes DEF IInv, Current
  <2>8. \A u \in Threads : u # t /\ pc[u] \in {"store_write", "put_open", "store_send", "send_unlock"}
          => cur[u] # b
    BY <2>1 DEF IInv, TypeOK, Locking
  <2>9. send = b => \E u \in Threads : pc[u] \in Exchanging
    BY <2>1 DEF IInv, TypeOK, Current
  <2>10. \/ pages'[send] = pages[send] /\ slide'[send] = slide[send]
         \/ \E u \in Threads : u # t /\ pc[u] \in Exchanging
    BY <2>1, <2>3, <2>9
  <2>11. Contents'
    <3>1. \A u \in Threads : pc'[u] \in WriteSteps \ {"write_unlock"} => msg[u] \in Messages
      BY DEF IInv, TypeOK, Contents
    <3>2. \A u \in Threads : pc'[u] = "new_page" => slide'[cur[u]] = 0
      BY <2>1 DEF IInv, TypeOK, Contents
    <3>3. \A u \in Threads : pc'[u] \in {"store_write", "put_open", "store_send", "send_unlock",
                                        "wsasend"} => u # t /\ pc[u] = pc'[u]
      BY DEF IInv, TypeOK
    <3>4. \A u \in Threads : pc'[u] \in {"store_write", "put_open"}
                              => pages'[cur[u]] # <<>> \/ slide'[cur[u]] > 0
      BY <2>3, <2>8, <3>3 DEF IInv, TypeOK, Contents
    <3>5. \A u \in Threads : pc'[u] \in {"store_send", "send_unlock", "wsasend"}
                              => pages'[cur[u]] # <<>>
      <4>1. \A x \in Buffers : pages[x] # <<>> => pages'[x] # <<>>
        BY <2>2, <2>3 DEF IInv, TypeOK
      <4>. QED BY <3>3, <4>1 DEF IInv, TypeOK, Contents
    <3>6. flight # <<>> => pages'[send] = flight
      BY <2>10 DEF IInv, TypeOK, Contents, FlagOnce
    <3>. QED BY <3>1, <3>2, <3>4, <3>5, <3>6 DEF IInv, Contents
  <2>12. SendEmpty'
    BY <2>10 DEF IInv, TypeOK, SendEmpty
  <2>. QED BY <2>4, <2>5, <2>6, <2>7, <2>11, <2>12 DEF IInv
<1>7. CASE NewPage(t)
  <2>. DEFINE b == cur[t]
              m == msg[t]
              n == IF Size[m] > PageSize THEN ((Size[m] + Unit - 1) \div Unit) * Unit ELSE PageSize
  <2>. /\ pc[t] = "new_page"
       /\ pc' = [pc EXCEPT ![t] = "write_unlock"]
       /\ room' = [room EXCEPT ![b] = n]
       /\ open' = [open EXCEPT ![b] = <<m>>]
       /\ slide' = [slide EXCEPT ![b] = @ + Size[m]]
       /\ msg' = [msg EXCEPT ![t] = None]
       /\ UNCHANGED <<write, send, mu, pages, flag, flight, wire, broken, cur, handler, calls, missed>>
    BY <1>7 DEF NewPage
  <2>1. b \in Buffers /\ b = write /\ m \in Messages /\ Size[m] \in Nat \ {0} /\ slide[b] = 0
    BY DEF IInv, TypeOK, Current, Contents
  <2>2. n \in Nat /\ Size[m] <= n
    <3>. HIDE DEF m
    <3>1. ((Size[m] + Unit - 1) \div Unit) * Unit \in Nat
            /\ Size[m] <= ((Size[m] + Unit - 1) \div Unit) * Unit
      BY <2>1, RoundedUp
    <3>. QED BY <2>1, <3>1
  <2>3. <<m>> \in Seq(Messages) \ {<<>>}
    BY <2>1
  <2>. HIDE DEF n
  <2>4. open'[b] # <<>> /\ slide'[b] > 0 /\ slide'[b] <= room'[b]
    <3>1. slide'[b] = 0 + Size[m] /\ open'[b] = <<m>> /\ room'[b] = n
      BY <2>1 DEF IInv, TypeOK
    <3>2. <<m>> # <<>>
      OBVIOUS
    <3>3. Size[m] > 0
      BY <2>1
    <3>4. slide'[b] = Size[m]
      BY <2>1, <3>1
    <3>. QED BY <2>2, <3>1, <3>2, <3>3, <3>4
  <2>5. TypeOK'
    <3>1. /\ open' \in [Buffers -> Seq(Messages)]
          /\ slide' \in [Buffers -> Nat] /\ room' \in [Buffers -> Nat]
      <4>1. slide[b] + Size[m] \in Nat
        BY <2>1
      <4>. QED BY <2>1, <2>2, <2>3, <4>1 DEF IInv, TypeOK
    <3>2. \A x \in Buffers : slide'[x] <= room'[x] /\ (slide'[x] > 0 <=> open'[x] # <<>>)
      BY <2>1, <2>4 DEF IInv, TypeOK
    <3>. QED BY <3>1, <3>2 DEF IInv, TypeOK
  <2>6. Locking'
    BY LocalTypes DEF IInv, Locking
  <2>7. FlagOnce'
    BY LocalTypes DEF IInv, FlagOnce
  <2>8. Current'
    BY LocalTypes DEF IInv, Current
  <2>9. Contents'
    <3>1. \A u \in Threads : pc'[u] \in WriteSteps \ {"write_unlock"} => msg'[u] \in Messages
      BY DEF IInv, TypeOK, Contents
    <3>2. \A u \in Threads : pc'[u] = "new_page" => slide'[cur[u]] = 0
      <4>1. \A u \in Threads : pc'[u] = "new_page" => u # t /\ pc[u] = "new_page" /\ cur[u] # b
        BY DEF IInv, TypeOK, Locking
      <4>. QED BY <4>1 DEF IInv, TypeOK, Contents
    <3>3. \A u \in Threads : pc'[u] \in {"store_write", "put_open"}
                              => pages[cur[u]] # <<>> \/ slide'[cur[u]] > 0
      BY <2>4 DEF IInv, TypeOK, Contents
    <3>4. \A u \in Threads : pc'[u] \in {"store_send", "send_unlock", "wsasend"}
                              => pages[cur[u]] # <<>>
      BY DEF IInv, TypeOK, Contents
    <3>. QED BY <3>1, <3>2, <3>3, <3>4 DEF IInv, Contents
  <2>10. SendEmpty'
    BY <2>1 DEF IInv, TypeOK, SendEmpty, Current
  <2>. QED BY <2>5, <2>6, <2>7, <2>8, <2>9, <2>10 DEF IInv
<1>8. CASE WriteUnlock(t)
  <2>. /\ pc[t] = "write_unlock"
       /\ pc' = [pc EXCEPT ![t] = "load"]
       /\ mu' = [mu EXCEPT ![cur[t]] = None]
       /\ cur' = [cur EXCEPT ![t] = 0]
       /\ UNCHANGED <<write, send, pages, open, slide, room, flag, flight, wire, broken, msg, handler, calls, missed>>
    BY <1>8 DEF WriteUnlock
  <2>1. TypeOK'
    BY DEF IInv, TypeOK
  <2>2. Locking'
    BY LocalTypes DEF IInv, Locking
  <2>3. FlagOnce'
    BY LocalTypes DEF IInv, FlagOnce
  <2>4. Current'
    BY LocalTypes DEF IInv, Current
  <2>5. Contents'
    BY DEF IInv, TypeOK, Contents
  <2>6. SendEmpty'
    BY DEF IInv, TypeOK, SendEmpty
  <2>. QED BY <2>1, <2>2, <2>3, <2>4, <2>5, <2>6 DEF IInv
<1>. QED BY <1>1, <1>2, <1>3, <1>4, <1>5, <1>6, <1>7, <1>8 DEF Write

\* Steps that only look, outside of the lock and the flag
LEMMA QuietStep ==
  ASSUME IInv, NEW t \in Threads,
         NEW l \in {"load", "try_lock", "busy", "busy_full", "wait_lock", "idle"},
         pc[t] \in {"load", "try_lock", "busy", "busy_full", "handler"},
         pc' = [pc EXCEPT ![t] = l],
         cur' \in [Threads -> Buffers], \A u \in Threads \ {t} : cur'[u] = cur[u],
         handler' \in [Threads -> BOOLEAN], missed' \in BOOLEAN,
         UNCHANGED <<buffers, flag, net, msg, calls>>
  PROVE  IInv'
<1> USE DEF WriteSteps, SendSteps, OnSendSteps, FlagSteps, LeavingSteps, Exchanging,
            MuSteps, buffers, net
<1>1. TypeOK'
  BY DEF IInv, TypeOK
<1>2. Locking'
  <2>1. \A b \in Buffers : mu[b] # t
    BY Constants DEF IInv, Locking
  <2>2. \A u \in Threads : pc'[u] \in MuSteps => u # t
    BY DEF IInv, TypeOK
  <2>3. \A u \in Threads \ {t} : pc'[u] = pc[u] /\ cur'[u] = cur[u]
    BY DEF IInv, TypeOK
  <2>4. \A b \in Buffers : mu[b] # None => mu[b] \in Threads \ {t}
    BY <2>1 DEF IInv, TypeOK
  <2>. QED BY <2>2, <2>3, <2>4 DEF IInv, Locking
<1>3. FlagOnce'
  BY LocalTypes DEF IInv, FlagOnce
<1>4. Current'
  BY LocalTypes DEF IInv, Current
<1>5. Contents'
  BY DEF IInv, TypeOK, Contents
<1>6. SendEmpty'
  BY DEF IInv, TypeOK, SendEmpty
<1>. QED BY <1>1, <1>2, <1>3, <1>4, <1>5, <1>6 DEF IInv

LEMMA SendBuffStep == ASSUME IInv, NEW t \in Threads, SendBuff(t) PROVE IInv'
<1> USE Constants
    DEF WriteSteps, SendSteps, OnSendSteps, FlagSteps, LeavingSteps,
        Exchanging, MuSteps, Buffers, Goto, Unlocked, Return, buffers, net, locals
<1>1. CASE Load(t)
  BY <1>1, QuietStep DEF Load, IInv, TypeOK
<1>2. CASE TryFails(t)
  BY <1>2, QuietStep DEF TryFails, IInv, TypeOK
<1>3. CASE Busy(t)
  <2>1. PICK l \in {"busy_full", "load", "idle"} : pc' = [pc EXCEPT ![t] = l]
    BY <1>3 DEF Busy
  <2>2. /\ cur' \in [Threads -> Buffers] /\ \A u \in Threads \ {t} : cur'[u] = cur[u]
        /\ handler' \in [Threads -> BOOLEAN] /\ missed' \in BOOLEAN
    BY <1>3 DEF Busy, IInv, TypeOK
  <2>3. UNCHANGED <<buffers, flag, net, msg, calls>> /\ pc[t] = "busy"
    BY <1>3 DEF Busy
  <2>4. /\ pc[t] \in {"load", "try_lock", "busy", "busy_full", "handler"}
        /\ l \in {"load", "try_lock", "busy", "busy_full", "wait_lock", "idle"}
    BY <2>1, <2>3
  <2>. HIDE DEF buffers, net
  <2>. QED BY <2>1, <2>2, <2>3, <2>4, QuietStep
<1>4. CASE BusyFull(t)
  <2>1. PICK l \in {"wait_lock", "load", "idle"} : pc' = [pc EXCEPT ![t] = l]
    BY <1>4 DEF BusyFull
  <2>2. /\ cur' \in [Threads -> Buffers] /\ \A u \in Threads \ {t} : cur'[u] = cur[u]
        /\ handler' \in [Threads -> BOOLEAN] /\ missed' \in BOOLEAN
    BY <1>4 DEF BusyFull, IInv, TypeOK
  <2>3. UNCHANGED <<buffers, flag, net, msg, calls>> /\ pc[t] = "busy_full"
    BY <1>4 DEF BusyFull
  <2>4. /\ pc[t] \in {"load", "try_lock", "busy", "busy_full", "handler"}
        /\ l \in {"load", "try_lock", "busy", "busy_full", "wait_lock", "idle"}
    BY <2>1, <2>3
  <2>. HIDE DEF buffers, net
  <2>. QED BY <2>1, <2>2, <2>3, <2>4, QuietStep
<1>5. CASE TryLock(t) \/ WaitLock(t)
  <2>. /\ pc[t] \in {"try_lock", "wait_lock"} /\ mu[cur[t]] = None
       /\ pc' = [pc EXCEPT ![t] = "test"]
       /\ mu' = [mu EXCEPT ![cur[t]] = t]
       /\ UNCHANGED <<write, send, pages, open, slide, room, flag, flight, wire, broken, cur, msg, handler, calls, missed>>
    BY <1>5 DEF TryLock, WaitLock
  <2>1. TypeOK'
    BY DEF IInv, TypeOK
  <2>2. Locking'
    BY LocalTypes DEF IInv, Locking
  <2>3. FlagOnce'
    BY LocalTypes DEF IInv, FlagOnce
  <2>4. Current'
    BY LocalTypes DEF IInv, Current
  <2>5. Contents'
    BY DEF IInv, TypeOK, Contents
  <2>6. SendEmpty'
    BY DEF IInv, TypeOK, SendEmpty
  <2>. QED BY <2>1, <2>2, <2>3, <2>4, <2>5, <2>6 DEF IInv
<1>6. CASE TestAndSet(t)
  <2>. /\ pc[t] = "test"
       /\ flag' = TRUE
       /\ pc' = [pc EXCEPT ![t] = IF flag THEN "give_up" ELSE "stale"]
       /\ missed' \in BOOLEAN
       /\ UNCHANGED <<write, send, mu, pages, open, slide, room, flight, wire, broken, cur, msg, handler, calls>>
    BY <1>6 DEF TestAndSet, IInv, TypeOK
  <2>1. TypeOK'
    BY DEF IInv, TypeOK
  <2>2. Locking'
    BY LocalTypes DEF IInv, Locking
  <2>3. FlagOnce'
    BY LocalTypes DEF IInv, FlagOnce
  <2>4. Current'
    BY LocalTypes DEF IInv, Current
  <2>5. Contents'
    BY DEF IInv, TypeOK, Contents
  <2>6. SendEmpty'
    BY DEF IInv, TypeOK, SendEmpty
  <2>. QED BY <2>1, <2>2, <2>3, <2>4, <2>5, <2>6 DEF IInv
<1>7. CASE GiveUp(t)
  <2>. /\ pc[t] = "give_up"
       /\ mu' = [mu EXCEPT ![cur[t]] = None]
       /\ pc' = [pc EXCEPT ![t] = IF handler[t] THEN "load" ELSE "idle"]
       /\ handler' = [handler EXCEPT ![t] = FALSE]
       /\ cur' = [cur EXCEPT ![t] = 0]
       /\ UNCHANGED <<write, send, pages, open, slide, room, flag, flight, wire, broken, msg, calls, missed>>
    BY <1>7 DEF GiveUp
  <2>1. TypeOK'
    BY DEF IInv, TypeOK
  <2>2. Locking'
    BY LocalTypes DEF IInv, Locking
  <2>3. FlagOnce'
    BY LocalTypes DEF IInv, FlagOnce
  <2>4. Current'
    BY LocalTypes DEF IInv, Current
  <2>5. Contents'
    BY DEF IInv, TypeOK, Contents
  <2>6. SendEmpty'
    BY DEF IInv, TypeOK, SendEmpty
  <2>. QED BY <2>1, <2>2, <2>3, <2>4, <2>5, <2>6 DEF IInv
<1>8. CASE Stale(t)
  <2>. /\ pc[t] = "stale"
       /\ pc' = [pc EXCEPT ![t] = IF cur[t] # write THEN "clear_unused" ELSE "empty"]
       /\ UNCHANGED <<write, send, mu, pages, open, slide, room, flag, flight, wire, broken, cur, msg, handler, calls, missed>>
    BY <1>8 DEF Stale
  <2>1. TypeOK'
    BY DEF IInv, TypeOK
  <2>2. Locking'
    BY LocalTypes DEF IInv, Locking
  <2>3. FlagOnce'
    BY LocalTypes DEF IInv, FlagOnce
  <2>4. Current'
    BY LocalTypes DEF IInv, Current
  <2>5. Contents'
    BY DEF IInv, TypeOK, Contents
  <2>6. SendEmpty'
    BY DEF IInv, TypeOK, SendEmpty
  <2>. QED BY <2>1, <2>2, <2>3, <2>4, <2>5, <2>6 DEF IInv
<1>9. CASE Empty(t)
  <2>. /\ pc[t] = "empty"
       /\ pc' = [pc EXCEPT ![t] = IF pages[cur[t]] = <<>> /\ slide[cur[t]] = 0
                                THEN "clear_unused" ELSE "store_write"]
       /\ UNCHANGED <<write, send, mu, pages, open, slide, room, flag, flight, wire, broken, cur, msg, handler, calls, missed>>
    BY <1>9 DEF Empty
  <2>1. TypeOK'
    BY DEF IInv, TypeOK
  <2>2. Locking'
    BY LocalTypes DEF IInv, Locking
  <2>3. FlagOnce'
    BY LocalTypes DEF IInv, FlagOnce
  <2>4. Current'
    BY LocalTypes DEF IInv, Current
  <2>5. Contents'
    <3>1. slide[cur[t]] \in Nat
      BY DEF IInv, TypeOK
    <3>. QED BY <3>1 DEF IInv, TypeOK, Contents
  <2>6. SendEmpty'
    BY DEF IInv, TypeOK, SendEmpty
  <2>. QED BY <2>1, <2>2, <2>3, <2>4, <2>5, <2>6 DEF IInv
<1>10. CASE ClearUnused(t)
  <2>. /\ pc[t] = "clear_unused"
       /\ flag' = FALSE
       /\ pc' = [pc EXCEPT ![t] = "give_up"]
       /\ UNCHANGED <<write, send, mu, pages, open, slide, room, flight, wire, broken, cur, msg, handler, calls, missed>>
    BY <1>10 DEF ClearUnused
  <2>1. TypeOK'
    BY DEF IInv, TypeOK
  <2>2. Locking'
    BY LocalTypes DEF IInv, Locking
  <2>3. FlagOnce'
    BY LocalTypes DEF IInv, FlagOnce
  <2>4. Current'
    BY LocalTypes DEF IInv, Current
  <2>5. Contents'
    BY DEF IInv, TypeOK, Contents
  <2>6. SendEmpty'
    BY DEF IInv, TypeOK, SendEmpty
  <2>. QED BY <2>1, <2>2, <2>3, <2>4, <2>5, <2>6 DEF IInv
<1>11. CASE StoreWrite(t)
  <2>. /\ pc[t] = "store_write"
       /\ write' = send
       /\ pc' = [pc EXCEPT ![t] = "put_open"]
       /\ UNCHANGED <<send, mu, pages, open, slide, room, flag, flight, wire, broken, cur, msg, handler, calls, missed>>
    BY <1>11 DEF StoreWrite
  <2>1. TypeOK'
    BY DEF IInv, TypeOK
  <2>2. Locking'
    BY LocalTypes DEF IInv, Locking
  <2>3. FlagOnce'
    BY LocalTypes DEF IInv, FlagOnce
  <2>4. Current'
    <3>1. \A u \in Threads : u # t =>
             pc[u] \notin MuSteps \cap FlagSteps /\ (pc[u] \in MuSteps => cur[u] # write)
      BY DEF IInv, TypeOK, Locking, FlagOnce, Current
    <3>2. write # send
      BY DEF IInv, FlagOnce, Current
    <3>. QED BY <3>1, <3>2 DEF IInv, TypeOK, Current, FlagOnce
  <2>5. Contents'
    BY DEF IInv, TypeOK, Contents
  <2>6. SendEmpty'
    BY DEF IInv, TypeOK, SendEmpty
  <2>. QED BY <2>1, <2>2, <2>3, <2>4, <2>5, <2>6 DEF IInv
<1>12. CASE PutOpen(t)
  <2>. /\ pc[t] = "put_open"
       /\ pages' = IF slide[cur[t]] > 0
                 THEN [pages EXCEPT ![cur[t]] = Append(@, open[cur[t]])] ELSE pages
       /\ pc' = [pc EXCEPT ![t] = "store_send"]
       /\ UNCHANGED <<write, send, mu, open, slide, room, flag, flight, wire, broken, cur, msg, handler, calls, missed>>
    BY <1>12 DEF PutOpen, PutBuff
  <2>1. TypeOK'
    <3>1. slide[cur[t]] > 0 => Append(pages[cur[t]], open[cur[t]]) \in Seq(Seq(Messages) \ {<<>>})
      <4>1. /\ pages[cur[t]] \in Seq(Seq(Messages) \ {<<>>})
            /\ slide[cur[t]] > 0 => open[cur[t]] \in Seq(Messages) \ {<<>>}
        BY DEF IInv, TypeOK
      <4>. QED BY <4>1, Appended
    <3>. QED BY <3>1 DEF IInv, TypeOK
  <2>2. Locking'
    BY LocalTypes DEF IInv, Locking
  <2>3. FlagOnce'
    BY LocalTypes DEF IInv, FlagOnce
  <2>4. Current'
    BY LocalTypes DEF IInv, Current
  <2>5. Contents'
    <3>1. pages'[cur[t]] # <<>>
      <4>1. slide[cur[t]] > 0 => Append(pages[cur[t]], open[cur[t]]) # <<>>
        <5>1. /\ pages[cur[t]] \in Seq(Seq(Messages) \ {<<>>})
              /\ slide[cur[t]] > 0 => open[cur[t]] \in Seq(Messages) \ {<<>>}
          BY DEF IInv, TypeOK
        <5>. QED BY <5>1, Appended
      <4>. QED BY <4>1 DEF IInv, TypeOK, Contents
    <3>2. \A u \in Threads : u # t => pc[u] \notin FlagSteps
      BY DEF IInv, FlagOnce
    <3>3. flight = <<>>
      BY DEF IInv, FlagOnce
    <3>. QED BY <3>1, <3>2, <3>3 DEF IInv, TypeOK, Contents
  <2>6. SendEmpty'
    BY DEF IInv, TypeOK, SendEmpty
  <2>. QED BY <2>1, <2>2, <2>3, <2>4, <2>5, <2>6 DEF IInv
<1>13. CASE StoreSend(t)
  <2>. /\ pc[t] = "store_send"
       /\ send' = cur[t]
       /\ pc' = [pc EXCEPT ![t] = "send_unlock"]
       /\ UNCHANGED <<write, mu, pages, open, slide, room, flag, flight, wire, broken, cur, msg, handler, calls, missed>>
    BY <1>13 DEF StoreSend
  <2>1. TypeOK'
    BY DEF IInv, TypeOK
  <2>2. Locking'
    BY LocalTypes DEF IInv, Locking
  <2>3. FlagOnce'
    BY LocalTypes DEF IInv, FlagOnce
  <2>4. Current'
    <3>1. \A u \in Threads : u # t => pc[u] \notin FlagSteps
      BY DEF IInv, FlagOnce
    <3>. QED BY <3>1 DEF IInv, TypeOK, Current
  <2>5. Contents'
    BY DEF IInv, TypeOK, Contents, FlagOnce
  <2>6. SendEmpty'
    BY DEF IInv, TypeOK, SendEmpty
  <2>. QED BY <2>1, <2>2, <2>3, <2>4, <2>5, <2>6 DEF IInv
<1>14. CASE SendUnlock(t)
  <2>. /\ pc[t] = "send_unlock"
       /\ mu' = [mu EXCEPT ![cur[t]] = None]
       /\ pc' = [pc EXCEPT ![t] = "wsasend"]
       /\ UNCHANGED <<write, send, pages, open, slide, room, flag, flight, wire, broken, cur, msg, handler, calls, missed>>
    BY <1>14 DEF SendUnlock
  <2>1. TypeOK'
    BY DEF IInv, TypeOK
  <2>2. Locking'
    BY LocalTypes DEF IInv, Locking
  <2>3. FlagOnce'
    BY LocalTypes DEF IInv, FlagOnce
  <2>4. Current'
    BY LocalTypes DEF IInv, Current
  <2>5. Contents'
    BY DEF IInv, TypeOK, Contents
  <2>6. SendEmpty'
    BY DEF IInv, TypeOK, SendEmpty
  <2>. QED BY <2>1, <2>2, <2>3, <2>4, <2>5, <2>6 DEF IInv
<1>. QED
  BY <1>1, <1>2, <1>3, <1>4, <1>5, <1>6, <1>7, <1>8, <1>9, <1>10, <1>11, <1>12, <1>13, <1>14 DEF SendBuff

\* The call, the WSASend and its completion
LEMMA NetStep ==
  ASSUME IInv, NEW t \in Threads, AsyncSend(t) \/ WSASend(t) \/ WSASendFails(t) \/ OnSend(t)
  PROVE  IInv'
<1> USE Constants
    DEF WriteSteps, SendSteps, OnSendSteps, FlagSteps, LeavingSteps,
        Exchanging, MuSteps, Buffers, Goto, Unlocked, Return, buffers, net, locals
<1>1. CASE AsyncSend(t)
  <2>. /\ pc[t] \in {"idle", "handler"} /\ calls < MaxCalls
       /\ calls' = calls + 1
       /\ msg' = [msg EXCEPT ![t] = calls + 1]
       /\ handler' \in [Threads -> BOOLEAN]
       /\ pc' = [pc EXCEPT ![t] = "write_load"]
       /\ UNCHANGED <<write, send, mu, pages, open, slide, room, flag, flight, wire, broken, cur, missed>>
    BY <1>1 DEF AsyncSend, IInv, TypeOK
  <2>1. TypeOK'
    <3>1. calls + 1 \in Messages /\ calls + 1 \in 0 .. MaxCalls
      BY SizesAssumption DEF IInv, TypeOK, Messages
    <3>. QED BY <3>1 DEF IInv, TypeOK
  <2>2. Locking'
    BY LocalTypes DEF IInv, Locking
  <2>3. FlagOnce'
    BY LocalTypes DEF IInv, FlagOnce
  <2>4. Current'
    BY LocalTypes DEF IInv, Current
  <2>5. Contents'
    <3>1. calls + 1 \in Messages
      BY SizesAssumption DEF IInv, TypeOK, Messages
    <3>. QED BY <3>1 DEF IInv, TypeOK, Contents
  <2>6. SendEmpty'
    BY DEF IInv, TypeOK, SendEmpty
  <2>. QED BY <2>1, <2>2, <2>3, <2>4, <2>5, <2>6 DEF IInv
<1>2. CASE WSASend(t)
  <2>. /\ pc[t] = "wsasend"
       /\ flight' = pages[send]
       /\ pc' = [pc EXCEPT ![t] = IF handler[t] THEN "load" ELSE "idle"]
       /\ handler' = [handler EXCEPT ![t] = FALSE]
       /\ cur' = [cur EXCEPT ![t] = 0]
       /\ UNCHANGED <<write, send, mu, pages, open, slide, room, flag, wire, broken, msg, calls, missed>>
    BY <1>2 DEF WSASend
  <2>1. TypeOK'
    BY DEF IInv, TypeOK
  <2>2. Locking'
    BY LocalTypes DEF IInv, Locking
  <2>3. FlagOnce'
    <3>1. pages[send] # <<>>
      BY DEF IInv, Contents, Current
    <3>. QED BY <3>1 DEF IInv, TypeOK, FlagOnce
  <2>4. Current'
    BY LocalTypes DEF IInv, Current
  <2>5. Contents'
    BY DEF IInv, TypeOK, Contents
  <2>6. SendEmpty'
    BY DEF IInv, TypeOK, SendEmpty, Contents, Current
  <2>. QED BY <2>1, <2>2, <2>3, <2>4, <2>5, <2>6 DEF IInv
<1>3. CASE WSASendFails(t)
  <2>. /\ pc[t] = "wsasend"
       /\ broken' = TRUE
       /\ pc' = [pc EXCEPT ![t] = IF handler[t] THEN "load" ELSE "idle"]
       /\ handler' = [handler EXCEPT ![t] = FALSE]
       /\ cur' = [cur EXCEPT ![t] = 0]
       /\ UNCHANGED <<write, send, mu, pages, open, slide, room, flag, flight, wire, msg, calls, missed>>
    BY <1>3 DEF WSASendFails
  <2>1. TypeOK'
    BY DEF IInv, TypeOK
  <2>2. Locking'
    BY LocalTypes DEF IInv, Locking
  <2>3. FlagOnce'
    BY LocalTypes DEF IInv, FlagOnce
  <2>4. Current'
    BY LocalTypes DEF IInv, Current
  <2>5. Contents'
    BY DEF IInv, TypeOK, Contents
  <2>6. SendEmpty'
    BY DEF IInv, TypeOK, SendEmpty
  <2>. QED BY <2>1, <2>2, <2>3, <2>4, <2>5, <2>6 DEF IInv
<1>4. CASE Complete(t)
  <2>. /\ pc[t] = "idle" /\ flight # <<>>
       /\ wire' = wire \o FlattenSeq(flight)
       /\ flight' = <<>>
       /\ pc' = [pc EXCEPT ![t] = "clear"]
       /\ UNCHANGED <<write, send, mu, pages, open, slide, room, flag, broken, cur, msg, handler, calls, missed>>
    BY <1>4 DEF Complete
  <2>1. TypeOK'
    <3>1. FlattenSeq(flight) \in Seq(Messages)
      <4>1. flight \in Seq(Seq(Messages))
        BY DEF IInv, TypeOK
      <4>. QED BY <4>1, FlattenType
    <3>2. wire \o FlattenSeq(flight) \in Seq(Messages)
      BY <3>1 DEF IInv, TypeOK
    <3>3. <<>> \in Seq(Seq(Messages) \ {<<>>})
      OBVIOUS
    <3>. QED BY <3>2, <3>3 DEF IInv, TypeOK
  <2>2. Locking'
    BY LocalTypes DEF IInv, Locking
  <2>3. FlagOnce'
    BY LocalTypes DEF IInv, FlagOnce
  <2>4. Current'
    BY LocalTypes DEF IInv, Current
  <2>5. Contents'
    BY DEF IInv, TypeOK, Contents
  <2>6. SendEmpty'
    BY DEF IInv, TypeOK, SendEmpty
  <2>. QED BY <2>1, <2>2, <2>3, <2>4, <2>5, <2>6 DEF IInv
<1>5. CASE CompleteFails(t)
  <2>. /\ pc[t] = "idle" /\ flight # <<>>
       /\ broken' = TRUE
       /\ flight' = <<>>
       /\ UNCHANGED <<write, send, mu, pages, open, slide, room, flag, wire, pc, cur, msg, handler, calls, missed>>
    BY <1>5 DEF CompleteFails
  <2>1. TypeOK'
    <3>1. <<>> \in Seq(Seq(Messages) \ {<<>>})
      OBVIOUS
    <3>. QED BY <3>1 DEF IInv, TypeOK
  <2>2. Locking'
    BY LocalTypes DEF IInv, Locking
  <2>3. FlagOnce'
    BY LocalTypes DEF IInv, FlagOnce
  <2>4. Current'
    BY LocalTypes DEF IInv, Current
  <2>5. Contents'
    BY DEF IInv, TypeOK, Contents
  <2>6. SendEmpty'
    BY DEF IInv, TypeOK, SendEmpty
  <2>. QED BY <2>1, <2>2, <2>3, <2>4, <2>5, <2>6 DEF IInv
<1>6. CASE Clear(t)
  <2>. /\ pc[t] = "clear"
       /\ pages' = [pages EXCEPT ![send] = <<>>]
       /\ open' = [open EXCEPT ![send] = <<>>]
       /\ slide' = [slide EXCEPT ![send] = 0]
       /\ pc' = [pc EXCEPT ![t] = "clear_flag"]
       /\ UNCHANGED <<write, send, mu, room, flag, flight, wire, broken, cur, msg, handler, calls, missed>>
    BY <1>6 DEF Clear
  <2>1. TypeOK'
    BY DEF IInv, TypeOK
  <2>2. Locking'
    BY LocalTypes DEF IInv, Locking
  <2>3. FlagOnce'
    BY LocalTypes DEF IInv, FlagOnce
  <2>4. Current'
    BY LocalTypes DEF IInv, Current
  <2>5. Contents'
    <3>1. \A u \in Threads : u # t => pc[u] \notin FlagSteps
      BY DEF IInv, FlagOnce
    <3>2. flight = <<>>
      BY DEF IInv, FlagOnce
    <3>3. \A u \in Threads : pc[u] = "new_page" => cur[u] # send
      BY <3>1 DEF IInv, Current
    <3>. QED BY <3>1, <3>2, <3>3 DEF IInv, TypeOK, Contents
  <2>6. SendEmpty'
    BY DEF IInv, TypeOK, SendEmpty
  <2>. QED BY <2>1, <2>2, <2>3, <2>4, <2>5, <2>6 DEF IInv
<1>7. CASE ClearFlag(t)
  <2>. /\ pc[t] = "clear_flag"
       /\ flag' = FALSE
       /\ pc' = [pc EXCEPT ![t] = "handler"]
       /\ UNCHANGED <<write, send, mu, pages, open, slide, room, flight, wire, broken, cur, msg, handler, calls, missed>>
    BY <1>7 DEF ClearFlag
  <2>1. TypeOK'
    BY DEF IInv, TypeOK
  <2>2. Locking'
    BY LocalTypes DEF IInv, Locking
  <2>3. FlagOnce'
    BY LocalTypes DEF IInv, FlagOnce
  <2>4. Current'
    BY LocalTypes DEF IInv, Current
  <2>5. Contents'
    BY DEF IInv, TypeOK, Contents
  <2>6. SendEmpty'
    BY DEF IInv, TypeOK, SendEmpty
  <2>. QED BY <2>1, <2>2, <2>3, <2>4, <2>5, <2>6 DEF IInv
<1>8. CASE HandlerReturns(t)
  BY <1>8, QuietStep DEF HandlerReturns, IInv, TypeOK
<1>. QED
  BY <1>1, <1>2, <1>3, <1>4, <1>5, <1>6, <1>7, <1>8 DEF OnSend

-----------------------------------------------------------------------------
LEMMA IInvInit == Init => IInv
<1> SUFFICES ASSUME Init PROVE IInv
  OBVIOUS
<1> USE Constants DEF Init, Buffers
<1>1. TypeOK
  <2>1. <<>> \in Seq(Messages) /\ <<>> \in Seq(Seq(Messages) \ {<<>>})
    OBVIOUS
  <2>2. 0 \in 0 .. MaxCalls
    BY SizesAssumption
  <2>3. 0 <= PageSize
    OBVIOUS
  <2>4. /\ mu \in [Buffers -> Threads \cup {None}]
        /\ pages \in [Buffers -> Seq(Seq(Messages) \ {<<>>})] /\ open \in [Buffers -> Seq(Messages)]
        /\ room \in [Buffers -> Nat] /\ slide \in [Buffers -> Nat]
    BY <2>1
  <2>5. \A b \in Buffers : slide[b] <= room[b] /\ (slide[b] > 0 <=> open[b] # <<>>)
    BY <2>3
  <2>6. /\ pc \in [Threads -> {"idle"} \cup WriteSteps \cup SendSteps \cup OnSendSteps]
        /\ cur \in [Threads -> Buffers] /\ msg \in [Threads -> Messages \cup {None}]
        /\ handler \in [Threads -> BOOLEAN]
    OBVIOUS
  <2>. QED BY <2>1, <2>2, <2>4, <2>5, <2>6 DEF TypeOK
<1>2. Locking
  BY DEF Locking, MuSteps
<1>3. FlagOnce
  BY DEF FlagOnce, FlagSteps
<1>4. Current
  BY DEF Current, Exchanging
<1>5. Contents
  BY DEF Contents, WriteSteps
<1>6. SendEmpty
  BY DEF SendEmpty
<1>. QED BY <1>1, <1>2, <1>3, <1>4, <1>5, <1>6 DEF IInv

LEMMA IInvNext == IInv /\ [Next]_vars => IInv'
<1> SUFFICES ASSUME IInv, [Next]_vars PROVE IInv'
  OBVIOUS
<1>1. CASE UNCHANGED vars
  BY <1>1 DEF vars, buffers, net, locals, IInv, TypeOK, Locking, FlagOnce, Current, Contents, SendEmpty
<1>2. CASE Next
  BY <1>2, WriteStep, SendBuffStep, NetStep DEF Next
<1>. QED BY <1>1, <1>2

LEMMA Invariant == Spec => []IInv
BY IInvInit, IInvNext, PTL DEF Spec

\* One sender at a time (sock_buff.cpp:228, socket_base_win32.cpp:429-448),
\* counted: the set of holders is empty or has one element.
THEOREM OneSenderAlways == Spec => []OneSender
<1>1. IInv => OneSender
  <2> SUFFICES ASSUME IInv PROVE OneSender
    OBVIOUS
  <2>1. CASE FlagHolders = {}
    <3>1. flag <=> flight # <<>> \/ broken
      BY <2>1 DEF IInv, FlagOnce, FlagHolders
    <3>2. ~ (flight # <<>> /\ broken)
      BY DEF IInv, FlagOnce
    <3>. QED BY <2>1, <3>1, <3>2, FS_EmptySet DEF OneSender, IInv, TypeOK
  <2>2. CASE FlagHolders # {}
    <3>1. PICK t \in FlagHolders : TRUE
      BY <2>2
    <3>2. FlagHolders = {t} /\ flight = <<>> /\ ~ broken /\ flag
      BY <3>1 DEF IInv, FlagOnce, FlagHolders
    <3>3. Cardinality({t}) = 1
      BY FS_Singleton
    <3>. QED BY <3>2, <3>3 DEF OneSender, IInv
  <2>. QED BY <2>1, <2>2
<1>. QED BY <1>1, Invariant, PTL

-----------------------------------------------------------------------------
\* What one step does to the buffers: a writer changes the one that is written
\* and has its lock, the holder of the flag does what it likes.
LEMMA BufferStep ==
  ASSUME IInv, Next
  PROVE  \/ UNCHANGED <<write, send, pages, open, slide>>
         \/ \E t \in Threads : pc[t] \in {"store_write", "put_open", "store_send", "clear"}
         \/ \E t \in Threads : /\ pc[t] \in {"copy", "new_page"} /\ mu[write] = t
                              /\ UNCHANGED <<write, send>>
                              /\ \A b \in Buffers \ {write} : /\ pages'[b] = pages[b]
                                                             /\ open'[b] = open[b]
                                                             /\ slide'[b] = slide[b]
<1> USE DEF IInv, TypeOK, buffers, net, locals
<1>1. PICK t \in Threads :
         \/ AsyncSend(t) \/ Write(t) \/ SendBuff(t)
         \/ WSASend(t) \/ WSASendFails(t) \/ OnSend(t)
  BY DEF Next
<1>2. CASE CopyFits(t) \/ CopyPutBuff(t) \/ NewPage(t)
  <2>1. pc[t] \in {"copy", "new_page"} /\ UNCHANGED <<write, send>>
    BY <1>2 DEF CopyFits, CopyPutBuff, NewPage
  <2>2. cur[t] = write /\ mu[write] = t
    BY <2>1 DEF Current, Locking, MuSteps
  <2>3. \A b \in Buffers \ {write} : pages'[b] = pages[b] /\ open'[b] = open[b] /\ slide'[b] = slide[b]
    BY <1>2, <2>2 DEF CopyFits, CopyPutBuff, NewPage, PutBuff
  <2>. QED BY <2>1, <2>2, <2>3
<1>3. CASE StoreWrite(t) \/ PutOpen(t) \/ StoreSend(t) \/ Clear(t)
  BY <1>3 DEF StoreWrite, PutOpen, StoreSend, Clear
<1>4. CASE Write(t) /\ ~ CopyFits(t) /\ ~ CopyPutBuff(t) /\ ~ NewPage(t)
  BY <1>4 DEF Write, WriteLoad, WriteLock, WriteCheck, WriteStale, WriteUnlock
<1>5. CASE SendBuff(t) /\ ~ StoreWrite(t) /\ ~ PutOpen(t) /\ ~ StoreSend(t)
  BY <1>5 DEF SendBuff, Load, TryLock, TryFails, Busy, BusyFull, WaitLock, TestAndSet, GiveUp,
              Stale, Empty, ClearUnused, SendUnlock
<1>6. CASE AsyncSend(t) \/ WSASend(t) \/ WSASendFails(t) \/ (OnSend(t) /\ ~ Clear(t))
  BY <1>6 DEF AsyncSend, WSASend, WSASendFails, OnSend, Complete, CompleteFails, ClearFlag,
              HandlerReturns
<1>. QED BY <1>1, <1>2, <1>3, <1>4, <1>5, <1>6

\* Nobody touches the pages that the kernel has (socket_base_win32.cpp:429-448).
THEOREM KernelOwnsItsPages == Spec => KernelOwnsPages
<1>1. IInv /\ [Next]_vars =>
        [flight # <<>> /\ flight' = flight =>
           send' = send /\ write' = write /\ pages'[send] = flight /\ open'[send] = open[send]]_vars
  <2> SUFFICES ASSUME IInv, Next, flight # <<>>
               PROVE  /\ send' = send /\ write' = write
                      /\ pages'[send] = flight /\ open'[send] = open[send]
    BY DEF IInv
  <2>1. \A t \in Threads : pc[t] \notin FlagSteps
    BY DEF IInv, FlagOnce
  <2>2. send \in Buffers \ {write} /\ pages[send] = flight
    BY <2>1 DEF IInv, TypeOK, Current, Exchanging, Contents, FlagSteps
  <2>. QED BY <2>1, <2>2, BufferStep DEF FlagSteps
<1>. QED BY <1>1, Invariant, PTL DEF Spec, KernelOwnsPages

-----------------------------------------------------------------------------
(* Nothing is left behind                                                  *)

\* A step is of one thread, and goes where it goes.
LEMMA LocalStep ==
  ASSUME TypeOK, Next
  PROVE  \E t \in Threads :
           /\ \A u \in Threads \ {t} : pc'[u] = pc[u] /\ cur'[u] = cur[u]
           /\ pc'[t] = "clear_unused" => (Stale(t) \/ Empty(t)) /\ cur' = cur
<1> USE DEF TypeOK, Goto, buffers, net, locals, Return
<1>1. PICK t \in Threads :
         \/ AsyncSend(t) \/ Write(t) \/ SendBuff(t)
         \/ WSASend(t) \/ WSASendFails(t) \/ OnSend(t)
  BY DEF Next
<1>2. CASE Write(t)
  <2>1. CASE WriteLoad(t) \/ WriteLock(t) \/ WriteCheck(t) \/ WriteStale(t)
    BY <2>1 DEF WriteLoad, WriteLock, WriteCheck, WriteStale
  <2>2. CASE CopyFits(t) \/ CopyPutBuff(t) \/ NewPage(t) \/ WriteUnlock(t)
    BY <2>2 DEF CopyFits, CopyPutBuff, NewPage, WriteUnlock
  <2>. QED BY <1>2, <2>1, <2>2 DEF Write
<1>3. CASE SendBuff(t)
  <2>1. CASE Load(t) \/ TryLock(t) \/ TryFails(t) \/ Busy(t) \/ BusyFull(t) \/ WaitLock(t)
    BY <2>1 DEF Load, TryLock, TryFails, Busy, BusyFull, WaitLock
  <2>2. CASE TestAndSet(t) \/ GiveUp(t) \/ ClearUnused(t)
    BY <2>2 DEF TestAndSet, GiveUp, ClearUnused
  <2>3. CASE Stale(t) \/ Empty(t)
    BY <2>3 DEF Stale, Empty
  <2>4. CASE StoreWrite(t) \/ PutOpen(t) \/ StoreSend(t) \/ SendUnlock(t)
    BY <2>4 DEF StoreWrite, PutOpen, StoreSend, SendUnlock
  <2>. QED BY <1>3, <2>1, <2>2, <2>3, <2>4 DEF SendBuff
<1>4. CASE AsyncSend(t) \/ WSASend(t) \/ WSASendFails(t)
  BY <1>4 DEF AsyncSend, WSASend, WSASendFails
<1>5. CASE OnSend(t)
  BY <1>5 DEF OnSend, Complete, CompleteFails, Clear, ClearFlag, HandlerReturns
<1>. QED BY <1>1, <1>2, <1>3, <1>4, <1>5

\* While a thread keeps the lock to give the flag back, nobody writes.
LEMMA UnneededStep == ASSUME IInv, Unneeded, [Next]_vars PROVE Unneeded'
<1>1. CASE UNCHANGED vars
  BY <1>1 DEF vars, buffers, locals, Unneeded
<1>2. CASE Next
  <2>. SUFFICES ASSUME NEW t \in Threads, pc'[t] = "clear_unused", cur'[t] = write'
                PROVE  pages'[write'] = <<>> /\ slide'[write'] = 0
    BY DEF Unneeded
  <2>1. CASE Stale(t)
    BY <2>1 DEF Stale, buffers, locals, Goto, IInv, TypeOK
  <2>2. CASE Empty(t)
    BY <2>2 DEF Empty, buffers, locals, Goto, IInv, TypeOK, Current
  <2>3. CASE pc[t] = "clear_unused" /\ cur'[t] = cur[t]
    <3>1. \A u \in Threads : pc[u] \notin {"store_write", "put_open", "store_send", "clear"}
      BY <2>3 DEF IInv, FlagOnce, FlagSteps
    <3>2. mu[cur[t]] = t
      BY <2>3 DEF IInv, Locking, MuSteps
    <3>3. ~ (pc[t] \in {"copy", "new_page"})
      BY <2>3
    <3>4. write' = write => mu[write] = t
      BY <2>3, <3>2
    <3>5. UNCHANGED <<write, send, pages, open, slide>>
      BY <1>2, <3>1, <3>3, <3>4, BufferStep
    <3>. QED BY <2>3, <3>5 DEF Unneeded
  <2>4. \/ pc[t] = "clear_unused" /\ cur'[t] = cur[t]
        \/ Stale(t) \/ Empty(t)
    BY <1>2, LocalStep DEF IInv
  <2>. QED BY <2>1, <2>2, <2>3, <2>4
<1>. QED BY <1>1, <1>2

\* A step that changes nothing but who is where: another thread that was
\* responsible still is.
LEMMA StillCared ==
  ASSUME IInv, Cared, NEW t \in Threads,
         UNCHANGED <<write, pages, slide, broken, flight>>, missed => missed',
         \A u \in Threads \ {t} : pc'[u] = pc[u] /\ cur'[u] = cur[u],
         Responsible(t) => Cared'
  PROVE  Cared'
<1>1. CASE \E u \in Threads : Responsible(u)
  <2>1. PICK u \in Threads : Responsible(u)
    BY <1>1
  <2>2. CASE u = t
    BY <2>1, <2>2
  <2>3. CASE u # t
    <3>1. Responsible(u)'
      BY <2>1, <2>3 DEF Responsible
    <3>. QED BY <3>1 DEF Cared
  <2>. QED BY <2>2, <2>3
<1>2. CASE ~ \E u \in Threads : Responsible(u)
  BY <1>2 DEF Cared
<1>. QED BY <1>1, <1>2

LEMMA CaredStep == ASSUME IInv, Unneeded, Cared, Next PROVE Cared'
<1> USE DEF Goto, buffers, net, locals, Return
<1>1. PICK t \in Threads :
         \/ AsyncSend(t) \/ Write(t) \/ SendBuff(t)
         \/ WSASend(t) \/ WSASendFails(t) \/ OnSend(t)
  BY DEF Next
<1>2. CASE Write(t) \/ AsyncSend(t) \/ Load(t)
  <2>1. Responsible(t)'
    <3>1. CASE AsyncSend(t) \/ Load(t)
      BY <3>1 DEF AsyncSend, Load, Responsible, WriteSteps, IInv, TypeOK
    <3>2. CASE WriteLoad(t) \/ WriteLock(t) \/ WriteCheck(t) \/ WriteStale(t)
      BY <3>2 DEF WriteLoad, WriteLock, WriteCheck, WriteStale, Responsible, WriteSteps, IInv, TypeOK
    <3>3. CASE CopyFits(t) \/ CopyPutBuff(t) \/ NewPage(t) \/ WriteUnlock(t)
      BY <3>3 DEF CopyFits, CopyPutBuff, NewPage, WriteUnlock, Responsible, WriteSteps, IInv, TypeOK
    <3>. QED BY <1>2, <3>1, <3>2, <3>3 DEF Write
  <2>. QED BY <2>1 DEF Cared
<1>3. CASE StoreWrite(t) \/ PutOpen(t) \/ StoreSend(t) \/ SendUnlock(t)
  <2>1. Responsible(t)'
    BY <1>3 DEF StoreWrite, PutOpen, StoreSend, SendUnlock, Responsible, Exchanging, IInv, TypeOK
  <2>. QED BY <2>1 DEF Cared
<1>4. CASE Complete(t) \/ Clear(t) \/ ClearFlag(t) \/ HandlerReturns(t)
  <2>1. Responsible(t)'
    BY <1>4 DEF Complete, Clear, ClearFlag, HandlerReturns, Responsible, OnSendSteps, IInv, TypeOK
  <2>. QED BY <2>1 DEF Cared
<1>5. CASE WSASend(t)
  <2>1. pages[send] # <<>>
    BY <1>5 DEF WSASend, IInv, Contents, Current
  <2>. QED BY <1>5, <2>1 DEF WSASend, Cared
<1>6. CASE WSASendFails(t) \/ CompleteFails(t)
  BY <1>6 DEF WSASendFails, CompleteFails, Cared
<1>7. CASE TryLock(t) \/ WaitLock(t) \/ Busy(t) \/ BusyFull(t) \/ GiveUp(t) \/ ClearUnused(t)
  <2>1. CASE TryLock(t) \/ WaitLock(t)
    <3>1. Responsible(t) => Responsible(t)'
      BY <2>1 DEF TryLock, WaitLock, Responsible, WriteSteps, Exchanging, OnSendSteps, IInv, TypeOK
    <3>2. Responsible(t) => Cared'
      BY <3>1 DEF Cared
    <3>3. /\ UNCHANGED <<write, pages, slide, broken, flight>> /\ (missed => missed')
          /\ \A u \in Threads \ {t} : pc'[u] = pc[u] /\ cur'[u] = cur[u]
      BY <2>1 DEF TryLock, WaitLock, IInv, TypeOK
    <3>. QED BY <3>2, <3>3, StillCared
  <2>2. CASE Busy(t) \/ BusyFull(t) \/ GiveUp(t) \/ ClearUnused(t)
    <3>1. ~ Responsible(t)
      BY <2>2 DEF Busy, BusyFull, GiveUp, ClearUnused, Responsible, WriteSteps, Exchanging, OnSendSteps
    <3>2. /\ UNCHANGED <<write, pages, slide, broken, flight>> /\ (missed => missed')
          /\ \A u \in Threads \ {t} : pc'[u] = pc[u] /\ cur'[u] = cur[u]
      BY <2>2 DEF Busy, BusyFull, GiveUp, ClearUnused, IInv, TypeOK
    <3>. QED BY <3>1, <3>2, StillCared
  <2>. QED BY <1>7, <2>1, <2>2
<1>8. CASE TryFails(t)
  <2>1. Responsible(t) => Cared'
    <3>. SUFFICES ASSUME Responsible(t) PROVE Cared'
      OBVIOUS
    <3>1. cur[t] = write /\ mu[write] # None /\ pc[t] = "try_lock"
      BY <1>8 DEF TryFails, Responsible, WriteSteps, Exchanging, OnSendSteps
    <3>2. PICK u \in Threads : u = mu[write] /\ pc[u] \in MuSteps /\ cur[u] = write /\ u # t
      BY <3>1 DEF IInv, TypeOK, Locking, MuSteps
    <3>3. CASE pc[u] = "give_up"
      <4>1. pc[mu[cur[t]]] = "give_up"
        BY <3>1, <3>2, <3>3
      <4>2. missed'
        BY <1>8, <4>1 DEF TryFails
      <4>. QED BY <4>2 DEF Cared
    <3>4. CASE pc[u] = "clear_unused"
      BY <1>8, <3>2, <3>4 DEF TryFails, Cared, Unneeded
    <3>5. CASE pc[u] \in MuSteps \ {"give_up", "clear_unused"}
      <4>1. pc'[u] = pc[u] /\ cur'[u] = write'
        BY <1>8, <3>2 DEF TryFails, IInv, TypeOK
      <4>2. Responsible(u)'
        BY <3>5, <4>1 DEF Responsible, MuSteps, WriteSteps, Exchanging
      <4>. QED BY <3>2, <4>2 DEF Cared
    <3>. QED BY <3>2, <3>3, <3>4, <3>5
  <2>2. /\ UNCHANGED <<write, pages, slide, broken, flight>> /\ (missed => missed')
        /\ \A u \in Threads \ {t} : pc'[u] = pc[u] /\ cur'[u] = cur[u]
    BY <1>8 DEF TryFails, IInv, TypeOK
  <2>. QED BY <2>1, <2>2, StillCared
<1>9. CASE TestAndSet(t)
  <2>1. Responsible(t) => Cared'
    <3>. SUFFICES ASSUME Responsible(t) PROVE Cared'
      OBVIOUS
    <3>1. cur[t] = write /\ mu[write] = t /\ pc[t] = "test"
      BY <1>9 DEF TestAndSet, Responsible, WriteSteps, Exchanging, OnSendSteps, IInv, Locking, MuSteps
    <3>2. CASE ~ flag
      <4>1. Responsible(t)'
        BY <1>9, <3>1, <3>2 DEF TestAndSet, Responsible, IInv, TypeOK
      <4>. QED BY <4>1 DEF Cared
    <3>3. CASE flight # <<>> \/ broken
      BY <1>9, <3>3 DEF TestAndSet, Cared
    <3>4. CASE \E u \in Threads : pc[u] \in FlagSteps
      <4>1. PICK u \in Threads : pc[u] \in FlagSteps
        BY <3>4
      <4>2. flag /\ u # t
        BY <3>1, <4>1 DEF IInv, FlagOnce, FlagSteps
      <4>3. CASE Unused(u)
        BY <1>9, <4>2, <4>3 DEF TestAndSet, Cared
      <4>4. CASE ~ Unused(u)
        <5>1. pc[u] \in MuSteps => cur[u] # write
          BY <3>1, <4>2 DEF IInv, Locking
        <5>2. pc[u] \in Exchanging \cup OnSendSteps \cup {"send_unlock", "wsasend"}
          BY <4>1, <4>4, <5>1 DEF Unused, FlagSteps, MuSteps, IInv, Current, Exchanging, OnSendSteps
        <5>3. pc'[u] = pc[u]
          BY <1>9, <4>2 DEF TestAndSet, IInv, TypeOK
        <5>4. Responsible(u)'
          BY <5>2, <5>3 DEF Responsible
        <5>. QED BY <5>4 DEF Cared
      <4>. QED BY <4>3, <4>4
    <3>. QED BY <3>2, <3>3, <3>4 DEF IInv, FlagOnce
  <2>2. /\ UNCHANGED <<write, pages, slide, broken, flight>> /\ (missed => missed')
        /\ \A u \in Threads \ {t} : pc'[u] = pc[u] /\ cur'[u] = cur[u]
    BY <1>9 DEF TestAndSet, IInv, TypeOK
  <2>. QED BY <2>1, <2>2, StillCared
<1>10. CASE Stale(t) \/ Empty(t)
  <2>1. Responsible(t) => Cared'
    <3>. SUFFICES ASSUME Responsible(t) PROVE Cared'
      OBVIOUS
    <3>1. cur[t] = write
      BY <1>10 DEF Stale, Empty, Responsible, WriteSteps, Exchanging, OnSendSteps
    <3>2. CASE Empty(t) /\ pages[write] = <<>> /\ slide[write] = 0
      BY <3>2 DEF Empty, Cared
    <3>3. CASE Stale(t) \/ ~ (pages[write] = <<>> /\ slide[write] = 0)
      <4>1. Responsible(t)'
        BY <1>10, <3>1, <3>3 DEF Stale, Empty, Responsible, IInv, TypeOK
      <4>. QED BY <4>1 DEF Cared
    <3>. QED BY <1>10, <3>2, <3>3
  <2>2. /\ UNCHANGED <<write, pages, slide, broken, flight>> /\ (missed => missed')
        /\ \A u \in Threads \ {t} : pc'[u] = pc[u] /\ cur'[u] = cur[u]
    BY <1>10 DEF Stale, Empty, IInv, TypeOK
  <2>. QED BY <2>1, <2>2, StillCared
<1>. QED
  BY <1>1, <1>2, <1>3, <1>4, <1>5, <1>6, <1>7, <1>8, <1>9, <1>10 DEF SendBuff, OnSend

\* When all is quiet nothing is left in the buffers, but for the gap that missed
\* records (sock_buff.cpp:211-234).
THEOREM NothingIsLeftBehind == Spec => []NothingLeftBehind
<1>1. Init => Unneeded /\ Cared
  BY DEF Init, Unneeded, Cared, Buffers
<1>2. Unneeded /\ Cared /\ IInv /\ [Next]_vars => Unneeded' /\ Cared'
  <2>1. ASSUME Cared, UNCHANGED vars PROVE Cared'
    BY <2>1 DEF vars, buffers, locals, net, Cared, Responsible
  <2>. QED BY <2>1, UnneededStep, CaredStep
<1>3. IInv /\ Cared => NothingLeftBehind
  <2>. SUFFICES ASSUME IInv, Cared, \A t \in Threads : pc[t] = "idle",
                       flight = <<>>, ~ broken, ~ missed
                PROVE  Unsent = <<>>
    BY DEF NothingLeftBehind
  <2>1. Leaving = <<>>
    BY DEF Leaving
  <2>2. pages[write] = <<>> /\ open[write] = <<>>
    <3>1. \A t \in Threads : ~ Responsible(t)
      BY DEF Responsible, WriteSteps, Exchanging, OnSendSteps
    <3>2. pages[write] = <<>> /\ slide[write] = 0
      BY <3>1 DEF Cared
    <3>. QED BY <3>2 DEF IInv, TypeOK
  <2>3. FlattenSeq(pages[write]) = <<>>
    BY <2>2, FlattenEmpty
  <2>. QED BY <2>1, <2>2, <2>3 DEF Unsent
<1>. QED BY <1>1, <1>2, <1>3, Invariant, PTL DEF Spec

-----------------------------------------------------------------------------
(* Refinement of SendStream                                                *)

LEMMA GrowSeq ==
  ASSUME NEW S, NEW T, S \subseteq T
  PROVE  Seq(S) \subseteq Seq(T) /\ Seq(Seq(S) \ {<<>>}) \subseteq Seq(Seq(T) \ {<<>>})
OBVIOUS

\* The messages that are copied only grow in number.
LEMMA CopiedGrows ==
  ASSUME IInv, Fresh, [Next]_vars
  PROVE  /\ Copied \subseteq Copied'
         /\ \A t \in Threads : msg'[t] # None => msg'[t] <= calls'
         /\ \A t, u \in Threads : t # u /\ msg'[t] # None => msg'[t] # msg'[u]
<1> USE DEF net, locals
<1>0. calls \in Nat /\ \A t \in Threads : msg[t] \in Nat \cup {None}
  BY SizesAssumption DEF IInv, TypeOK, Messages
<1>1. CASE UNCHANGED <<msg, calls>>
  BY <1>1 DEF Fresh, Copied
<1>2. ASSUME NEW t \in Threads, AsyncSend(t)
      PROVE  /\ Copied \subseteq Copied'
             /\ \A u \in Threads : msg'[u] # None => msg'[u] <= calls'
             /\ \A u, v \in Threads : u # v /\ msg'[u] # None => msg'[u] # msg'[v]
  <2>1. calls' = calls + 1 /\ msg' = [msg EXCEPT ![t] = calls + 1]
    BY <1>2 DEF AsyncSend
  <2>2. \A u \in Threads \ {t} : msg'[u] = msg[u]
    BY <2>1 DEF IInv, TypeOK
  <2>3. msg'[t] = calls + 1
    BY <2>1 DEF IInv, TypeOK
  <2>4. \A u \in Threads : msg[u] # calls + 1
    BY <1>0, NoneAssumption DEF Fresh
  <2>. QED BY <1>0, <2>1, <2>2, <2>3, <2>4, NoneAssumption DEF Fresh, Copied
<1>3. ASSUME NEW t \in Threads, CopyFits(t) \/ NewPage(t)
      PROVE  /\ Copied \subseteq Copied'
             /\ \A u \in Threads : msg'[u] # None => msg'[u] <= calls'
             /\ \A u, v \in Threads : u # v /\ msg'[u] # None => msg'[u] # msg'[v]
  <2>1. calls' = calls /\ msg' = [msg EXCEPT ![t] = None]
    BY <1>3 DEF CopyFits, NewPage
  <2>. QED BY <1>0, <2>1, NoneAssumption DEF Fresh, Copied, IInv, TypeOK
<1>4. \/ UNCHANGED <<msg, calls>>
      \/ \E t \in Threads : AsyncSend(t) \/ CopyFits(t) \/ NewPage(t)
  BY DEF vars, Next, Write, WriteLoad, WriteLock, WriteCheck, WriteStale, CopyPutBuff, WriteUnlock,
         SendBuff, Load, TryLock, TryFails, Busy, BusyFull, WaitLock, TestAndSet, GiveUp, Stale,
         Empty, ClearUnused, StoreWrite, PutOpen, StoreSend, SendUnlock, WSASend, WSASendFails,
         OnSend, Complete, CompleteFails, Clear, ClearFlag, HandlerReturns
<1>. QED BY <1>1, <1>2, <1>3, <1>4

\* The message that was copied is one of them from now on.
LEMMA JustCopied ==
  ASSUME IInv, Fresh, NEW t \in Threads, CopyFits(t) \/ NewPage(t)
  PROVE  msg[t] \in Copied' /\ msg[t] \notin Copied
<1>1. pc[t] \in {"copy", "new_page"} /\ calls' = calls /\ msg' = [msg EXCEPT ![t] = None]
  BY DEF CopyFits, NewPage
<1>2. msg[t] \in Messages /\ msg[t] # None
  BY <1>1, Constants DEF IInv, Contents, WriteSteps
<1>3. msg[t] \in 1 .. calls
  BY <1>2, SizesAssumption DEF Fresh, Messages, IInv, TypeOK
<1>. QED BY <1>1, <1>2, <1>3 DEF Copied, Fresh, IInv, TypeOK

LEMMA FreshStep == ASSUME IInv, Fresh, [Next]_vars PROVE Fresh'
<1>1. /\ Seq(Copied) \subseteq Seq(Copied')
      /\ Seq(Seq(Copied) \ {<<>>}) \subseteq Seq(Seq(Copied') \ {<<>>})
  BY CopiedGrows, GrowSeq
<1>2. /\ pages' \in [Buffers -> Seq(Seq(Copied') \ {<<>>})]
      /\ open' \in [Buffers -> Seq(Copied')]
      /\ wire' \in Seq(Copied')
  <2>. USE DEF Buffers
  <2>0. /\ pages \in [Buffers -> Seq(Seq(Copied') \ {<<>>})]
        /\ open \in [Buffers -> Seq(Copied')] /\ wire \in Seq(Copied')
    BY <1>1 DEF Fresh
  <2>1. CASE UNCHANGED <<pages, open, wire>>
    BY <2>0, <2>1
  <2>2. ASSUME NEW t \in Threads, CopyFits(t) \/ NewPage(t)
        PROVE  /\ pages' \in [Buffers -> Seq(Seq(Copied') \ {<<>>})]
               /\ open' \in [Buffers -> Seq(Copied')]
               /\ wire' \in Seq(Copied')
    <3>1. cur[t] \in Buffers /\ UNCHANGED <<pages, wire>>
      BY <2>2 DEF CopyFits, NewPage, net, IInv, TypeOK
    <3>2. msg[t] \in Copied'
      BY <2>2, JustCopied
    <3>3. <<msg[t]>> \in Seq(Copied')
      BY <3>2
    <3>4. Append(open[cur[t]], msg[t]) \in Seq(Copied')
      <4>1. open[cur[t]] \in Seq(Copied')
        BY <2>0, <3>1
      <4>. QED BY <3>2, <4>1, Appended
    <3>5. \/ open' = [open EXCEPT ![cur[t]] = Append(open[cur[t]], msg[t])]
          \/ open' = [open EXCEPT ![cur[t]] = <<msg[t]>>]
      BY <2>2 DEF CopyFits, NewPage
    <3>6. open' \in [Buffers -> Seq(Copied')]
      BY <2>0, <3>1, <3>3, <3>4, <3>5
    <3>. QED BY <2>0, <3>1, <3>6
  <2>3. ASSUME NEW t \in Threads, CopyPutBuff(t) \/ PutOpen(t)
        PROVE  /\ pages' \in [Buffers -> Seq(Seq(Copied') \ {<<>>})]
               /\ open' \in [Buffers -> Seq(Copied')]
               /\ wire' \in Seq(Copied')
    <3>1. cur[t] \in Buffers /\ wire' = wire
      BY <2>3 DEF CopyPutBuff, PutOpen, net, IInv, TypeOK
    <3>2. /\ slide[cur[t]] > 0 => open[cur[t]] \in Seq(Copied') \ {<<>>}
          /\ pages[cur[t]] \in Seq(Seq(Copied') \ {<<>>})
      BY <2>0, <3>1 DEF IInv, TypeOK
    <3>3. slide[cur[t]] > 0 => Append(pages[cur[t]], open[cur[t]]) \in Seq(Seq(Copied') \ {<<>>})
      BY <3>2, Appended
    <3>4. pages' = IF slide[cur[t]] > 0
                   THEN [pages EXCEPT ![cur[t]] = Append(pages[cur[t]], open[cur[t]])] ELSE pages
      BY <2>3 DEF CopyPutBuff, PutOpen, PutBuff
    <3>5. pages' \in [Buffers -> Seq(Seq(Copied') \ {<<>>})]
      BY <2>0, <3>1, <3>3, <3>4
    <3>6. open' = open \/ open' = [open EXCEPT ![cur[t]] = <<>>]
      BY <2>3 DEF CopyPutBuff, PutOpen
    <3>7. <<>> \in Seq(Copied')
      OBVIOUS
    <3>8. open' \in [Buffers -> Seq(Copied')]
      BY <2>0, <3>1, <3>6, <3>7
    <3>. QED BY <2>0, <3>1, <3>5, <3>8
  <2>4. ASSUME NEW t \in Threads, Clear(t)
        PROVE  /\ pages' \in [Buffers -> Seq(Seq(Copied') \ {<<>>})]
               /\ open' \in [Buffers -> Seq(Copied')]
               /\ wire' \in Seq(Copied')
    <3>1. <<>> \in Seq(Copied') /\ <<>> \in Seq(Seq(Copied') \ {<<>>})
      OBVIOUS
    <3>2. send \in Buffers /\ wire' = wire
      BY <2>4 DEF Clear, net, IInv, TypeOK
    <3>3. pages' = [pages EXCEPT ![send] = <<>>] /\ open' = [open EXCEPT ![send] = <<>>]
      BY <2>4 DEF Clear
    <3>4. pages' \in [Buffers -> Seq(Seq(Copied') \ {<<>>})]
      BY <2>0, <3>1, <3>2, <3>3
    <3>5. open' \in [Buffers -> Seq(Copied')]
      BY <2>0, <3>1, <3>2, <3>3
    <3>. QED BY <2>0, <3>2, <3>4, <3>5
  <2>5. ASSUME NEW t \in Threads, Complete(t)
        PROVE  /\ pages' \in [Buffers -> Seq(Seq(Copied') \ {<<>>})]
               /\ open' \in [Buffers -> Seq(Copied')]
               /\ wire' \in Seq(Copied')
    <3>1. wire' = wire \o FlattenSeq(flight) /\ UNCHANGED <<pages, open>>
      BY <2>5 DEF Complete, buffers
    <3>2. flight = pages[send] /\ send \in Buffers
      BY <2>5 DEF Complete, IInv, Contents, TypeOK
    <3>3. flight \in Seq(Seq(Copied'))
      BY <2>0, <3>2
    <3>4. FlattenSeq(flight) \in Seq(Copied')
      BY <3>3, FlattenType
    <3>5. wire' \in Seq(Copied')
      BY <2>0, <3>1, <3>4
    <3>. QED BY <2>0, <3>1, <3>5
  <2>6. \/ UNCHANGED <<pages, open, wire>>
        \/ \E t \in Threads : \/ CopyFits(t) \/ NewPage(t) \/ CopyPutBuff(t) \/ PutOpen(t)
                             \/ Clear(t) \/ Complete(t)
    BY DEF vars, buffers, net, Next, Write, WriteLoad, WriteLock, WriteCheck, WriteStale, WriteUnlock,
           SendBuff, Load, TryLock, TryFails, Busy, BusyFull, WaitLock, TestAndSet, GiveUp, Stale,
           Empty, ClearUnused, StoreWrite, StoreSend, SendUnlock, AsyncSend, WSASend, WSASendFails,
           OnSend, CompleteFails, ClearFlag, HandlerReturns
  <2>. QED BY <2>1, <2>2, <2>3, <2>4, <2>5, <2>6
<1>. QED BY <1>2, CopiedGrows DEF Fresh

\* Leaving, by where the exchange is; there is one thread in it at most.
OnItsWay == {"put_open", "store_send", "send_unlock", "wsasend"}

LeavingWhere ==
  /\ \A t \in Threads :
       /\ pc[t] = "put_open" => Leaving = FlattenSeq(pages[cur[t]]) \o open[cur[t]]
       /\ pc[t] \in OnItsWay \ {"put_open"} => Leaving = FlattenSeq(pages[cur[t]])
  /\ (\A t \in Threads : pc[t] \notin OnItsWay) =>
       Leaving = IF flight # <<>> \/ broken THEN FlattenSeq(pages[send]) ELSE <<>>

LEMMA LeavingIs == IInv => LeavingWhere
<1> SUFFICES ASSUME IInv PROVE LeavingWhere
  OBVIOUS
<1>1. ASSUME NEW t \in Threads, pc[t] = "put_open"
      PROVE  Leaving = FlattenSeq(pages[cur[t]]) \o open[cur[t]]
  <2>1. \A u \in Threads : pc[u] = "put_open" => u = t
    BY <1>1 DEF IInv, FlagOnce, FlagSteps
  <2>2. (CHOOSE u \in Threads : pc[u] = "put_open") = t
    BY <1>1, <2>1
  <2>. QED BY <1>1, <2>2 DEF Leaving
<1>2. ASSUME NEW t \in Threads, pc[t] \in OnItsWay \ {"put_open"}
      PROVE  Leaving = FlattenSeq(pages[cur[t]])
  <2>1. \A u \in Threads : pc[u] \in OnItsWay => u = t
    BY <1>2 DEF IInv, FlagOnce, FlagSteps, OnItsWay
  <2>2. (CHOOSE u \in Threads : pc[u] \in {"store_send", "send_unlock", "wsasend"}) = t
    BY <1>2, <2>1 DEF OnItsWay
  <2>3. ~ \E u \in Threads : pc[u] = "put_open"
    BY <1>2, <2>1 DEF OnItsWay
  <2>4. pc[t] \in {"store_send", "send_unlock", "wsasend"}
    BY <1>2 DEF OnItsWay
  <2>. QED BY <2>2, <2>3, <2>4 DEF Leaving
<1>3. ASSUME \A t \in Threads : pc[t] \notin OnItsWay
      PROVE  Leaving = IF flight # <<>> \/ broken THEN FlattenSeq(pages[send]) ELSE <<>>
  BY <1>3 DEF Leaving, OnItsWay
<1>. QED BY <1>1, <1>2, <1>3 DEF LeavingWhere

LEMMA LeavingNext == IInv /\ [Next]_vars => LeavingWhere'
BY IInvNext, LeavingIs, PTL

\* It is a sequence of messages that were copied.
LEMMA UnsentType ==
  ASSUME IInv, Fresh
  PROVE  /\ Leaving \in Seq(Copied) /\ FlattenSeq(pages[write]) \in Seq(Copied)
         /\ open[write] \in Seq(Copied) /\ Unsent \in Seq(Copied) /\ wire \in Seq(Copied)
<1>1. \A b \in Buffers : pages[b] \in Seq(Seq(Copied)) /\ open[b] \in Seq(Copied)
  BY DEF Fresh
<1>2. \A b \in Buffers : FlattenSeq(pages[b]) \in Seq(Copied)
  BY <1>1, FlattenType
<1>3. Leaving \in Seq(Copied)
  <2>1. <<>> \in Seq(Copied)
    OBVIOUS
  <2>2. \A b \in Buffers : FlattenSeq(pages[b]) \o open[b] \in Seq(Copied)
    BY <1>1, <1>2
  <2>3. send \in Buffers /\ \A t \in Threads : cur[t] \in Buffers
    BY DEF IInv, TypeOK
  <2>. QED BY <1>2, <2>1, <2>2, <2>3, LeavingIs DEF LeavingWhere, OnItsWay
<1>4. write \in Buffers
  BY DEF IInv, TypeOK
<1>. QED BY <1>1, <1>2, <1>3, <1>4 DEF Unsent, Fresh

\* It stays while nobody goes a step of the exchange and the kernel has what it had.
LEMMA LeavingSame ==
  ASSUME IInv, [Next]_vars, UNCHANGED <<write, send, flight, broken>>,
         \A b \in Buffers \ {write} : pages'[b] = pages[b] /\ open'[b] = open[b],
         \A t \in Threads : pc[t] \in OnItsWay \/ pc'[t] \in OnItsWay
                            => pc'[t] = pc[t] /\ cur'[t] = cur[t]
  PROVE  Leaving' = Leaving
<1>1. LeavingWhere /\ LeavingWhere'
  BY LeavingIs, LeavingNext
<1>2. CASE \E t \in Threads : pc[t] \in OnItsWay
  <2>1. PICK t \in Threads : pc[t] \in OnItsWay
    BY <1>2
  <2>2. cur[t] \in Buffers \ {write}
    BY <2>1 DEF IInv, TypeOK, Current, OnItsWay, Exchanging, FlagOnce, FlagSteps
  <2>3. pages'[cur[t]] = pages[cur[t]] /\ open'[cur[t]] = open[cur[t]] /\ pc'[t] = pc[t] /\ cur'[t] = cur[t]
    BY <2>1, <2>2
  <2>4. CASE pc[t] = "put_open"
    <3>1. Leaving = FlattenSeq(pages[cur[t]]) \o open[cur[t]]
      BY <1>1, <2>4 DEF LeavingWhere
    <3>2. Leaving' = FlattenSeq(pages'[cur'[t]]) \o open'[cur'[t]]
      BY <1>1, <2>3, <2>4 DEF LeavingWhere
    <3>3. pages'[cur'[t]] = pages[cur[t]] /\ open'[cur'[t]] = open[cur[t]]
      BY <2>3
    <3>. QED BY <3>1, <3>2, <3>3
  <2>5. CASE pc[t] # "put_open"
    <3>1. Leaving = FlattenSeq(pages[cur[t]])
      BY <1>1, <2>1, <2>5 DEF LeavingWhere
    <3>2. pc'[t] \in OnItsWay \ {"put_open"}
      BY <2>1, <2>3, <2>5
    <3>3. Leaving' = FlattenSeq(pages'[cur'[t]])
      BY <1>1, <3>2 DEF LeavingWhere
    <3>4. pages'[cur'[t]] = pages[cur[t]]
      BY <2>3
    <3>. QED BY <3>1, <3>3, <3>4
  <2>. QED BY <2>4, <2>5
<1>3. CASE \A t \in Threads : pc[t] \notin OnItsWay
  <2>1. send \in Buffers \ {write}
    BY <1>3 DEF IInv, TypeOK, Current, OnItsWay, Exchanging
  <2>2. \A t \in Threads : pc'[t] \notin OnItsWay
    BY <1>3
  <2>. QED BY <1>1, <1>3, <2>1, <2>2 DEF LeavingWhere
<1>. QED BY <1>2, <1>3

\* A writer appends its message, ...
LEMMA AcceptStep ==
  ASSUME IInv, Fresh, NEW t \in Threads, CopyFits(t) \/ NewPage(t)
  PROVE  Stream!Accept(msg[t])
<1>1. Next
  BY DEF Next, Write
<1>2. /\ pc[t] \in {"copy", "new_page"} /\ pc' = [pc EXCEPT ![t] = "write_unlock"]
      /\ UNCHANGED <<write, send, pages, flight, wire, broken, cur>>
  BY DEF CopyFits, NewPage, net, Goto
<1>3. cur[t] = write /\ write \in Buffers
  BY <1>2 DEF IInv, TypeOK, Current
<1>4. open' = [open EXCEPT ![write] = Append(open[write], msg[t])]
  <2>1. CASE CopyFits(t)
    BY <1>3, <2>1 DEF CopyFits
  <2>2. CASE NewPage(t)
    <3>1. slide[write] = 0
      BY <1>3, <2>2 DEF NewPage, IInv, Contents
    <3>2. open[write] = <<>>
      BY <1>3, <3>1 DEF IInv, TypeOK
    <3>3. Append(<<>>, msg[t]) = <<msg[t]>>
      OBVIOUS
    <3>. QED BY <1>3, <2>2, <3>2, <3>3 DEF NewPage
  <2>. QED BY <2>1, <2>2
<1>5. Leaving' = Leaving
  <2>1. \A b \in Buffers \ {write} : open'[b] = open[b]
    BY <1>4 DEF IInv, TypeOK
  <2>2. \A u \in Threads : pc[u] \in OnItsWay \/ pc'[u] \in OnItsWay => pc'[u] = pc[u]
    BY <1>2 DEF IInv, TypeOK, OnItsWay
  <2>. QED BY <1>1, <1>2, <2>1, <2>2, LeavingSame
<1>6. open'[write'] = Append(open[write], msg[t])
  BY <1>2, <1>3, <1>4 DEF IInv, TypeOK
<1>7. msg[t] \in Messages /\ msg[t] \notin Copied
  BY <1>2, JustCopied DEF IInv, Contents, WriteSteps
<1>8. Unsent' = Append(Unsent, msg[t])
  <2>. DEFINE q == Leaving \o FlattenSeq(pages[write])
  <2>1. Unsent' = q \o Append(open[write], msg[t])
    BY <1>2, <1>5, <1>6 DEF Unsent
  <2>2. q \in Seq(Messages) /\ open[write] \in Seq(Messages)
    <3>1. Copied \subseteq Messages
      BY SizesAssumption DEF Copied, Messages, IInv, TypeOK
    <3>. QED BY <3>1, UnsentType, GrowSeq, ConcatProperties
  <2>3. Unsent = q \o open[write]
    BY DEF Unsent
  <2>. HIDE DEF q
  <2>4. q \o Append(open[write], msg[t]) = Append(q \o open[write], msg[t])
    <3>. DEFINE o == open[write]
    <3>. HIDE DEF o
    <3>1. o \in Seq(Messages)
      BY <2>2 DEF o
    <3>2. q \o Append(o, msg[t]) = Append(q \o o, msg[t])
      BY <1>7, <2>2, <3>1
    <3>. QED BY <3>2 DEF o
  <2>. QED BY <2>1, <2>3, <2>4
<1>9. /\ \A i \in DOMAIN Unsent : Unsent[i] # msg[t]
      /\ \A i \in DOMAIN wire : wire[i] # msg[t]
  BY <1>7, UnsentType
<1>. QED BY <1>2, <1>8, <1>9 DEF Stream!Accept

\* ... the completion sends what was taken, ...
LEMMA SendStep ==
  ASSUME IInv, Fresh, NEW t \in Threads, Complete(t)
  PROVE  \E n \in 1 .. Len(Unsent) : Stream!Send(n)
<1>1. Next
  BY DEF Next, OnSend
<1>2. /\ flight # <<>> /\ wire' = wire \o FlattenSeq(flight) /\ flight' = <<>>
      /\ pc[t] = "idle" /\ pc' = [pc EXCEPT ![t] = "clear"]
      /\ UNCHANGED <<write, send, pages, open, broken>>
  BY DEF Complete, buffers, Goto
<1>3. \A u \in Threads : pc[u] \notin OnItsWay /\ pc'[u] \notin OnItsWay
  BY <1>2 DEF IInv, TypeOK, FlagOnce, FlagSteps, OnItsWay
<1>4. flight = pages[send] /\ ~ broken
  BY <1>2 DEF IInv, Contents, FlagOnce
<1>5. Leaving = FlattenSeq(flight) /\ Leaving' = <<>>
  BY <1>1, <1>2, <1>3, <1>4, LeavingIs, LeavingNext DEF LeavingWhere
<1>6. FlattenSeq(flight) # <<>>
  <2>0. flight \in Seq(Seq(Messages) \ {<<>>})
    BY DEF IInv, TypeOK
  <2>1. flight \in Seq(Seq(Messages)) /\ flight[Len(flight)] # <<>>
    <3>1. Len(flight) \in 1 .. Len(flight)
      BY <1>2, <2>0
    <3>2. flight[Len(flight)] \in Seq(Messages) \ {<<>>}
      BY <2>0, <3>1
    <3>3. flight \in Seq(Seq(Messages))
      BY <2>0
    <3>. QED BY <3>2, <3>3
  <2>. QED BY <1>2, <2>1, FlattenType
<1>. DEFINE l == Leaving
            p == FlattenSeq(pages[write])
            o == open[write]
            r == p \o o
<1>7. l \in Seq(Copied) /\ p \in Seq(Copied) /\ o \in Seq(Copied) /\ l # <<>>
  BY <1>5, <1>6, UnsentType
<1>8. Unsent = (l \o p) \o o /\ Unsent' = (<<>> \o p) \o o
  BY <1>2, <1>5 DEF Unsent
<1>9. wire' = wire \o l
  BY <1>2, <1>5
<1>. HIDE DEF l, p, o
<1>10. Unsent = l \o r /\ r \in Seq(Copied) /\ Unsent' = r
  BY <1>7, <1>8, ConcatAssociative, ConcatProperties, ConcatEmptySeq
<1>. HIDE DEF r
<1>11. SubSeq(Unsent, 1, Len(l)) = l /\ SubSeq(Unsent, Len(l) + 1, Len(Unsent)) = r
  BY <1>7, <1>10, SubSeqOfConcat
<1>12. Len(l) \in 1 .. Len(Unsent)
  BY <1>7, <1>10
<1>13. Stream!Send(Len(l))
  BY <1>9, <1>10, <1>11 DEF Stream!Send
<1>. QED BY <1>12, <1>13

\* ... and with every other step the messages only change their place.
LEMMA BufferTypes ==
  ASSUME IInv
  PROVE  \A b \in Buffers : /\ pages[b] \in Seq(Seq(Messages)) /\ open[b] \in Seq(Messages)
                           /\ FlattenSeq(pages[b]) \in Seq(Messages)
<1>1. \A b \in Buffers : pages[b] \in Seq(Seq(Messages)) /\ open[b] \in Seq(Messages)
  BY DEF IInv, TypeOK
<1>. QED BY <1>1, FlattenType

LEMMA PutBuffFlattens ==
  ASSUME IInv, NEW b \in Buffers, PutBuff(b)
  PROVE  /\ FlattenSeq(pages'[b]) = FlattenSeq(pages[b]) \o open[b]
         /\ \A c \in Buffers \ {b} : pages'[c] = pages[c]
<1>1. CASE slide[b] > 0
  <2>1. pages' = [pages EXCEPT ![b] = Append(pages[b], open[b])]
    BY <1>1 DEF PutBuff
  <2>2. pages'[b] = Append(pages[b], open[b]) /\ \A c \in Buffers \ {b} : pages'[c] = pages[c]
    BY <2>1 DEF IInv, TypeOK
  <2>. QED BY <2>2, BufferTypes, FlattenAppend
<1>2. CASE ~ (slide[b] > 0)
  <2>1. pages' = pages /\ open[b] = <<>>
    BY <1>2 DEF PutBuff, IInv, TypeOK
  <2>. QED BY <2>1, BufferTypes, ConcatEmptySeq
<1>. QED BY <1>1, <1>2

LEMMA StreamStays ==
  ASSUME IInv, Fresh, [Next]_vars,
         \A t \in Threads : ~ CopyFits(t) /\ ~ NewPage(t) /\ ~ Complete(t)
  PROVE  Unsent' = Unsent /\ wire' = wire
<1> USE DEF Goto, net, locals, Return
<1>1. LeavingWhere /\ LeavingWhere'
  BY LeavingIs, LeavingNext
<1>2. /\ write \in Buffers /\ send \in Buffers /\ \A t \in Threads : cur[t] \in Buffers
      /\ Leaving \in Seq(Messages)
  <2>1. Copied \subseteq Messages
    BY SizesAssumption DEF Copied, Messages, IInv, TypeOK
  <2>. QED BY <2>1, UnsentType, GrowSeq DEF IInv, TypeOK
<1>3. CASE UNCHANGED vars
  <2>1. UNCHANGED <<write, send, pages, open, flight, wire, broken, pc, cur>>
    BY <1>3 DEF vars, buffers
  <2>2. Leaving' = Leaving
    BY <2>1, LeavingSame
  <2>. QED BY <2>1, <2>2 DEF Unsent
<1>4. ASSUME NEW t \in Threads, CopyPutBuff(t) PROVE Unsent' = Unsent /\ wire' = wire
  <2>1. /\ pc[t] = "copy" /\ pc' = [pc EXCEPT ![t] = "new_page"] /\ PutBuff(cur[t])
        /\ open' = [open EXCEPT ![cur[t]] = <<>>]
        /\ UNCHANGED <<write, send, flight, wire, broken, cur>>
    BY <1>4 DEF CopyPutBuff
  <2>2. cur[t] = write
    BY <2>1 DEF IInv, Current
  <2>3. /\ FlattenSeq(pages'[write]) = FlattenSeq(pages[write]) \o open[write]
        /\ \A b \in Buffers \ {write} : pages'[b] = pages[b]
    BY <1>2, <2>1, <2>2, PutBuffFlattens
  <2>4. open'[write] = <<>> /\ \A b \in Buffers \ {write} : open'[b] = open[b]
    BY <2>1, <2>2 DEF IInv, TypeOK
  <2>5. \A u \in Threads : pc[u] \in OnItsWay \/ pc'[u] \in OnItsWay => pc'[u] = pc[u]
    BY <2>1 DEF IInv, TypeOK, OnItsWay
  <2>6. Leaving' = Leaving
    BY <2>1, <2>3, <2>4, <2>5, LeavingSame
  <2>7. Unsent' = (Leaving \o (FlattenSeq(pages[write]) \o open[write])) \o <<>>
    BY <2>1, <2>3, <2>4, <2>6 DEF Unsent
  <2>. DEFINE p == FlattenSeq(pages[write])
              o == open[write]
  <2>8. p \in Seq(Messages) /\ o \in Seq(Messages) /\ Unsent = (Leaving \o p) \o o
    BY <1>2, BufferTypes DEF Unsent
  <2>. HIDE DEF p, o
  <2>9. Unsent' = (Leaving \o (p \o o)) \o <<>>
    BY <2>7 DEF p, o
  <2>10. (Leaving \o (p \o o)) \o <<>> = (Leaving \o p) \o o
    BY <1>2, <2>8, ConcatAssociative, ConcatProperties, ConcatEmptySeq
  <2>. QED BY <2>1, <2>8, <2>9, <2>10
<1>5. ASSUME NEW t \in Threads, StoreWrite(t) PROVE Unsent' = Unsent /\ wire' = wire
  <2>1. /\ pc[t] = "store_write" /\ pc' = [pc EXCEPT ![t] = "put_open"] /\ write' = send
        /\ UNCHANGED <<send, pages, open, flight, wire, broken, cur>>
    BY <1>5 DEF StoreWrite
  <2>2. \A u \in Threads : pc[u] \in FlagSteps => u = t
    BY <2>1 DEF IInv, FlagOnce, FlagSteps
  <2>3. flight = <<>> /\ ~ broken /\ \A u \in Threads : pc[u] \notin OnItsWay /\ pc[u] \notin LeavingSteps
    BY <2>1, <2>2 DEF IInv, FlagOnce, FlagSteps, OnItsWay, LeavingSteps, Exchanging
  <2>4. Leaving = <<>>
    BY <1>1, <2>3 DEF LeavingWhere
  <2>5. pages[send] = <<>> /\ open[send] = <<>>
    BY <1>2, <2>3 DEF IInv, SendEmpty, TypeOK
  <2>6. cur[t] = write /\ pc'[t] = "put_open"
    BY <2>1 DEF IInv, TypeOK, Current
  <2>7. Leaving' = FlattenSeq(pages[write]) \o open[write]
    BY <1>1, <2>1, <2>6 DEF LeavingWhere
  <2>8. Unsent' = ((FlattenSeq(pages[write]) \o open[write]) \o <<>>) \o <<>>
    BY <2>1, <2>5, <2>7, FlattenEmpty DEF Unsent
  <2>9. Unsent = (<<>> \o FlattenSeq(pages[write])) \o open[write]
    BY <2>4 DEF Unsent
  <2>. QED BY <1>2, <2>1, <2>8, <2>9, BufferTypes, ConcatProperties, ConcatEmptySeq
<1>6. ASSUME NEW t \in Threads, PutOpen(t) PROVE Unsent' = Unsent /\ wire' = wire
  <2>1. /\ pc[t] = "put_open" /\ pc' = [pc EXCEPT ![t] = "store_send"] /\ PutBuff(cur[t])
        /\ UNCHANGED <<write, send, open, flight, wire, broken, cur>>
    BY <1>6 DEF PutOpen
  <2>2. cur[t] \in Buffers /\ cur[t] # write /\ pc'[t] = "store_send"
    BY <2>1 DEF IInv, TypeOK, Current, Exchanging
  <2>3. /\ FlattenSeq(pages'[cur[t]]) = FlattenSeq(pages[cur[t]]) \o open[cur[t]]
        /\ pages'[write] = pages[write]
    BY <1>2, <2>1, <2>2, PutBuffFlattens
  <2>4. Leaving = FlattenSeq(pages[cur[t]]) \o open[cur[t]]
    BY <1>1, <2>1 DEF LeavingWhere
  <2>5. Leaving' = FlattenSeq(pages'[cur[t]])
    BY <1>1, <2>1, <2>2 DEF LeavingWhere, OnItsWay
  <2>. QED BY <2>1, <2>3, <2>4, <2>5 DEF Unsent
<1>7. ASSUME NEW t \in Threads, StoreSend(t) \/ SendUnlock(t) PROVE Unsent' = Unsent /\ wire' = wire
  <2>1. /\ pc[t] \in OnItsWay \ {"put_open"} /\ pc'[t] \in OnItsWay \ {"put_open"}
        /\ UNCHANGED <<write, pages, open, wire, cur>>
    BY <1>7 DEF StoreSend, SendUnlock, OnItsWay, IInv, TypeOK
  <2>2. Leaving = FlattenSeq(pages[cur[t]]) /\ Leaving' = FlattenSeq(pages[cur[t]])
    BY <1>1, <2>1 DEF LeavingWhere
  <2>. QED BY <2>1, <2>2 DEF Unsent
<1>8. ASSUME NEW t \in Threads, WSASend(t) \/ WSASendFails(t) PROVE Unsent' = Unsent /\ wire' = wire
  <2>1. /\ pc[t] = "wsasend" /\ pc' = [pc EXCEPT ![t] = IF handler[t] THEN "load" ELSE "idle"]
        /\ UNCHANGED <<write, send, pages, open, wire>>
        /\ flight' = pages[send] \/ broken'
    BY <1>8 DEF WSASend, WSASendFails, buffers
  <2>2. cur[t] = send /\ pages[send] # <<>>
    BY <2>1 DEF IInv, Current, Contents
  <2>3. Leaving = FlattenSeq(pages[send])
    BY <1>1, <2>1, <2>2 DEF LeavingWhere, OnItsWay
  <2>4. \A u \in Threads : pc'[u] \notin OnItsWay
    <3>1. \A u \in Threads \ {t} : pc[u] \notin OnItsWay
      BY <2>1 DEF IInv, FlagOnce, FlagSteps, OnItsWay
    <3>. QED BY <2>1, <3>1 DEF IInv, TypeOK, OnItsWay
  <2>5. Leaving' = FlattenSeq(pages[send])
    BY <1>1, <2>1, <2>2, <2>4 DEF LeavingWhere
  <2>. QED BY <2>1, <2>3, <2>5 DEF Unsent
<1>9. ASSUME NEW t \in Threads, CompleteFails(t) PROVE Unsent' = Unsent /\ wire' = wire
  <2>1. flight # <<>> /\ broken' /\ UNCHANGED <<write, send, pages, open, wire, pc>>
    BY <1>9 DEF CompleteFails, buffers
  <2>2. \A u \in Threads : pc[u] \notin OnItsWay
    BY <2>1 DEF IInv, FlagOnce, FlagSteps, OnItsWay
  <2>3. Leaving' = Leaving
    BY <1>1, <2>1, <2>2 DEF LeavingWhere
  <2>. QED BY <2>1, <2>3 DEF Unsent
<1>10. ASSUME NEW t \in Threads, Clear(t) PROVE Unsent' = Unsent /\ wire' = wire
  <2>1. /\ pc[t] = "clear" /\ pc' = [pc EXCEPT ![t] = "clear_flag"]
        /\ pages' = [pages EXCEPT ![send] = <<>>] /\ open' = [open EXCEPT ![send] = <<>>]
        /\ UNCHANGED <<write, send, flight, wire, broken>>
    BY <1>10 DEF Clear
  <2>2. \A u \in Threads : pc[u] \in FlagSteps => u = t
    BY <2>1 DEF IInv, FlagOnce, FlagSteps
  <2>3. /\ flight = <<>> /\ ~ broken
        /\ \A u \in Threads : pc[u] \notin OnItsWay /\ pc'[u] \notin OnItsWay
    BY <2>1, <2>2 DEF IInv, TypeOK, FlagOnce, FlagSteps, OnItsWay
  <2>4. send # write
    BY <2>3 DEF IInv, Current, Exchanging, OnItsWay
  <2>5. Leaving = <<>> /\ Leaving' = <<>>
    BY <1>1, <2>1, <2>3 DEF LeavingWhere
  <2>6. pages'[write] = pages[write] /\ open'[write] = open[write]
    BY <1>2, <2>1, <2>4 DEF IInv, TypeOK
  <2>. QED BY <2>1, <2>5, <2>6 DEF Unsent
<1>11. ASSUME NEW t \in Threads,
              \/ AsyncSend(t) \/ WriteLoad(t) \/ WriteLock(t) \/ WriteCheck(t) \/ WriteStale(t)
              \/ WriteUnlock(t) \/ Load(t) \/ TryLock(t) \/ TryFails(t) \/ Busy(t) \/ BusyFull(t)
              \/ WaitLock(t) \/ TestAndSet(t) \/ GiveUp(t) \/ Stale(t) \/ Empty(t)
              \/ ClearUnused(t) \/ ClearFlag(t) \/ HandlerReturns(t)
       PROVE  Unsent' = Unsent /\ wire' = wire
  <2>1. UNCHANGED <<write, send, pages, open, flight, wire, broken>>
    BY <1>11 DEF AsyncSend, WriteLoad, WriteLock, WriteCheck, WriteStale, WriteUnlock, Load, TryLock,
                 TryFails, Busy, BusyFull, WaitLock, TestAndSet, GiveUp, Stale, Empty, ClearUnused,
                 ClearFlag, HandlerReturns, buffers
  <2>2. \A u \in Threads \ {t} : pc'[u] = pc[u] /\ cur'[u] = cur[u]
    BY <1>11 DEF AsyncSend, WriteLoad, WriteLock, WriteCheck, WriteStale, WriteUnlock, Load, TryLock,
                 TryFails, Busy, BusyFull, WaitLock, TestAndSet, GiveUp, Stale, Empty, ClearUnused,
                 ClearFlag, HandlerReturns, IInv, TypeOK
  <2>3. pc[t] \notin OnItsWay
    BY <1>11 DEF AsyncSend, WriteLoad, WriteLock, WriteCheck, WriteStale, WriteUnlock, Load, TryLock,
                 TryFails, Busy, BusyFull, WaitLock, TestAndSet, GiveUp, Stale, Empty, ClearUnused,
                 ClearFlag, HandlerReturns, OnItsWay
  <2>4. pc'[t] \notin OnItsWay
    BY <1>11 DEF AsyncSend, WriteLoad, WriteLock, WriteCheck, WriteStale, WriteUnlock, Load, TryLock,
                 TryFails, Busy, BusyFull, WaitLock, TestAndSet, GiveUp, Stale, Empty, ClearUnused,
                 ClearFlag, HandlerReturns, OnItsWay, IInv, TypeOK
  <2>5. Leaving' = Leaving
    BY <2>1, <2>2, <2>3, <2>4, LeavingSame
  <2>. QED BY <2>1, <2>5 DEF Unsent
<1>. QED
  BY <1>3, <1>4, <1>5, <1>6, <1>7, <1>8, <1>9, <1>10, <1>11 DEF Next, Write, SendBuff, OnSend

\* async_send keeps the promise of SendStream: no message is lost, doubled or out
\* of order on the way through the two buffers (sock_buff.cpp:127-260).
THEOREM WriteBuffImplementsStream == Spec => ImplementsStream
<1>1. Init => Fresh
  <2>. SUFFICES ASSUME Init PROVE Fresh
    OBVIOUS
  <2>1. <<>> \in Seq(Copied) /\ <<>> \in Seq(Seq(Copied) \ {<<>>})
    OBVIOUS
  <2>. QED BY <2>1 DEF Init, Fresh
<1>2. Init => Stream!Init
  <2>. SUFFICES ASSUME Init PROVE Stream!Init
    OBVIOUS
  <2>1. Leaving = <<>>
    BY DEF Init, Leaving
  <2>2. Unsent = (<<>> \o <<>>) \o <<>>
    BY <2>1, FlattenEmpty DEF Init, Unsent, Buffers
  <2>3. <<>> \o <<>> = <<>>
    OBVIOUS
  <2>. QED BY <2>2, <2>3 DEF Init, Stream!Init
<1>3. IInv /\ Fresh /\ [Next]_vars => [Stream!Next]_<<Unsent, wire>>
  <2>. SUFFICES ASSUME IInv, Fresh, [Next]_vars PROVE [Stream!Next]_<<Unsent, wire>>
    OBVIOUS
  <2>1. ASSUME NEW t \in Threads, CopyFits(t) \/ NewPage(t) PROVE Stream!Next
    <3>1. msg[t] \in Messages
      BY <2>1 DEF CopyFits, NewPage, IInv, Contents, WriteSteps
    <3>. QED BY <2>1, <3>1, AcceptStep DEF Stream!Next
  <2>2. ASSUME NEW t \in Threads, Complete(t) PROVE Stream!Next
    BY <2>2, SendStep DEF Stream!Next
  <2>. QED BY <2>1, <2>2, StreamStays
<1>4. Fresh /\ IInv /\ [Next]_vars => Fresh'
  BY FreshStep
<1>. QED BY <1>1, <1>2, <1>3, <1>4, Invariant, PTL DEF Spec, ImplementsStream, Stream!Spec
=============================================================================
