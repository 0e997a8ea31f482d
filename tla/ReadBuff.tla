------------------------------- MODULE ReadBuff -------------------------------
(***************************************************************************)
(* async_net: read_buff, and the receiving side of socket_base_win32 that  *)
(* drives it, for a socket that is connected and has its handler.          *)
(*                                                                         *)
(* async_recv(true) leaves an empty WSARecv with the kernel.  It completes *)
(* when there is something to read; OnRecv then reads with recv() until    *)
(* there is no more, doubles the buffer whenever it is full, hands it to   *)
(* the handler if isrecv is set, and leaves the next WSARecv.              *)
(*                                                                         *)
(* What the peer sends is a stream of units 1, 2, 3, ...  A buffer is      *)
(* known by the number of times it was doubled: a page is given back to    *)
(* BuffPool, and a larger buffer freed, when the next takes its place, so  *)
(* every buffer before the present one is not the socket's any more.       *)
(*                                                                         *)
(* All threads may be given a completion and all may call async_recv; a    *)
(* call in the handler does what one by another thread does meanwhile.     *)
(***************************************************************************)
EXTENDS Integers, SequencesExt

CONSTANTS
  Threads,    \* users and threads of the service
  MaxUnits,   \* bound on what the peer sends
  MaxCalls,   \* bound on the calls of async_recv
  PageSize    \* page_size

ASSUME PageSizeAssumption == PageSize \in Nat \ {0}
ASSUME BoundsAssumption == MaxUnits \in Nat /\ MaxCalls \in Nat

VARIABLES
  arrived,        \* the units the kernel has got; ...
  taken,          \* ... recv() took those up to this one
  peer,           \* "open", "closed", or "reset"
  armed, ready,   \* the WSARecv that wait, and that are complete
  isrecv,
  buf,            \* buff: the times the buffer was doubled
  cells, slide,   \* its contents, and how much of them counts
  pc,
  at,             \* at[t]: where recv() writes: the buffer, the place in it, the room
  got,            \* got[t]: llen, -1 when recv() failed
  given,          \* what the handler was given
  lost,           \* history: what a short recv() left after slide
  stray,          \* a buffer was written that is not the socket's any more
  failed,         \* the connection failed, or a WSARecv
  twice,          \* async_recv left a WSARecv while another was under way
  calls

stream == <<arrived, taken, peer>>
ops == <<armed, ready>>
buffer == <<buf, cells, slide>>
locals == <<at, got>>
history == <<given, lost, stray, failed, twice>>
vars == <<stream, ops, isrecv, buffer, pc, locals, history, calls>>

Room(b) == PageSize * 2 ^ b

\* The constructor, and a socket that was just connected
Init ==
  /\ arrived = 0 /\ taken = 0 /\ peer = "open"
  /\ armed = 0 /\ ready = 0
  /\ isrecv = FALSE
  /\ buf = 0 /\ cells = [i \in 1 .. PageSize |-> 0] /\ slide = 0
  /\ pc = [t \in Threads |-> "idle"]
  /\ at = [t \in Threads |-> <<0, 0, 0>>]
  /\ got = [t \in Threads |-> 0]
  /\ given = <<>> /\ lost = {}
  /\ stray = FALSE /\ failed = FALSE /\ twice = FALSE
  /\ calls = 0

Goto(t, l) == pc' = [pc EXCEPT ![t] = l]

OnRecvSteps == {"size", "recv", "advance", "test", "handler", "reset", "arm"}
AsyncRecvSteps == {"flush", "flush_reset", "arm_first"}

\* Those that see to it that there will be a next WSARecv
Receivers ==
  armed + ready + Cardinality({t \in Threads : pc[t] \in OnRecvSteps \cup AsyncRecvSteps})

-----------------------------------------------------------------------------
(* The peer and the kernel                                                 *)

Arrive ==
  /\ peer = "open" /\ arrived < MaxUnits
  /\ arrived' = arrived + 1
  /\ UNCHANGED <<taken, peer, ops, isrecv, buffer, pc, locals, history, calls>>

PeerEnds(how) ==
  /\ peer = "open"
  /\ peer' = how
  /\ UNCHANGED <<arrived, taken, ops, isrecv, buffer, pc, locals, history, calls>>

\* A WSARecv without a buffer is complete when there is something to read, an
\* end included.
Signal ==
  /\ armed > 0 /\ (arrived > taken \/ peer # "open")
  /\ armed' = armed - 1 /\ ready' = ready + 1
  /\ UNCHANGED <<stream, isrecv, buffer, pc, locals, history, calls>>

-----------------------------------------------------------------------------
(* async_recv                                                              *)

StartCall(t) == pc[t] = "idle" /\ calls < MaxCalls /\ calls' = calls + 1

RecvOff(t) ==
  /\ StartCall(t)
  /\ isrecv' = FALSE
  /\ UNCHANGED <<stream, ops, buffer, pc, locals, history>>

RecvOn(t) ==
  /\ StartCall(t)
  /\ Goto(t, IF isrecv THEN "idle" ELSE "set")
  /\ UNCHANGED <<stream, ops, isrecv, buffer, locals, history>>

\* Mutant of SetRecv: what is in the buffer stays there.
SetRecvOnly(t) ==
  /\ pc[t] = "set"
  /\ isrecv' = TRUE
  /\ twice' = (twice \/ Receivers > 0)
  /\ Goto(t, "arm_first")
  /\ UNCHANGED <<stream, ops, buffer, locals, given, lost, stray, failed, calls>>

\* isrecv was tested a step ago.
SetRecv(t) ==
  /\ pc[t] = "set"
  /\ isrecv' = TRUE
  /\ twice' = (twice \/ Receivers > 0)
  /\ Goto(t, IF slide > 0 THEN "flush" ELSE "arm_first")
  /\ UNCHANGED <<stream, ops, buffer, locals, given, lost, stray, failed, calls>>

\* The handler gets what came while isrecv was not set.
Flush(t) ==
  /\ pc[t] = "flush"
  /\ given' = given \o [i \in 1 .. slide |-> cells[i]]
  /\ Goto(t, "flush_reset")
  /\ UNCHANGED <<stream, ops, isrecv, buffer, locals, lost, stray, failed, twice, calls>>

FlushReset(t) ==
  /\ pc[t] = "flush_reset"
  /\ slide' = 0
  /\ Goto(t, "arm_first")
  /\ UNCHANGED <<stream, ops, isrecv, buf, cells, locals, history, calls>>

\* do_async_recv, and its caller gets the error.
ArmFirst(t) ==
  /\ pc[t] = "arm_first"
  /\ \/ peer # "reset" /\ armed' = armed + 1 /\ UNCHANGED failed
     \/ failed' = TRUE /\ UNCHANGED armed
  /\ Goto(t, "idle")
  /\ UNCHANGED <<stream, ready, isrecv, buffer, locals, given, lost, stray, twice, calls>>

-----------------------------------------------------------------------------
(* The completion and OnRecv                                               *)

\* network(): with an error OnRecv calls the handler and no more.
Complete(t) ==
  /\ pc[t] = "idle" /\ ready > 0
  /\ ready' = ready - 1
  /\ IF peer = "reset"
     THEN failed' = TRUE /\ UNCHANGED pc
     ELSE Goto(t, "size") /\ UNCHANGED failed
  /\ UNCHANGED <<stream, armed, isrecv, buffer, locals, given, lost, stray, twice, calls>>

ReadSize(t) ==
  /\ pc[t] = "size"
  /\ at' = [at EXCEPT ![t] = <<buf, slide, Room(buf) - slide>>]
  /\ Goto(t, "recv")
  /\ UNCHANGED <<stream, ops, isrecv, buffer, got, history, calls>>

\* recv() is over; got is of use as long as it is not 0.
Received(t, n) ==
  /\ got' = [got EXCEPT ![t] = n]
  /\ at' = [at EXCEPT ![t] = <<0, 0, 0>>]

RecvFails(t) ==
  /\ pc[t] = "recv" /\ peer = "reset"
  /\ failed' = TRUE
  /\ Received(t, -1)
  /\ Goto(t, "test")
  /\ UNCHANGED <<stream, ops, isrecv, buffer, given, lost, stray, twice, calls>>

\* WSAEWOULDBLOCK, or 0 after the peer's end: the test of llen < size comes
\* first, and OnRecv goes on without an error.
RecvNothing(t) ==
  /\ pc[t] = "recv" /\ peer # "reset" /\ arrived = taken
  /\ Received(t, 0)
  /\ Goto(t, "test")
  /\ UNCHANGED <<stream, ops, isrecv, buffer, history, calls>>

\* Only what fills the buffer is counted: after a short recv() the loop ends
\* before it moves slide.
Recv(t) ==
  LET b == at[t][1]
      from == at[t][2]
      n == IF arrived - taken < at[t][3] THEN arrived - taken ELSE at[t][3]
      units == taken + 1 .. taken + n
  IN
  /\ pc[t] = "recv" /\ peer # "reset" /\ arrived > taken
  /\ taken' = taken + n
  /\ IF b = buf
     THEN /\ cells' = [i \in DOMAIN cells |->
                         IF i \in from + 1 .. from + n THEN taken + i - from ELSE cells[i]]
          /\ UNCHANGED stray
     ELSE stray' = TRUE /\ UNCHANGED cells
  /\ IF n < at[t][3]
     THEN lost' = lost \cup units /\ Received(t, 0) /\ Goto(t, "test")
     ELSE UNCHANGED lost /\ Received(t, n) /\ Goto(t, "advance")
  /\ UNCHANGED <<arrived, peer, ops, isrecv, buf, slide, given, failed, twice, calls>>

\* Mutant of Advance: slide does not move.
AdvanceNot(t) ==
  /\ pc[t] = "advance"
  /\ buf' = buf + 1
  /\ cells' = [i \in 1 .. Room(buf + 1) |-> IF i <= Room(buf) THEN cells[i] ELSE 0]
  /\ Received(t, 0)
  /\ Goto(t, "size")
  /\ UNCHANGED <<stream, ops, isrecv, slide, history, calls>>

\* The buffer is full: one of twice the size takes its place.
Advance(t) ==
  /\ pc[t] = "advance"
  /\ buf' = buf + 1
  /\ cells' = [i \in 1 .. Room(buf + 1) |-> IF i <= Room(buf) THEN cells[i] ELSE 0]
  /\ slide' = slide + got[t]
  /\ Received(t, 0)
  /\ Goto(t, "size")
  /\ UNCHANGED <<stream, ops, isrecv, history, calls>>

\* The user may have called async_recv(false) meanwhile: what came stays.
IsRecv(t) ==
  /\ pc[t] = "test"
  /\ IF isrecv
     THEN Goto(t, "handler") /\ UNCHANGED locals
     ELSE Goto(t, "idle") /\ Received(t, 0)
  /\ UNCHANGED <<stream, ops, isrecv, buffer, history, calls>>

Handler(t) ==
  /\ pc[t] = "handler"
  /\ given' = given \o [i \in 1 .. slide |-> cells[i]]
  /\ Goto(t, "reset")
  /\ UNCHANGED <<stream, ops, isrecv, buffer, locals, lost, stray, failed, twice, calls>>

\* Mutant of Reset: nothing came, and no WSARecv is left.
ResetAndStop(t) ==
  /\ pc[t] = "reset"
  /\ slide' = 0
  /\ Goto(t, IF got[t] = -1 \/ slide = 0 THEN "idle" ELSE "arm")
  /\ Received(t, 0)
  /\ UNCHANGED <<stream, ops, isrecv, buf, cells, history, calls>>

\* After an error of recv() there is only the handler left to be told.
Reset(t) ==
  /\ pc[t] = "reset"
  /\ slide' = 0
  /\ Goto(t, IF got[t] = -1 THEN "idle" ELSE "arm")
  /\ Received(t, 0)
  /\ UNCHANGED <<stream, ops, isrecv, buf, cells, history, calls>>

\* do_async_recv; its error goes to the handler.
Arm(t) ==
  /\ pc[t] = "arm"
  /\ \/ peer # "reset" /\ armed' = armed + 1 /\ UNCHANGED failed
     \/ failed' = TRUE /\ UNCHANGED armed
  /\ Goto(t, "idle")
  /\ UNCHANGED <<stream, ready, isrecv, buffer, locals, given, lost, stray, twice, calls>>

-----------------------------------------------------------------------------
AsyncRecv(t) ==
  \/ SetRecv(t) \/ Flush(t) \/ FlushReset(t) \/ ArmFirst(t)

OnRecv(t) ==
  \/ ReadSize(t) \/ RecvFails(t) \/ RecvNothing(t) \/ Recv(t) \/ Advance(t)
  \/ IsRecv(t) \/ Handler(t) \/ Reset(t) \/ Arm(t)

Network ==
  \/ Arrive \/ \E how \in {"closed", "reset"} : PeerEnds(how)
  \/ Signal

Next ==
  \/ Network
  \/ \E t \in Threads : RecvOff(t) \/ RecvOn(t) \/ AsyncRecv(t) \/ Complete(t) \/ OnRecv(t)

Spec == Init /\ [][Next]_vars

\* The kernel completes what can be, some thread is in network() to take it,
\* and a thread that runs goes on; nobody has to send, to call or to end.
Fairness ==
  /\ WF_vars(Signal)
  /\ WF_vars(\E t \in Threads : Complete(t))
  /\ \A t \in Threads : WF_vars(AsyncRecv(t) \/ OnRecv(t))

FairSpec == Spec /\ Fairness

-----------------------------------------------------------------------------
Units == 1 .. MaxUnits

TypeOK ==
  /\ arrived \in 0 .. MaxUnits /\ taken \in 0 .. arrived
  /\ peer \in {"open", "closed", "reset"}
  /\ armed \in Nat /\ ready \in Nat
  /\ {isrecv, stray, failed, twice} \subseteq BOOLEAN
  /\ buf \in Nat /\ slide \in 0 .. Room(buf)
  /\ cells \in [1 .. Room(buf) -> {0} \cup Units]
  /\ pc \in [Threads -> {"idle", "set"} \cup OnRecvSteps \cup AsyncRecvSteps]
  /\ at \in [Threads -> Seq(Nat)]
  /\ got \in [Threads -> Int]
  /\ given \in Seq({0} \cup Units) /\ lost \subseteq Units
  /\ calls \in 0 .. MaxCalls

\* What the buffer holds for the handler, with what a recv() has just filled it
\* up with
Held ==
  LET full == {t \in Threads : pc[t] = "advance"}
      more == IF full = {} THEN 0 ELSE got[CHOOSE t \in full : TRUE]
      handed == \E t \in Threads : pc[t] \in {"reset", "flush_reset"}
  IN  IF handed THEN <<>> ELSE [i \in 1 .. slide + more |-> cells[i]]

\* recv() writes into the socket's buffer, never into one that was given back
\* when it was doubled (socket_base_win32.cpp:359-384): there is one OnRecv
\* at a time, unless async_recv(true) came while a WSARecv was still out.
OwnBuffer == stray => twice

\* The handler is given what arrives in its order and no unit twice, and what
\* it was not given is in the buffer, however often the buffer was doubled and
\* the reception turned off and on; with two exceptions.  What a recv() that
\* does not fill the buffer took is in nobody's hands any more, for OnRecv
\* leaves its loop before it counts it (socket_base_win32.cpp:368 and 387):
\* that is lost, and nothing else.  And when two WSARecv share the buffer
\* nothing is said (twice).
StreamInOrder ==
  /\ TypeOK
  /\ OwnBuffer
  /\ ~ twice =>
       LET units == given \o Held IN
       /\ \A i, j \in DOMAIN units : i < j => units[i] < units[j]
       /\ Range(units) = 1 .. taken \ lost

\* The server of test/async_net_test_server.cpp (131-140) is made for the
\* pieces in which a stream arrives: it keeps a piece that is shorter than a
\* message and waits for the rest.  So, with the reception on and no OnRecv or
\* async_recv under way, what recv() took should have reached the handler, all
\* of it.  A short recv() violates this without any concurrency.
ShortReadsDelivered ==
  /\ isrecv /\ ~ twice /\ ~ failed
  /\ \A t \in Threads : pc[t] = "idle"
  => Range(given) = 1 .. taken

\* While isrecv is set somebody is going to leave, or has left, a WSARecv: the
\* thread in OnRecv that read isrecv before async_recv changed it
\* (socket_base_win32.cpp:390) cannot leave the socket deaf.
NeverDeaf == isrecv /\ ~ failed => Receivers > 0

\* While the reception is on, what arrives is taken from the kernel, and what
\* the buffer counts is handed out: neither waits there for ever, whoever
\* turned the reception on and whichever thread read isrecv before.  (What a
\* short recv() lost is counted nowhere and does not wait: see StreamInOrder.)
NothingWaits == []<>((taken = arrived /\ slide = 0) \/ ~ isrecv \/ failed)
=============================================================================
