----------------------------- MODULE SendStream -----------------------------
(***************************************************************************)
(* What async_send promises of one socket: the messages reach the wire in  *)
(* the order in which write() took them, each once and whole.  A message   *)
(* may stay in the queue, for the connection may break.                    *)
(***************************************************************************)
EXTENDS Sequences, Integers

CONSTANT Messages

VARIABLES
  queue,   \* the messages taken and not sent
  wire     \* the messages sent

Init == queue = <<>> /\ wire = <<>>

\* async_send: each message is given once.
Accept(m) ==
  /\ \A i \in DOMAIN queue : queue[i] # m
  /\ \A i \in DOMAIN wire : wire[i] # m
  /\ queue' = Append(queue, m)
  /\ UNCHANGED wire

\* A WSASend takes some messages from the front.
Send(n) ==
  /\ wire' = wire \o SubSeq(queue, 1, n)
  /\ queue' = SubSeq(queue, n + 1, Len(queue))

Next == (\E m \in Messages : Accept(m)) \/ (\E n \in 1 .. Len(queue) : Send(n))

Spec == Init /\ [][Next]_<<queue, wire>>
=============================================================================
