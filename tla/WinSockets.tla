----------------------------- MODULE WinSockets -----------------------------
(***************************************************************************)
(* async_net: socket_base_win32 as a listener that accepts connections,    *)
(* and as one that connects, and async_service, whose threads take the     *)
(* completions of the kernel one by one.  SocketHandles has the handles    *)
(* and the pool they come from.                                            *)
(*                                                                         *)
(* async_accpet(num, true) leaves one AcceptEx with the kernel, with a     *)
(* socket of the pool for the client; OnAccept leaves the next, as long as *)
(* nConnect was below nMaxConnect, then gives the client to the handler.   *)
(* closesocket leaves a DisconnectEx, and lowers nConnect.                 *)
(*                                                                         *)
(* Any thread may call run(), which takes one completion, and any thread   *)
(* may use a handle it has.  Sending and receiving are in WriteBuff and    *)
(* ReadBuff.  isclosed is never set.                                       *)
(***************************************************************************)
EXTENDS SocketHandles

CONSTANTS
  MaxCalls,   \* bound on the calls of users
  MaxConnect, \* nMaxConnect; every async_accpet sets it to the same
  Wrap,       \* 2^32
  Attempts,   \* 64 for each processor: how often async_accpet tries AcceptEx
  Retries     \* 3: how often OnConnect tries

ASSUME LimitsAssumption ==
  MaxCalls \in Nat /\ MaxConnect \in Nat /\ Wrap \in Nat /\ MaxConnect < Wrap
ASSUME TriesAssumption == Attempts \in Nat \ {0} /\ Retries \in Nat \ {0}

VARIABLES
  isdisconnect, isaccept, tries,  \* the members of a socket_base
  regAccept, onAccept,  \* flagAcceptHandle, and whether there is a handler
  link,       \* link[s]: "none", "listening" or "on", as the kernel has it
  ops,        \* the AcceptEx, ConnectEx and DisconnectEx that wait
  nConnect,
  pc, cur,    \* each thread: step; the operation it is about
  num,        \* num[t]: nConnect as t read it, or the attempts of t
  guests,     \* history: the clients that were accepted and not disconnected
  starts,     \* history: the AcceptEx that async_accpet left
  cut,        \* history: the listeners of which the chain of AcceptEx ended
  unearned,   \* history: nConnect was lowered for a socket that never raised it
  raced,      \* history: nConnect was written by another thread since it was read
  calls

members == <<isdisconnect, isaccept, tries, regAccept, onAccept>>
history == <<guests, starts, cut, unearned, raced>>
vars == <<handles, members, link, ops, nConnect, pc, cur, num, history, calls>>

Nothing == [kind |-> "none", s |-> None, c |-> None, r |-> None, err |-> FALSE]
Operation(kind, s, c) == [Nothing EXCEPT !.kind = kind, !.s = s, !.c = c]

\* The constructors
Init ==
  /\ HandlesInit
  /\ isdisconnect = [s \in Sockets |-> TRUE]
  /\ isaccept = [s \in Sockets |-> FALSE]
  /\ tries = [s \in Sockets |-> 0]
  /\ regAccept = [s \in Sockets |-> FALSE]
  /\ onAccept = [s \in Sockets |-> FALSE]
  /\ link = [s \in Sockets |-> "none"]
  /\ ops = {}
  /\ nConnect = 0
  /\ pc = [t \in Threads |-> "idle"]
  /\ cur = [t \in Threads |-> Nothing]
  /\ num = [t \in Threads |-> 0]
  /\ guests = {} /\ starts = 0 /\ cut = {}
  /\ unearned = FALSE /\ raced = FALSE
  /\ calls = 0

Goto(t, l) == pc' = [pc EXCEPT ![t] = l]

Done(t) ==
  /\ Goto(t, "idle")
  /\ cur' = [cur EXCEPT ![t] = Nothing]
  /\ num' = [num EXCEPT ![t] = 0]

\* SocketPool::get, with what it resets
GetReset(s) ==
  /\ GetSocket(s)
  /\ isdisconnect' = [isdisconnect EXCEPT ![s] = TRUE]
  /\ isaccept' = [isaccept EXCEPT ![s] = FALSE]

-----------------------------------------------------------------------------
(* The calls of a user                                                     *)

Call(t) == pc[t] = "idle" /\ calls < MaxCalls /\ calls' = calls + 1

Unmoved == UNCHANGED <<link, ops, nConnect, history>>
Waiting == UNCHANGED <<pc, cur, num>>

\* socket(service), and opensocket of a handle that has none
Open(t) ==
  /\ Call(t)
  /\ \/ \E s \in Sockets, r \in Refs : GetReset(s) /\ NewHandle(t, r, s)
     \/ GetThrows /\ UNCHANGED <<isdisconnect, isaccept, sock, ref, hold>>
  /\ UNCHANGED <<lost, dying, overlap, tries, regAccept, onAccept>>
  /\ Unmoved /\ Waiting

\* opensocket of a handle that has one
Reopen(t, r) ==
  /\ Call(t) /\ Holds(t, r)
  /\ isdisconnect' = [isdisconnect EXCEPT ![sock[r]] = TRUE]
  /\ isaccept' = [isaccept EXCEPT ![sock[r]] = FALSE]
  /\ UNCHANGED <<handles, tries, regAccept, onAccept>>
  /\ Unmoved /\ Waiting

Copy(t, u, r) ==
  /\ Call(t) /\ CopyHandle(t, u, r)
  /\ UNCHANGED members /\ Unmoved /\ Waiting

Assign(t, r, q) ==
  /\ Call(t) /\ AssignHandle(t, r, q)
  /\ UNCHANGED members /\ Unmoved /\ Waiting

Destroy(t, r) ==
  /\ Call(t) /\ LowerRef(t, r)
  /\ Goto(t, "destroy")
  /\ UNCHANGED <<cur, num, members>> /\ Unmoved

Destroyed(t) ==
  /\ pc[t] = "destroy" /\ TestRef(t)
  /\ Goto(t, "idle")
  /\ UNCHANGED <<cur, num, members, calls>> /\ Unmoved

\* Only the first registration counts: the flag is never cleared.
RegisterAccept(t, r) ==
  /\ Call(t) /\ Holds(t, r)
  /\ regAccept' = [regAccept EXCEPT ![sock[r]] = TRUE]
  /\ onAccept' = [onAccept EXCEPT ![sock[r]] = @ \/ ~ regAccept[sock[r]]]
  /\ UNCHANGED <<handles, isdisconnect, isaccept, tries>>
  /\ Unmoved /\ Waiting

-----------------------------------------------------------------------------
(* Listening                                                               *)

\* async_accpet(num, true); that it returns is_connected has no effect.
Listen(t, r) ==
  /\ Call(t) /\ Holds(t, r)
  /\ isdisconnect[sock[r]] /\ ~ isaccept[sock[r]]
  /\ Goto(t, "listen")
  /\ cur' = [cur EXCEPT ![t] = Operation("listen", sock[r], None)]
  /\ UNCHANGED <<handles, num, members>> /\ Unmoved

\* isaccept was tested a step ago.  listen() may fail, and isaccept stays set.
SetAccept(t) ==
  LET s == cur[t].s IN
  /\ pc[t] = "listen"
  /\ isaccept' = [isaccept EXCEPT ![s] = TRUE]
  /\ \/ /\ link[s] # "on"
        /\ link' = [link EXCEPT ![s] = "listening"]
        /\ Goto(t, "first")
        /\ UNCHANGED <<cur, num, cut>>
     \/ Done(t) /\ cut' = cut \cup {s} /\ UNCHANGED link
  /\ UNCHANGED <<handles, isdisconnect, tries, regAccept, onAccept, ops, nConnect,
                 guests, starts, unearned, raced, calls>>

\* do_async_accpet of a listener: a socket is taken for the client, and the
\* kernel takes the AcceptEx, ...
CanAccept(s, c) ==
  link[s] = "listening" /\ link[c] = "none" /\ \A o \in ops : o.s # c /\ o.c # c

Accepting(s, c) ==
  /\ GetReset(c) /\ CanAccept(s, c)
  /\ ops' = ops \cup {Operation("accept", s, c)}
  /\ UNCHANGED lost

\* ... or does not, and nobody has the client's socket any more, ...
NotAccepting(c) ==
  /\ GetReset(c)
  /\ lost' = lost \cup {c}
  /\ UNCHANGED ops

\* ... or there is none, and do_async_accpet throws.
AcceptThrows == GetThrows /\ UNCHANGED <<isdisconnect, isaccept, lost, ops>>

\* async_accpet stops at its first AcceptEx.
FirstAccept(t) ==
  LET s == cur[t].s IN
  /\ pc[t] = "first"
  /\ \/ /\ \E c \in Sockets : Accepting(s, c)
        /\ starts' = starts + 1 /\ cut' = cut \ {s}
        /\ Done(t)
     \/ /\ \E c \in Sockets : NotAccepting(c)
        /\ IF num[t] + 1 < Attempts
           THEN num' = [num EXCEPT ![t] = @ + 1] /\ UNCHANGED <<pc, cur, cut>>
           ELSE Done(t) /\ cut' = cut \cup {s}
        /\ UNCHANGED starts
     \/ AcceptThrows /\ Done(t) /\ cut' = cut \cup {s} /\ UNCHANGED starts
  /\ UNCHANGED <<sock, ref, hold, dying, overlap, tries, regAccept, onAccept, link,
                 nConnect, guests, unearned, raced, calls>>

\* async_accpet(false)
StopAccept(t, r) ==
  /\ Call(t) /\ Holds(t, r) /\ isdisconnect[sock[r]]
  /\ isaccept' = [isaccept EXCEPT ![sock[r]] = FALSE]
  /\ UNCHANGED <<handles, isdisconnect, tries, regAccept, onAccept>>
  /\ Unmoved /\ Waiting

-----------------------------------------------------------------------------
(* OnAccept                                                                *)

\* network() takes an AcceptEx that is complete.
AcceptComplete(t) ==
  \E o \in ops, err \in BOOLEAN :
    /\ pc[t] = "idle" /\ o.kind = "accept"
    /\ ops' = ops \ {o}
    /\ cur' = [cur EXCEPT ![t] = [o EXCEPT !.err = err]]
    /\ IF err THEN UNCHANGED <<link, guests>>
       ELSE link' = [link EXCEPT ![o.c] = "on"] /\ guests' = guests \cup {o.c}
    /\ Goto(t, "on_accept")
    /\ UNCHANGED <<handles, members, nConnect, num, starts, cut, unearned, raced, calls>>

\* nConnect++ is not atomic.
ReadCount(t, from, to) ==
  /\ pc[t] = from
  /\ num' = [num EXCEPT ![t] = nConnect]
  /\ Goto(t, to)
  /\ UNCHANGED <<handles, members, link, ops, nConnect, cur, history, calls>>

CountAccept(t) == ReadCount(t, "on_accept", "raise")

\* Mutant of Raise: the limit is reached one connection later.
RaisePastMax(t) ==
  LET s == cur[t].s IN
  /\ pc[t] = "raise"
  /\ nConnect' = (num[t] + 1) % Wrap
  /\ raced' = (raced \/ num[t] # nConnect)
  /\ Goto(t, IF num[t] <= MaxConnect THEN "ask" ELSE "client")
  /\ cut' = IF num[t] < MaxConnect THEN cut ELSE cut \cup {s}
  /\ num' = [num EXCEPT ![t] = 0]
  /\ UNCHANGED <<handles, members, link, ops, cur, guests, starts, unearned, calls>>

\* At the limit there is no next AcceptEx, and nothing will leave one later.
Raise(t) ==
  LET s == cur[t].s IN
  /\ pc[t] = "raise"
  /\ nConnect' = (num[t] + 1) % Wrap
  /\ raced' = (raced \/ num[t] # nConnect)
  /\ Goto(t, IF num[t] < MaxConnect THEN "ask" ELSE "client")
  /\ cut' = IF num[t] < MaxConnect THEN cut ELSE cut \cup {s}
  /\ num' = [num EXCEPT ![t] = 0]
  /\ UNCHANGED <<handles, members, link, ops, cur, guests, starts, unearned, calls>>

\* Mutant of Ask: a failed AcceptEx is the last.
AskIfGood(t) ==
  /\ pc[t] = "ask"
  /\ Goto(t, IF isaccept[cur[t].s] /\ ~ cur[t].err THEN "next" ELSE "client")
  /\ UNCHANGED <<handles, members, link, ops, nConnect, cur, num, history, calls>>

\* isaccept is read after nConnect was raised.
Ask(t) ==
  /\ pc[t] = "ask"
  /\ Goto(t, IF isaccept[cur[t].s] THEN "next" ELSE "client")
  /\ UNCHANGED <<handles, members, link, ops, nConnect, cur, num, history, calls>>

\* Its error is not looked at.  An exception ends in run(), and the client
\* that was accepted is forgotten.
NextAccept(t) ==
  LET s == cur[t].s IN
  /\ pc[t] = "next"
  /\ \/ /\ \E c \in Sockets : Accepting(s, c)
        /\ Goto(t, "client") /\ UNCHANGED <<cur, num, cut>>
     \/ /\ \E c \in Sockets : NotAccepting(c)
        /\ Goto(t, "client") /\ cut' = cut \cup {s} /\ UNCHANGED <<cur, num>>
     \/ /\ GetThrows /\ UNCHANGED <<isdisconnect, isaccept, ops>>
        /\ lost' = lost \cup {cur[t].c}
        /\ Done(t) /\ cut' = cut \cup {s}
  /\ UNCHANGED <<sock, ref, hold, dying, overlap, tries, regAccept, onAccept, link,
                 nConnect, guests, starts, unearned, raced, calls>>

\* After an error the client's system socket goes to _sock_pool, and the
\* client keeps it.
Client(t) ==
  LET c == cur[t].c IN
  /\ pc[t] = "client"
  /\ IF cur[t].err
     THEN Releasefd /\ UNCHANGED isdisconnect
     ELSE isdisconnect' = [isdisconnect EXCEPT ![c] = FALSE] /\ UNCHANGED fds
  /\ Goto(t, "handle")
  /\ UNCHANGED <<made, pool, lost, sock, ref, hold, dying, overlap, isaccept, tries,
                 regAccept, onAccept, link, ops, nConnect, cur, num, history, calls>>

\* The client gets its first handle, and the handler of the listener is given
\* copies of it, if there is one.
Handle(t) ==
  /\ pc[t] = "handle"
  /\ \E r \in Refs : NewHandle(t, r, cur[t].c) /\ cur' = [cur EXCEPT ![t].r = r]
  /\ Goto(t, IF onAccept[cur[t].s] THEN "handler" ELSE "drop")
  /\ UNCHANGED <<made, pool, lost, fds, dying, overlap, members, num, calls>> /\ Unmoved

\* The handler may keep a copy, or give one to another thread.
HandlerCopies(t, u) ==
  /\ pc[t] = "handler" /\ CopyHandle(t, u, cur[t].r)
  /\ Goto(t, "drop")
  /\ UNCHANGED <<members, cur, num, calls>> /\ Unmoved

HandlerReturns(t) ==
  /\ pc[t] = "handler"
  /\ Goto(t, "drop")
  /\ UNCHANGED <<handles, members, cur, num, calls>> /\ Unmoved

\* The handle of OnAccept is destroyed.
Drop(t) ==
  /\ pc[t] = "drop" /\ LowerRef(t, cur[t].r)
  /\ Goto(t, "destroy")
  /\ cur' = [cur EXCEPT ![t] = Nothing]
  /\ UNCHANGED <<num, members, calls>> /\ Unmoved

-----------------------------------------------------------------------------
(* Connecting                                                              *)

\* do_async_connect; the kernel may refuse.
Connecting(s) ==
  \/ /\ link[s] = "none" /\ \A o \in ops : o.s # s /\ o.c # s
     /\ ops' = ops \cup {Operation("connect", s, None)}
  \/ UNCHANGED ops

\* async_connect
Connect(t, r) ==
  /\ Call(t) /\ Holds(t, r) /\ isdisconnect[sock[r]]
  /\ tries' = [tries EXCEPT ![sock[r]] = 0]
  /\ Connecting(sock[r])
  /\ UNCHANGED <<handles, isdisconnect, isaccept, regAccept, onAccept, link, nConnect, history>>
  /\ Waiting

\* network() takes a ConnectEx that failed: OnConnect tries again.
ConnectFails(t) ==
  \E o \in ops :
    /\ pc[t] = "idle" /\ o.kind = "connect"
    /\ tries' = [tries EXCEPT ![o.s] = @ + 1]
    /\ \/ tries[o.s] + 1 < Retries /\ UNCHANGED ops
       \/ ops' = ops \ {o}
    /\ UNCHANGED <<handles, isdisconnect, isaccept, regAccept, onAccept, link, nConnect,
                   history, calls>>
    /\ Waiting

ConnectComplete(t) ==
  \E o \in ops :
    /\ pc[t] = "idle" /\ o.kind = "connect"
    /\ ops' = ops \ {o}
    /\ tries' = [tries EXCEPT ![o.s] = @ + 1]
    /\ isdisconnect' = [isdisconnect EXCEPT ![o.s] = FALSE]
    /\ link' = [link EXCEPT ![o.s] = "on"]
    /\ UNCHANGED <<handles, isaccept, regAccept, onAccept, nConnect, history, calls>>
    /\ Waiting

-----------------------------------------------------------------------------
(* Closing                                                                 *)

\* closesocket of a socket that is not connected calls onClose.
CloseIdle(t, r) ==
  /\ Call(t) /\ Holds(t, r) /\ isdisconnect[sock[r]]
  /\ onAccept' = [onAccept EXCEPT ![sock[r]] = FALSE]
  /\ UNCHANGED <<handles, isdisconnect, isaccept, tries, regAccept>>
  /\ Unmoved /\ Waiting

\* do_disconnect: the kernel refuses if there is no connection; otherwise
\* nConnect is lowered, whether the connection was accepted or not.
Close(t, r) ==
  LET s == sock[r] IN
  /\ Call(t) /\ Holds(t, r) /\ ~ isdisconnect[s]
  /\ link[s] = "on" /\ \A o \in ops : o.s # s
  /\ ops' = ops \cup {Operation("close", s, None)}
  /\ guests' = guests \ {s}
  /\ unearned' = (unearned \/ s \notin guests)
  /\ Goto(t, "uncount")
  /\ UNCHANGED <<handles, members, link, nConnect, cur, num, starts, cut, raced>>

Uncount(t) == ReadCount(t, "uncount", "lower")

\* nConnect--
Lower(t) ==
  /\ pc[t] = "lower"
  /\ nConnect' = (num[t] + Wrap - 1) % Wrap
  /\ raced' = (raced \/ num[t] # nConnect)
  /\ Done(t)
  /\ UNCHANGED <<handles, members, link, ops, guests, starts, cut, unearned, calls>>

\* network() takes a DisconnectEx that is complete, and calls onClose.  Nothing
\* sets isdisconnect.
CloseComplete(t) ==
  \E o \in ops :
    /\ pc[t] = "idle" /\ o.kind = "close"
    /\ ops' = ops \ {o}
    /\ link' = [link EXCEPT ![o.s] = "none"]
    /\ onAccept' = [onAccept EXCEPT ![o.s] = FALSE]
    /\ UNCHANGED <<handles, isdisconnect, isaccept, tries, regAccept, nConnect, history, calls>>
    /\ Waiting

-----------------------------------------------------------------------------
User(t) ==
  \/ Open(t)
  \/ \E r \in Refs :
       \/ Reopen(t, r) \/ Destroy(t, r) \/ RegisterAccept(t, r)
       \/ Listen(t, r) \/ StopAccept(t, r) \/ Connect(t, r)
       \/ CloseIdle(t, r) \/ Close(t, r)
       \/ \E u \in Threads : Copy(t, u, r)
       \/ \E q \in Refs : Assign(t, r, q)

InCall(t) ==
  Destroyed(t) \/ SetAccept(t) \/ FirstAccept(t) \/ Uncount(t) \/ Lower(t)

OnAccept(t) ==
  \/ CountAccept(t) \/ Raise(t) \/ Ask(t) \/ NextAccept(t) \/ Client(t) \/ Handle(t)
  \/ HandlerReturns(t) \/ \E u \in Threads : HandlerCopies(t, u)
  \/ Drop(t)

Run(t) ==
  AcceptComplete(t) \/ ConnectFails(t) \/ ConnectComplete(t) \/ CloseComplete(t)

Next == \E t \in Threads : User(t) \/ InCall(t) \/ OnAccept(t) \/ Run(t)

Spec == Init /\ [][Next]_vars

-----------------------------------------------------------------------------
Steps == {"idle", "destroy", "listen", "first", "on_accept", "raise", "ask", "next",
          "client", "handle", "handler", "drop", "uncount", "lower"}

TypeOK ==
  /\ HandlesTypeOK
  /\ isdisconnect \in [Sockets -> BOOLEAN] /\ isaccept \in [Sockets -> BOOLEAN]
  /\ tries \in [Sockets -> Nat]
  /\ regAccept \in [Sockets -> BOOLEAN] /\ onAccept \in [Sockets -> BOOLEAN]
  /\ link \in [Sockets -> {"none", "listening", "on"}]
  /\ \A o \in ops : o.kind \in {"accept", "connect", "close"} /\ o.s \in Sockets
  /\ nConnect \in 0 .. Wrap - 1
  /\ pc \in [Threads -> Steps]
  /\ \A t \in Threads : cur[t].s \in Sockets \cup {None}
  /\ num \in [Threads -> Nat]
  /\ guests \subseteq Sockets /\ cut \subseteq Sockets /\ starts \in Nat
  /\ unearned \in BOOLEAN /\ raced \in BOOLEAN
  /\ calls \in 0 .. MaxCalls

\* The threads that have the client c and no handle to it yet
WithClient(c) ==
  {t \in Threads : /\ cur[t].c = c
                   /\ pc[t] \in {"on_accept", "raise", "ask", "next", "client", "handle"}}

\* Every socket_base is in one place: in the pool once, or had by the handles
\* of one count, or waiting for a client, or on its way through OnAccept, or
\* lost.  The code loses one when AcceptEx fails (socket_base_win32.cpp:193),
\* when OnAccept ends with an exception (async_service.cpp:44), when a handle
\* is assigned (socket.cpp:44), and to delete; and all is off when two
\* destructors lower a count before either reads it again, and both read 0
\* (socket.cpp:34-35).
OneOwner ==
  /\ TypeOK
  /\ ~ overlap =>
       \A s \in Sockets :
         pool[s] + Cardinality({r \in Refs : Live(r) /\ sock[r] = s})
                 + Cardinality({o \in ops : o.kind = "accept" /\ o.c = s})
                 + Cardinality(WithClient(s))
                 + (IF s \in lost THEN 1 ELSE 0)
           = IF s \in made THEN 1 ELSE 0

\* A listener with isaccept set has an AcceptEx with the kernel, or a thread is
\* about to leave one, whatever the calls of async_accpet between the steps of
\* OnAccept (socket_base_win32.cpp:214, 251): but for the ways in which the
\* chain ends for good, a failure, an exception, or the limit.
ChainAlive ==
  \A s \in Sockets :
    isaccept[s] /\ s \notin cut =>
      \/ \E o \in ops : o.kind = "accept" /\ o.s = s
      \/ \E t \in Threads : cur[t].s = s /\ pc[t] \in {"first", "on_accept", "raise", "ask", "next"}

\* The clients connected at a time are no more than nMaxConnect, and one for
\* each time async_accpet began (socket_base_win32.cpp:225, 251): but nConnect
\* is lowered for connections that were not counted (152), it is no atomic, and
\* it wraps where async_accpet began often enough for it to.
WithinLimit ==
  ~ unearned /\ ~ raced /\ MaxConnect + starts < Wrap =>
    Cardinality(guests) <= MaxConnect + starts
=============================================================================
