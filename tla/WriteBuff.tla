----------------------------- MODULE WriteBuff -----------------------------
(***************************************************************************)
(* async_net: write_buff, and the sending side of socket_base_win32 that   *)
(* drives it.                                                              *)
(*                                                                         *)
(* A socket has two buffers.  async_send copies the message into one of    *)
(* them; whoever gets _send_flag exchanges the buffers and hands the full  *)
(* one to WSASend, and the completion empties it, clears the flag, and     *)
(* tries to send what was written meanwhile.                               *)
(*                                                                         *)
(* A buffer is a sequence of full pages, which are in its _wsabuf, and an  *)
(* open page.  _mu is held in upgrade mode by write() and in unique mode   *)
(* by send_buff(), and nobody shares it: both modes exclude each other and *)
(* are one here.  A thread that waits in lock() makes try_lock_upgrade     *)
(* fail, which write() repeats; that is no more than a delay and is left   *)
(* out.  The growth of _wsabuf is left out as well.                        *)
(***************************************************************************)
EXTENDS Integers, SequencesExt

CONSTANTS
  Threads,    \* users and threads of the service: all may call async_send and
              \* all may be given a completion
  MaxCalls,   \* bound on the calls of async_send
  Size,       \* Size[m]: the length of message m, the m-th to be given
  PageSize,   \* page_size
  Unit,       \* 4096
  Full,       \* 8: with more full pages a sender waits for the lock
  None

ASSUME SizesAssumption ==
  /\ MaxCalls \in Nat /\ Full \in Nat
  /\ PageSize \in Nat \ {0} /\ Unit \in Nat \ {0}
  /\ Size \in [1 .. MaxCalls -> Nat \ {0}]
ASSUME NoneAssumption == None \notin Threads \cup Nat

Messages == 1 .. MaxCalls
Buffers == {0, 1}

VARIABLES
  write, send,    \* write_buff_ and send_buff_
  mu,             \* mu[b]: the thread with _mu of buffer b, or None
  pages, open,    \* pages[b]: the pages in _wsabuf; open[b]: the page in buff
  slide, room,    \* slide[b]: how much of the open page is used; room[b]: buff_size
  flag,           \* _send_flag
  flight,         \* the pages WSASend was given, until its completion
  pc, cur, msg,   \* each thread: step, buffer (0 once it is of no use), message
  handler,        \* handler[t]: t calls async_send in onSendHandle
  calls,          \* the calls of async_send
  wire,           \* what the peer gets
  broken,         \* WSASend failed, at once or in its completion
  missed          \* history: a sender gave up for the lock or the flag of a
                  \* thread that gave up too

buffers == <<write, send, mu, pages, open, slide, room>>
locals == <<cur, msg, handler>>
net == <<flight, wire, broken>>
vars == <<buffers, flag, net, pc, locals, calls, missed>>

\* The constructors and init()
Init ==
  /\ write = 1 /\ send = 0
  /\ mu = [b \in Buffers |-> None]
  /\ pages = [b \in Buffers |-> <<>>]
  /\ open = [b \in Buffers |-> <<>>]
  /\ slide = [b \in Buffers |-> 0]
  /\ room = [b \in Buffers |-> PageSize]
  /\ flag = FALSE
  /\ flight = <<>> /\ wire = <<>> /\ broken = FALSE
  /\ pc = [t \in Threads |-> "idle"]
  /\ cur = [t \in Threads |-> 0]
  /\ msg = [t \in Threads |-> None]
  /\ handler = [t \in Threads |-> FALSE]
  /\ calls = 0
  /\ missed = FALSE

Goto(t, l) == pc' = [pc EXCEPT ![t] = l]

Unlocked(b) == mu' = [mu EXCEPT ![b] = None]

\* put_buff, which is called if there is anything in the open page: _wsabuf
\* grows with what it is given.
PutBuff(b) ==
  pages' = IF slide[b] > 0 THEN [pages EXCEPT ![b] = Append(@, open[b])] ELSE pages

-----------------------------------------------------------------------------
(* async_send and write                                                    *)

\* async_send is called by a thread, or by the handler of a completion.
AsyncSend(t) ==
  /\ pc[t] \in {"idle", "handler"} /\ calls < MaxCalls
  /\ calls' = calls + 1
  /\ msg' = [msg EXCEPT ![t] = calls + 1]
  /\ handler' = [handler EXCEPT ![t] = pc[t] = "handler"]
  /\ Goto(t, "write_load")
  /\ UNCHANGED <<buffers, flag, net, cur, missed>>

WriteLoad(t) ==
  /\ pc[t] = "write_load"
  /\ cur' = [cur EXCEPT ![t] = write]
  /\ Goto(t, "write_lock")
  /\ UNCHANGED <<buffers, flag, net, msg, handler, calls, missed>>

WriteLock(t) ==
  /\ pc[t] = "write_lock"
  /\ IF mu[cur[t]] = None
     THEN mu' = [mu EXCEPT ![cur[t]] = t] /\ Goto(t, "write_check")
     ELSE Goto(t, "write_load") /\ UNCHANGED mu
  /\ UNCHANGED <<write, send, pages, open, slide, room, flag, net, locals, calls, missed>>

\* Mutant of WriteCheck: the buffers may have been exchanged.
CheckNothing(t) ==
  /\ pc[t] = "write_check"
  /\ Goto(t, "copy")
  /\ UNCHANGED <<buffers, flag, net, locals, calls, missed>>

\* The buffers may have been exchanged since the load.
WriteCheck(t) ==
  /\ pc[t] = "write_check"
  /\ Goto(t, IF cur[t] = write THEN "copy" ELSE "write_stale")
  /\ UNCHANGED <<buffers, flag, net, locals, calls, missed>>

WriteStale(t) ==
  /\ pc[t] = "write_stale"
  /\ Unlocked(cur[t])
  /\ cur' = [cur EXCEPT ![t] = 0]
  /\ Goto(t, "write_load")
  /\ UNCHANGED <<write, send, pages, open, slide, room, flag, net, msg, handler, calls, missed>>

Fits(t) == slide[cur[t]] + Size[msg[t]] <= room[cur[t]]

CopyFits(t) ==
  /\ pc[t] = "copy" /\ Fits(t)
  /\ open' = [open EXCEPT ![cur[t]] = Append(@, msg[t])]
  /\ slide' = [slide EXCEPT ![cur[t]] = @ + Size[msg[t]]]
  /\ msg' = [msg EXCEPT ![t] = None]
  /\ Goto(t, "write_unlock")
  /\ UNCHANGED <<write, send, mu, pages, room, flag, net, cur, handler, calls, missed>>

\* put_buff: the page is full.  (One that is empty, and too small, is
\* replaced.)
CopyPutBuff(t) ==
  /\ pc[t] = "copy" /\ ~ Fits(t)
  /\ PutBuff(cur[t])
  /\ open' = [open EXCEPT ![cur[t]] = <<>>]
  /\ slide' = [slide EXCEPT ![cur[t]] = 0]
  /\ Goto(t, "new_page")
  /\ UNCHANGED <<write, send, mu, room, flag, net, locals, calls, missed>>

NewPage(t) ==
  LET m == msg[t] IN
  /\ pc[t] = "new_page"
  /\ room' = [room EXCEPT ![cur[t]] =
                IF Size[m] > PageSize THEN ((Size[m] + Unit - 1) \div Unit) * Unit
                ELSE PageSize]
  /\ open' = [open EXCEPT ![cur[t]] = <<m>>]
  /\ slide' = [slide EXCEPT ![cur[t]] = @ + Size[m]]
  /\ msg' = [msg EXCEPT ![t] = None]
  /\ Goto(t, "write_unlock")
  /\ UNCHANGED <<write, send, mu, pages, flag, net, cur, handler, calls, missed>>

WriteUnlock(t) ==
  /\ pc[t] = "write_unlock"
  /\ Unlocked(cur[t])
  /\ cur' = [cur EXCEPT ![t] = 0]
  /\ Goto(t, "load")
  /\ UNCHANGED <<write, send, pages, open, slide, room, flag, net, msg, handler, calls, missed>>

-----------------------------------------------------------------------------
(* do_async_send and send_buff                                             *)

\* do_async_send returns to async_send, and that to its caller, or to OnSend.
Return(t) ==
  /\ Goto(t, IF handler[t] THEN "load" ELSE "idle")
  /\ handler' = [handler EXCEPT ![t] = FALSE]
  /\ cur' = [cur EXCEPT ![t] = 0]

Load(t) ==
  /\ pc[t] = "load"
  /\ cur' = [cur EXCEPT ![t] = write]
  /\ Goto(t, "try_lock")
  /\ UNCHANGED <<buffers, flag, net, msg, handler, calls, missed>>

TryLock(t) ==
  /\ pc[t] = "try_lock" /\ mu[cur[t]] = None
  /\ mu' = [mu EXCEPT ![cur[t]] = t]
  /\ Goto(t, "test")
  /\ UNCHANGED <<write, send, pages, open, slide, room, flag, net, locals, calls, missed>>

\* A thread that has the flag and will not send
Unused(u) == pc[u] = "clear_unused" \/ (pc[u] = "stale" /\ cur[u] # write)

TryFails(t) ==
  /\ pc[t] = "try_lock" /\ mu[cur[t]] # None
  /\ missed' = (missed \/ pc[mu[cur[t]]] = "give_up")
  /\ Goto(t, "busy")
  /\ UNCHANGED <<buffers, flag, net, locals, calls>>

\* The lock is taken, and there is no need to hurry.
Busy(t) ==
  /\ pc[t] = "busy"
  /\ IF Len(pages[cur[t]]) > Full
     THEN Goto(t, "busy_full") /\ UNCHANGED <<cur, handler>>
     ELSE Return(t)
  /\ UNCHANGED <<buffers, flag, net, msg, calls, missed>>

BusyFull(t) ==
  /\ pc[t] = "busy_full"
  /\ IF cur[t] = write
     THEN Goto(t, "wait_lock") /\ UNCHANGED <<cur, handler>>
     ELSE Return(t)
  /\ UNCHANGED <<buffers, flag, net, msg, calls, missed>>

WaitLock(t) ==
  /\ pc[t] = "wait_lock" /\ mu[cur[t]] = None
  /\ mu' = [mu EXCEPT ![cur[t]] = t]
  /\ Goto(t, "test")
  /\ UNCHANGED <<write, send, pages, open, slide, room, flag, net, locals, calls, missed>>

TestAndSet(t) ==
  /\ pc[t] = "test"
  /\ flag' = TRUE
  /\ Goto(t, IF flag THEN "give_up" ELSE "stale")
  /\ missed' = (missed \/ (flag /\ \E u \in Threads : Unused(u)))
  /\ UNCHANGED <<buffers, net, locals, calls>>

\* Mutant of GiveUp: the flag is cleared on every way out.
ClearAndGiveUp(t) ==
  /\ pc[t] = "give_up"
  /\ flag' = FALSE
  /\ Unlocked(cur[t])
  /\ Return(t)
  /\ UNCHANGED <<write, send, pages, open, slide, room, net, msg, calls, missed>>

\* A send is under way; the end of send_buff unlocks.
GiveUp(t) ==
  /\ pc[t] = "give_up"
  /\ Unlocked(cur[t])
  /\ Return(t)
  /\ UNCHANGED <<write, send, pages, open, slide, room, flag, net, msg, calls, missed>>

\* The buffers were exchanged while the thread got its lock.
Stale(t) ==
  /\ pc[t] = "stale"
  /\ Goto(t, IF cur[t] # write THEN "clear_unused" ELSE "empty")
  /\ UNCHANGED <<buffers, flag, net, locals, calls, missed>>

Empty(t) ==
  /\ pc[t] = "empty"
  /\ Goto(t, IF pages[cur[t]] = <<>> /\ slide[cur[t]] = 0
             THEN "clear_unused" ELSE "store_write")
  /\ UNCHANGED <<buffers, flag, net, locals, calls, missed>>

ClearUnused(t) ==
  /\ pc[t] = "clear_unused"
  /\ flag' = FALSE
  /\ Goto(t, "give_up")
  /\ UNCHANGED <<buffers, net, locals, calls, missed>>

\* The other buffer is written from now on, ...
StoreWrite(t) ==
  /\ pc[t] = "store_write"
  /\ write' = send
  /\ Goto(t, "put_open")
  /\ UNCHANGED <<send, mu, pages, open, slide, room, flag, net, locals, calls, missed>>

\* Mutant of PutOpen: only the full pages are sent.
PutNothing(t) ==
  /\ pc[t] = "put_open"
  /\ Goto(t, "store_send")
  /\ UNCHANGED <<buffers, flag, net, locals, calls, missed>>

\* ... the open page joins the others, ...
PutOpen(t) ==
  /\ pc[t] = "put_open"
  /\ PutBuff(cur[t])
  /\ Goto(t, "store_send")
  /\ UNCHANGED <<write, send, mu, open, slide, room, flag, net, locals, calls, missed>>

\* ... and this one is to be sent.
StoreSend(t) ==
  /\ pc[t] = "store_send"
  /\ send' = cur[t]
  /\ Goto(t, "send_unlock")
  /\ UNCHANGED <<write, mu, pages, open, slide, room, flag, net, locals, calls, missed>>

SendUnlock(t) ==
  /\ pc[t] = "send_unlock"
  /\ Unlocked(cur[t])
  /\ Goto(t, "wsasend")
  /\ UNCHANGED <<write, send, pages, open, slide, room, flag, net, locals, calls, missed>>

WSASend(t) ==
  /\ pc[t] = "wsasend"
  /\ flight' = pages[send]
  /\ Return(t)
  /\ UNCHANGED <<buffers, flag, wire, broken, msg, calls, missed>>

\* The error goes to the caller, and nobody clears the flag.
WSASendFails(t) ==
  /\ pc[t] = "wsasend"
  /\ broken' = TRUE
  /\ Return(t)
  /\ UNCHANGED <<buffers, flag, flight, wire, msg, calls, missed>>

-----------------------------------------------------------------------------
(* The completion and OnSend                                               *)

Complete(t) ==
  /\ pc[t] = "idle" /\ flight # <<>>
  /\ wire' = wire \o FlattenSeq(flight)
  /\ flight' = <<>>
  /\ Goto(t, "clear")
  /\ UNCHANGED <<buffers, flag, broken, locals, calls, missed>>

\* With an error OnSend calls the handler and no more.
CompleteFails(t) ==
  /\ pc[t] = "idle" /\ flight # <<>>
  /\ broken' = TRUE /\ flight' = <<>>
  /\ UNCHANGED <<buffers, flag, wire, pc, locals, calls, missed>>

Clear(t) ==
  /\ pc[t] = "clear"
  /\ pages' = [pages EXCEPT ![send] = <<>>]
  /\ open' = [open EXCEPT ![send] = <<>>]
  /\ slide' = [slide EXCEPT ![send] = 0]
  /\ Goto(t, "clear_flag")
  /\ UNCHANGED <<write, send, mu, room, flag, net, locals, calls, missed>>

ClearFlag(t) ==
  /\ pc[t] = "clear_flag"
  /\ flag' = FALSE
  /\ Goto(t, "handler")
  /\ UNCHANGED <<buffers, net, locals, calls, missed>>

\* Mutant of HandlerReturns: OnSend does not call do_async_send.
HandlerReturnsLast(t) ==
  /\ pc[t] = "handler"
  /\ Goto(t, "idle")
  /\ UNCHANGED <<buffers, flag, net, locals, calls, missed>>

\* onSendHandle returns, and OnSend calls do_async_send.
HandlerReturns(t) ==
  /\ pc[t] = "handler"
  /\ Goto(t, "load")
  /\ UNCHANGED <<buffers, flag, net, locals, calls, missed>>

-----------------------------------------------------------------------------
Write(t) ==
  \/ WriteLoad(t) \/ WriteLock(t) \/ WriteCheck(t) \/ WriteStale(t)
  \/ CopyFits(t) \/ CopyPutBuff(t) \/ NewPage(t) \/ WriteUnlock(t)

SendBuff(t) ==
  \/ Load(t) \/ TryLock(t) \/ TryFails(t) \/ Busy(t) \/ BusyFull(t) \/ WaitLock(t)
  \/ TestAndSet(t) \/ GiveUp(t) \/ Stale(t) \/ Empty(t) \/ ClearUnused(t)
  \/ StoreWrite(t) \/ PutOpen(t) \/ StoreSend(t) \/ SendUnlock(t)

OnSend(t) ==
  \/ Complete(t) \/ CompleteFails(t) \/ Clear(t) \/ ClearFlag(t) \/ HandlerReturns(t)

Next ==
  \E t \in Threads :
    \/ AsyncSend(t) \/ Write(t) \/ SendBuff(t)
    \/ WSASend(t) \/ WSASendFails(t) \/ OnSend(t)

Spec == Init /\ [][Next]_vars

-----------------------------------------------------------------------------
WriteSteps == {"write_load", "write_lock", "write_check", "write_stale", "copy",
               "new_page", "write_unlock"}
SendSteps == {"load", "try_lock", "busy", "busy_full", "wait_lock", "test", "give_up",
              "stale", "empty", "clear_unused", "store_write", "put_open", "store_send",
              "send_unlock", "wsasend"}
OnSendSteps == {"clear", "clear_flag", "handler"}

TypeOK ==
  /\ write \in Buffers /\ send \in Buffers
  /\ mu \in [Buffers -> Threads \cup {None}]
  /\ pages \in [Buffers -> Seq(Seq(Messages) \ {<<>>})]
  /\ open \in [Buffers -> Seq(Messages)]
  /\ room \in [Buffers -> Nat] /\ slide \in [Buffers -> Nat]
  /\ \A b \in Buffers : slide[b] <= room[b] /\ (slide[b] > 0 <=> open[b] # <<>>)
  /\ flag \in BOOLEAN /\ broken \in BOOLEAN /\ missed \in BOOLEAN
  /\ flight \in Seq(Seq(Messages) \ {<<>>})
  /\ wire \in Seq(Messages)
  /\ pc \in [Threads -> {"idle"} \cup WriteSteps \cup SendSteps \cup OnSendSteps]
  /\ cur \in [Threads -> Buffers]
  /\ msg \in [Threads -> Messages \cup {None}]
  /\ handler \in [Threads -> BOOLEAN]
  /\ calls \in 0 .. MaxCalls

\* The thread between its test_and_set and the clear or the WSASend
FlagSteps == {"stale", "empty", "clear_unused", "store_write", "put_open", "store_send",
              "send_unlock", "wsasend", "clear", "clear_flag"}
FlagHolders == {t \in Threads : pc[t] \in FlagSteps}

\* At most one buffer is on its way out: the flag passes from the thread that
\* set it (sock_buff.cpp:228) through the WSASend to the thread with the
\* completion, and no other thread takes it in between.
OneSender ==
  /\ TypeOK
  /\ Cardinality(FlagHolders) + (IF flight # <<>> THEN 1 ELSE 0) + (IF broken THEN 1 ELSE 0)
       = IF flag THEN 1 ELSE 0

\* From WSASend to its completion nobody writes into the pages it was given,
\* frees them or exchanges the buffers (socket_base_win32.cpp:429-448),
\* although writers loaded write_buff_ before it was exchanged.
KernelOwnsPages ==
  [][flight # <<>> /\ flight' = flight =>
       send' = send /\ write' = write /\ pages'[send] = flight /\ open'[send] = open[send]]_vars

\* The messages that were taken and not sent, oldest first
Leaving ==
  IF \E t \in Threads : pc[t] = "put_open"
  THEN LET t == CHOOSE t \in Threads : pc[t] = "put_open"
       IN  FlattenSeq(pages[cur[t]]) \o open[cur[t]]
  ELSE IF \E t \in Threads : pc[t] \in {"store_send", "send_unlock", "wsasend"}
  THEN LET t == CHOOSE t \in Threads : pc[t] \in {"store_send", "send_unlock", "wsasend"}
       IN  FlattenSeq(pages[cur[t]])
  ELSE IF flight # <<>> \/ broken THEN FlattenSeq(pages[send])
  ELSE <<>>

Unsent == Leaving \o FlattenSeq(pages[write]) \o open[write]

\* No message is lost, doubled, torn from its place or sent out of order on
\* the way through the two buffers (sock_buff.cpp:127-260).
Stream == INSTANCE SendStream WITH queue <- Unsent, wire <- wire
ImplementsStream == Stream!Spec

\* When all is quiet everything was sent, but for one gap: a sender found the
\* lock or the flag taken by a thread that gave up as well
\* (sock_buff.cpp:225-234), and nobody sends until the next async_send.
NothingLeftBehind ==
  (\A t \in Threads : pc[t] = "idle") /\ flight = <<>> /\ ~ broken /\ ~ missed
    => Unsent = <<>>
=============================================================================
