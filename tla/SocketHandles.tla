---------------------------- MODULE SocketHandles ----------------------------
(***************************************************************************)
(* async_net: the handles (class socket) that users copy, assign and       *)
(* destroy, and SocketPool, which keeps the socket_bases nobody has.       *)
(*                                                                         *)
(* All handles that were copied from one share a count (_ref).  The        *)
(* destructor lowers it, reads it again, and gives the socket back when it *)
(* reads 0.  A count is known by its name; the name of one that is 0 and   *)
(* that no destructor is about to read is given to the next (the code      *)
(* leaks it).  A handle is used by one thread.                             *)
(*                                                                         *)
(* The actions say what happens to the variables of this module;           *)
(* WinSockets says what else happens.                                      *)
(***************************************************************************)
EXTENDS Integers, FiniteSets, Functions

CONSTANTS
  Sockets,    \* the socket_bases there can be (a bound)
  Refs,       \* the counts there can be at a time (a bound)
  Threads,    \* users and threads of the service
  PoolMax,    \* 1024: with more in the pool a socket_base is deleted, and so are the
              \* system sockets
  MaxHandles, \* bound on the handles a thread has to one socket_base
  None

ASSUME PoolMaxAssumption == PoolMax \in Nat /\ MaxHandles \in Nat \ {0}
ASSUME RefsAssumption == Refs \subseteq Nat
ASSUME FiniteAssumption == IsFiniteSet(Sockets) /\ IsFiniteSet(Refs) /\ IsFiniteSet(Threads)
ASSUME NoneAssumption == None \notin Sockets \cup Refs \cup Threads

VARIABLES
  made,       \* the socket_bases that were constructed
  pool,       \* pool[s]: how often s is in SocketPool
  lost,       \* socket_bases that nothing refers to any more, or deleted
  fds,        \* the sockets of the system in _sock_pool
  sock, ref,  \* sock[r]: the socket_base of the handles with count r; ref[r]
  hold,       \* hold[t][r]: the handles of t with count r
  dying,      \* dying[t]: the count that t has lowered and is about to read
  overlap     \* a count became 0 that two destructors are about to read

handles == <<made, pool, lost, fds, sock, ref, hold, dying, overlap>>

HandlesInit ==
  /\ made = {} /\ lost = {} /\ fds = 0
  /\ pool = [s \in Sockets |-> 0]
  /\ sock = [r \in Refs |-> None]
  /\ ref = [r \in Refs |-> 0]
  /\ hold = [t \in Threads |-> [r \in Refs |-> 0]]
  /\ dying = [t \in Threads |-> None]
  /\ overlap = FALSE

Live(r) == ref[r] > 0 \/ \E t \in Threads : dying[t] = r

PoolSize == SumFunction(pool)

-----------------------------------------------------------------------------
(* SocketPool                                                              *)

\* SocketPool::get takes s from the pool, or constructs it if that is empty.
GetSocket(s) ==
  /\ \/ pool[s] > 0 /\ pool' = [pool EXCEPT ![s] = @ - 1] /\ UNCHANGED made
     \/ /\ PoolSize = 0 /\ fds = 0 /\ s \notin made
        /\ made' = made \cup {s} /\ UNCHANGED pool
  /\ UNCHANGED fds

\* Getfd finds a system socket in _sock_pool; otherwise WSASocket makes a new
\* one, or fails.
Getfd == fds' = IF fds > 0 THEN fds - 1 ELSE fds

\* _sock_pool has the bound of SocketPool; what is beyond it is closed.
Releasefd == fds' = IF fds > PoolMax THEN fds ELSE fds + 1

\* The constructor throws when WSASocket fails, and with every system socket from
\* _sock_pool: those have been given to the completion port already, so that
\* CreateIoCompletionPort fails (socket_base_win32.cpp:87, 91).
GetThrows ==
  /\ PoolSize = 0 /\ Getfd
  /\ UNCHANGED <<made, pool>>

\* SocketPool::release
Release(s) ==
  IF PoolSize > PoolMax
  THEN lost' = lost \cup {s} /\ UNCHANGED pool
  ELSE pool' = [pool EXCEPT ![s] = @ + 1] /\ UNCHANGED lost

-----------------------------------------------------------------------------
(* Handles                                                                 *)

Holds(t, r) == hold[t][r] > 0

\* The first handle of t to s; of the names that are free it does not matter
\* which is taken.
NewHandle(t, r, s) ==
  /\ ~ Live(r) /\ \A q \in Refs : q < r => Live(q)
  /\ sock' = [sock EXCEPT ![r] = s]
  /\ ref' = [ref EXCEPT ![r] = 1]
  /\ hold' = [hold EXCEPT ![t][r] = 1]

\* t copies a handle, for itself or for another thread.
CopyHandle(t, u, r) ==
  /\ Holds(t, r) /\ hold[u][r] < MaxHandles
  /\ ref' = [ref EXCEPT ![r] = @ + 1]
  /\ hold' = [hold EXCEPT ![u][r] = @ + 1]
  /\ UNCHANGED <<made, pool, lost, fds, sock, dying, overlap>>

\* operator=: the handle's count is lowered, and nobody looks at it.
AssignHandle(t, r, q) ==
  /\ r # q /\ Holds(t, r) /\ Holds(t, q) /\ hold[t][q] < MaxHandles
  /\ ref' = [ref EXCEPT ![q] = @ + 1, ![r] = @ - 1]
  /\ hold' = [hold EXCEPT ![t][q] = @ + 1, ![t][r] = @ - 1]
  /\ lost' = IF ref[r] = 1 /\ \A u \in Threads : dying[u] # r
             THEN lost \cup {sock[r]} ELSE lost
  /\ overlap' = (overlap \/ (ref[r] = 1 /\ \E u, v \in Threads :
                                           u # v /\ dying[u] = r /\ dying[v] = r))
  /\ UNCHANGED <<made, pool, fds, sock, dying>>

\* ~socket lowers the count, ...
LowerRef(t, r) ==
  /\ Holds(t, r)
  /\ ref' = [ref EXCEPT ![r] = @ - 1]
  /\ hold' = [hold EXCEPT ![t][r] = @ - 1]
  /\ dying' = [dying EXCEPT ![t] = r]
  /\ overlap' = (overlap \/ (ref[r] = 1 /\ \E u \in Threads : dying[u] = r))
  /\ UNCHANGED <<made, pool, lost, fds, sock>>

\* Mutant of TestRef: a count of 1 is taken for the last.
TestRefOne(t) ==
  /\ dying[t] # None
  /\ IF ref[dying[t]] <= 1
     THEN Release(sock[dying[t]])
     ELSE UNCHANGED <<pool, lost>>
  /\ dying' = [dying EXCEPT ![t] = None]
  /\ UNCHANGED <<made, fds, sock, ref, hold, overlap>>

\* ... and reads it again.
TestRef(t) ==
  /\ dying[t] # None
  /\ IF ref[dying[t]] = 0
     THEN Release(sock[dying[t]])
     ELSE UNCHANGED <<pool, lost>>
  /\ dying' = [dying EXCEPT ![t] = None]
  /\ UNCHANGED <<made, fds, sock, ref, hold, overlap>>

-----------------------------------------------------------------------------
HandlesTypeOK ==
  /\ made \subseteq Sockets /\ lost \subseteq made
  /\ pool \in [Sockets -> Nat] /\ fds \in Nat
  /\ sock \in [Refs -> Sockets \cup {None}]
  /\ ref \in [Refs -> Nat]
  /\ hold \in [Threads -> [Refs -> 0 .. MaxHandles]]
  /\ dying \in [Threads -> Refs \cup {None}]
  /\ overlap \in BOOLEAN
  \* A count is the number of its handles.
  /\ \A r \in Refs : ref[r] = SumFunction([t \in Threads |-> hold[t][r]])
=============================================================================
