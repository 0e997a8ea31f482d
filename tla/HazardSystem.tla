---------------------------- MODULE HazardSystem ----------------------------
(***************************************************************************)
(* container/detail/_hazard_ptr.h: hazard pointers over a push-only list   *)
(* of records, and a set of recover lists with the retired nodes.          *)
(*                                                                         *)
(* The client is the smallest one that uses it as msque does: a shared     *)
(* cell points to a node; a thread publishes the pointer it read in its    *)
(* record, reads the cell again, uses the node, and may replace the node   *)
(* by a new one with a compare-and-swap and retire the old one.            *)
(*                                                                         *)
(* _hazard is a plain pointer that other threads read: its store stays in  *)
(* the processor's store buffer until it is flushed, as x86 allows; locked *)
(* instructions wait for that.                                             *)
(*                                                                         *)
(* The names differ from those of MSQueue (Users and Objects for Threads   *)
(* and Nodes), so that one module can be about both.                       *)
(***************************************************************************)
EXTENDS Naturals, FiniteSets

CONSTANTS
  Users,       \* the threads
  Objects,     \* the memory the client's nodes are allocated from
  MaxRecords,  \* bound on the hazard records
  Lists,       \* the recover lists, eight in the code
  ScanAbove,   \* a scan needs more retired nodes than this: 32 in the code
  Null

ASSUME RecordsAssumption ==
  MaxRecords \in Nat \ {0} /\ ScanAbove \in Nat
ASSUME NullAssumption == Null \notin Objects \cup Nat \cup Lists

VARIABLES
  head,    \* _head
  nextRec, \* nextRec[r]: the record after r, or Null
  active,  \* active[r]: 1 when r is unused, as in the code
  hazard,  \* hazard[r]: the pointer other threads see
  used,    \* how many records were allocated
  llen,    \* llen, which does not count the constructor's record
  retired, \* retired[l]: re_vector of recover list l
  lactive, \* lactive[l]: 1 when the recover list is unused
  step, rec, cur, val, buf, rlist, seen,  \* each thread's locals (see HazardInit)
  owed,    \* history: records whose pointer has stood since t's scan began
  cutOff,  \* history: a scan began while a record was not linked yet
  late,    \* history: a scan began while the pointer that a thread has
           \* validated already was still in its store buffer
  cell,    \* the client's shared pointer
  memory   \* memory[n]: "live", "retired" or "free" (deallocated)

records == <<head, nextRec, active, used, llen>>
lists == <<retired, lactive>>
client == <<cell, memory>>
history == <<owed, cutOff, late>>
hazardVars == <<records, hazard, lists, step, rec, cur, val, buf, rlist, seen, history, client>>

Records == 0 .. MaxRecords - 1

\* One record, unused; one live node in the cell.
HazardInit ==
  /\ head = 0
  /\ nextRec = [r \in Records |-> Null]
  /\ active = [r \in Records |-> 1]
  /\ hazard = [r \in Records |-> Null]
  /\ used = 1
  /\ llen = 0
  /\ retired = [l \in Lists |-> {}]
  /\ lactive = [l \in Lists |-> 1]
  /\ step = [t \in Users |-> "idle"]
  /\ rec = [t \in Users |-> Null]    \* the record t has acquired
  /\ cur = [t \in Users |-> Null]    \* _node of a walk; the old head of a push; then Null
  /\ val = [t \in Users |-> Null]    \* what t itself reads in its _hazard
  /\ buf = [t \in Users |-> FALSE]   \* that store has not left the buffer
  /\ rlist = [t \in Users |-> Null]  \* the recover list t has
  /\ seen = [t \in Users |-> {}]     \* hvector
  /\ owed = [t \in Users |-> {}] /\ cutOff = FALSE /\ late = FALSE
  /\ cell \in Objects
  /\ memory = [n \in Objects |-> IF n = cell THEN "live" ELSE "free"]

StepTo(t, l) == step' = [step EXCEPT ![t] = l]

-----------------------------------------------------------------------------
(* acquire                                                                 *)

CallAcquire(t) ==
  /\ step[t] = "idle"
  /\ cur' = [cur EXCEPT ![t] = head]
  /\ StepTo(t, "walk")
  /\ UNCHANGED <<records, hazard, lists, rec, val, buf, rlist, seen, history, client>>

\* _active.exchange(0): the record was unused and is t's, or on to the next.
TryRecord(t) ==
  /\ step[t] = "walk" /\ cur[t] # Null
  /\ active' = [active EXCEPT ![cur[t]] = 0]
  /\ IF active[cur[t]] = 1
     THEN /\ rec' = [rec EXCEPT ![t] = cur[t]]
          /\ cur' = [cur EXCEPT ![t] = Null]
          /\ StepTo(t, "load")
     ELSE /\ cur' = [cur EXCEPT ![t] = nextRec[cur[t]]]
          /\ UNCHANGED <<rec, step>>
  /\ UNCHANGED <<head, nextRec, used, llen, hazard, lists, val, buf, rlist, seen, history, client>>

\* No unused record: a new one, and llen++.
NewRecord(t) ==
  /\ step[t] = "walk" /\ cur[t] = Null /\ used < MaxRecords
  /\ rec' = [rec EXCEPT ![t] = used]
  /\ active' = [active EXCEPT ![used] = 0]
  /\ used' = used + 1
  /\ llen' = llen + 1
  /\ StepTo(t, "exchange")
  /\ UNCHANGED <<head, nextRec, hazard, lists, cur, val, buf, rlist, seen, history, client>>

\* _head.exchange(_new_node): the new record is the head, and its next is
\* still null ...
ExchangeHead(t) ==
  /\ step[t] = "exchange"
  /\ cur' = [cur EXCEPT ![t] = head]
  /\ head' = rec[t]
  /\ StepTo(t, "link")
  /\ UNCHANGED <<nextRec, active, used, llen, hazard, lists, rec, val, buf, rlist, seen, history, client>>

\* Mutant of LinkRecord: _head is read again in the place of the exchange's result.
LinkHead(t) ==
  /\ step[t] = "link"
  /\ nextRec' = [nextRec EXCEPT ![rec[t]] = head]
  /\ cur' = [cur EXCEPT ![t] = Null]
  /\ StepTo(t, "load")
  /\ UNCHANGED <<head, active, used, llen, hazard, lists, rec, val, buf, rlist, seen, history, client>>

\* ... until the result of the exchange is stored in it.
LinkRecord(t) ==
  /\ step[t] = "link"
  /\ nextRec' = [nextRec EXCEPT ![rec[t]] = cur[t]]
  /\ cur' = [cur EXCEPT ![t] = Null]
  /\ StepTo(t, "load")
  /\ UNCHANGED <<head, active, used, llen, hazard, lists, rec, val, buf, rlist, seen, history, client>>

-----------------------------------------------------------------------------
(* The client: publish, validate, use                                      *)

\* The pointer other threads see in r changes: it no longer stands.
Show(r, n) ==
  /\ hazard' = [hazard EXCEPT ![r] = n]
  /\ owed' = [t \in Users |-> owed[t] \ {r}]
  /\ UNCHANGED <<cutOff, late>>

\* _hp->_hazard = cell.load()
Publish(t) ==
  /\ step[t] = "load"
  /\ val' = [val EXCEPT ![t] = cell]
  /\ buf' = [buf EXCEPT ![t] = TRUE]
  /\ StepTo(t, "check")
  /\ UNCHANGED <<records, hazard, lists, rec, cur, rlist, seen, history, client>>

\* The store leaves the store buffer.
Flush(t) ==
  /\ buf[t]
  /\ buf' = [buf EXCEPT ![t] = FALSE]
  /\ Show(rec[t], val[t])
  /\ UNCHANGED <<records, lists, step, rec, cur, val, rlist, seen, client>>

\* Mutant of Validate: the cell is not read again.
ValidateNothing(t) ==
  /\ step[t] = "check"
  /\ StepTo(t, "use")
  /\ UNCHANGED <<records, hazard, lists, rec, cur, val, buf, rlist, seen, history, client>>

\* if (_hp->_hazard != cell.load()) again
Validate(t) ==
  /\ step[t] = "check"
  /\ StepTo(t, IF cell = val[t] THEN "use" ELSE "load")
  /\ UNCHANGED <<records, hazard, lists, rec, cur, val, buf, rlist, seen, history, client>>

\* Mutant of Replace: a store in the place of the compare-and-swap.
ReplaceBlindly(t) ==
  /\ step[t] = "use" /\ ~ buf[t]
  /\ \E n \in Objects :
       /\ memory[n] = "free"
       /\ cell' = n
       /\ memory' = [memory EXCEPT ![n] = "live", ![val[t]] = "retired"]
  /\ StepTo(t, "grab")
  /\ UNCHANGED <<records, hazard, lists, rec, cur, val, buf, rlist, seen, history>>

\* The compare-and-swap of the cell takes the node out and puts a new one in.
Replace(t) ==
  /\ step[t] = "use" /\ ~ buf[t]
  /\ cell = val[t]
  /\ \E n \in Objects :
       /\ memory[n] = "free"
       /\ cell' = n
       /\ memory' = [memory EXCEPT ![n] = "live", ![val[t]] = "retired"]
  /\ StepTo(t, "grab")
  /\ UNCHANGED <<records, hazard, lists, rec, cur, val, buf, rlist, seen, history>>

\* The compare-and-swap fails, or the thread only read.
Leave(t) ==
  /\ step[t] = "use"
  /\ StepTo(t, "release")
  /\ UNCHANGED <<records, hazard, lists, rec, cur, val, buf, rlist, seen, history, client>>

\* release: _hazard = 0, and _active.store(1), a locked store
Release(t) ==
  /\ step[t] = "release" /\ ~ buf[t]
  /\ Show(rec[t], Null)
  /\ active' = [active EXCEPT ![rec[t]] = 1]
  /\ rec' = [rec EXCEPT ![t] = Null]
  /\ val' = [val EXCEPT ![t] = Null]
  /\ StepTo(t, "idle")
  /\ UNCHANGED <<head, nextRec, used, llen, lists, cur, buf, rlist, seen, client>>

-----------------------------------------------------------------------------
(* retire                                                                  *)

\* active.exchange(0) on the recover lists in turn, until one was unused
GrabList(t) ==
  /\ step[t] = "grab"
  /\ \E l \in Lists :
       /\ lactive[l] = 1
       /\ lactive' = [lactive EXCEPT ![l] = 0]
       /\ rlist' = [rlist EXCEPT ![t] = l]
  /\ StepTo(t, "push")
  /\ UNCHANGED <<records, hazard, retired, rec, cur, val, buf, seen, history, client>>

\* re_vector.push_back, and whether to scan
PushRetired(t) ==
  /\ step[t] = "push"
  /\ LET l == rlist[t]
         n == Cardinality(retired[l] \cup {val[t]})
         scan == n > ScanAbove /\ n > llen
     IN  /\ retired' = [retired EXCEPT ![l] = @ \cup {val[t]}]
         /\ StepTo(t, IF scan THEN "scan" ELSE "return")
  /\ UNCHANGED <<records, hazard, lactive, rec, cur, val, buf, rlist, seen, history, client>>

BeginScan(t) ==
  /\ step[t] = "scan"
  /\ cur' = [cur EXCEPT ![t] = head]
  /\ seen' = [seen EXCEPT ![t] = {}]
  /\ owed' = [owed EXCEPT ![t] = {r \in Records : hazard[r] # Null}]
  /\ cutOff' = (cutOff \/ \E u \in Users : step[u] = "link")
  /\ late' = (late \/ \E u \in Users : buf[u] /\ step[u] = "use")
  /\ StepTo(t, "collect")
  /\ UNCHANGED <<records, hazard, lists, rec, val, buf, rlist, client>>

\* Mutant of Collect: the walk ends at the first record without a pointer.
CollectToNull(t) ==
  /\ step[t] = "collect" /\ cur[t] # Null
  /\ seen' = [seen EXCEPT ![t] = @ \cup ({hazard[cur[t]]} \ {Null})]
  /\ cur' = [cur EXCEPT ![t] = IF hazard[cur[t]] = Null THEN Null ELSE nextRec[cur[t]]]
  /\ UNCHANGED <<records, hazard, lists, step, rec, val, buf, rlist, history, client>>

Collect(t) ==
  /\ step[t] = "collect" /\ cur[t] # Null
  /\ seen' = [seen EXCEPT ![t] = @ \cup ({hazard[cur[t]]} \ {Null})]
  /\ cur' = [cur EXCEPT ![t] = nextRec[cur[t]]]
  /\ UNCHANGED <<records, hazard, lists, step, rec, val, buf, rlist, history, client>>

\* Every retired node of this list that was not seen is deallocated.
Deallocate(t) ==
  /\ step[t] = "collect" /\ cur[t] = Null
  /\ LET l == rlist[t] IN
       /\ memory' = [n \in Objects |-> IF n \in retired[l] \ seen[t] THEN "free" ELSE memory[n]]
       /\ retired' = [retired EXCEPT ![l] = @ \cap seen[t]]
  /\ owed' = [owed EXCEPT ![t] = {}]
  /\ UNCHANGED <<cutOff, late>>
  /\ seen' = [seen EXCEPT ![t] = {}]
  /\ StepTo(t, "return")
  /\ UNCHANGED <<records, hazard, lactive, rec, cur, val, buf, rlist, cell>>

\* active.store(1)
ReturnList(t) ==
  /\ step[t] = "return"
  /\ lactive' = [lactive EXCEPT ![rlist[t]] = 1]
  /\ rlist' = [rlist EXCEPT ![t] = Null]
  /\ StepTo(t, "release")
  /\ UNCHANGED <<records, hazard, retired, rec, cur, val, buf, seen, history, client>>

-----------------------------------------------------------------------------
Acquire(t) ==
  \/ CallAcquire(t) \/ TryRecord(t) \/ NewRecord(t) \/ ExchangeHead(t) \/ LinkRecord(t)

Retire(t) ==
  \/ GrabList(t) \/ PushRetired(t) \/ BeginScan(t) \/ Collect(t)
  \/ Deallocate(t) \/ ReturnList(t)

UseNode(t) ==
  \/ Publish(t) \/ Flush(t) \/ Validate(t) \/ Replace(t) \/ Leave(t) \/ Release(t)

HazardNext == \E t \in Users : Acquire(t) \/ UseNode(t) \/ Retire(t)

HazardSpec == HazardInit /\ [][HazardNext]_hazardVars

-----------------------------------------------------------------------------
HazardTypeOK ==
  /\ head \in Records
  /\ nextRec \in [Records -> Records \cup {Null}]
  /\ active \in [Records -> {0, 1}]
  /\ hazard \in [Records -> Objects \cup {Null}]
  /\ used \in 0 .. MaxRecords /\ llen \in 0 .. MaxRecords
  /\ retired \in [Lists -> SUBSET Objects]
  /\ lactive \in [Lists -> {0, 1}]
  /\ rec \in [Users -> Records \cup {Null}]
  /\ cur \in [Users -> Records \cup {Null}]
  /\ val \in [Users -> Objects \cup {Null}]
  /\ buf \in [Users -> BOOLEAN]
  /\ rlist \in [Users -> Lists \cup {Null}]
  /\ seen \in [Users -> SUBSET Objects]
  /\ owed \in [Users -> SUBSET Records]
  /\ cutOff \in BOOLEAN /\ late \in BOOLEAN
  /\ cell \in Objects
  /\ memory \in [Objects -> {"live", "retired", "free"}]

\* A record serves one thread at a time and a recover list one retire at a
\* time (the exchanges at _hazard_ptr.h:90 and 134): otherwise one thread's
\* pointer would be overwritten, or re_vector changed by two at once.
OneUser ==
  \A s, t \in Users : s # t =>
    /\ rec[s] # Null => rec[s] # rec[t]
    /\ rlist[s] # Null => rlist[s] # rlist[t]

\* A node is retired into one recover list only and is in none once it is
\* deallocated: no node is freed twice, and the live one is never retired; and
\* records and lists have one user each.
RetiredOnce ==
  /\ HazardTypeOK
  /\ OneUser
  /\ \A k, l \in Lists : k # l => retired[k] \cap retired[l] = {}
  /\ \A l \in Lists : \A n \in retired[l] : memory[n] = "retired"
  /\ memory[cell] = "live"

\* Every record that was pushed is on the list again as soon as no push is
\* between its two steps: concurrent pushes lose none (_hazard_ptr.h:101).
Reached ==
  LET after[k \in 0 .. MaxRecords] ==
        IF k = 0 THEN {head}
        ELSE after[k - 1] \cup ({nextRec[r] : r \in after[k - 1]} \ {Null})
  IN  after[MaxRecords]

NoRecordLost ==
  (\A t \in Users : step[t] # "link") =>
    {r \in Records : r < used} \ {rec[t] : t \in {u \in Users : step[u] = "exchange"}}
      \subseteq Reached

\* A scan that begins while every record is linked collects all pointers that
\* stand from its first step to its last, although records are pushed, reused
\* and released while it walks (_hazard_ptr.h:157-161).
LinkedScanCollects ==
  ~ cutOff =>
    \A t \in Users : step[t] = "collect" /\ cur[t] = Null =>
      {hazard[r] : r \in owed[t]} \subseteq seen[t]

\* The point of it all: a node that a thread read again in the cell after it
\* published it is not deallocated while the thread uses it.  Two gaps are
\* known, and there is no third: a scan that began while a record was half
\* pushed (101), and one that began before the store of a
\* validated _hazard was seen.
NoFreedInUse ==
  ~ cutOff /\ ~ late => \A t \in Users : step[t] = "use" => memory[val[t]] # "free"

\* The comment at _hazard_ptr.h:155: a scan collects "all non-null ptrs" of
\* the list, at least those that stood there from its first step to its last.
ScanCollectsAll ==
  \A t \in Users : step[t] = "collect" /\ cur[t] = Null =>
    {hazard[r] : r \in owed[t]} \subseteq seen[t]
=============================================================================
