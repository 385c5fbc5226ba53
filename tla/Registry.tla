------------------------------- MODULE Registry -------------------------------
(* internal/registry on the stores that several hosts share: etcd.go and     *)
(* postgres.go in internal/state.  Callers on different hosts create, update *)
(* and delete one record; a request takes a step to get there, is executed   *)
(* by the server in one statement, and its answer takes another step.  The   *)
(* caller gives up after operationTimeout wherever its request is, and the   *)
(* server may still execute it.                                              *)
(*                                                                           *)
(* The content of the record is the set of the updates it shows, so that two *)
(* contents have the same revision (their SHA-256) when they are equal.      *)

EXTENDS Naturals

CONSTANTS Callers, MaxOps, MaxTimeouts, None

VARIABLES
  backend,   \* the store that Open selected
  row,       \* the content of the record, None when there is no record
  late,      \* requests whose callers gave up, still on their way
  job,       \* what each caller is doing
  acked,     \* updates that were answered with success
  gone,      \* updates that went away with a Delete
  ops,       \* operations started
  timeouts

rgvars == <<backend, row, late, job, acked, gone, ops, timeouts>>

ASSUME NoneAssumption == \A s \in SUBSET (1 .. MaxOps) : s # None

ASSUME MaxOpsAssumption == MaxOps \in Nat

Idle == [pc |-> "idle", op |-> "none", id |-> 0, held |-> None, old |-> None, new |-> None]

RgInit ==
  /\ backend \in {"etcd", "postgres"}
  /\ row = None
  /\ late = {}
  /\ job = [c \in Callers |-> Idle]
  /\ acked = {}
  /\ gone = {}
  /\ ops = 0
  /\ timeouts = 0

Job(c, j) == job' = [job EXCEPT ![c] = j]

Begin(c, op, pc) ==
  /\ job[c].pc = "idle"
  /\ ops < MaxOps
  /\ ops' = ops + 1
  /\ Job(c, [pc |-> pc, op |-> op, id |-> ops + 1, held |-> job[c].held, old |-> None, new |-> {ops + 1}])
  /\ UNCHANGED <<backend, row, late, acked, gone, timeouts>>

\* Put of a resource without a revision, TryUpdate, Put of a resource that was
\* read before, and Delete.
PutNew(c) == Begin(c, "new", "swap")

TryUpdate(c) == Begin(c, "update", "get")

PutHeld(c) == job[c].held # None /\ Begin(c, "put", "get")

Delete(c) == Begin(c, "delete", "delete")

Finished(c) == [pc |-> "idle", op |-> "none", id |-> 0, held |-> job[c].held, old |-> None, new |-> None]

\* Registry.Get for later use: the caller holds the content with its revision.
GetHeld(c) ==
  /\ job[c].pc = "idle"
  /\ row # None
  /\ Job(c, [job[c] EXCEPT !.held = row])
  /\ UNCHANGED <<backend, row, late, acked, gone, ops, timeouts>>

\* Mutant: a Put does not compare the revision it was given.
Stale_Never(c) == FALSE

\* Put: `revision(old) # expected', or no record to compare with.
Stale(c) == job[c].op = "put" /\ job[c].held # row

\* The read that TryUpdate and Put start with.
Got(c) ==
  /\ job[c].pc = "get"
  /\ \/ /\ row = None \/ Stale(c)
        /\ Job(c, Finished(c))
     \/ /\ row # None /\ ~Stale(c)
        /\ Job(c, [job[c] EXCEPT !.pc = "swap", !.old = row,
                      !.new = (IF job[c].op = "put" THEN job[c].held ELSE row) \cup {job[c].id}])
  /\ UNCHANGED <<backend, row, late, acked, gone, ops, timeouts>>

\* INSERT ... ON CONFLICT DO NOTHING, or UPDATE ... WHERE value = $2
PostgresSwaps(o) == IF o.old = None THEN row = None ELSE row = o.old

\* Txn().If(create revision = 0, or value = old)
EtcdSwaps(o) == IF o.old = None THEN row = None ELSE row = o.old

Swaps(o) == IF backend = "etcd" THEN EtcdSwaps(o) ELSE PostgresSwaps(o)

\* The server executes a request: a swap that applies or not, or a delete.
Executed(o) ==
  IF o.op = "delete"
  THEN /\ row' = None
       /\ gone' = IF row = None THEN gone ELSE gone \cup row
  ELSE /\ row' = IF Swaps(o) THEN o.new ELSE row
       /\ UNCHANGED gone

Execute(c) ==
  /\ job[c].pc \in {"swap", "delete"}
  /\ Executed(job[c])
  /\ Job(c, [job[c] EXCEPT !.pc = IF job[c].op # "delete" /\ Swaps(job[c]) THEN "swapped" ELSE "answered"])
  /\ UNCHANGED <<backend, late, acked, ops, timeouts>>

\* The answer arrives; Put leaves the new revision in the caller's copy.
Answer(c) ==
  /\ job[c].pc \in {"swapped", "answered"}
  /\ acked' = IF job[c].pc = "swapped" THEN acked \cup {job[c].id} ELSE acked
  /\ Job(c, [Finished(c) EXCEPT !.held =
               IF job[c].pc = "swapped" /\ job[c].op \in {"new", "put"} THEN job[c].new ELSE @])
  /\ UNCHANGED <<backend, row, late, gone, ops, timeouts>>

\* boundedContext, or the context of the request, ends.
Timeout(c) ==
  /\ job[c].pc # "idle"
  /\ timeouts < MaxTimeouts
  /\ timeouts' = timeouts + 1
  /\ late' = IF job[c].pc \in {"swap", "delete"}
             THEN late \cup {[op |-> job[c].op, old |-> job[c].old, new |-> job[c].new]}
             ELSE late
  /\ Job(c, Finished(c))
  /\ UNCHANGED <<backend, row, acked, gone, ops>>

\* A request whose caller gave up is executed after all, or is lost.
LateExecute(o) ==
  /\ late' = late \ {o}
  /\ \/ Executed(o)
     \/ UNCHANGED <<row, gone>>
  /\ UNCHANGED <<backend, job, acked, ops, timeouts>>

RgNext ==
  \/ \E c \in Callers :
       \/ PutNew(c) \/ TryUpdate(c) \/ PutHeld(c) \/ Delete(c) \/ GetHeld(c)
       \/ Got(c) \/ Execute(c) \/ Answer(c) \/ Timeout(c)
  \/ \E o \in late : LateExecute(o)

RgSpec == RgInit /\ [][RgNext]_rgvars

-----------------------------------------------------------------------------

\* No update is lost: what Put or TryUpdate answered with success stays in the
\* record until a Delete takes the record away, whatever other callers wrote
\* from copies they read before and whatever late requests do.
AckedKept == \A u \in acked : u \in gone \/ (row # None /\ u \in row)

==============================================================================
