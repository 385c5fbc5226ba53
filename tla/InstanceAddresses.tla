------------------------- MODULE InstanceAddresses -------------------------
(***************************************************************************)
(* The addresses of instances: agents reconcile the computes of one subnet *)
(* and give each an address through the address book, recorded in          *)
(* status.ip (resolve, ensure and finalize of internal/manager/compute.go).*)
(* Of a record only what decides about its address is kept; the rest of    *)
(* its life is in Lifecycle.                                               *)
(***************************************************************************)
EXTENDS AddressBook

CONSTANTS
    Reusable,     \* uids clients create again after a deletion
    MaxRequests,  \* bound on API requests
    MaxEvictions, \* bound on evictions; an evicted compute is not placed again
    Absent,       \* no record
    None          \* no node

ASSUME InstanceAddressesAssumption ==
    /\ Reusable \subseteq Owners
    /\ {MaxRequests, MaxEvictions} \subseteq Nat
    /\ None \notin Procs

VARIABLES
    rec,       \* the stored record of each owner, or Absent
    pc,        \* what each agent does
    snap,      \* the copy it works from
    stale,     \* agents whose copy is no longer what is stored
    created,   \* uids created so far
    requests,  \* API requests so far
    evictions  \* evictions so far

vars == <<bookVars, rec, pc, snap, stale, created, requests, evictions>>

Records ==
    [node : Procs \cup {None}, deleting : BOOLEAN, fin : BOOLEAN,
     ip : Addresses \cup {0}]

Init ==
    /\ BookInit
    /\ rec = [o \in Owners |-> Absent]
    /\ pc = [a \in Procs |-> "idle"]
    /\ snap = [a \in Procs |-> Absent]
    /\ stale = {}
    /\ created = {}
    /\ requests = 0
    /\ evictions = 0

\* Metadata.IsDeleting and Metadata.HasFinalizer.
IsDeleting(r) == r.deleting
HasFinalizer(r) == r.fin

\* What the writers make of a record.
Placed(n) == [node |-> n, deleting |-> FALSE, fin |-> FALSE, ip |-> 0]
Unplaced(r) == [r EXCEPT !.node = None]
Marked(r) == [r EXCEPT !.deleting = TRUE]
Realised(r, x) == [r EXCEPT !.fin = TRUE, !.ip = x]
Finalized(r) == [r EXCEPT !.fin = FALSE]

\* Any write of o's record outdates the copies others have of it.
Store(o, r) ==
    /\ rec' = [rec EXCEPT ![o] = r]
    /\ stale' = stale \cup {a \in Procs : who[a] = o}

-----------------------------------------------------------------------------
(* The API and the scheduler; see Lifecycle for their steps *)

Request ==
    /\ requests < MaxRequests
    /\ requests' = requests + 1
    /\ UNCHANGED <<bookVars, pc, snap, evictions>>

\* A compute is created and placed.
Create(o) ==
    /\ rec[o] = Absent
    /\ o \notin created \ Reusable
    /\ created' = created \cup {o}
    /\ \E n \in Procs : Store(o, Placed(n))
    /\ Request

\* The spec changes: nothing about the address, but the bytes.
Update(o) ==
    /\ rec[o] # Absent
    /\ Store(o, rec[o])
    /\ Request
    /\ UNCHANGED created

Delete(o) ==
    /\ rec[o] # Absent
    /\ Store(o, IF HasFinalizer(rec[o]) THEN Marked(rec[o]) ELSE Absent)
    /\ Request
    /\ UNCHANGED created

Evict(o) ==
    /\ rec[o] # Absent /\ ~IsDeleting(rec[o]) /\ rec[o].node # None
    /\ evictions < MaxEvictions
    /\ evictions' = evictions + 1
    /\ Store(o, Unplaced(rec[o]))
    /\ UNCHANGED <<bookVars, pc, snap, created, requests>>

-----------------------------------------------------------------------------
(* The agent of node a *)

InScope(a, o) == rec[o].node = a \/ (rec[o].node = None /\ IsDeleting(rec[o]))

Goto(a, l) == pc' = [pc EXCEPT ![a] = l]

\* Reconcile loads the record. ensure resolves it: it may stop at a dependency
\* that is not ready before it gets to the address. finalize takes the instance
\* down and turns to the reservation it recorded.
Load(a, o) ==
    /\ pc[a] = "idle"
    /\ rec[o] # Absent
    /\ InScope(a, o)
    /\ snap' = [snap EXCEPT ![a] = rec[o]]
    /\ stale' = stale \ {a}
    /\ \/ /\ ~IsDeleting(rec[o])
          /\ Goto(a, "ensure")
          /\ \/ Begin(a, o, "no", 0, {})
             \/ rec[o].ip = 0 /\ Begin(a, o, "list", 0, {})
             \/ rec[o].ip # 0 /\ BeginClaim(a, o, rec[o].ip)
       \/ /\ IsDeleting(rec[o]) /\ HasFinalizer(rec[o])
          /\ Goto(a, "finalize")
          /\ IF rec[o].ip = 0 THEN Begin(a, o, "ok", 0, {})
                              ELSE BeginRelease(a, o, rec[o].ip)
       \/ /\ IsDeleting(rec[o]) /\ ~HasFinalizer(rec[o])
          /\ Goto(a, "remove")
          /\ Begin(a, o, "ok", 0, {})
    /\ UNCHANGED <<rec, created, requests, evictions>>

\* usedIPs lists what the other records have, then allocate starts.
ListUsed(a) ==
    /\ op[a] = "list"
    /\ BeginAllocate(a, who[a],
         {rec[o].ip : o \in {q \in Owners \ {who[a]} : rec[q] # Absent}} \ {0})
    /\ UNCHANGED <<rec, pc, snap, stale, created, requests, evictions>>

\* An access of the address book.
Access(a) ==
    /\ BookStep(a) \/ BookError(a)
    /\ UNCHANGED <<rec, pc, snap, stale, created, requests, evictions>>

\* The reconcile of a ends.
Leave(a) ==
    /\ Goto(a, "idle")
    /\ snap' = [snap EXCEPT ![a] = Absent]
    /\ End(a)

\* registry.Put of r by a succeeds unless its copy is stale.
Put(a, r) ==
    /\ a \notin stale
    /\ rec' = [rec EXCEPT ![who[a]] = r]
    /\ stale' = stale \cup {b \in Procs \ {a} : who[b] = who[a]}

\* A conflict, or an error before any write: the reconcile ends there.
GiveUp(a) ==
    /\ Leave(a)
    /\ stale' = stale \ {a}
    /\ UNCHANGED rec

\* ensure ends: with an address, EnsureCompute starts the instance and either
\* way the address is recorded; without one only the finalizer and the phase.
Save(a) ==
    /\ pc[a] = "ensure"
    /\ op[a] \in {"ok", "no"}
    /\ \/ /\ Put(a, Realised(snap[a], IF op[a] = "ok" THEN ip[a] ELSE snap[a].ip))
          /\ Leave(a)
       \/ /\ a \in stale
          /\ GiveUp(a)
    /\ UNCHANGED <<created, requests, evictions>>

\* finalize goes on after release: the finalizer comes off, unless release
\* failed or the Put conflicts.
DropFinalizer(a) ==
    /\ pc[a] = "finalize"
    /\ \/ /\ op[a] = "ok"
          /\ Put(a, Finalized(snap[a]))
          /\ Goto(a, "remove")
          /\ UNCHANGED <<bookVars, snap>>
       \/ /\ op[a] = "no" \/ (op[a] = "ok" /\ a \in stale)
          /\ GiveUp(a)
    /\ UNCHANGED <<created, requests, evictions>>

\* registry.Delete is unconditional.
Remove(a) ==
    /\ pc[a] = "remove"
    /\ rec' = [rec EXCEPT ![who[a]] = Absent]
    /\ stale' = (stale \cup {b \in Procs : who[b] = who[a]}) \ {a}
    /\ Leave(a)
    /\ UNCHANGED <<created, requests, evictions>>

\* The agent restarts.
Crash(a) ==
    /\ pc[a] # "idle"
    /\ faults < MaxFaults
    /\ faults' = faults + 1
    /\ Goto(a, "idle")
    /\ snap' = [snap EXCEPT ![a] = Absent]
    /\ stale' = stale \ {a}
    /\ Forget(a)
    /\ UNCHANGED <<book, rec, created, requests, evictions>>

-----------------------------------------------------------------------------

Next ==
    \/ \E o \in Owners : Create(o) \/ Update(o) \/ Delete(o) \/ Evict(o)
    \/ \E a \in Procs :
         \/ \E o \in Owners : Load(a, o)
         \/ ListUsed(a) \/ Access(a) \/ Save(a)
         \/ DropFinalizer(a) \/ Remove(a) \/ Crash(a)

Spec == Init /\ [][Next]_vars

\* The agent is one goroutine that Go keeps running: a reconcile it has begun
\* takes its next step.
Fairness ==
    \A a \in Procs : WF_vars(ListUsed(a) \/ Access(a) \/ Save(a) \/ DropFinalizer(a) \/ Remove(a))

FairSpec == Spec /\ Fairness

-----------------------------------------------------------------------------
(* Properties *)

\* Type invariant.
TypeOK ==
    /\ BookTypeOK
    /\ rec \in [Owners -> Records \cup {Absent}]
    /\ pc \in [Procs -> {"idle", "ensure", "finalize", "remove"}]
    /\ snap \in [Procs -> Records \cup {Absent}]
    /\ stale \subseteq Procs
    /\ created \subseteq Owners
    /\ requests \in 0 .. MaxRequests
    /\ evictions \in 0 .. MaxEvictions

\* A live instance keeps the reservation of the address it records, and an
\* agent about to start an instance holds the address it gives it, as long as
\* its copy of the record is current: no allocation, claim or release of
\* another instance can come between (resolve and finalize in compute.go).
AddressHeld ==
    /\ \A o \in Owners :
         rec[o] # Absent => (~IsDeleting(rec[o]) /\ rec[o].ip # 0 => book[rec[o].ip] = o)
    /\ \A a \in Procs :
         pc[a] = "ensure" /\ op[a] = "ok" /\ a \notin stale => book[ip[a]] = who[a]

\* The loop of allocate ends however often other agents take the address it is
\* about to try, or free one it has passed by: no reconcile goes on for ever.
ReconcileEnds == \A a \in Procs : []<>(pc[a] = "idle")

\* "agents allocating at once on different hosts never take the same one"
\* (docs/architecture/realization.md:369-370): two live instances never record
\* the same address.
NoSharedAddress ==
    \A o, q \in Owners :
        o # q /\ rec[o] # Absent /\ rec[q] # Absent =>
            (~IsDeleting(rec[o]) /\ ~IsDeleting(rec[q]) /\ rec[o].ip # 0 => rec[o].ip # rec[q].ip)

\* "a reservation is released when the instance is deleted"
\* (docs/architecture/realization.md:370-371): once a record is gone and no
\* agent is at it, nothing is reserved for it.
\* It does not hold (README, Properties that do not hold).
ReleasedWithInstance ==
    \A o \in Owners :
        rec[o] = Absent /\ (\A a \in Procs : who[a] # o) =>
            \A x \in Addresses : book[x] # o
=============================================================================
