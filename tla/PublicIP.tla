----------------------------- MODULE PublicIP -----------------------------
(***************************************************************************)
(* Public addresses: every edge resolves every public ip_address to an     *)
(* address of the public block, reserved in the address book, and releases *)
(* the reservations of the ip_addresses that are gone                      *)
(* (PublicIPReconciler of internal/manager/publicip.go).  ip_address has   *)
(* no finalizer, so a deletion takes the record out of the store at once.  *)
(***************************************************************************)
EXTENDS AddressBook

CONSTANTS
    Reserved,    \* addresses of the block taken for another purpose
    MaxRequests, \* bound on API requests
    Absent       \* no record

ASSUME PublicIPAssumption ==
    /\ Reserved \subseteq Addresses
    /\ MaxRequests \in Nat

VARIABLES
    rec,      \* the stored ip_address of each owner, or Absent
    pc,       \* where each edge is in its pass
    view,     \* the records it listed
    outdated, \* <<edge, owner>>: the stored record is not the listed one
    todo,     \* listed ip_addresses still to resolve
    kvs,      \* listed reservations still to release
    requests  \* API requests so far

vars == <<bookVars, rec, pc, view, outdated, todo, kvs, requests>>

Init ==
    /\ BookInit
    /\ rec = [o \in Owners |-> Absent]
    /\ pc = [e \in Procs |-> "idle"]
    /\ view = [e \in Procs |-> [o \in Owners |-> Absent]]
    /\ outdated = {}
    /\ todo = [e \in Procs |-> {}]
    /\ kvs = [e \in Procs |-> {}]
    /\ requests = 0

Store(o, r) ==
    /\ rec' = [rec EXCEPT ![o] = r]
    /\ outdated' = outdated \cup {<<e, o>> : e \in {d \in Procs : pc[d] # "idle"}}

-----------------------------------------------------------------------------
(* API requests *)

Request ==
    /\ requests < MaxRequests
    /\ requests' = requests + 1
    /\ UNCHANGED <<bookVars, pc, view, todo, kvs>>

\* spec.address is empty (0) or names an address.
Create(o) ==
    /\ rec[o] = Absent
    /\ \E x \in Addresses \cup {0} :
         Store(o, [want |-> x, addr |-> 0, phase |-> "Unset", current |-> FALSE])
    /\ Request

Update(o) ==
    /\ rec[o] # Absent
    /\ \E x \in Addresses \cup {0} :
         Store(o, [rec[o] EXCEPT !.want = x, !.current = FALSE])
    /\ Request

Delete(o) ==
    /\ rec[o] # Absent
    /\ Store(o, Absent)
    /\ Request

-----------------------------------------------------------------------------
(* The pass of edge e *)

\* Mutants of Live: only ip_addresses that ask by name count, or those of
\* earlier passes still do.
Live_Named(e) == {o \in Owners : view[e][o] # Absent /\ view[e][o].want # 0}
Live_Ever(e) == Owners

\* The ip_addresses listed, and the addresses they ask for.
Live(e) == {o \in Owners : view[e][o] # Absent}
Requested(e) == {view[e][o].want : o \in {q \in Owners : view[e][q] # Absent}} \ {0}

\* ReconcileAll lists the ip_addresses.
ListAll(e) ==
    /\ pc[e] = "idle"
    /\ pc' = [pc EXCEPT ![e] = "resolve"]
    /\ view' = [view EXCEPT ![e] = rec]
    /\ outdated' = {eo \in outdated : eo[1] # e}
    /\ todo' = [todo EXCEPT ![e] = {o \in Owners : rec[o] # Absent}]
    /\ UNCHANGED <<bookVars, rec, kvs, requests>>

\* The address resolve goes for: the one asked for, else the one held.
Want(r) == IF r.want # 0 THEN r.want ELSE r.addr

\* resolve of the next ip_address; those that ask by name go first.
Resolve(e, o) ==
    /\ pc[e] = "resolve" /\ op[e] = "none"
    /\ o \in todo[e]
    /\ \A q \in todo[e] : view[e][q].want # 0 => view[e][o].want # 0
    /\ LET x == Want(view[e][o])
       IN  \/ x = 0 /\ BeginAllocate(e, o, Reserved \cup Requested(e))
           \/ x \in Reserved /\ Begin(e, o, "no", 0, {})
           \/ x \notin Reserved \cup {0} /\ BeginClaim(e, o, x)
    /\ UNCHANGED <<rec, pc, view, outdated, todo, kvs, requests>>

Access(e) ==
    /\ BookStep(e) \/ BookError(e)
    /\ UNCHANGED <<rec, pc, view, outdated, todo, kvs, requests>>

\* What ReconcileAll writes of an ip_address after resolve.
Resolved(e, r) ==
    IF op[e] = "ok"
      THEN [r EXCEPT !.addr = ip[e], !.phase = "Ready", !.current = TRUE]
      ELSE [r EXCEPT !.phase = "Error"]

\* The Put, if it says anything new; a conflict is left for the next pass.
Record(e) ==
    /\ pc[e] = "resolve" /\ op[e] \in {"ok", "no"}
    /\ LET o == who[e]
           r == Resolved(e, view[e][o])
       IN  /\ IF r # view[e][o] /\ <<e, o>> \notin outdated
                THEN Store(o, r)
                ELSE UNCHANGED <<rec, outdated>>
           /\ todo' = [todo EXCEPT ![e] = @ \ {o}]
    /\ End(e)
    /\ UNCHANGED <<pc, view, kvs, requests>>

\* releaseStale lists the reservations; those of no listed ip_address go.
ListReservations(e) ==
    /\ pc[e] = "resolve" /\ op[e] = "none" /\ todo[e] = {}
    /\ pc' = [pc EXCEPT ![e] = "sweep"]
    /\ kvs' = [kvs EXCEPT ![e] =
                 {<<x, book[x]>> : x \in {y \in Addresses : book[y] \notin Live(e) \cup {Free}}}]
    /\ UNCHANGED <<bookVars, rec, view, outdated, todo, requests>>

ReleaseStale(e) ==
    /\ pc[e] = "sweep" /\ op[e] \in {"none", "ok"}
    /\ \E kv \in kvs[e] :
         /\ kvs' = [kvs EXCEPT ![e] = @ \ {kv}]
         /\ BeginRelease(e, kv[2], kv[1])
    /\ UNCHANGED <<rec, pc, view, outdated, todo, requests>>

Leave(e) ==
    /\ pc' = [pc EXCEPT ![e] = "idle"]
    /\ view' = [view EXCEPT ![e] = [o \in Owners |-> Absent]]
    /\ outdated' = {eo \in outdated : eo[1] # e}
    /\ todo' = [todo EXCEPT ![e] = {}]
    /\ kvs' = [kvs EXCEPT ![e] = {}]

\* The pass ends when all are released, or at the first error of release.
EndPass(e) ==
    /\ pc[e] = "sweep"
    /\ op[e] = "no" \/ (op[e] \in {"none", "ok"} /\ kvs[e] = {})
    /\ Leave(e)
    /\ End(e)
    /\ UNCHANGED <<rec, requests>>

\* The agent restarts.
Crash(e) ==
    /\ pc[e] # "idle"
    /\ faults < MaxFaults
    /\ faults' = faults + 1
    /\ Leave(e)
    /\ Forget(e)
    /\ UNCHANGED <<book, rec, requests>>

-----------------------------------------------------------------------------

EdgeStep(e) ==
    \/ ListAll(e) \/ Access(e) \/ Record(e)
    \/ \E o \in Owners : Resolve(e, o)
    \/ ListReservations(e) \/ ReleaseStale(e) \/ EndPass(e)

Next ==
    \/ \E o \in Owners : Create(o) \/ Update(o) \/ Delete(o)
    \/ \E e \in Procs : EdgeStep(e) \/ Crash(e)

Spec == Init /\ [][Next]_vars

\* The agent runs a pass on every tick.
FairSpec == Spec /\ \A e \in Procs : WF_vars(EdgeStep(e))

-----------------------------------------------------------------------------
(* Properties *)

Records ==
    [want : Addresses \cup {0}, addr : Addresses \cup {0},
     phase : {"Unset", "Ready", "Error"}, current : BOOLEAN]

\* Type invariant.
TypeOK ==
    /\ BookTypeOK
    /\ rec \in [Owners -> Records \cup {Absent}]
    /\ pc \in [Procs -> {"idle", "resolve", "sweep"}]
    /\ view \in [Procs -> [Owners -> Records \cup {Absent}]]
    /\ outdated \subseteq Procs \X Owners
    /\ todo \in [Procs -> SUBSET Owners]
    /\ kvs \in [Procs -> SUBSET (Addresses \X Owners)]
    /\ requests \in 0 .. MaxRequests

Ready(o) == rec[o] # Absent /\ rec[o].phase = "Ready"

\* With one edge, an ip_address reported Ready holds the reservation of its
\* address: releaseStale never takes it away, whatever is created, deleted or
\* changed between the listing and the sweep.
ReadyReserved == \A o \in Owners : Ready(o) => book[rec[o].addr] = o

\* A deleted ip_address gives its address back: once it is gone for good, the
\* next passes leave nothing reserved for it (releaseStale).
StaleReleased ==
    \A o \in Owners, x \in Addresses :
        []<>(rec[o] # Absent \/ book[x] # o)

\* "A conflict puts the latecomer in `Error`"
\* (docs/architecture/realization.md:244): two ip_addresses are never Ready on
\* the same address.
LatecomerInError ==
    \A o, q \in Owners : o # q /\ Ready(o) /\ Ready(q) => rec[o].addr # rec[q].addr
=============================================================================
