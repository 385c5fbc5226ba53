----------------------------- MODULE Lifecycle -----------------------------
(***************************************************************************)
(* The life of one record of a kind that is placed on a node, from the API *)
(* call that creates it to the finalizer that removes it, with everyone    *)
(* who writes it: API requests (internal/handler/handler.go), the          *)
(* scheduler of each active controller-manager                             *)
(* (internal/controllers/scheduler.go) and the agent of each node          *)
(* (internal/manager/compute.go, or microvm.go, which differs in its node  *)
(* scope and in what it does with an instance that runs).  Every Get, Put, *)
(* Delete and host call is a step of its own, so they interleave as the    *)
(* processes do.                                                           *)
(*                                                                         *)
(* registry.Put swaps the record only if the stored bytes are the ones the *)
(* caller read, and creates only where nothing is stored.  The bytes hold  *)
(* timestamps and a generation, so a copy read before a write that renews  *)
(* one of them never equals the stored record again: the reader is then in *)
(* the set stale.                                                          *)
(***************************************************************************)
EXTENDS Integers

CONSTANTS
    Kind,         \* "compute" or "microvm"
    Agents,       \* infra-agent processes, named by the node they run on
    Clients,      \* API requests that can be in flight at once
    Schedulers,   \* controller-managers whose scheduler is active
    MaxRequests,  \* bound on API requests
    MaxEvictions, \* bound on heartbeats going stale
    MaxFaults,    \* bound on host errors, waits, exits, crashes and full nodes
    Absent,       \* no record
    None,         \* no node, and no instance on a host
    Exited        \* an instance that exited by itself

Procs == Agents \cup Clients \cup Schedulers

ASSUME LifecycleAssumption ==
    /\ Kind \in {"compute", "microvm"}
    /\ Agents \cap Clients = {}
    /\ Agents \cap Schedulers = {}
    /\ Clients \cap Schedulers = {}
    /\ {MaxRequests, MaxEvictions, MaxFaults} \subseteq Nat
    /\ None \notin Agents
    /\ None # Exited

VARIABLES
    store,     \* the stored record, or Absent
    host,      \* the instance each node runs for this uid
    pc,        \* what each process does next
    snap,      \* the record each process read last
    out,       \* the record it is about to Put
    stale,     \* processes whose copy can never equal the record again
    requests,  \* API requests so far; also names what they create
    evictions, \* evictions decided so far
    faults     \* faults so far

vars == <<store, host, pc, snap, out, stale, requests, evictions, faults>>

Phases == {"Unset", "Pending", "Ready", "Error", "Deleting"}

Records ==
    [inc : Nat,            \* metadata.createdAt: which creation this is
     gen : Nat,            \* metadata.generation
     deleting : BOOLEAN,   \* metadata.deletionTimestamp is set
     fin : BOOLEAN,        \* metadata.finalizers holds ComputeFinalizer
     node : Agents \cup {None},
     phase : Phases,
     obs : Nat]            \* status.observedGeneration

\* A running instance, by the spec it was started from; an instance that
\* exited by itself; or none.
Instances == [inc : Nat, gen : Nat] \cup {None, Exited}

-----------------------------------------------------------------------------

Goto(p, l) == pc' = [pc EXCEPT ![p] = l]

\* registry.Get
Get(p) ==
    /\ snap' = [snap EXCEPT ![p] = store]
    /\ stale' = stale \ {p}

\* Mutant of Unchanged: a Put that does not compare.
Unchanged_Blind(p) == TRUE

\* The compare-and-swap of registry.Put finds the bytes p read.
Unchanged(p) == store = snap[p] /\ (store # Absent => p \notin stale)

\* What a process forgets when it goes on to l without its copy.
Drop(p, l) ==
    /\ Goto(p, l)
    /\ snap' = [snap EXCEPT ![p] = Absent]
    /\ out' = [out EXCEPT ![p] = Absent]

\* registry.Put, and on to l; a conflict ends what p was doing. All writes but
\* the scheduler's stamp a new time or raise the generation.
Put(p, l) ==
    IF Unchanged(p)
      THEN /\ store' = out[p]
           /\ stale' = (IF p \in Schedulers THEN stale
                        ELSE {q \in Procs : snap[q] # Absent}) \ {p}
           /\ Drop(p, l)
      ELSE /\ stale' = stale \ {p}
           /\ Drop(p, "idle")
           /\ UNCHANGED store

Init ==
    /\ store = Absent
    /\ host = [a \in Agents |-> None]
    /\ pc = [p \in Procs |-> "idle"]
    /\ snap = [p \in Procs |-> Absent]
    /\ out = [p \in Procs |-> Absent]
    /\ stale = {}
    /\ requests = 0
    /\ evictions = 0
    /\ faults = 0

-----------------------------------------------------------------------------
(* API requests *)

\* Mutant of Updated: the update forgets the deletionTimestamp.
Updated_Undeletes ==
    IF store = Absent
      THEN [inc |-> requests + 1, gen |-> 1, deleting |-> FALSE, fin |-> FALSE,
            node |-> None, phase |-> "Unset", obs |-> 0]
      ELSE [store EXCEPT !.gen = @ + 1, !.deleting = FALSE]

\* The record Handler.put writes: a creation starts afresh, an update keeps
\* everything but the spec, which is named by the new generation.
Updated ==
    IF store = Absent
      THEN [inc |-> requests + 1, gen |-> 1, deleting |-> FALSE, fin |-> FALSE,
            node |-> None, phase |-> "Unset", obs |-> 0]
      ELSE [store EXCEPT !.gen = @ + 1]

\* Handler.put up to its registry.Put.
ApiPut(c) ==
    /\ pc[c] = "idle"
    /\ requests < MaxRequests
    /\ requests' = requests + 1
    /\ Get(c)
    /\ out' = [out EXCEPT ![c] = Updated]
    /\ Goto(c, "put")
    /\ UNCHANGED <<store, host, evictions, faults>>

\* The deletionTimestamp is set.
Marked(r) == [r EXCEPT !.deleting = TRUE]

\* Handler.delete up to its write: a record without finalizers is deleted
\* outright, another one is marked.
ApiDelete(c) ==
    /\ pc[c] = "idle"
    /\ requests < MaxRequests
    /\ requests' = requests + 1
    /\ store # Absent
    /\ Get(c)
    /\ IF store.fin
         THEN /\ out' = [out EXCEPT ![c] = Marked(store)]
              /\ Goto(c, "put")
         ELSE /\ Goto(c, "delete")
              /\ UNCHANGED out
    /\ UNCHANGED <<store, host, evictions, faults>>

\* The registry.Put of a request or of a scheduler: done, or a conflict.
Commit(p) ==
    /\ pc[p] = "put"
    /\ Put(p, "idle")
    /\ UNCHANGED <<host, requests, evictions, faults>>

\* registry.Delete is unconditional.
Remove(p) ==
    /\ pc[p] = "delete"
    /\ store' = Absent
    /\ stale' = stale \ {p}
    /\ Drop(p, "idle")
    /\ UNCHANGED <<host, requests, evictions, faults>>

-----------------------------------------------------------------------------
(* The scheduler *)

\* Mutant of SchedList: computes that have a node are placed too.
SchedList_Replaces(s) ==
    /\ pc[s] = "idle"
    /\ store # Absent /\ ~store.deleting
    /\ Goto(s, "place")
    /\ UNCHANGED <<store, host, snap, out, stale, requests, evictions, faults>>

\* Reconcile lists the computes. One without a node is to be placed, one on a
\* node whose heartbeat is stale is to be evicted first; deleting ones are
\* left alone.
SchedList(s) ==
    /\ pc[s] = "idle"
    /\ store # Absent /\ ~store.deleting
    /\ \/ /\ store.node = None
          /\ Goto(s, "place")
          /\ UNCHANGED evictions
       \/ /\ store.node # None
          /\ evictions < MaxEvictions
          /\ evictions' = evictions + 1
          /\ Goto(s, "evict")
    /\ UNCHANGED <<store, host, snap, out, stale, requests, faults>>

\* status.nodeName is set or cleared.
Placed(r, n) == [r EXCEPT !.node = n]

\* assign, up to its Put: it overwrites the node of the latest copy.
SchedAssign(s) ==
    /\ pc[s] = "place"
    /\ \E n \in Agents :
         IF store # Absent /\ store.node # n
           THEN /\ Get(s)
                /\ out' = [out EXCEPT ![s] = Placed(store, n)]
                /\ Goto(s, "put")
           ELSE /\ Goto(s, "idle")
                /\ UNCHANGED <<snap, out, stale>>
    /\ UNCHANGED <<store, host, requests, evictions, faults>>

\* No ready node has room, or the node pool is missing: a later pass retries.
SchedNoFit(s) ==
    /\ pc[s] = "place"
    /\ faults < MaxFaults
    /\ faults' = faults + 1
    /\ Goto(s, "idle")
    /\ UNCHANGED <<store, host, snap, out, stale, requests, evictions>>

\* evict, up to its Put; a compute that lost its node meanwhile is placed.
SchedEvict(s) ==
    /\ pc[s] = "evict"
    /\ IF store # Absent /\ store.node # None
         THEN /\ Get(s)
              /\ out' = [out EXCEPT ![s] = Placed(store, None)]
              /\ Goto(s, "evicting")
         ELSE /\ Goto(s, IF store = Absent THEN "idle" ELSE "place")
              /\ UNCHANGED <<snap, out, stale>>
    /\ UNCHANGED <<store, host, requests, evictions, faults>>

\* The Put of evict: on success the same pass goes on to place the compute.
SchedEvicted(s) ==
    /\ pc[s] = "evicting"
    /\ Put(s, "place")
    /\ UNCHANGED <<host, requests, evictions, faults>>

-----------------------------------------------------------------------------
(* The agent of node a *)

\* Mutant of ComputeScope: a deleting compute without a node is nobody's.
ComputeScope_PlacedOnly(a) == store.node = a

\* The node scope of ComputeReconciler.Reconcile: computes placed here, and
\* deleting ones that are placed nowhere.
ComputeScope(a) == store.node = a \/ (store.node = None /\ store.deleting)

\* The node scope of MicroVMReconciler.Reconcile: only what is placed here.
MicroVMScope(a) == store.node = a

InScope(a) == IF Kind = "compute" THEN ComputeScope(a) ELSE MicroVMScope(a)

\* Mutant of AgentGet: what is Ready is not looked at again.
AgentGet_SkipsReady(a) ==
    /\ pc[a] = "idle"
    /\ store # Absent
    /\ InScope(a)
    /\ store.phase # "Ready" \/ store.deleting
    /\ Get(a)
    /\ Goto(a, IF ~store.deleting THEN "ensure"
               ELSE IF store.fin THEN "finalize" ELSE "delete")
    /\ UNCHANGED <<store, host, out, requests, evictions, faults>>

\* Reconcile loads the record and turns to ensure or finalize. A deleting
\* record whose finalizer is already gone only remains to be deleted.
AgentGet(a) ==
    /\ pc[a] = "idle"
    /\ store # Absent
    /\ InScope(a)
    /\ Get(a)
    /\ Goto(a, IF ~store.deleting THEN "ensure"
               ELSE IF store.fin THEN "finalize" ELSE "delete")
    /\ UNCHANGED <<store, host, out, requests, evictions, faults>>

\* What ensure leaves on its copy: the finalizer, and MarkReconciled on success.
Realised(r) == [r EXCEPT !.fin = TRUE, !.phase = "Ready", !.obs = r.gen]
NotRealised(r, ph) == [r EXCEPT !.fin = TRUE, !.phase = ph]

\* Mutant of AgentRealise: an instance that runs is kept as it is.
AgentRealise_Keeps(a) ==
    /\ pc[a] = "ensure"
    /\ host' = [host EXCEPT ![a] = IF @ \in {None, Exited}
                                     THEN [inc |-> snap[a].inc, gen |-> snap[a].gen]
                                     ELSE @]
    /\ out' = [out EXCEPT ![a] = Realised(snap[a])]
    /\ Goto(a, "save")
    /\ UNCHANGED <<store, snap, stale, requests, evictions, faults>>

\* EnsureMicroVM leaves a live process alone, whatever it was started from.
KeepsLive(a) == Kind = "microvm" /\ host[a] \notin {None, Exited}

\* EnsureCompute succeeds: whatever ran for this uid under another request is
\* replaced. The finalizer is on the agent's copy only.
AgentRealise(a) ==
    /\ pc[a] = "ensure"
    /\ IF KeepsLive(a)
         THEN UNCHANGED host
         ELSE host' = [host EXCEPT ![a] = [inc |-> snap[a].inc, gen |-> snap[a].gen]]
    /\ out' = [out EXCEPT ![a] = Realised(snap[a])]
    /\ Goto(a, "save")
    /\ UNCHANGED <<store, snap, stale, requests, evictions, faults>>

\* resolve waits for a dependency or fails (the host is untouched), or
\* EnsureCompute fails (a half-made instance is taken down again), as
\* EnsureMicroVM may where no process is live.
AgentNotRealised(a) ==
    /\ pc[a] = "ensure"
    /\ faults < MaxFaults
    /\ faults' = faults + 1
    /\ \E ph \in {"Pending", "Error"} :
         /\ out' = [out EXCEPT ![a] = NotRealised(snap[a], ph)]
         /\ \/ UNCHANGED host
            \/ /\ ph = "Error" /\ ~KeepsLive(a)
               /\ host' = [host EXCEPT ![a] = None]
    /\ Goto(a, "save")
    /\ UNCHANGED <<store, snap, stale, requests, evictions>>

\* The Put that ends ensure, or a failed finalize.
AgentSave(a) ==
    /\ pc[a] = "save"
    /\ Put(a, "idle")
    /\ UNCHANGED <<host, requests, evictions, faults>>

\* What finalize leaves on its copy when the instance is gone, or is not.
Finalized(r) == [r EXCEPT !.fin = FALSE, !.phase = "Deleting"]
NotFinalized(r) == [r EXCEPT !.phase = "Error"]

\* Mutant of AgentTeardown: the finalizer goes, the instance stays.
AgentTeardown_Leaves(a) ==
    /\ pc[a] = "finalize"
    /\ out' = [out EXCEPT ![a] = Finalized(snap[a])]
    /\ Goto(a, "drop")
    /\ UNCHANGED <<store, host, snap, stale, requests, evictions, faults>>

\* finalize: DeleteCompute, then the copy without the finalizer.
AgentTeardown(a) ==
    /\ pc[a] = "finalize"
    /\ host' = [host EXCEPT ![a] = None]
    /\ out' = [out EXCEPT ![a] = Finalized(snap[a])]
    /\ Goto(a, "drop")
    /\ UNCHANGED <<store, snap, stale, requests, evictions, faults>>

\* DeleteCompute fails: the finalizer stays.
AgentTeardownError(a) ==
    /\ pc[a] = "finalize"
    /\ faults < MaxFaults
    /\ faults' = faults + 1
    /\ out' = [out EXCEPT ![a] = NotFinalized(snap[a])]
    /\ Goto(a, "save")
    /\ UNCHANGED <<store, host, snap, stale, requests, evictions>>

\* The Put that drops the finalizer; with it gone the record is deleted next.
AgentDrop(a) ==
    /\ pc[a] = "drop"
    /\ Put(a, "delete")
    /\ UNCHANGED <<host, requests, evictions, faults>>

\* The agent process dies and restarts; instances outlive it.
AgentCrash(a) ==
    /\ pc[a] # "idle"
    /\ faults < MaxFaults
    /\ faults' = faults + 1
    /\ stale' = stale \ {a}
    /\ Drop(a, "idle")
    /\ UNCHANGED <<store, host, requests, evictions>>

\* An instance exits by itself.
HostExit(a) ==
    /\ host[a] \notin {None, Exited}
    /\ faults < MaxFaults
    /\ faults' = faults + 1
    /\ host' = [host EXCEPT ![a] = Exited]
    /\ UNCHANGED <<store, pc, snap, out, stale, requests, evictions>>

-----------------------------------------------------------------------------

AgentStep(a) ==
    \/ AgentGet(a) \/ AgentRealise(a) \/ AgentSave(a)
    \/ AgentTeardown(a) \/ AgentDrop(a) \/ Remove(a)

SchedStep(s) ==
    \/ SchedList(s) \/ SchedAssign(s) \/ SchedEvict(s) \/ SchedEvicted(s) \/ Commit(s)

Next ==
    \/ \E c \in Clients : ApiPut(c) \/ ApiDelete(c) \/ Commit(c) \/ Remove(c)
    \/ \E s \in Schedulers : SchedStep(s) \/ SchedNoFit(s)
    \/ \E a \in Agents :
         AgentStep(a) \/ AgentNotRealised(a) \/ AgentTeardownError(a)
           \/ AgentCrash(a) \/ HostExit(a)

Spec == Init /\ [][Next]_vars

\* Agents and managers run a pass on every tick of a ticker, and a pass visits
\* every record; requests come as they please.
Fairness ==
    /\ \A a \in Agents : WF_vars(AgentStep(a))
    /\ \A s \in Schedulers : WF_vars(SchedStep(s))

FairSpec == Spec /\ Fairness

-----------------------------------------------------------------------------
(* Properties *)

\* Type invariant.
TypeOK ==
    /\ store \in Records \cup {Absent}
    /\ host \in [Agents -> Instances]
    /\ pc \in [Procs -> {"idle", "put", "delete", "place", "evict", "evicting",
                         "ensure", "save", "finalize", "drop"}]
    /\ snap \in [Procs -> Records \cup {Absent}]
    /\ out \in [Procs -> Records \cup {Absent}]
    /\ stale \subseteq Procs
    /\ requests \in 0 .. MaxRequests
    /\ evictions \in 0 .. MaxEvictions
    /\ faults \in 0 .. MaxFaults

\* The record before and after a step is the same creation.
Same == store # Absent /\ store' # Absent /\ store'.inc = store.inc

\* A deletion that was accepted is never undone, whoever writes the record
\* from an older copy: Handler.put preserves the deletionTimestamp, and every
\* other writer goes through the compare-and-swap of registry.Put.
DeletionSticky == [][Same /\ store.deleting => store'.deleting]_vars

\* An accepted spec is never lost to a status or placement write made from an
\* older copy: the generation only grows, so no agent or scheduler Put puts
\* back an earlier spec.
NoLostUpdate == [][Same => store'.gen >= store.gen]_vars

\* The finalizer comes off (finalize in compute.go) only from a record that is
\* being deleted, and only once the node it is placed on runs nothing for it.
FinalizerHonoured ==
    [][Same /\ store.fin /\ ~store'.fin =>
         store.deleting /\ (store.node # None => host[store.node] = None)]_vars

Converged(r) == r.phase = "Ready" /\ r.obs >= r.gen

\* What runs where a record is placed, if it is not just being reconciled.
Outdated(a) ==
    /\ store # Absent /\ pc[a] = "idle"
    /\ store.node = a /\ ~store.deleting /\ Converged(store)
    /\ host[a] # [inc |-> store.inc, gen |-> store.gen]

\* While heartbeats stay fresh, a compute reported as converged is never served
\* by an instance of an earlier spec or of an earlier record with the same uid:
\* MarkReconciled takes the generation of the very copy EnsureCompute realised,
\* and the compare-and-swap refuses it once the spec has moved on.
ReadyNotOutdated ==
    evictions = 0 => \A a \in Agents : Outdated(a) => host[a] \in {None, Exited}

\* PhaseReady "means the observed state matches the desired state"
\* (internal/domain/resource/phase.go:19), where no host call failed and no
\* instance exited.
\* It does not hold (README, Properties that do not hold).
ReadyIsRunning ==
    \A a \in Agents : ~Outdated(a)

\* Placement (scheduler.go): a placed compute changes node only through an
\* eviction, so it is never moved while its node runs it.
PlacedUntilEvicted ==
    [][Same /\ store.node # None => store'.node \in {store.node, None}]_vars

\* A record being deleted leaves the store, wherever it is or is not placed:
\* finalize is retried until its finalizer is gone.
DeletionCompletes == []<>(store = Absent \/ ~store.deleting)

\* Level-triggered convergence: an accepted spec is running and reported as
\* converged sooner or later, unless the record is deleted.
SpecConverges ==
    []<>(\/ store = Absent
         \/ store # Absent /\ store.deleting
         \/ /\ store # Absent /\ Converged(store) /\ store.node # None
            /\ host[store.node] = [inc |-> store.inc, gen |-> store.gen])

\* "The resource stays in the store until all finalizers are removed"
\* (internal/domain/resource/resource.go:79-80).
\* It does not hold (README, Properties that do not hold).
FinalizersBlockRemoval ==
    [][store # Absent => (store.fin => store' # Absent)]_vars

\* "attach the finalizer, realize the spec, record status"
\* (docs/architecture/realization.md:27): what a node runs for a record is
\* covered by the finalizer the record carries.
\* It does not hold (README, Properties that do not hold).
RealisedHasFinalizer ==
    \A a \in Agents :
        store # Absent /\ host[a] \notin {None, Exited} =>
            (store.node = a /\ host[a].inc = store.inc => store.fin)

=============================================================================
