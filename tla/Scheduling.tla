----------------------------- MODULE Scheduling -----------------------------
(***************************************************************************)
(* The placement of computes and micro-VMs on nodes: the two schedulers of *)
(* the controller manager (controllers/scheduler.go, microvm_scheduler.go),*)
(* which the leader runs one after the other, the heartbeats of the nodes  *)
(* (manager/heartbeat.go) and the clients that create and delete records.  *)
(*                                                                         *)
(* A pass works on what it listed; assign and evict read the record again  *)
(* and swap it, one step that is applied or comes to nothing; the status   *)
(* of a node is swapped against the record that was listed, so a heartbeat *)
(* since then makes it fail.  CPU stands for CPU and memory, which         *)
(* pickNode compares in the same way.                                      *)
(***************************************************************************)
EXTENDS Listing, FiniteSetsExt

CONSTANTS Nodes, Pools, Items,
          Kind,        \* item -> "compute" or "microvm"
          PoolOf,      \* item -> a pool, None for any node
          CPU,         \* item -> spec.cpu, spec.vcpus
          Labels,      \* node -> its labels
          Selector,    \* pool -> the labels it selects
          CPUs,        \* node -> capacity.cpus
          MaxPods,     \* node -> capacity.maxPods, 0 for none
          MaxFaults,   \* bound on failed calls, lost races, crashes and deletions
          MaxStale,    \* bound on heartbeats that go stale
          None

VARIABLES nodes, pools, items, pass, scFaults, scStales

scVars == <<nodes, pools, items, pass, scFaults, scStales>>

NewNode == [seen |-> "never", phase |-> "Pending", cpus |-> 0, pods |-> 0]
NewPool == [total |-> 0, ready |-> 0, phase |-> "Pending"]
NewItem == [node |-> None, del |-> FALSE]
IdlePass == [pc |-> "idle", kind |-> "compute", nodes |-> {}, ready |-> {}, pools |-> {},
             at |-> <<>>, todo |-> {}, dirty |-> {}]

ScInit ==
  /\ nodes = [n \in Nodes |-> NewNode]
  /\ pools = [p \in Pools |-> NewPool]
  /\ items = [w \in Items |-> NewItem]
  /\ pass = IdlePass
  /\ scFaults = 0 /\ scStales = 0

ScFault == scFaults < MaxFaults /\ scFaults' = scFaults + 1
Comes(reason) == (reason /\ UNCHANGED scFaults) \/ ScFault

Registered == {n \in Nodes : nodes[n] # None}
\* nodeReady
nodeReady(n) == nodes[n].seen = "fresh"
-----------------------------------------------------------------------------
(* Clients and heartbeats *)

Touch(n) == pass' = [pass EXCEPT !.dirty = @ \union {n}]

\* ReconcileAll of the agent's NodeHeartbeat; one that a pass trips over is a
\* fault of its own.
Heartbeat(n) ==
  /\ nodes[n] # None
  /\ IF nodes[n].seen = "fresh" THEN n \notin pass.dirty /\ pass.pc # "idle" /\ ScFault
     ELSE UNCHANGED scFaults
  /\ nodes' = [nodes EXCEPT ![n].seen = "fresh"]
  /\ Touch(n)
  /\ UNCHANGED <<pools, items, scStales>>

\* The ready window passes without a heartbeat.
GoStale(n) ==
  /\ nodes[n] # None /\ nodes[n].seen = "fresh" /\ scStales < MaxStale
  /\ nodes' = [nodes EXCEPT ![n].seen = "stale"]
  /\ scStales' = scStales + 1
  /\ UNCHANGED <<pools, items, pass, scFaults>>

DeleteNode(n) ==
  /\ nodes[n] # None /\ ScFault
  /\ nodes' = [nodes EXCEPT ![n] = None]
  /\ Touch(n)
  /\ UNCHANGED <<pools, items, scStales>>

DeletePool(p) ==
  /\ pools[p] # None /\ ScFault
  /\ pools' = [pools EXCEPT ![p] = None]
  /\ UNCHANGED <<nodes, items, pass, scStales>>

\* A record with finalizers is marked; the agent removes it later (Removed).
DeleteItem(w) ==
  /\ items[w] # None /\ ~items[w].del /\ ScFault
  /\ items' = [items EXCEPT ![w].del = TRUE]
  /\ UNCHANGED <<nodes, pools, pass, scStales>>

Removed(w) ==
  /\ items[w] # None /\ items[w].del
  /\ items' = [items EXCEPT ![w] = None]
  /\ UNCHANGED <<nodes, pools, pass, scFaults, scStales>>
-----------------------------------------------------------------------------
(* What a pass computes from its listing *)

Placement(kind) ==
  [w \in {v \in Items : Kind[v] = kind /\ items[v] # None /\ ~items[v].del} |-> items[w].node]
\* Mutant: only nodes that are still registered are looked at.
Evictees_Registered(at, ready) == {w \in DOMAIN at : at[w] \in Registered \ ready}

Evictees(at, ready) == {w \in DOMAIN at : at[w] # None /\ at[w] \notin ready}
Unplaced(at) == {w \in DOMAIN at : at[w] = None}

\* nodeAlloc
On(at, n) == {w \in DOMAIN at : at[w] = n}
AllocCPUs(at, n) == MapThenSumSet(LAMBDA w : CPU[w], On(at, n))
AllocPods(at, n) == Cardinality(On(at, n))

matchLabels(n, selector) == selector \subseteq Labels[n]

\* poolSelector
Placeable(w, ps) == PoolOf[w] = None \/ PoolOf[w] \in ps
poolSelector(w) == IF PoolOf[w] = None THEN {} ELSE Selector[PoolOf[w]]

\* Mutant: what is allocated already is not counted.
Fits_Alone(s, w, n) ==
  /\ MaxPods[n] > 0 => AllocPods(s.at, n) < MaxPods[n]
  /\ CPU[w] <= CPUs[n]

\* The conditions of pickNode.
Fits(s, w, n) ==
  /\ MaxPods[n] > 0 => AllocPods(s.at, n) < MaxPods[n]
  /\ AllocCPUs(s.at, n) + CPU[w] <= CPUs[n]

\* The least-loaded node, the first of them in the listing.
pickNode(s, w) ==
  LET fit == {n \in s.ready : matchLabels(n, poolSelector(w)) /\ Fits(s, w, n)}
  IN IF fit = {} THEN None
     ELSE First({n \in fit : \A m \in fit : AllocPods(s.at, n) <= AllocPods(s.at, m)})

AtPools(s) == [s EXCEPT !.pc = "pools"]
AtStatus(s) == IF s.todo # {} THEN [s EXCEPT !.pc = "status"] ELSE AtPools(s)
AtPlace(s) == IF s.todo # {} THEN [s EXCEPT !.pc = "place"]
              ELSE AtStatus([s EXCEPT !.todo = s.nodes])
AtEvict(s) == IF s.todo # {} THEN [s EXCEPT !.pc = "evict"]
              ELSE AtPlace([s EXCEPT !.todo = Unplaced(s.at)])
Rest(s) == [s EXCEPT !.todo = @ \ {First(@)}]
RestAt(s, n) == [s EXCEPT !.todo = @ \ {First(@)}, !.at[First(s.todo)] = n]
-----------------------------------------------------------------------------
(* The pass of one scheduler; the actions of the two are below. *)

Listed(kind) ==
  /\ pass.pc = "idle" /\ pass.kind = kind
  /\ LET at == Placement(kind)
         ready == {n \in Registered : nodeReady(n)}
     IN pass' = AtEvict([pc |-> "evict", kind |-> kind, nodes |-> Registered,
                         ready |-> ready, pools |-> {p \in Pools : pools[p] # None},
                         at |-> at, todo |-> Evictees(at, ready), dirty |-> {}])
  /\ UNCHANGED <<nodes, pools, items, scFaults, scStales>>

\* evict and assign: the latest copy, swapped.
Evicted(kind) ==
  /\ pass.pc = "evict" /\ pass.kind = kind
  /\ LET w == First(pass.todo)
     IN \/ /\ items[w] # None
           /\ items' = [items EXCEPT ![w].node = None]
           /\ pass' = AtEvict(RestAt(pass, None))
           /\ UNCHANGED scFaults
        \/ /\ Comes(items[w] = None)
           /\ pass' = AtEvict(Rest(pass))
           /\ UNCHANGED items
  /\ UNCHANGED <<nodes, pools, scStales>>

Assigned(kind) ==
  /\ pass.pc = "place" /\ pass.kind = kind
  /\ LET w == First(pass.todo)
         n == IF Placeable(w, pass.pools) THEN pickNode(pass, w) ELSE None
     IN \/ /\ n # None /\ items[w] # None
           /\ items' = [items EXCEPT ![w].node = n]
           /\ pass' = AtPlace(RestAt(pass, n))
           /\ UNCHANGED scFaults
        \/ /\ Comes(n = None \/ items[w] = None)
           /\ pass' = AtPlace(Rest(pass))
           /\ UNCHANGED items
  /\ UNCHANGED <<nodes, pools, scStales>>

Same(old, new) == old.cpus = new.cpus /\ old.pods = new.pods /\ old.phase = new.phase

\* writeNodeStatus, one node: nothing to say, or a Put of the record listed.
Written(kind) ==
  /\ pass.pc = "status" /\ pass.kind = kind
  /\ LET n == First(pass.todo)
         want == [seen |-> IF nodes[n] = None THEN "never" ELSE nodes[n].seen,
                  phase |-> IF n \in pass.ready THEN "Ready" ELSE "Pending",
                  cpus |-> AllocCPUs(pass.at, n), pods |-> AllocPods(pass.at, n)]
         clean == n \notin pass.dirty
     IN \/ /\ clean /\ ~Same(nodes[n], want)
           /\ nodes' = [nodes EXCEPT ![n] = want]
           /\ UNCHANGED scFaults
        \/ /\ Comes(clean => Same(nodes[n], want))
           /\ UNCHANGED nodes
  /\ pass' = AtStatus(Rest(pass))
  /\ UNCHANGED <<pools, items, scStales>>

\* writePoolStatus, and the end of the pass: the other scheduler's turn.
Counted(kind) ==
  /\ pass.pc = "pools" /\ pass.kind = kind
  /\ LET members(p) == {n \in pass.nodes : matchLabels(n, Selector[p])}
     IN pools' = [p \in Pools |->
          IF p \in pass.pools /\ pools[p] # None
          THEN [total |-> Cardinality(members(p)),
                ready |-> Cardinality(members(p) \intersect pass.ready), phase |-> "Ready"]
          ELSE pools[p]]
  /\ pass' = [IdlePass EXCEPT !.kind = IF kind = "compute" THEN "microvm" ELSE "compute"]
  /\ UNCHANGED <<nodes, items, scFaults, scStales>>
-----------------------------------------------------------------------------
(* SchedulerController *)

ComputeList == Listed("compute")
ComputeEvict == Evicted("compute")
ComputeAssign == Assigned("compute")
ComputeNodeStatus == Written("compute")
ComputePoolStatus == Counted("compute")

ComputePass == \/ ComputeList \/ ComputeEvict \/ ComputeAssign
               \/ ComputeNodeStatus \/ ComputePoolStatus

(* MicroVMSchedulerController *)

MicroVMList == Listed("microvm")
MicroVMEvict == Evicted("microvm")
MicroVMAssign == Assigned("microvm")
MicroVMNodeStatus == Written("microvm")
MicroVMPoolStatus == Counted("microvm")

MicroVMPass == \/ MicroVMList \/ MicroVMEvict \/ MicroVMAssign
               \/ MicroVMNodeStatus \/ MicroVMPoolStatus

\* The leader dies in the middle of a pass, and another takes over.
LeaderDies ==
  /\ pass.pc # "idle" /\ ScFault
  /\ pass' = IdlePass
  /\ UNCHANGED <<nodes, pools, items, scStales>>

ScNext ==
  \/ \E n \in Nodes : Heartbeat(n) \/ GoStale(n) \/ DeleteNode(n)
  \/ \E p \in Pools : DeletePool(p)
  \/ \E w \in Items : DeleteItem(w) \/ Removed(w)
  \/ ComputePass \/ MicroVMPass \/ LeaderDies

\* The agents and the leader run on tickers.
ScFairness ==
  /\ \A n \in Nodes : WF_scVars(Heartbeat(n) /\ nodes[n].seen # "fresh")
  /\ WF_scVars(ComputePass)
  /\ WF_scVars(MicroVMPass)

ScSpec == ScInit /\ [][ScNext]_scVars /\ ScFairness
-----------------------------------------------------------------------------

Live(w) == items[w] # None /\ ~items[w].del
Placed(kind, n) == {w \in Items : Kind[w] = kind /\ Live(w) /\ items[w].node = n}

\* The schedulers never commit more of a node than it has, each for its own
\* kind (microvm_scheduler.go:24-30 says so of the two together): whatever is
\* evicted, deleted or interrupted in between, the records that name a node
\* fit its CPUs and its maxPods.
WithinCapacity ==
  \A kind \in {"compute", "microvm"}, n \in Nodes :
    /\ MapThenSumSet(LAMBDA w : CPU[w], Placed(kind, n)) <= CPUs[n]
    /\ MaxPods[n] > 0 => Cardinality(Placed(kind, n)) <= MaxPods[n]

\* A record never names a node outside the pool it asks for.
InItsPool ==
  \A w \in Items : (items[w] # None /\ items[w].node # None /\ PoolOf[w] # None)
    => Selector[PoolOf[w]] \subseteq Labels[items[w].node]

\* A placement is one pickNode may make: a node of its pool, with room for it.
PlacedWhereItFits == WithinCapacity /\ InItsPool

\* A record without a node, or on a node that was deleted, while a node of its
\* pool has room for it.
Stranded(w) ==
  /\ Live(w) /\ items[w].node \notin Registered
  /\ PoolOf[w] # None => pools[PoolOf[w]] # None
  /\ \E n \in Registered : /\ matchLabels(n, poolSelector(w))
                            /\ Fits([at |-> Placement(Kind[w])], w, n)

\* No record is left stranded for good, whatever failed or went stale before.
GetsPlaced == \A w \in Items : []<>~Stranded(w)

\* The phase of a node ends up as its heartbeat says, though both schedulers
\* and the agent write the record.
PhaseFollows ==
  <>[](\A n \in Registered : nodes[n].phase = "Ready" <=> nodeReady(n))

\* Reconcile, pass after pass: what fits is placed, and nodes show how they are.
SchedulingSettles == GetsPlaced /\ PhaseFollows
=============================================================================
