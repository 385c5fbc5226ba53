------------------------------ MODULE MCStorage ------------------------------
(* Storage and placement: the file store, disks and their replicas, the     *)
(* transfer of a replica and the schedulers.  They share no state; each is  *)
(* explored on its own.                                                     *)
EXTENDS FileStore, Replication

VARIABLES focus,   \* the component whose steps are taken
          fresh, disks, reps, files, copies, sched, agent, dkFaults, stales, nodes, pools, items,
          pass, scFaults, scStales

OneDir == [k \in Keys |-> "vpcs"]

DkNodes == 1..2
DkDisks == {1}
DkReps == {1}
DkDiskOf == <<1>>
DkMaxPods == <<0, 0>>
ScNodes == 1..2
ScPools == {1}
ScItems == 1..3
ScKind == <<"compute", "compute", "microvm">>
ScPoolOf == <<None, 1, None>>
ScCPU == <<1, 2, 1>>
ScLabels == <<{"gold"}, {}>>
ScSelector == <<{"gold"}>>
ScCPUs == <<2, 2>>
ScMaxPods == <<0, 1>>

DK == INSTANCE Disks WITH
        Nodes <- DkNodes, Disks <- DkDisks, Reps <- DkReps, DiskOf <- DkDiskOf, Encrypted <- {},
        MaxPods <- DkMaxPods, MaxFaults <- 1, MaxStale <- 1
SC == INSTANCE Scheduling WITH
        Nodes <- ScNodes, Pools <- ScPools, Items <- ScItems, Kind <- ScKind,
        PoolOf <- ScPoolOf, CPU <- ScCPU, Labels <- ScLabels, Selector <- ScSelector,
        CPUs <- ScCPUs, MaxPods <- ScMaxPods, MaxFaults <- 1, MaxStale <- 1

dkState == <<fresh, disks, reps, files, copies, sched, agent, dkFaults, stales>>
scState == <<nodes, pools, items, pass, scFaults, scStales>>

AllInit ==
  /\ focus \in {"files", "disks", "replication", "scheduling"}
  /\ FsInit
  /\ DK!DkInit
  /\ RpInit
  /\ SC!ScInit

\* A step of the component in focus
AllNext ==
  /\ UNCHANGED focus
  /\ \/ focus = "files" /\ UNCHANGED <<dkState, rpVars, scState>> /\ FsNext
     \/ focus = "disks" /\ UNCHANGED <<fsvars, rpVars, scState>> /\ DK!DkNext
     \/ focus = "replication" /\ UNCHANGED <<fsvars, dkState, scState>> /\ RpNext
     \/ focus = "scheduling" /\ UNCHANGED <<fsvars, dkState, rpVars>> /\ SC!ScNext

allVars == <<focus, fsvars, dkState, rpVars, scState>>

\* The fairness of each component, in its focus
AllFairness ==
  /\ WF_(dkState)(focus = "disks" /\ DK!SchedCycle)
  /\ \A n \in 1..2 : WF_(dkState)(focus = "disks" /\ DK!Heartbeat(n)) /\ WF_(dkState)(focus = "disks" /\ DK!AgentGoesOn(n))
  /\ SF_(dkState)(focus = "disks" /\ \E n \in 1..2 : DK!DiskPass(n, 1)) /\ WF_(dkState)(focus = "disks" /\ \E n \in 1..2 : DK!RepPass(n, 1))
  /\ \A n \in 1..2 : WF_(scState)(focus = "scheduling" /\ SC!Heartbeat(n) /\ nodes[n].seen # "fresh")
  /\ WF_(scState)(focus = "scheduling" /\ SC!ComputePass) /\ WF_(scState)(focus = "scheduling" /\ SC!MicroVMPass)

AllSpec == AllInit /\ [][AllNext]_allVars /\ AllFairness
-----------------------------------------------------------------------------
\* Disks: a finalizer is dropped by the node that has the file.
FinalizedOnItsNode == DK!FinalizedOnItsNode
\* Disks: a disk is provisioned.
DiskProvisioned == []<>(focus # "disks") \/ DK!DiskProvisioned
\* Scheduling: a workload is placed in its pool, where there is room for it.
PlacedWhereItFits == SC!PlacedWhereItFits
\* Scheduling: a workload that fits is placed, the phase of a node follows.
SchedulingSettles == []<>(focus # "scheduling") \/ SC!SchedulingSettles
=============================================================================
