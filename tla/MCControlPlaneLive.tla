-------------------------- MODULE MCControlPlaneLive --------------------------
(* The control plane, liveness: the addresses of instances, the life of a   *)
(* compute record and the grants of devices, with the fairness of agents,   *)
(* schedulers and providers.  They share no state; each is explored on its  *)
(* own.                                                                     *)
EXTENDS DeviceGrants

CONSTANTS Free, Nobody, Absent, Exited

VARIABLES focus,   \* the component whose steps are taken
          store, host, lcPc, lcSnap, out, lcStale, lcRequests, lcEvictions, lcFaults, book, op,
          who, ip, used, iaFaults, rec, iaPc, iaSnap, iaStale, created, iaRequests, iaEvictions

LcAgents == {"n1", "n2"}
LcClients == {"c1"}
LcSchedulers == {"s1"}
IaProcs == {"a1", "a2"}
IaOwners == {"x", "y"}
IaReusable == {"x"}
IaAddresses == 1..2

LC == INSTANCE Lifecycle WITH
        Kind <- "compute", Agents <- LcAgents, Clients <- LcClients, Schedulers <- LcSchedulers,
        MaxRequests <- 3, MaxEvictions <- 1, MaxFaults <- 1, pc <- lcPc, snap <- lcSnap,
        stale <- lcStale, requests <- lcRequests, evictions <- lcEvictions, faults <- lcFaults
IA == INSTANCE InstanceAddresses WITH
        Procs <- IaProcs, Owners <- IaOwners, Reusable <- IaReusable, Addresses <- IaAddresses,
        MaxFaults <- 1, MaxRequests <- 3, MaxEvictions <- 1, faults <- iaFaults, pc <- iaPc,
        snap <- iaSnap, stale <- iaStale, requests <- iaRequests, evictions <- iaEvictions

lcState == <<store, host, lcPc, lcSnap, out, lcStale, lcRequests, lcEvictions, lcFaults>>
iaState == <<book, op, who, ip, used, iaFaults, rec, iaPc, iaSnap, iaStale, created, iaRequests,
             iaEvictions>>

AllInit ==
  /\ focus \in {"instances", "records", "grants"}
  /\ DgInit
  /\ LC!Init
  /\ IA!Init

\* A step of the component in focus
AllNext ==
  /\ UNCHANGED focus
  /\ \/ focus = "instances" /\ UNCHANGED <<lcState, dgvars>> /\ IA!Next
     \/ focus = "records" /\ UNCHANGED <<iaState, dgvars>> /\ LC!Next
     \/ focus = "grants" /\ UNCHANGED <<iaState, lcState>> /\ DgNext

allVars == <<focus, dgvars, lcState, iaState>>

\* The fairness of each component, in its focus
AllFairness ==
  /\ \A a \in {"a1", "a2"} :
       WF_(iaState)(focus = "instances" /\ (IA!ListUsed(a) \/ IA!Access(a) \/ IA!Save(a) \/ IA!DropFinalizer(a)
                                            \/ IA!Remove(a)))
  /\ \A a \in {"n1", "n2"} : WF_(lcState)(focus = "records" /\ LC!AgentStep(a))
  /\ WF_(lcState)(focus = "records" /\ LC!SchedStep("s1"))
  /\ \A i \in Idps : WF_dgvars(focus = "grants" /\ Serve(i))
  /\ \A l \in Logins : WF_dgvars(focus = "grants" /\ \E i \in Idps : Poll(i, l))

AllSpec == AllInit /\ [][AllNext]_allVars /\ AllFairness
-----------------------------------------------------------------------------
\* InstanceAddresses: every reconcile that begins ends.
ReconcileEnds == []<>(focus # "instances") \/ IA!ReconcileEnds
\* Lifecycle: a deletion completes.
DeletionCompletes == []<>(focus # "records") \/ LC!DeletionCompletes
\* Lifecycle: a record converges to its spec.
SpecConverges == []<>(focus # "records") \/ LC!SpecConverges
\* DeviceGrants: an approved login gets its token.
LoginGranted == []<>(focus # "grants") \/ ApprovalGrants
=============================================================================
