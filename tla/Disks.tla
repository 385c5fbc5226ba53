------------------------------- MODULE Disks -------------------------------
(***************************************************************************)
(* Disks and their asynchronous replicas: the two schedulers that place    *)
(* them on nodes (controllers/disk_scheduler.go and                        *)
(* async_disk_replica_scheduler.go), which the leader runs one after the   *)
(* other, and the passes of every node's agent that create, copy and       *)
(* remove the files (manager/disk.go, manager/async_disk_replica.go).      *)
(*                                                                         *)
(* Put swaps the record that was read, so a read-modify-write of one       *)
(* record is one step that is applied or loses its race (a fault).         *)
(***************************************************************************)
EXTENDS Listing

CONSTANTS Nodes, Disks, Reps,   \* uids
          DiskOf,      \* the disk a replica is of
          Encrypted,   \* the disks with a KMS key
          MaxPods,     \* capacity.maxPods of a node, 0 for none
          MaxFaults,   \* bound on failed calls, lost races and crashes
          MaxStale,    \* bound on heartbeats that go stale
          None

VARIABLES fresh,    \* the nodes whose heartbeat is within the window
          disks, reps,
          files,    \* node, disk -> what <uid>.img holds
          copies,   \* node -> the replicas it has a complete copy for
          sched,    \* the pass of the two schedulers
          agent,    \* node -> what its agent does
          dkFaults, stales

dkVars == <<fresh, disks, reps, files, copies, sched, agent, dkFaults, stales>>
record == <<disks, reps>>
host == <<files, copies>>

DiskRecords == [node : Nodes \union {None}, fin : BOOLEAN, del : BOOLEAN,
                phase : {"Pending", "Ready", "Error", "Deleting"}]
RepRecords == [node : Nodes \union {None}, fin : BOOLEAN, del : BOOLEAN,
               phase : {"Pending", "Ready", "Error", "Deleting"}, synced : BOOLEAN]
Images == {None, "raw", "luks", "fs"}

NewDisk == [node |-> None, fin |-> FALSE, del |-> FALSE, phase |-> "Pending"]
NewRep == [node |-> None, fin |-> FALSE, del |-> FALSE, phase |-> "Pending",
           synced |-> FALSE]
IdleSched == [pc |-> "idle", ready |-> {}, at |-> <<>>, todo |-> {}]
IdleAgent == [pc |-> "idle", uid |-> None, was |-> None, rec |-> None, from |-> None]

DkInit ==
  /\ fresh = Nodes
  /\ disks = [d \in Disks |-> NewDisk]
  /\ reps = [r \in Reps |-> NewRep]
  /\ files = [n \in Nodes |-> [d \in Disks |-> None]]
  /\ copies = [n \in Nodes |-> {}]
  /\ sched = IdleSched
  /\ agent = [n \in Nodes |-> IdleAgent]
  /\ dkFaults = 0 /\ stales = 0

DkFault == dkFaults < MaxFaults /\ dkFaults' = dkFaults + 1
\* A call that comes to nothing: for a reason, or because it fails.
Misses(reason) == (reason /\ UNCHANGED dkFaults) \/ DkFault
-----------------------------------------------------------------------------
(* Clients and heartbeats *)

\* Handler.delete: a record without finalizers goes at once.
Deleted(rec) == IF rec.fin THEN [rec EXCEPT !.del = TRUE] ELSE None

DeleteDisk(d) ==
  /\ disks[d] # None /\ ~disks[d].del
  /\ disks' = [disks EXCEPT ![d] = Deleted(@)]
  /\ UNCHANGED <<fresh, reps, host, sched, agent, dkFaults, stales>>

DeleteRep(r) ==
  /\ reps[r] # None /\ ~reps[r].del
  /\ reps' = [reps EXCEPT ![r] = Deleted(@)]
  /\ UNCHANGED <<fresh, disks, host, sched, agent, dkFaults, stales>>

GoStale(n) ==
  /\ n \in fresh /\ stales < MaxStale
  /\ fresh' = fresh \ {n} /\ stales' = stales + 1
  /\ UNCHANGED <<record, host, sched, agent, dkFaults>>

Heartbeat(n) ==
  /\ n \notin fresh
  /\ fresh' = fresh \union {n}
  /\ UNCHANGED <<record, host, sched, agent, dkFaults, stales>>
-----------------------------------------------------------------------------
(* The schedulers.  at is the listing: the records that are not being       *)
(* deleted and their nodes, as this pass knows them.                        *)

LiveAt(recs) == {x \in DOMAIN recs : recs[x] # None /\ ~recs[x].del}
Placement(recs) == [x \in LiveAt(recs) |-> recs[x].node]
Evictees(at, ready) == {x \in DOMAIN at : at[x] # None /\ at[x] \notin ready}
Unplaced(at) == {x \in DOMAIN at : at[x] = None}

\* alloc[n].pods
Load(at, n) == Cardinality({x \in DOMAIN at : at[x] = n})
LeastLoaded(at, fit) ==
  IF fit = {} THEN None
  ELSE First({n \in fit : \A m \in fit : Load(at, n) <= Load(at, m)})
\* Mutant: a maxPods of zero is a limit too.
pickNode_Strict(at, ready) ==
  LeastLoaded(at, {n \in ready : Load(at, n) < MaxPods[n]})

pickNode(at, ready) ==
  LeastLoaded(at, {n \in ready : MaxPods[n] > 0 => Load(at, n) < MaxPods[n]})

pickNodeExcluding(at, ready, exclude) == LeastLoaded(at, ready \ {exclude})

\* Where a pass goes when a loop has nothing left.
AtRepPlace(s) == IF s.todo = {} THEN IdleSched ELSE [s EXCEPT !.pc = "rplace"]
AtRepEvict(s) == IF s.todo # {} THEN [s EXCEPT !.pc = "revict"]
                 ELSE AtRepPlace([s EXCEPT !.todo = Unplaced(s.at)])
AtPlace(s) == IF s.todo # {} THEN [s EXCEPT !.pc = "place"]
              ELSE [IdleSched EXCEPT !.pc = "rlist"]
AtEvict(s) == IF s.todo # {} THEN [s EXCEPT !.pc = "evict"]
              ELSE AtPlace([s EXCEPT !.todo = Unplaced(s.at)])

Rest(s) == [s EXCEPT !.todo = @ \ {First(@)}]
RestAt(s, n) == [s EXCEPT !.todo = @ \ {First(@)}, !.at[First(s.todo)] = n]
Moved(recs, x, n) == [recs EXCEPT ![x].node = n]
SchedFrame == UNCHANGED <<fresh, host, agent, stales>>

DiskSchedList ==
  /\ sched.pc = "idle"
  /\ LET at == Placement(disks)
     IN sched' = AtEvict([pc |-> "evict", ready |-> fresh, at |-> at,
                          todo |-> Evictees(at, fresh)])
  /\ SchedFrame /\ UNCHANGED <<record, dkFaults>>

\* evict: on the latest copy; an error leaves the record out of this pass.
DiskEvict ==
  /\ sched.pc = "evict"
  /\ LET d == First(sched.todo)
     IN \/ /\ disks[d] # None
           /\ disks' = Moved(disks, d, None)
           /\ sched' = AtEvict(RestAt(sched, None))
           /\ UNCHANGED dkFaults
        \/ /\ Misses(disks[d] = None)
           /\ sched' = AtEvict(Rest(sched))
           /\ UNCHANGED disks
  /\ SchedFrame /\ UNCHANGED reps

DiskAssign ==
  /\ sched.pc = "place"
  /\ LET d == First(sched.todo)
         n == pickNode(sched.at, sched.ready)
     IN \/ /\ n # None /\ disks[d] # None
           /\ disks' = Moved(disks, d, n)
           /\ sched' = AtPlace(RestAt(sched, n))
           /\ UNCHANGED dkFaults
        \/ /\ Misses(n = None \/ disks[d] = None)
           /\ sched' = AtPlace(Rest(sched))
           /\ UNCHANGED disks
  /\ SchedFrame /\ UNCHANGED reps

RepSchedList ==
  /\ sched.pc = "rlist"
  /\ LET at == Placement(reps)
     IN sched' = AtRepEvict([pc |-> "revict", ready |-> fresh, at |-> at,
                             todo |-> Evictees(at, fresh)])
  /\ SchedFrame /\ UNCHANGED <<record, dkFaults>>

RepEvict ==
  /\ sched.pc = "revict"
  /\ LET r == First(sched.todo)
     IN \/ /\ reps[r] # None
           /\ reps' = Moved(reps, r, None)
           /\ sched' = AtRepEvict(RestAt(sched, None))
           /\ UNCHANGED dkFaults
        \/ /\ Misses(reps[r] = None)
           /\ sched' = AtRepEvict(Rest(sched))
           /\ UNCHANGED reps
  /\ SchedFrame /\ UNCHANGED disks

\* The disk is read again; without one, or without its node, the replica waits.
RepAssign ==
  /\ sched.pc = "rplace"
  /\ LET r == First(sched.todo)
         d == disks[DiskOf[r]]
         n == IF d = None \/ d.node = None THEN None
              ELSE pickNodeExcluding(sched.at, sched.ready, d.node)
     IN \/ /\ n # None /\ reps[r] # None
           /\ reps' = Moved(reps, r, n)
           /\ sched' = AtRepPlace(RestAt(sched, n))
           /\ UNCHANGED dkFaults
        \/ /\ Misses(n = None \/ reps[r] = None)
           /\ sched' = AtRepPlace(Rest(sched))
           /\ UNCHANGED reps
  /\ SchedFrame /\ UNCHANGED disks

SchedCycle == DiskSchedList \/ DiskEvict \/ DiskAssign \/ RepSchedList
                \/ RepEvict \/ RepAssign
-----------------------------------------------------------------------------
(* DiskReconciler on node n *)

Agent(n, a) == agent' = [agent EXCEPT ![n] = a]
Image(n, d, i) == files' = [files EXCEPT ![n][d] = i]
AgentFrame == UNCHANGED <<fresh, sched, stales>>
Saving(pc, x, was, rec) == [pc |-> pc, uid |-> x, was |-> was, rec |-> rec, from |-> None]

\* What a failed ensureDisk leaves: mkfs and luksFormat remove the file, a
\* failed open or a failed mkfs of the mapping does not.
Leftovers(d) == IF d \in Encrypted THEN {None, "luks"} ELSE {None}

\* ensure: a file that exists is taken for the disk.
DiskEnsure(n, d) ==
  /\ agent[n].pc = "idle"
  /\ disks[d] # None /\ disks[d].node = n /\ ~disks[d].del
  /\ LET rec(phase) == [disks[d] EXCEPT !.fin = TRUE, !.phase = phase]
     IN \/ /\ Image(n, d, IF files[n][d] = None THEN "fs" ELSE files[n][d])
           /\ Agent(n, Saving("put", d, disks[d], rec("Ready")))
           /\ UNCHANGED dkFaults
        \/ /\ files[n][d] = None /\ DkFault
           /\ \E i \in Leftovers(d) : Image(n, d, i)
           /\ Agent(n, Saving("put", d, disks[d], rec("Error")))
        \/ /\ files[n][d] = None /\ DkFault       \* the agent dies
           /\ Image(n, d, "raw")
           /\ UNCHANGED agent
  /\ AgentFrame /\ UNCHANGED <<record, copies>>

\* Mutant: a disk that is not Ready is taken to have no file.
DiskDeleted_ReadyOnly(n, d) == IF disks[d].phase = "Ready" THEN Image(n, d, None)
                               ELSE UNCHANGED files

\* ExecDiskBackend.DeleteDisk
DiskDeleted(n, d) == Image(n, d, None)

DiskFinalize(n, d) ==
  /\ agent[n].pc = "idle"
  /\ disks[d] # None /\ disks[d].node = n /\ disks[d].del
  /\ \/ /\ disks[d].fin
        /\ DiskDeleted(n, d)
        /\ Agent(n, Saving("putdel", d, disks[d],
                           [disks[d] EXCEPT !.fin = FALSE, !.phase = "Deleting"]))
        /\ UNCHANGED dkFaults
     \/ /\ disks[d].fin /\ DkFault
        /\ Agent(n, Saving("put", d, disks[d], [disks[d] EXCEPT !.phase = "Error"]))
        /\ UNCHANGED files
     \/ /\ ~disks[d].fin
        /\ Agent(n, Saving("remove", d, disks[d], None))
        /\ UNCHANGED <<files, dkFaults>>
  /\ AgentFrame /\ UNCHANGED <<record, copies>>

\* registry.Put
Swaps(now, was) == now = was

AfterPut(a) == IF a.pc \in {"putdel", "rputdel"}
               THEN [a EXCEPT !.pc = IF @ = "putdel" THEN "remove" ELSE "rremove"]
               ELSE IdleAgent

DiskPut(n) ==
  /\ agent[n].pc \in {"put", "putdel"}
  /\ LET a == agent[n]
     IN \/ /\ Swaps(disks[a.uid], a.was)
           /\ disks' = [disks EXCEPT ![a.uid] = a.rec]
           /\ Agent(n, AfterPut(a))
        \/ /\ ~Swaps(disks[a.uid], a.was)
           /\ Agent(n, IdleAgent)
           /\ UNCHANGED disks
  /\ AgentFrame /\ UNCHANGED <<reps, host, dkFaults>>

DiskRemove(n) ==
  /\ agent[n].pc = "remove"
  /\ disks' = [disks EXCEPT ![agent[n].uid] = None]
  /\ Agent(n, IdleAgent)
  /\ AgentFrame /\ UNCHANGED <<reps, host, dkFaults>>
-----------------------------------------------------------------------------
(* AsyncDiskReplicaReconciler on node n *)

\* Whether a synced replica is due again is a matter of time.
RepEnsure(n, r) ==
  /\ agent[n].pc = "idle"
  /\ reps[r] # None /\ reps[r].node = n /\ ~reps[r].del
  /\ LET d == disks[DiskOf[r]]
         rec == [reps[r] EXCEPT !.fin = TRUE]
     IN IF d = None \/ d.node = None
        THEN Agent(n, Saving("rput", r, reps[r], [rec EXCEPT !.phase = "Pending"]))
        ELSE Agent(n, [pc |-> "rpull", uid |-> r, was |-> reps[r], rec |-> rec,
                       from |-> d.node])
  /\ AgentFrame /\ UNCHANGED <<record, host, dkFaults>>

RepPull(n) ==
  /\ agent[n].pc = "rpull"
  /\ LET a == agent[n]
     IN \/ /\ files[a.from][DiskOf[a.uid]] # None
           /\ copies' = [copies EXCEPT ![n] = @ \union {a.uid}]
           /\ Agent(n, [a EXCEPT !.pc = "rput", !.from = None, !.rec.synced = TRUE,
                                 !.rec.phase = "Ready"])
           /\ UNCHANGED dkFaults
        \/ /\ Misses(files[a.from][DiskOf[a.uid]] = None)
           /\ Agent(n, [a EXCEPT !.pc = "rput", !.from = None, !.rec.phase = "Error"])
           /\ UNCHANGED copies
  /\ AgentFrame /\ UNCHANGED <<record, files>>

RepFinalize(n, r) ==
  /\ agent[n].pc = "idle"
  /\ reps[r] # None /\ reps[r].node = n /\ reps[r].del
  /\ \/ /\ reps[r].fin
        /\ copies' = [copies EXCEPT ![n] = @ \ {r}]
        /\ Agent(n, Saving("rputdel", r, reps[r],
                           [reps[r] EXCEPT !.fin = FALSE, !.phase = "Deleting"]))
        /\ UNCHANGED dkFaults
     \/ /\ reps[r].fin /\ DkFault
        /\ Agent(n, Saving("rput", r, reps[r], [reps[r] EXCEPT !.phase = "Error"]))
        /\ UNCHANGED copies
     \/ /\ ~reps[r].fin
        /\ Agent(n, Saving("rremove", r, reps[r], None))
        /\ UNCHANGED <<copies, dkFaults>>
  /\ AgentFrame /\ UNCHANGED <<record, files>>

RepPut(n) ==
  /\ agent[n].pc \in {"rput", "rputdel"}
  /\ LET a == agent[n]
     IN \/ /\ Swaps(reps[a.uid], a.was)
           /\ reps' = [reps EXCEPT ![a.uid] = a.rec]
           /\ Agent(n, AfterPut(a))
        \/ /\ ~Swaps(reps[a.uid], a.was)
           /\ Agent(n, IdleAgent)
           /\ UNCHANGED reps
  /\ AgentFrame /\ UNCHANGED <<disks, host, dkFaults>>

RepRemove(n) ==
  /\ agent[n].pc = "rremove"
  /\ reps' = [reps EXCEPT ![agent[n].uid] = None]
  /\ Agent(n, IdleAgent)
  /\ AgentFrame /\ UNCHANGED <<disks, host, dkFaults>>

AgentDies(n) ==
  /\ agent[n].pc # "idle"
  /\ DkFault
  /\ Agent(n, IdleAgent)
  /\ AgentFrame /\ UNCHANGED <<record, host>>
-----------------------------------------------------------------------------
DiskPass(n, d) == DiskEnsure(n, d) \/ DiskFinalize(n, d)
RepPass(n, r) == RepEnsure(n, r) \/ RepFinalize(n, r)
AgentGoesOn(n) == DiskPut(n) \/ DiskRemove(n) \/ RepPull(n) \/ RepPut(n) \/ RepRemove(n)

DkNext ==
  \/ \E d \in Disks : DeleteDisk(d)
  \/ \E r \in Reps : DeleteRep(r)
  \/ SchedCycle
  \/ \E n \in Nodes :
       \/ GoStale(n) \/ Heartbeat(n) \/ AgentGoesOn(n) \/ AgentDies(n)
       \/ \E d \in Disks : DiskPass(n, d)
       \/ \E r \in Reps : RepPass(n, r)

\* The leader and the agents run on tickers: every pass is taken again and
\* again, for every record, on the node the record names; nodes send heartbeats.
DkFairness ==
  /\ WF_dkVars(SchedCycle)
  /\ \A n \in Nodes : WF_dkVars(Heartbeat(n)) /\ WF_dkVars(AgentGoesOn(n))
  /\ \A d \in Disks : SF_dkVars(\E n \in Nodes : DiskPass(n, d))
  /\ \A r \in Reps : WF_dkVars(\E n \in Nodes : RepPass(n, r))

DkSpec == DkInit /\ [][DkNext]_dkVars /\ DkFairness
-----------------------------------------------------------------------------
DkTypeOK ==
  /\ fresh \subseteq Nodes
  /\ disks \in [Disks -> DiskRecords \union {None}]
  /\ reps \in [Reps -> RepRecords \union {None}]
  /\ files \in [Nodes -> [Disks -> Images]]
  /\ copies \in [Nodes -> SUBSET Reps]

\* A replica is never placed on the node its disk is on at that moment
\* (AsyncDiskReplicaSchedulerController: "it must never land where the disk it
\* is replicating already is").
ReplicaLandsApart ==
  [][\A r \in Reps :
       reps[r] # None /\ reps'[r] # None /\ reps'[r].node # reps[r].node /\ reps'[r].node # None
         => disks[DiskOf[r]] # None /\ disks[DiskOf[r]].node # reps'[r].node]_dkVars

\* A replica is on another node than its disk.
\* It does not hold (README, Properties that do not hold).
ReplicaApart ==
  \A r \in Reps : reps[r] # None /\ reps[r].node # None /\ disks[DiskOf[r]] # None
    => reps[r].node # disks[DiskOf[r]].node

\* The finalizer leaves the record of a disk only once the file is gone from the
\* node the record names, whatever the schedulers do during the teardown.
FinalizedOnItsNode ==
  [][\A d \in Disks :
       disks[d] # None /\ disks[d].fin /\ (disks'[d] # None => ~disks'[d].fin)
         => disks[d].node # None /\ files[disks[d].node][d] = None]_dkVars

\* A disk reported Ready on a node that created it has a filesystem.
\* It does not hold (README, Properties that do not hold).
ReadyHasFilesystem ==
  \A d \in Disks : disks[d] # None /\ disks[d].phase = "Ready" /\ disks[d].node # None
    => files[disks[d].node][d] \in {None, "fs"}

\* "its backing file lives there and nowhere else" (DiskStatus.NodeName).
\* It does not hold (README, Properties that do not hold).
FileNowhereElse ==
  \A d \in Disks, n \in Nodes : disks[d] # None /\ disks[d].node # None /\ n # disks[d].node
    => files[n][d] = None

\* Every disk ends up provisioned where it is placed, unless it is deleted.
DiskProvisioned ==
  \A d \in Disks :
    <>[](disks[d] # None /\ ~disks[d].del /\ fresh = Nodes)
      => []<>(disks[d] # None /\ disks[d].node # None /\ disks[d].phase = "Ready"
              /\ files[disks[d].node][d] # None)

\* A deleted disk is removed.
\* It does not hold (README, Properties that do not hold).
DiskGoes == \A d \in Disks : (disks[d] # None /\ disks[d].del) ~> (disks[d] = None)
=============================================================================
