-------------------------- MODULE LifecycleProofs --------------------------
(***************************************************************************)
(* What no interleaving of requests, schedulers and agents can do to a     *)
(* record, for every number of each: DeletionSticky, NoLostUpdate and      *)
(* FinalizerHonoured of Lifecycle.  The argument is about copies: whatever *)
(* a process is about to Put keeps what it read, and the compare-and-swap  *)
(* makes what it read the record it replaces.  With one active scheduler   *)
(* two more follow: PlacedUntilEvicted, and for computes ReadyNotOutdated. *)
(***************************************************************************)
EXTENDS Lifecycle, TLAPS

USE LifecycleAssumption DEF LifecycleAssumption, Procs

\* Every step keeps every variable's type, given that the copies an agent works
\* on are records.
CopyHeld ==
    \A a \in Agents : pc[a] \in {"ensure", "finalize"} => snap[a] # Absent

\* Put writes a record of the right type and leaves the other copies alone.
LEMMA PutType ==
    ASSUME TypeOK, NEW p \in Procs, NEW l \in {"idle", "place", "delete"}, Put(p, l)
    PROVE  /\ store' \in Records \cup {Absent}
           /\ pc' \in [Procs -> {"idle", "put", "delete", "place", "evict", "evicting",
                                 "ensure", "save", "finalize", "drop"}]
           /\ snap' \in [Procs -> Records \cup {Absent}]
           /\ out' \in [Procs -> Records \cup {Absent}]
           /\ stale' \subseteq Procs
  BY DEF TypeOK, Put, Drop, Goto

\* The records the handlers derive from a record they read are records.
LEMMA UpdateTypes ==
    ASSUME NEW r \in Records
    PROVE  /\ [r EXCEPT !.gen = @ + 1] \in Records
           /\ Marked(r) \in Records
           /\ \A n \in Agents \cup {None} : Placed(r, n) \in Records
           /\ Realised(r) \in Records
           /\ \A ph \in Phases : NotRealised(r, ph) \in Records
           /\ Finalized(r) \in Records
           /\ NotFinalized(r) \in Records
<1>1. r.gen \in Nat /\ r.gen + 1 \in Nat
  BY DEF Records
<1>2. [r EXCEPT !.gen = @ + 1] \in Records /\ Marked(r) \in Records
  BY <1>1, Zenon DEF Records, Marked
<1>3. \A n \in Agents \cup {None} : Placed(r, n) \in Records
  BY Zenon DEF Records, Placed
<1>4. Realised(r) \in Records
  BY <1>1, Zenon DEF Records, Phases, Realised
<1>5. \A ph \in Phases : NotRealised(r, ph) \in Records
  BY Zenon DEF Records, Phases, NotRealised
<1>6. Finalized(r) \in Records /\ NotFinalized(r) \in Records
  BY Zenon DEF Records, Phases, Finalized, NotFinalized
<1>7. QED
  BY <1>2, <1>3, <1>4, <1>5, <1>6

\* A host may run nothing.
LEMMA NoInstance == None \in Instances /\ Exited \in Instances
  BY DEF Instances

\* A creation writes a record.
LEMMA CreateType ==
    ASSUME NEW n \in Nat
    PROVE  [inc |-> n, gen |-> 1, deleting |-> FALSE, fin |-> FALSE,
            node |-> None, phase |-> "Unset", obs |-> 0] \in Records
<1>1. 0 \in Nat /\ 1 \in Nat
  OBVIOUS
<1>2. QED
  BY <1>1, Zenon DEF Records, Phases

\* Every step keeps every variable's type.
LEMMA TypeStep == TypeOK /\ CopyHeld /\ [Next]_vars => TypeOK'
<1> SUFFICES ASSUME TypeOK, CopyHeld, [Next]_vars PROVE TypeOK'
  OBVIOUS
<1> USE DEF TypeOK
<1>1. ASSUME NEW c \in Clients, ApiPut(c)
      PROVE  TypeOK'
  <2>1. Updated \in Records
    BY UpdateTypes, CreateType DEF Updated
  <2>2. QED
    BY <1>1, <2>1 DEF ApiPut, Get, Goto
<1>2. ASSUME NEW c \in Clients, ApiDelete(c)
      PROVE  TypeOK'
  <2>1. store \in Records /\ Marked(store) \in Records
    BY <1>2, UpdateTypes DEF ApiDelete
  <2>2. QED
    BY <1>2, <2>1 DEF ApiDelete, Get, Goto
<1>3. ASSUME NEW p \in Procs, Commit(p) \/ SchedEvicted(p) \/ AgentSave(p) \/ AgentDrop(p)
      PROVE  TypeOK'
  BY <1>3, PutType DEF Commit, SchedEvicted, AgentSave, AgentDrop
<1>4. ASSUME NEW p \in Procs, Remove(p)
      PROVE  TypeOK'
  BY <1>4 DEF Remove, Drop, Goto
<1>5. ASSUME NEW s \in Schedulers, SchedList(s) \/ SchedNoFit(s)
      PROVE  TypeOK'
  BY <1>5 DEF SchedList, SchedNoFit, Goto
<1>6. ASSUME NEW s \in Schedulers, SchedAssign(s) \/ SchedEvict(s)
      PROVE  TypeOK'
  <2>1. store # Absent => \A n \in Agents \cup {None} : Placed(store, n) \in Records
    BY UpdateTypes
  <2>2. CASE SchedAssign(s)
    BY <2>1, <2>2 DEF SchedAssign, Get, Goto
  <2>3. CASE SchedEvict(s)
    BY <2>1, <2>3 DEF SchedEvict, Get, Goto
  <2>4. QED
    BY <1>6, <2>2, <2>3
<1>7. ASSUME NEW a \in Agents, AgentGet(a)
      PROVE  TypeOK'
  BY <1>7 DEF AgentGet, Get, Goto
<1>8. ASSUME NEW a \in Agents, AgentRealise(a) \/ AgentNotRealised(a)
      PROVE  TypeOK'
  <2>1. /\ snap[a] \in Records
        /\ [inc |-> snap[a].inc, gen |-> snap[a].gen] \in Instances
    BY <1>8 DEF AgentRealise, AgentNotRealised, CopyHeld, Records, Instances
  <2>2. CASE AgentRealise(a)
    <3>1. host' \in [Agents -> Instances]
      <4>1. CASE KeepsLive(a)
        BY <2>2, <4>1 DEF AgentRealise
      <4>2. CASE ~KeepsLive(a)
        BY <2>1, <2>2, <4>2 DEF AgentRealise
      <4>3. QED
        BY <4>1, <4>2
    <3>2. Realised(snap[a]) \in Records
      BY <2>1, UpdateTypes
    <3>3. QED
      BY <2>2, <3>1, <3>2 DEF AgentRealise, Goto
  <2>3. CASE AgentNotRealised(a)
    <3>1. \A ph \in {"Pending", "Error"} : NotRealised(snap[a], ph) \in Records
      BY <2>1, UpdateTypes DEF Phases
    <3>2. QED
      BY <2>3, <3>1, NoInstance DEF AgentNotRealised, Goto
  <2>4. QED
    BY <1>8, <2>2, <2>3
<1>9. ASSUME NEW a \in Agents, AgentTeardown(a) \/ AgentTeardownError(a)
      PROVE  TypeOK'
  <2>1. Finalized(snap[a]) \in Records /\ NotFinalized(snap[a]) \in Records
    BY <1>9, UpdateTypes DEF AgentTeardown, AgentTeardownError, CopyHeld
  <2>2. QED
    BY <1>9, <2>1, NoInstance DEF AgentTeardown, AgentTeardownError, Goto
<1>10. ASSUME NEW a \in Agents, AgentCrash(a) \/ HostExit(a)
       PROVE  TypeOK'
  BY <1>10, NoInstance DEF AgentCrash, HostExit, Drop, Goto
<1>11. CASE UNCHANGED vars
  BY <1>11 DEF vars
<1>12. QED
  BY <1>1, <1>2, <1>3, <1>4, <1>5, <1>6, <1>7, <1>8, <1>9, <1>10, <1>11
     DEF Next, AgentStep, SchedStep

-----------------------------------------------------------------------------

\* What every writer but a finished finalize keeps of the record it read.
Keeps(r, o) ==
    /\ o.inc = r.inc
    /\ o.gen >= r.gen
    /\ r.deleting => o.deleting
    /\ r.fin => o.fin

\* What a finished finalize keeps of it.
KeepsButFin(r, o) ==
    /\ o.inc = r.inc
    /\ o.gen >= r.gen
    /\ r.deleting => o.deleting

\* The invariant of the copies: an update extends what its writer read; an
\* agent works only on records in its scope; a finalizer about to come off
\* comes off a deleting record whose instance this node no longer runs.
CopyInv ==
    \A p \in Procs :
        /\ pc[p] \in {"put", "evicting", "save"} /\ snap[p] # Absent =>
              Keeps(snap[p], out[p])
        /\ pc[p] \in {"ensure", "finalize", "drop"} =>
              p \in Agents /\ snap[p] # Absent /\ snap[p].node \in {p, None}
        /\ pc[p] \in {"finalize", "drop"} => snap[p].deleting
        /\ pc[p] = "drop" => host[p] = None /\ KeepsButFin(snap[p], out[p])

LifecycleInv == TypeOK /\ CopyInv

\* The derived records keep what they must.
LEMMA UpdateKeeps ==
    ASSUME NEW r \in Records
    PROVE  /\ Keeps(r, [r EXCEPT !.gen = @ + 1])
           /\ Keeps(r, Marked(r))
           /\ \A n : Keeps(r, Placed(r, n))
           /\ Keeps(r, Realised(r))
           /\ \A ph : Keeps(r, NotRealised(r, ph))
           /\ Keeps(r, NotFinalized(r))
           /\ KeepsButFin(r, Finalized(r))
<1>1. r.gen \in Nat /\ r.gen >= r.gen /\ r.gen + 1 >= r.gen
  BY DEF Records
<1>2. Keeps(r, [r EXCEPT !.gen = @ + 1]) /\ Keeps(r, Marked(r))
  BY <1>1, Zenon DEF Keeps, Records, Marked
<1>3. \A n : Keeps(r, Placed(r, n))
  BY <1>1, Zenon DEF Keeps, Records, Placed
<1>4. Keeps(r, Realised(r)) /\ \A ph : Keeps(r, NotRealised(r, ph))
  BY <1>1, Zenon DEF Keeps, Records, Realised, NotRealised
<1>5. Keeps(r, NotFinalized(r)) /\ KeepsButFin(r, Finalized(r))
  BY <1>1, Zenon DEF Keeps, KeepsButFin, Records, NotFinalized, Finalized
<1>6. QED
  BY <1>2, <1>3, <1>4, <1>5

\* Every step keeps the invariant of the copies.
LEMMA CopyStep == LifecycleInv /\ [Next]_vars => CopyInv'
<1> SUFFICES ASSUME LifecycleInv, [Next]_vars PROVE CopyInv'
  OBVIOUS
<1> USE DEF LifecycleInv, TypeOK, CopyInv
<1>1. ASSUME NEW c \in Clients, ApiPut(c)
      PROVE  CopyInv'
  <2>1. store # Absent => Keeps(store, Updated)
    BY UpdateKeeps DEF Updated
  <2>2. QED
    BY <1>1, <2>1 DEF ApiPut, Get, Goto
<1>2. ASSUME NEW c \in Clients, ApiDelete(c)
      PROVE  CopyInv'
  <2>1. store # Absent => Keeps(store, Marked(store))
    BY UpdateKeeps
  <2>2. QED
    BY <1>2, <2>1 DEF ApiDelete, Get, Goto
<1>3. ASSUME NEW p \in Procs, Commit(p) \/ SchedEvicted(p) \/ AgentSave(p) \/ AgentDrop(p)
      PROVE  CopyInv'
  BY <1>3 DEF Commit, SchedEvicted, AgentSave, AgentDrop, Put, Drop, Goto
<1>4. ASSUME NEW p \in Procs, Remove(p)
      PROVE  CopyInv'
  BY <1>4 DEF Remove, Drop, Goto
<1>5. ASSUME NEW s \in Schedulers, SchedList(s) \/ SchedNoFit(s)
      PROVE  CopyInv'
  BY <1>5 DEF SchedList, SchedNoFit, Goto
<1>6. ASSUME NEW s \in Schedulers, SchedAssign(s) \/ SchedEvict(s)
      PROVE  CopyInv'
  <2>1. store # Absent => \A n : Keeps(store, Placed(store, n))
    BY UpdateKeeps
  <2>2. CASE SchedAssign(s)
    BY <2>1, <2>2 DEF SchedAssign, Get, Goto
  <2>3. CASE SchedEvict(s)
    BY <2>1, <2>3 DEF SchedEvict, Get, Goto
  <2>4. QED
    BY <1>6, <2>2, <2>3
<1>7. ASSUME NEW a \in Agents, AgentGet(a)
      PROVE  CopyInv'
  BY <1>7 DEF AgentGet, InScope, ComputeScope, MicroVMScope, Get, Goto
<1>8. ASSUME NEW a \in Agents, AgentRealise(a) \/ AgentNotRealised(a)
      PROVE  CopyInv'
  <2>1. /\ Keeps(snap[a], Realised(snap[a]))
        /\ \A ph : Keeps(snap[a], NotRealised(snap[a], ph))
    <3>1. pc[a] = "ensure"
      BY <1>8 DEF AgentRealise, AgentNotRealised
    <3>2. snap[a] \in Records
      BY <3>1
    <3>3. QED
      BY <3>2, UpdateKeeps
  <2>2. CASE AgentRealise(a)
    BY <2>1, <2>2 DEF AgentRealise, Goto
  <2>3. CASE AgentNotRealised(a)
    BY <2>1, <2>3 DEF AgentNotRealised, Goto
  <2>4. QED
    BY <1>8, <2>2, <2>3
<1>9. ASSUME NEW a \in Agents, AgentTeardown(a) \/ AgentTeardownError(a)
      PROVE  CopyInv'
  <2>1. /\ Keeps(snap[a], NotFinalized(snap[a]))
        /\ KeepsButFin(snap[a], Finalized(snap[a]))
    BY <1>9, UpdateKeeps DEF AgentTeardown, AgentTeardownError
  <2>2. QED
    BY <1>9, <2>1 DEF AgentTeardown, AgentTeardownError, Goto
<1>10. ASSUME NEW a \in Agents, AgentCrash(a) \/ HostExit(a)
       PROVE  CopyInv'
  BY <1>10 DEF AgentCrash, HostExit, Drop, Goto
<1>11. CASE UNCHANGED vars
  BY <1>11 DEF vars
<1>12. QED
  BY <1>1, <1>2, <1>3, <1>4, <1>5, <1>6, <1>7, <1>8, <1>9, <1>10, <1>11
     DEF Next, AgentStep, SchedStep

\* Every variable keeps its type, and every copy what it must.
LEMMA LifecycleInvariant == Spec => []LifecycleInv
<1>1. Init => LifecycleInv
  BY DEF Init, LifecycleInv, TypeOK, CopyInv, Instances
<1>2. LifecycleInv /\ [Next]_vars => LifecycleInv'
  <2>1. LifecycleInv => CopyHeld
    BY DEF LifecycleInv, CopyInv, CopyHeld
  <2>2. QED
    BY <2>1, TypeStep, CopyStep DEF LifecycleInv
<1>3. QED
  BY <1>1, <1>2, PTL DEF Spec

\* Every variable of the record's life keeps its type.
THEOREM TypeCorrect == Spec => []TypeOK
<1>1. LifecycleInv => TypeOK
  BY DEF LifecycleInv
<1>2. QED
  BY <1>1, LifecycleInvariant, PTL

-----------------------------------------------------------------------------

\* A step that changes the stored record without removing it is a Put by a
\* process that had read the record it replaces.
LEMMA StepIsPut ==
    ASSUME LifecycleInv, [Next]_vars, store' # store, store' # Absent
    PROVE  \E p \in Procs :
              /\ pc[p] \in {"put", "evicting", "save", "drop"}
              /\ snap[p] = store /\ out[p] = store'
<1>1. CASE UNCHANGED vars
  BY <1>1 DEF vars
<1>2. ASSUME NEW p \in Procs, Commit(p) \/ SchedEvicted(p) \/ AgentSave(p) \/ AgentDrop(p)
      PROVE  /\ pc[p] \in {"put", "evicting", "save", "drop"}
             /\ snap[p] = store /\ out[p] = store'
  BY <1>2 DEF Commit, SchedEvicted, AgentSave, AgentDrop, Put, Unchanged
<1>3. QED
  BY <1>1, <1>2
     DEF Next, AgentStep, SchedStep, ApiPut, ApiDelete, Remove, SchedList, SchedNoFit, SchedAssign,
         SchedEvict, AgentGet, AgentRealise, AgentNotRealised, AgentTeardown,
         AgentTeardownError, AgentCrash, HostExit

\* A step that keeps the record keeps the creation's metadata, and only a
\* finished finalize takes the finalizer off.
LEMMA StepKeeps ==
    ASSUME LifecycleInv, [Next]_vars, Same
    PROVE  /\ store.deleting => store'.deleting
           /\ store'.gen >= store.gen
           /\ store.fin /\ ~store'.fin =>
                store.deleting /\ (store.node # None => host[store.node] = None)
<1>1. CASE store' = store
  <2>1. store.gen \in Nat
    BY DEF LifecycleInv, TypeOK, Same, Records
  <2>2. QED
    BY <1>1, <2>1
<1>2. CASE store' # store
  <2>1. PICK p \in Procs :
              /\ pc[p] \in {"put", "evicting", "save", "drop"}
              /\ snap[p] = store /\ out[p] = store'
    BY <1>2, StepIsPut DEF Same
  <2>2. CASE pc[p] # "drop"
    BY <2>1, <2>2 DEF Same, LifecycleInv, CopyInv, Keeps
  <2>3. CASE pc[p] = "drop"
    BY <2>1, <2>3 DEF Same, LifecycleInv, CopyInv, KeepsButFin
  <2>4. QED
    BY <2>2, <2>3
<1>3. QED
  BY <1>1, <1>2

\* A deletion is never undone, however many requests, schedulers and agents
\* write the record.
THEOREM DeletionIsSticky == Spec => DeletionSticky
<1>1. LifecycleInv /\ [Next]_vars => [Same /\ store.deleting => store'.deleting]_vars
  BY StepKeeps
<1>2. QED
  BY <1>1, LifecycleInvariant, PTL DEF Spec, DeletionSticky

\* An accepted spec is never overwritten from an older copy.
THEOREM UpdatesAreNotLost == Spec => NoLostUpdate
<1>1. LifecycleInv /\ [Next]_vars => [Same => store'.gen >= store.gen]_vars
  BY StepKeeps
<1>2. QED
  BY <1>1, LifecycleInvariant, PTL DEF Spec, NoLostUpdate

\* The finalizer comes off only a deleting record, once its node runs nothing
\* for it.
THEOREM FinalizersAreHonoured == Spec => FinalizerHonoured
<1>1. LifecycleInv /\ [Next]_vars =>
        [Same /\ store.fin /\ ~store'.fin =>
           store.deleting /\ (store.node # None => host[store.node] = None)]_vars
  BY StepKeeps
<1>2. QED
  BY <1>1, LifecycleInvariant, PTL DEF Spec, FinalizerHonoured

-----------------------------------------------------------------------------

\* The node of a record, with one active scheduler: it decides where a record
\* goes only while the record has no node, and takes it away only by an
\* eviction; everyone else writes back the node that was read.
PlaceInv ==
    \A p \in Procs :
        /\ pc[p] = "place" =>
              p \in Schedulers /\ (store # Absent => store.node = None)
        /\ pc[p] = "evicting" => p \in Schedulers /\ out[p].node = None
        /\ pc[p] = "put" /\ p \in Schedulers => snap[p] # Absent /\ snap[p].node = None
        /\ pc[p] = "save" => p \in Agents
        /\ pc[p] \in {"put", "save", "drop"} /\ p \notin Schedulers =>
              IF snap[p] = Absent THEN out[p].node = None ELSE out[p].node = snap[p].node

\* One active scheduler, which is what the leader lease is for.
OneScheduler == \A s, t \in Schedulers : s = t

\* The nodes of the derived records.
LEMMA UpdateNodes ==
    ASSUME NEW r \in Records
    PROVE  /\ [r EXCEPT !.gen = @ + 1].node = r.node
           /\ Marked(r).node = r.node
           /\ \A n : Placed(r, n).node = n
           /\ Realised(r).node = r.node
           /\ \A ph : NotRealised(r, ph).node = r.node
           /\ Finalized(r).node = r.node
           /\ NotFinalized(r).node = r.node
  BY Zenon DEF Records, Marked, Placed, Realised, NotRealised, Finalized, NotFinalized

\* A successful Put of anyone but the scheduler leaves the node as it is.
LEMMA PlaceStep ==
    ASSUME OneScheduler, LifecycleInv, PlaceInv, [Next]_vars
    PROVE  PlaceInv'
<1> USE DEF LifecycleInv, TypeOK, PlaceInv, OneScheduler
<1>1. ASSUME NEW c \in Clients, ApiPut(c)
      PROVE  PlaceInv'
  <2>1. Updated.node = IF store = Absent THEN None ELSE store.node
    BY UpdateNodes DEF Updated
  <2>2. QED
    BY <1>1, <2>1 DEF ApiPut, Get, Goto
<1>2. ASSUME NEW c \in Clients, ApiDelete(c)
      PROVE  PlaceInv'
  <2>1. store # Absent => Marked(store).node = store.node
    BY UpdateNodes
  <2>2. QED
    BY <1>2, <2>1 DEF ApiDelete, Get, Goto
<1>3. ASSUME NEW p \in Procs, NEW l \in {"idle", "place", "delete"}, Put(p, l),
             pc[p] \in {"put", "evicting", "save", "drop"},
             l = "place" => pc[p] = "evicting"
      PROVE  PlaceInv'
  <2>1. CASE Unchanged(p)
    <3>1. store' = out[p] /\ store = snap[p]
      BY <1>3, <2>1 DEF Put, Unchanged
    <3>2. store' # Absent /\ (p \notin Schedulers \/ l = "place") =>
            store'.node = None \/ (store # Absent /\ store'.node = store.node)
      <4>1. CASE pc[p] = "evicting"
        BY <3>1, <4>1
      <4>2. CASE pc[p] # "evicting" /\ p \notin Schedulers
        <5>1. IF snap[p] = Absent THEN out[p].node = None ELSE out[p].node = snap[p].node
          BY <1>3, <4>2
        <5>2. QED
          BY <3>1, <5>1
      <4>3. QED
        BY <1>3, <4>1, <4>2
    <3>3. QED
      BY <1>3, <2>1, <3>2 DEF Put, Drop, Goto
  <2>2. CASE ~Unchanged(p)
    BY <1>3, <2>2 DEF Put, Drop, Goto
  <2>3. QED
    BY <2>1, <2>2
<1>4. ASSUME NEW p \in Procs, Remove(p)
      PROVE  PlaceInv'
  BY <1>4 DEF Remove, Drop, Goto
<1>5. ASSUME NEW s \in Schedulers, SchedList(s) \/ SchedNoFit(s)
      PROVE  PlaceInv'
  BY <1>5 DEF SchedList, SchedNoFit, Goto
<1>6. ASSUME NEW s \in Schedulers, SchedAssign(s)
      PROVE  PlaceInv'
  BY <1>6 DEF SchedAssign, Get, Goto
<1>7. ASSUME NEW s \in Schedulers, SchedEvict(s)
      PROVE  PlaceInv'
  <2>1. store # Absent => Placed(store, None).node = None
    BY UpdateNodes
  <2>2. QED
    BY <1>7, <2>1 DEF SchedEvict, Get, Goto
<1>8. ASSUME NEW a \in Agents, AgentGet(a)
      PROVE  PlaceInv'
  BY <1>8 DEF AgentGet, Get, Goto
<1>9. ASSUME NEW a \in Agents, AgentRealise(a) \/ AgentNotRealised(a)
      PROVE  PlaceInv'
  <2>1. snap[a] # Absent /\ snap[a] \in Records
    BY <1>9 DEF AgentRealise, AgentNotRealised, CopyInv
  <2>2. /\ Realised(snap[a]).node = snap[a].node
        /\ \A ph : NotRealised(snap[a], ph).node = snap[a].node
    BY <2>1, UpdateNodes
  <2>3. CASE AgentRealise(a)
    BY <2>1, <2>2, <2>3 DEF AgentRealise, Goto
  <2>4. CASE AgentNotRealised(a)
    BY <2>1, <2>2, <2>4 DEF AgentNotRealised, Goto
  <2>5. QED
    BY <1>9, <2>3, <2>4
<1>10. ASSUME NEW a \in Agents, AgentTeardown(a) \/ AgentTeardownError(a)
       PROVE  PlaceInv'
  <2>1. snap[a] # Absent /\ snap[a] \in Records
    BY <1>10 DEF AgentTeardown, AgentTeardownError, CopyInv
  <2>2. /\ Finalized(snap[a]).node = snap[a].node
        /\ NotFinalized(snap[a]).node = snap[a].node
    BY <2>1, UpdateNodes
  <2>3. QED
    BY <1>10, <2>1, <2>2 DEF AgentTeardown, AgentTeardownError, Goto
<1>11. ASSUME NEW a \in Agents, AgentCrash(a) \/ HostExit(a)
       PROVE  PlaceInv'
  BY <1>11 DEF AgentCrash, HostExit, Drop, Goto
<1>12. CASE UNCHANGED vars
  BY <1>12 DEF vars
<1>13. ASSUME NEW p \in Procs, Commit(p) \/ SchedEvicted(p) \/ AgentSave(p) \/ AgentDrop(p)
       PROVE  PlaceInv'
  BY <1>3, <1>13 DEF Commit, SchedEvicted, AgentSave, AgentDrop
<1>14. QED
  BY <1>1, <1>2, <1>4, <1>5, <1>6, <1>7, <1>8, <1>9, <1>10, <1>11, <1>12, <1>13
     DEF Next, AgentStep, SchedStep

\* With one active scheduler a record that is placed changes node only through
\* an eviction, however many requests and agents write it.
THEOREM PlacementsHold ==
    ASSUME OneScheduler
    PROVE  Spec => PlacedUntilEvicted
<1>1. Init => PlaceInv
  BY DEF Init, PlaceInv
<1>2. ASSUME LifecycleInv, PlaceInv, [Next]_vars
      PROVE  [Same /\ store.node # None => store'.node \in {store.node, None}]_vars
  <2>1. SUFFICES ASSUME Same, store' # store, store.node # None
                 PROVE  store'.node \in {store.node, None}
    OBVIOUS
  <2>2. PICK p \in Procs :
              /\ pc[p] \in {"put", "evicting", "save", "drop"}
              /\ snap[p] = store /\ out[p] = store'
    BY <1>2, <2>1, StepIsPut DEF Same
  <2>3. CASE pc[p] = "evicting"
    BY <1>2, <2>2, <2>3 DEF PlaceInv
  <2>4. CASE pc[p] # "evicting" /\ p \in Schedulers
    <3>1. pc[p] = "put"
      BY <1>2, <2>2, <2>4 DEF LifecycleInv, CopyInv, PlaceInv
    <3>2. QED
      BY <1>2, <2>1, <2>2, <2>4, <3>1 DEF PlaceInv
  <2>5. CASE pc[p] # "evicting" /\ p \notin Schedulers
    BY <1>2, <2>1, <2>2, <2>5 DEF PlaceInv, Same
  <2>6. QED
    BY <2>3, <2>4, <2>5
<1>3. LifecycleInv /\ PlaceInv /\ [Next]_vars =>
        PlaceInv' /\ [Same /\ store.node # None => store'.node \in {store.node, None}]_vars
  BY <1>2, PlaceStep
<1>4. QED
  BY <1>1, <1>3, LifecycleInvariant, PTL DEF Spec, PlacedUntilEvicted

-----------------------------------------------------------------------------

\* MarkReconciled never gets ahead of the spec.
Bounded(r) == r # Absent => r.obs <= r.gen

ObsInv == Bounded(store) /\ \A p \in Procs : Bounded(snap[p]) /\ Bounded(out[p])

\* A record that says its spec is running, and the instance that would be.
Serving(r) == ~r.deleting /\ Converged(r)
Of(r) == [inc |-> r.inc, gen |-> r.gen]

ServedBy(a) == store # Absent /\ store.node = a /\ Serving(store)

\* Before the first eviction only the agent of a record's node can say that it
\* is served, and says so after it has made it so: no record is served without
\* a node; what else a request, a scheduler or a finished finalize is about to
\* write is not served; and an agent in ensure knows the spec of a record that
\* is, for nobody else could have served it since it looked.
ServeInv ==
    evictions = 0 =>
      /\ store # Absent /\ Serving(store) => store.node # None
      /\ \A a \in Agents :
           /\ ServedBy(a) => host[a] \in {None, Exited, Of(store)}
           /\ pc[a] = "ensure" =>
                /\ snap[a] # Absent /\ snap[a].node = a
                /\ ServedBy(a) => Of(snap[a]) = Of(store)
      /\ \A p \in Procs :
           /\ pc[p] \notin {"evict", "evicting"}
           /\ pc[p] \in {"put", "drop"} => ~Serving(out[p])
           /\ pc[p] = "save" /\ Serving(out[p]) =>
                out[p].node = p /\ host[p] \in {None, Exited, Of(out[p])}

\* What the derived records say of being served.
LEMMA UpdateServes ==
    ASSUME NEW r \in Records, Bounded(r), r # Absent
    PROVE  /\ ~Serving([r EXCEPT !.gen = @ + 1])
           /\ ~Serving(Marked(r))
           /\ \A n : Serving(Placed(r, n)) => Serving(r)
           /\ \A ph \in {"Pending", "Error"} : ~Serving(NotRealised(r, ph))
           /\ ~Serving(Finalized(r)) /\ ~Serving(NotFinalized(r))
           /\ Of(Realised(r)) = Of(r)
<1>1. ~(r.obs >= r.gen + 1)
  BY DEF Records, Bounded
<1>2. ~Serving([r EXCEPT !.gen = @ + 1]) /\ ~Serving(Marked(r))
  BY <1>1, Zenon DEF Serving, Converged, Records, Marked
<1>3. \A n : Serving(Placed(r, n)) => Serving(r)
  BY Zenon DEF Serving, Converged, Records, Placed
<1>4. \A ph \in {"Pending", "Error"} : ~Serving(NotRealised(r, ph))
  <2>1. \A ph : NotRealised(r, ph).phase = ph
    BY Zenon DEF NotRealised, Records
  <2>2. QED
    BY <2>1 DEF Serving, Converged
<1>5. ~Serving(Finalized(r)) /\ ~Serving(NotFinalized(r))
  <2>1. Finalized(r).phase = "Deleting" /\ NotFinalized(r).phase = "Error"
    BY Zenon DEF Finalized, NotFinalized, Records
  <2>2. QED
    BY <2>1 DEF Serving, Converged
<1>6. Of(Realised(r)) = Of(r)
  BY Zenon DEF Of, Realised, Records
<1>7. QED
  BY <1>2, <1>3, <1>4, <1>5, <1>6

\* Nor do the derived records get ahead of their spec.
LEMMA UpdateBounded ==
    ASSUME NEW r \in Records, Bounded(r), r # Absent
    PROVE  /\ Bounded([r EXCEPT !.gen = @ + 1])
           /\ Bounded(Marked(r))
           /\ \A n : Bounded(Placed(r, n))
           /\ Bounded(Realised(r))
           /\ \A ph : Bounded(NotRealised(r, ph))
           /\ Bounded(Finalized(r)) /\ Bounded(NotFinalized(r))
<1>1. r.obs <= r.gen /\ r.obs <= r.gen + 1 /\ r.gen <= r.gen
  BY DEF Records, Bounded
<1>2. Bounded([r EXCEPT !.gen = @ + 1]) /\ Bounded(Marked(r)) /\ \A n : Bounded(Placed(r, n))
  BY <1>1, Zenon DEF Bounded, Records, Marked, Placed
<1>3. Bounded(Realised(r)) /\ \A ph : Bounded(NotRealised(r, ph))
  BY <1>1, Zenon DEF Bounded, Records, Realised, NotRealised
<1>4. Bounded(Finalized(r)) /\ Bounded(NotFinalized(r))
  BY <1>1, Zenon DEF Bounded, Records, Finalized, NotFinalized
<1>5. QED
  BY <1>2, <1>3, <1>4

\* A new record is neither served nor ahead of its spec.
LEMMA CreateServes ==
    ASSUME store = Absent
    PROVE  ~Serving(Updated) /\ Bounded(Updated)
<1>1. Updated.phase = "Unset" /\ Updated.obs = 0 /\ Updated.gen = 1
  BY Zenon DEF Updated
<1>2. QED
  BY <1>1 DEF Serving, Converged, Bounded

\* Every step keeps every record, stored or copied, within its spec.
LEMMA ObsStep ==
    ASSUME LifecycleInv, ObsInv, [Next]_vars
    PROVE  ObsInv'
<1> USE DEF LifecycleInv, TypeOK, ObsInv
<1>1. ASSUME NEW c \in Clients, ApiPut(c)
      PROVE  ObsInv'
  <2>1. Bounded(Updated)
    BY UpdateBounded, CreateServes DEF Updated
  <2>2. QED
    BY <1>1, <2>1 DEF ApiPut, Get
<1>2. ASSUME NEW c \in Clients, ApiDelete(c)
      PROVE  ObsInv'
  <2>1. store # Absent => Bounded(Marked(store))
    BY UpdateBounded
  <2>2. QED
    BY <1>2, <2>1 DEF ApiDelete, Get
<1>3. ASSUME NEW p \in Procs, NEW l, Put(p, l)
      PROVE  ObsInv'
  <2>1. Bounded(Absent)
    BY DEF Bounded
  <2>2. QED
    BY <1>3, <2>1 DEF Put, Drop
<1>4. ASSUME NEW p \in Procs, Remove(p) \/ AgentCrash(p)
      PROVE  ObsInv'
  <2>1. Bounded(Absent)
    BY DEF Bounded
  <2>2. QED
    BY <1>4, <2>1 DEF Remove, AgentCrash, Drop
<1>5. ASSUME NEW s \in Schedulers, SchedAssign(s) \/ SchedEvict(s)
      PROVE  ObsInv'
  <2>1. store # Absent => \A n : Bounded(Placed(store, n))
    BY UpdateBounded
  <2>2. QED
    BY <1>5, <2>1 DEF SchedAssign, SchedEvict, Get
<1>6. ASSUME NEW a \in Agents, AgentGet(a)
      PROVE  ObsInv'
  BY <1>6 DEF AgentGet, Get
<1>7. ASSUME NEW a \in Agents,
             AgentRealise(a) \/ AgentNotRealised(a) \/ AgentTeardown(a) \/ AgentTeardownError(a)
      PROVE  ObsInv'
  <2>1. pc[a] \in {"ensure", "finalize"}
    BY <1>7 DEF AgentRealise, AgentNotRealised, AgentTeardown, AgentTeardownError
  <2>2. snap[a] # Absent /\ snap[a] \in Records
    BY <2>1 DEF CopyInv
  <2>3. /\ Bounded(Realised(snap[a])) /\ \A ph : Bounded(NotRealised(snap[a], ph))
        /\ Bounded(Finalized(snap[a])) /\ Bounded(NotFinalized(snap[a]))
    BY <2>2, UpdateBounded
  <2>4. /\ UNCHANGED <<store, snap>>
        /\ \E r : out' = [out EXCEPT ![a] = r] /\ Bounded(r)
    <3>1. CASE AgentRealise(a)
      BY <3>1, <2>3 DEF AgentRealise
    <3>2. CASE AgentNotRealised(a)
      BY <3>2, <2>3 DEF AgentNotRealised
    <3>3. CASE AgentTeardown(a)
      BY <3>3, <2>3 DEF AgentTeardown
    <3>4. CASE AgentTeardownError(a)
      BY <3>4, <2>3 DEF AgentTeardownError
    <3>5. QED
      BY <1>7, <3>1, <3>2, <3>3, <3>4
  <2>5. QED
    BY <2>4
<1>8. CASE UNCHANGED <<store, snap, out>>
  BY <1>8
<1>9. QED
  BY <1>1, <1>2, <1>3, <1>4, <1>5, <1>6, <1>7, <1>8
     DEF Next, AgentStep, SchedStep, Commit, SchedEvicted, AgentSave, AgentDrop, SchedList,
         SchedNoFit, HostExit, vars

\* Evictions are only counted up.
LEMMA EvictionsGrow ==
    ASSUME LifecycleInv, [Next]_vars, evictions' = 0
    PROVE  evictions = 0
<1>1. UNCHANGED evictions \/ evictions' = evictions + 1
  <2>1. ASSUME NEW c \in Clients, ApiPut(c) \/ ApiDelete(c) \/ Commit(c) \/ Remove(c)
        PROVE  UNCHANGED evictions
    BY <2>1 DEF ApiPut, ApiDelete, Commit, Remove
  <2>2. ASSUME NEW t \in Schedulers, SchedStep(t) \/ SchedNoFit(t)
        PROVE  UNCHANGED evictions \/ evictions' = evictions + 1
    BY <2>2 DEF SchedStep, SchedList, SchedNoFit, SchedAssign, SchedEvict, SchedEvicted, Commit
  <2>3. ASSUME NEW a \in Agents,
               \/ AgentStep(a) \/ AgentNotRealised(a) \/ AgentTeardownError(a)
               \/ AgentCrash(a) \/ HostExit(a)
        PROVE  UNCHANGED evictions
    BY <2>3 DEF AgentStep, AgentGet, AgentRealise, AgentSave, AgentTeardown, AgentDrop, Remove,
                AgentNotRealised, AgentTeardownError, AgentCrash, HostExit
  <2>4. QED
    BY <2>1, <2>2, <2>3 DEF Next, vars
<1>2. evictions \in Nat
  BY DEF LifecycleInv, TypeOK
<1>3. QED
  BY <1>1, <1>2

\* What the next lemmas need of the types.
StateTyped ==
    /\ store \in Records \cup {Absent} /\ host \in [Agents -> Instances]
    /\ pc = [p \in Procs |-> pc[p]]
    /\ snap \in [Procs -> Records \cup {Absent}] /\ out \in [Procs -> Records \cup {Absent}]

\* The invariant has these types.
LEMMA StateTypes ==
    ASSUME LifecycleInv
    PROVE  StateTyped
  BY DEF LifecycleInv, TypeOK, StateTyped

\* What a request is about to write is not served, and only what an agent has
\* made so is served when it is written.
LEMMA ServedByWrites ==
    ASSUME Kind = "compute", OneScheduler, LifecycleInv, PlaceInv, ObsInv, ServeInv, evictions = 0,
           NEW r \in Procs,
           \/ r \in Clients /\ (ApiPut(r) \/ ApiDelete(r))
           \/ Commit(r) \/ AgentSave(r) \/ AgentDrop(r) \/ Remove(r)
    PROVE  ServeInv'
<1> USE StateTypes DEF StateTyped, ServeInv, ServedBy
<1>1. ASSUME NEW c \in Clients, ApiPut(c)
      PROVE  ServeInv'
  <2>1. ~Serving(Updated)
    BY UpdateServes, CreateServes DEF Updated, ObsInv
  <2>2. QED
    BY <1>1, <2>1 DEF ApiPut, Get, Goto
<1>2. ASSUME NEW c \in Clients, ApiDelete(c)
      PROVE  ServeInv'
  <2>1. store # Absent => ~Serving(Marked(store))
    BY UpdateServes DEF ObsInv
  <2>2. QED
    BY <1>2, <2>1 DEF ApiDelete, Get, Goto
<1>3. ASSUME NEW p \in Procs, NEW l \in {"idle", "delete"}, Put(p, l),
             pc[p] \in {"put", "save", "drop"}, UNCHANGED host
      PROVE  ServeInv'
  <2>1. CASE Unchanged(p)
    <3>1. store' = out[p]
      BY <1>3, <2>1 DEF Put
    <3>2. Serving(store') => pc[p] = "save" /\ p \in Agents /\ store'.node = p
      BY <1>3, <3>1 DEF PlaceInv
    <3>3. Serving(store') => host[p] \in {None, Exited, Of(store')}
      BY <1>3, <3>1, <3>2
    <3>4. \A q \in Procs : q # p => pc'[q] = pc[q] /\ snap'[q] = snap[q] /\ out'[q] = out[q]
      BY <1>3 DEF Put, Drop, Goto
    <3>5. pc'[p] \in {"idle", "delete"}
      BY <1>3 DEF Put, Drop, Goto
    <3>6. p # None \/ ~Serving(store')
      BY <3>2
    <3>7. QED
      BY <1>3, <3>2, <3>3, <3>4, <3>5, <3>6
  <2>2. CASE ~Unchanged(p)
    BY <1>3, <2>2 DEF Put, Drop, Goto
  <2>3. QED
    BY <2>1, <2>2
<1>4. ASSUME NEW p \in Procs, Commit(p) \/ AgentSave(p) \/ AgentDrop(p)
       PROVE  ServeInv'
  BY <1>3, <1>4 DEF Commit, AgentSave, AgentDrop
<1>5. ASSUME NEW p \in Procs, Remove(p)
      PROVE  ServeInv'
  BY <1>5 DEF Remove, Drop, Goto
<1>6. QED
  BY <1>1, <1>2, <1>4, <1>5

\* A scheduler places what is not served.
LEMMA ServedByScheduler ==
    ASSUME Kind = "compute", OneScheduler, LifecycleInv, PlaceInv, ObsInv, ServeInv, evictions = 0,
           NEW q \in Schedulers,
           \/ SchedList(q) \/ SchedNoFit(q) \/ SchedAssign(q)
           \/ SchedEvict(q) \/ SchedEvicted(q)
    PROVE  ServeInv'
<1> USE StateTypes DEF StateTyped, ServeInv, ServedBy
<1>1. ASSUME NEW s \in Schedulers, SchedList(s) \/ SchedNoFit(s)
      PROVE  ServeInv'
  BY <1>1 DEF SchedList, SchedNoFit, Goto
<1>2. ASSUME NEW s \in Schedulers, SchedAssign(s)
      PROVE  ServeInv'
  <2>1. store # Absent => ~Serving(store)
    BY <1>2 DEF SchedAssign, PlaceInv
  <2>2. store # Absent => \A n : ~Serving(Placed(store, n))
    BY <2>1, UpdateServes DEF ObsInv
  <2>3. QED
    BY <1>2, <2>2 DEF SchedAssign, Get, Goto
<1>3. ASSUME NEW s \in Schedulers, SchedEvict(s) \/ SchedEvicted(s)
      PROVE  ServeInv'
  BY <1>3 DEF SchedEvict, SchedEvicted
<1>4. QED
  BY <1>1, <1>2, <1>3

\* An agent says that a record is served after it has made it so.
LEMMA ServedByEnsure ==
    ASSUME Kind = "compute", OneScheduler, LifecycleInv, PlaceInv, ObsInv, ServeInv, evictions = 0,
           NEW q \in Agents, AgentGet(q) \/ AgentRealise(q) \/ AgentNotRealised(q)
    PROVE  ServeInv'
<1> USE StateTypes DEF StateTyped, ServeInv, ServedBy
<1>1. ASSUME NEW a \in Agents, AgentGet(a)
      PROVE  ServeInv'
  <2>1. pc'[a] = "ensure" => store.node = a
    BY <1>1 DEF AgentGet, InScope, ComputeScope, Goto
  <2>2. QED
    BY <1>1, <2>1 DEF AgentGet, Get, Goto
<1>2. ASSUME NEW a \in Agents, AgentRealise(a)
      PROVE  ServeInv'
  <2>1. pc[a] = "ensure" /\ snap[a] \in Records /\ snap[a] # Absent /\ snap[a].node = a
    BY <1>2 DEF AgentRealise
  <2>2. Of(Realised(snap[a])) = Of(snap[a]) /\ Realised(snap[a]).node = a
    BY <2>1, UpdateServes, UpdateNodes DEF ObsInv
  <2>3. host' = [host EXCEPT ![a] = Of(snap[a])]
    BY <1>2 DEF AgentRealise, KeepsLive, Of
  <2>4. host'[a] = Of(snap[a]) /\ \A b \in Agents : b # a => host'[b] = host[b]
    BY <2>3
  <2>5. \A p \in Procs : p # a => pc'[p] = pc[p] /\ out'[p] = out[p]
    BY <1>2 DEF AgentRealise, Goto
  <2>6. pc'[a] = "save" /\ out'[a] = Realised(snap[a])
    BY <1>2 DEF AgentRealise, Goto
  <2>7. \A p \in Procs : pc[p] = "save" => p \in Agents
    BY DEF PlaceInv
  <2>8. UNCHANGED <<store, snap>>
    BY <1>2 DEF AgentRealise
  <2>9. QED
    BY <2>1, <2>2, <2>4, <2>5, <2>6, <2>7, <2>8
<1>3. ASSUME NEW a \in Agents, AgentNotRealised(a)
       PROVE  ServeInv'
  <2>1. pc[a] = "ensure" /\ snap[a] \in Records /\ snap[a] # Absent
    BY <1>3 DEF AgentNotRealised
  <2>2. \A ph \in {"Pending", "Error"} : ~Serving(NotRealised(snap[a], ph))
    BY <2>1, UpdateServes DEF ObsInv
  <2>3. host' = host \/ host' = [host EXCEPT ![a] = None]
    BY <1>3 DEF AgentNotRealised
  <2>4. host'[a] \in {host[a], None} /\ \A b \in Agents : b # a => host'[b] = host[b]
    BY <2>3
  <2>5. \A p \in Procs : p # a => pc'[p] = pc[p] /\ out'[p] = out[p]
    BY <1>3 DEF AgentNotRealised, Goto
  <2>6. pc'[a] = "save" /\ ~Serving(out'[a])
    BY <1>3, <2>2 DEF AgentNotRealised, Goto
  <2>7. \A p \in Procs : pc[p] = "save" => p \in Agents
    BY DEF PlaceInv
  <2>8. UNCHANGED <<store, snap>>
    BY <1>3 DEF AgentNotRealised
  <2>9. QED
    BY <2>1, <2>4, <2>5, <2>6, <2>7, <2>8
<1>4. QED
  BY <1>1, <1>2, <1>3

\* What was taken down, or exited, is no instance of an earlier spec.
LEMMA ServedByTeardown ==
    ASSUME Kind = "compute", OneScheduler, LifecycleInv, PlaceInv, ObsInv, ServeInv, evictions = 0,
           NEW q \in Agents,
           \/ AgentTeardown(q) \/ AgentTeardownError(q)
           \/ AgentCrash(q) \/ HostExit(q)
    PROVE  ServeInv'
<1> USE StateTypes DEF StateTyped, ServeInv, ServedBy
<1>1. ASSUME NEW a \in Agents, AgentTeardown(a) \/ AgentTeardownError(a)
       PROVE  ServeInv'
  <2>0. pc[a] = "finalize"
    BY <1>1 DEF AgentTeardown, AgentTeardownError
  <2>1. snap[a] \in Records /\ snap[a] # Absent
    BY <2>0 DEF LifecycleInv, CopyInv
  <2>2. ~Serving(Finalized(snap[a])) /\ ~Serving(NotFinalized(snap[a]))
    BY <2>1, UpdateServes DEF ObsInv
  <2>3. host'[a] \in {host[a], None} /\ \A b \in Agents : b # a => host'[b] = host[b]
    BY <1>1 DEF AgentTeardown, AgentTeardownError
  <2>4. \A p \in Procs : p # a => pc'[p] = pc[p] /\ out'[p] = out[p]
    BY <1>1 DEF AgentTeardown, AgentTeardownError, Goto
  <2>5. pc'[a] \in {"drop", "save"} /\ ~Serving(out'[a])
    BY <1>1, <2>2 DEF AgentTeardown, AgentTeardownError, Goto
  <2>6. \A p \in Procs : pc[p] = "save" => p \in Agents
    BY DEF PlaceInv
  <2>7. UNCHANGED <<store, snap>>
    BY <1>1 DEF AgentTeardown, AgentTeardownError
  <2>8. QED
    BY <2>3, <2>4, <2>5, <2>6, <2>7
<1>2. ASSUME NEW a \in Agents, AgentCrash(a)
       PROVE  ServeInv'
  BY <1>2 DEF AgentCrash, Drop, Goto
<1>3. ASSUME NEW a \in Agents, HostExit(a)
       PROVE  ServeInv'
  <2>1. \A p \in Procs : pc[p] = "save" => p \in Agents
    BY DEF PlaceInv
  <2>2. QED
    BY <1>3, <2>1 DEF HostExit
<1>4. QED
  BY <1>1, <1>2, <1>3

\* With one scheduler, and computes, no step says of a record that it is served
\* unless its node has made it so.
LEMMA ServeStep ==
    ASSUME Kind = "compute", OneScheduler, LifecycleInv, PlaceInv, ObsInv, ServeInv, [Next]_vars
    PROVE  ServeInv'
<1>1. CASE evictions' # 0
  BY <1>1 DEF ServeInv
<1>2. CASE evictions' = 0
  <2>1. evictions = 0
    BY <1>2, EvictionsGrow
  <2>2. ASSUME NEW c \in Clients, ApiPut(c) \/ ApiDelete(c) \/ Commit(c) \/ Remove(c)
        PROVE  ServeInv'
    BY <2>1, <2>2, ServedByWrites
  <2>3. ASSUME NEW s \in Schedulers, SchedStep(s) \/ SchedNoFit(s)
        PROVE  ServeInv'
    BY <2>1, <2>3, ServedByWrites, ServedByScheduler DEF SchedStep
  <2>4. ASSUME NEW a \in Agents,
               \/ AgentStep(a) \/ AgentNotRealised(a) \/ AgentTeardownError(a)
               \/ AgentCrash(a) \/ HostExit(a)
        PROVE  ServeInv'
    BY <2>1, <2>4, ServedByWrites, ServedByEnsure, ServedByTeardown DEF AgentStep
  <2>5. CASE UNCHANGED vars
    BY <2>5 DEF vars, ServeInv, ServedBy
  <2>6. QED
    BY <2>2, <2>3, <2>4, <2>5 DEF Next
<1>3. QED
  BY <1>1, <1>2

\* A compute that is reported as converged, and was never evicted, is not served
\* by an instance of an earlier spec or record, however many requests and agents
\* there are and whatever fails.
THEOREM ReadyIsNotOutdated ==
    ASSUME Kind = "compute", OneScheduler
    PROVE  Spec => []ReadyNotOutdated
<1>1. Init => PlaceInv /\ ObsInv /\ ServeInv
  BY DEF Init, PlaceInv, ObsInv, Bounded, ServeInv, ServedBy
<1>2. LifecycleInv /\ PlaceInv /\ ObsInv /\ ServeInv /\ [Next]_vars =>
        PlaceInv' /\ ObsInv' /\ ServeInv'
  BY PlaceStep, ObsStep, ServeStep
<1>3. ServeInv => ReadyNotOutdated
  BY DEF ServeInv, ServedBy, Serving, Of, ReadyNotOutdated, Outdated
<1>4. QED
  BY <1>1, <1>2, <1>3, LifecycleInvariant, PTL DEF Spec
=============================================================================
