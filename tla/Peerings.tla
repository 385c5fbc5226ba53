------------------------------ MODULE Peerings ------------------------------
(***************************************************************************)
(* The peering pass (manager/peering.go): on every host a veth pair joins  *)
(* the bridges of two VPCs, and each VPC's table routes the other's block. *)
(* Only as much of the VPC pass is here as the peering pass depends on:    *)
(* whether a host has a bridge, and whether the record says there is one.  *)
(***************************************************************************)
EXTENDS Naturals, FiniteSets

CONSTANTS Hosts,
          CutLinks,   \* whether commands of EnsureLink may fail half-way
          MaxEvents,  \* bound on deletions, failures and crashes
          None

Sides == {1, 2}

VARIABLES overlap,  \* whether the VPCs' blocks share an address
          vpcs,     \* side -> "absent", "made", or "known" once a bridge is recorded
          pr,       \* the peering: [exists, del, fin]
          kern,     \* host -> [bridges, link, routes]
          agent,    \* host -> [at, got, out]
          events

peVars == <<overlap, vpcs, pr, kern, agent, events>>

\* link counts the commands of EnsureLink that worked: 5 for a pair that joins the
\* bridges, 0 for no pair
NoKernel == [bridges |-> {}, link |-> 0, routes |-> {}]
NewAgent == [at |-> "vpc", got |-> None, out |-> None]

PeInit ==
  /\ overlap \in BOOLEAN
  /\ vpcs = [s \in Sides |-> "absent"]
  /\ pr = [exists |-> TRUE, del |-> FALSE, fin |-> FALSE]
  /\ kern = [h \in Hosts |-> NoKernel]
  /\ agent = [h \in Hosts |-> NewAgent]
  /\ events = 0

Event == events < MaxEvents /\ events' = events + 1 /\ UNCHANGED overlap
NoEvent == UNCHANGED <<overlap, events>>
-----------------------------------------------------------------------------
(* Users and machines *)

CreateVPC(s) ==
  /\ vpcs[s] = "absent" /\ vpcs' = [vpcs EXCEPT ![s] = "made"]
  /\ UNCHANGED <<overlap, pr, kern, agent, events>>

DeletePeering ==
  /\ Event /\ pr.exists /\ ~pr.del
  /\ pr' = [pr EXCEPT !.del = TRUE, !.exists = pr.fin]
  /\ UNCHANGED <<vpcs, kern, agent>>

Reboot(h) ==
  /\ Event
  /\ kern' = [kern EXCEPT ![h] = NoKernel] /\ agent' = [agent EXCEPT ![h] = NewAgent]
  /\ UNCHANGED <<vpcs, pr>>

\* The VPC pass, which comes first: the bridge of every VPC there is.
VpcPass(h) ==
  /\ agent[h].at = "vpc"
  /\ kern' = [kern EXCEPT ![h].bridges = {s \in Sides : vpcs[s] # "absent"}]
  /\ vpcs' = [s \in Sides |-> IF vpcs[s] = "made" THEN "known" ELSE vpcs[s]]
  /\ agent' = [agent EXCEPT ![h].at = "peer"]
  /\ UNCHANGED <<overlap, pr, events>>
-----------------------------------------------------------------------------
(* The backend *)

\* The commands of EnsureLink a host can run: the ends are enslaved second and
\* fourth.
Attachable(k) == IF 1 \notin k.bridges THEN 1 ELSE IF 2 \notin k.bridges THEN 3 ELSE 5

\* A pair whose first end is there is left as it is.
EnsureLink(k, cut) ==
  IF k.link # 0 THEN k ELSE [k EXCEPT !.link = IF cut < Attachable(k) THEN cut ELSE Attachable(k)]

\* The route to the block of the second side, in the first one's table, then the
\* other way round: each fails without the bridge it goes over
EnsureRoutes(k) ==
  [k EXCEPT !.routes = @ \cup (IF 2 \in k.bridges THEN {2} \cup (k.bridges \cap {1}) ELSE {})]

DeleteLink(k) == [k EXCEPT !.link = 0]
\* Mutant: the route of one side is forgotten.
DeleteRoutes_One(k) == [k EXCEPT !.routes = @ \ {2}]

DeleteRoutes(k) == [k EXCEPT !.routes = {}]
-----------------------------------------------------------------------------
(* The pass *)

\* side: whether both bridges are recorded
Known == \A s \in Sides : vpcs[s] = "known"

\* Two VPCs whose blocks share an address are never joined.
Peerable == Known /\ ~overlap

Read(h, out) ==
  /\ agent' = [agent EXCEPT ![h] = [at |-> "save", got |-> pr, out |-> out]]
  /\ UNCHANGED <<vpcs, pr>>

\* ensure, where EnsureLink stops after cut commands and the routes may fail
Ensure(h, cut, routed) ==
  LET link == EnsureLink(kern[h], cut)
      made == link.link = 5 \/ kern[h].link # 0
      done == IF made /\ routed THEN EnsureRoutes(link) ELSE link
  IN /\ agent[h].at = "peer" /\ pr.exists /\ ~pr.del
     /\ IF cut < 5 \/ ~routed THEN Peerable /\ Event ELSE NoEvent
     /\ cut \in {0, 5} \/ CutLinks
     /\ kern' = [kern EXCEPT ![h] = IF Peerable THEN done ELSE @]
     /\ Read(h, "Kept")

Finalize(h, ok) ==
  /\ agent[h].at = "peer" /\ pr.exists /\ pr.del
  /\ IF ok THEN NoEvent ELSE Event
  /\ LET k == IF Known THEN DeleteRoutes(kern[h]) ELSE kern[h]
     IN kern' = [kern EXCEPT ![h] = IF ok THEN DeleteLink(k) ELSE k]
  /\ Read(h, IF ok THEN "Gone" ELSE "Kept")

Skip(h) ==
  /\ agent[h].at = "peer" /\ ~pr.exists
  /\ agent' = [agent EXCEPT ![h] = NewAgent]
  /\ UNCHANGED <<overlap, vpcs, pr, kern, events>>

Saved(r, out) == IF out = "Gone" THEN [r EXCEPT !.exists = FALSE, !.fin = FALSE] ELSE [r EXCEPT !.fin = TRUE]

Save(h) ==
  /\ agent[h].at = "save"
  /\ pr' = IF pr = agent[h].got THEN Saved(pr, agent[h].out) ELSE pr
  /\ agent' = [agent EXCEPT ![h] = NewAgent]
  /\ UNCHANGED <<overlap, vpcs, kern, events>>

Pass(h) == VpcPass(h) \/ Ensure(h, 5, TRUE) \/ Finalize(h, TRUE) \/ Skip(h) \/ Save(h)

PeNext ==
  \/ \E s \in Sides : CreateVPC(s)
  \/ DeletePeering
  \/ \E h \in Hosts :
       \/ Pass(h) \/ Reboot(h) \/ Finalize(h, FALSE)
       \/ \E cut \in 0..5, routed \in BOOLEAN : Ensure(h, cut, routed)

PeFairness == /\ \A h \in Hosts : WF_peVars(Pass(h))
              /\ \A s \in Sides : WF_peVars(CreateVPC(s))

PeSpec == PeInit /\ [][PeNext]_peVars /\ PeFairness
-----------------------------------------------------------------------------
(* Properties *)

Settles == <>[][FALSE]_events

\* A peering that stays, of VPCs that do not overlap, ends up with its bridges
\* joined and both routes on every host (peering.go: EnsureLink `creates a veth pair
\* joining bridge1 and bridge2 if absent and brings it up. Idempotent').
PeeringJoins ==
  \A h \in Hosts :
    Settles /\ <>[](~overlap /\ pr.exists /\ ~pr.del) => <>[](kern[h].link = 5 /\ kern[h].routes = Sides)

\* A deleted peering the passes hold back goes (peering.go: finalize).
PeeringGoes == []<>~(pr.exists /\ pr.del)

\* Where a peering was finalized, neither the pair nor a route of it is left when
\* its record goes (peering.go: finalize, before the finalizer is dropped).
UnjoinedFirst ==
  [][\A h \in Hosts : agent[h].at = "save" /\ agent'[h] # agent[h] /\ pr.exists /\ ~pr'.exists =>
       kern[h].link = 0 /\ kern[h].routes = {}]_peVars

\* No address is ever routed two ways: nothing joins VPCs that overlap, whatever
\* the order in which the blocks and the bridges became known (peering.go: ensure).
OverlapApart == overlap => \A h \in Hosts : kern[h].link = 0 /\ kern[h].routes = {}
=============================================================================
