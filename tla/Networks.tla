------------------------------ MODULE Networks ------------------------------
(***************************************************************************)
(* What a VPC is on every host: its bridge, VRF and load-balancer          *)
(* namespace (manager/vpc.go, network.go, vrf.go, lbns.go), the overlay    *)
(* joining the bridges (overlay.go), the gateway and node addresses of a   *)
(* subnet (subnet.go) and the NAT and default route of an internet gateway *)
(* (igw.go).  Each agent runs these passes in turn; all agents share the   *)
(* three records.                                                          *)
(*                                                                         *)
(* A host's kernel is a set of parts, <<name, argument>>.  A pass is a     *)
(* program of commands on it, each needing some parts, adding some and     *)
(* removing some.  Passes of one host never overlap, so a program runs in  *)
(* one step, up to the command that fails.                                 *)
(***************************************************************************)
EXTENDS Naturals, Sequences, SequencesExt, FiniteSets

CONSTANTS Hosts,        \* naturals: their order is that of the node uids
          Addresses,    \* underlay addresses of nodes; 0 is none
          MaxNodePorts, \* hosts with an address of their own in a subnet
          MaxChanges,   \* bound on deletions and changes of nodes
          MaxFaults,    \* bound on commands that fail, crashes and restarts
          None

VARIABLES rec,      \* "vpc", "subnet", "igw" -> the record
          nodes,    \* host -> the address its node record has; 0 when there is none
          kern,     \* host -> the parts
          agent,    \* host -> [at, got, out]: the pass it is at, and the record
                    \* it read and what came of it when there is one to save
          changes, faults

nwVars == <<rec, nodes, kern, agent, changes, faults>>

Kinds == {"vpc", "subnet", "igw"}
Passes == <<"vpc", "overlay", "subnet", "igw">>

\* known is the bridge name of a VPC and the host interface of a gateway; the
\* phase, which no pass reads, is left out
NewRecord == [exists |-> TRUE, del |-> FALSE, fin |-> FALSE, known |-> 0]
NewAgent == [at |-> 1, got |-> None, out |-> None]

P(name) == <<name, 0>>
Named(name) == {name} \X (Addresses \union 0..MaxNodePorts)

NwInit ==
  /\ rec = [k \in Kinds |-> NewRecord]
  /\ nodes = [h \in Hosts |-> h]
  /\ kern = [h \in Hosts |-> {}]
  /\ agent = [h \in Hosts |-> NewAgent]
  /\ changes = 0 /\ faults = 0

Change == changes < MaxChanges /\ changes' = changes + 1 /\ UNCHANGED faults
Fault == faults < MaxFaults /\ faults' = faults + 1 /\ UNCHANGED changes
Normal == UNCHANGED <<changes, faults>>
-----------------------------------------------------------------------------
(* Users, nodes and machines *)

Delete(k) ==
  /\ Change /\ rec[k].exists /\ ~rec[k].del
  /\ rec' = [rec EXCEPT ![k].del = TRUE, ![k].exists = rec[k].fin]
  /\ UNCHANGED <<nodes, kern, agent>>

\* A node joins, leaves or gets another address.
SetNode(h, a) ==
  /\ Change /\ a # nodes[h] /\ (a # 0 => \A g \in Hosts : nodes[g] # a)
  /\ nodes' = [nodes EXCEPT ![h] = a]
  /\ UNCHANGED <<rec, kern, agent>>

\* The process holding the namespace restarts: its legs and addresses go.
NamespaceDies(h) ==
  /\ Fault /\ P("ns") \in kern[h]
  /\ kern' = [kern EXCEPT ![h] = @ \ ({P("ns"), P("legs")} \union Named("np"))]
  /\ UNCHANGED <<rec, nodes, agent>>

Reboot(h) ==
  /\ Fault
  /\ kern' = [kern EXCEPT ![h] = {}] /\ agent' = [agent EXCEPT ![h] = NewAgent]
  /\ UNCHANGED <<rec, nodes>>
-----------------------------------------------------------------------------
(* Commands *)

Cmd(needs, adds, drops, must) == [needs |-> needs, adds |-> adds, drops |-> drops, must |-> must]
Add(needs, part) == Cmd(needs, {part}, {}, TRUE)
Drop(parts) == Cmd({}, {}, parts, TRUE)
TryDrop(parts) == Cmd({}, {}, parts, FALSE)
Refused == Cmd({P("nothing")}, {}, {}, TRUE)

\* The parts after prog ran on k, its command number f failing, and whether an
\* error ended it.
Ran(k, prog, f) ==
  LET step(s, i) ==
        IF s.bad THEN s
        ELSE IF i # f /\ prog[i].needs \subseteq s.k
             THEN [s EXCEPT !.k = (@ \ prog[i].drops) \union prog[i].adds]
             ELSE [s EXCEPT !.bad = prog[i].must]
  IN FoldLeft(step, [k |-> k, bad |-> FALSE], [i \in DOMAIN prog |-> i])
-----------------------------------------------------------------------------
(* The VPC pass *)

EnsureBridge == <<Add({}, P("bridge"))>>
ensureRules == <<Add({}, P("marks"))>>
EnsureVRF == <<Add({}, P("vrf")), Add({P("bridge"), P("vrf")}, P("enslaved"))>> \o ensureRules
pid == <<Add({}, P("ns"))>>
EnsureNodePort == pid \o <<Add({P("ns"), P("bridge")}, P("legs"))>>

stop == <<Drop({P("ns"), P("legs")} \union Named("np"))>>
DeleteNodePort == stop
deleteRules == <<TryDrop({P("marks")})>>
DeleteEgress == <<TryDrop({P("egress")})>>
DeleteVRF == deleteRules \o <<TryDrop({P("egress")}), Drop({P("vrf"), P("enslaved"), P("egress")})>>
DeleteBridge == <<Drop({P("bridge"), P("enslaved"), P("gw"), P("mac"), P("joined")})>>

VpcProgram(r) ==
  IF r.del THEN DeleteNodePort \o DeleteVRF \o DeleteBridge
  ELSE EnsureBridge \o EnsureVRF \o EnsureNodePort

(* The overlay pass *)

\* Mutant: the device is kept when the node's address changes.
EnsureVXLAN_Kept(k, local) ==
  IF k \intersect Named("vx") # {} THEN <<Add({P("bridge")}, P("joined"))>>
  ELSE <<Add({}, <<"vx", local>>), Add({P("bridge")}, P("joined"))>>

\* A device with another local address is deleted first, its flood list with it.
EnsureVXLAN(k, local) ==
  (IF <<"vx", local>> \in k THEN <<>>
   ELSE (IF k \intersect Named("vx") = {} THEN <<>> ELSE <<Drop(Named("vx") \union Named("peer") \union {P("joined")})>>)
        \o <<Add({}, <<"vx", local>>)>>)
  \o <<Add({P("bridge")}, P("joined"))>>

SetFloodPeers(peers) ==
  [i \in 1..Cardinality(peers) |-> Add({}, <<"peer", SetToSeq(peers)[i]>>)]
  \o <<Drop(Named("peer") \ {<<"peer", a>> : a \in peers})>>

DeleteVXLAN == <<Drop(Named("vx") \union Named("peer") \union {P("joined")})>>

\* A no-op before the node is registered
OverlayProgram(h) ==
  LET local == nodes[h]
      peers == {nodes[g] : g \in Hosts} \ {0, local}
  IN IF local = 0 THEN <<>>
     ELSE IF rec["vpc"].exists /\ ~rec["vpc"].del
          THEN <<Add({P("bridge")}, P("mac"))>> \o EnsureVXLAN(kern[h], local) \o SetFloodPeers(peers)
          ELSE DeleteVXLAN

(* The subnet pass *)

nodeRank(h) ==
  IF nodes[h] = 0 THEN 0 ELSE Cardinality({g \in Hosts : nodes[g] # 0 /\ g < h})

EnsureNodeAddress(rank) == pid \o <<Add({P("legs")}, <<"np", rank>>)>>
DeleteNodeAddress(rank) == Drop({<<"np", rank>>})

\* The other ranks' addresses go, this host's is put; a rank without one is an error.
syncNodeAddress(rank) ==
  FlattenSeq([n \in 1..MaxNodePorts |->
    IF n - 1 = rank THEN EnsureNodeAddress(rank) ELSE <<DeleteNodeAddress(n - 1)>>])
  \o (IF rank >= MaxNodePorts THEN <<Refused>> ELSE <<>>)

EnsureGatewayAddress == <<Add({P("bridge")}, P("gw"))>>

DeleteAddresses == [n \in 1..MaxNodePorts |-> TryDrop({<<"np", n - 1>>})] \o <<Drop({P("gw")})>>

BridgeKnown == rec["vpc"].exists /\ rec["vpc"].known # 0

SubnetProgram(h, r) ==
  IF r.del THEN IF BridgeKnown THEN DeleteAddresses ELSE <<>>
  ELSE EnsureGatewayAddress \o syncNodeAddress(nodeRank(h))

(* The gateway pass; a host's default-route interface bears the host's number *)

EnableForwarding == <<Add({}, P("forwarding"))>>
EnsureNAT(h) == <<Add({}, <<"nat", h>>)>>
EnsureEgress == <<Add({P("vrf")}, P("egress"))>>

IgwEnsure(h) == EnableForwarding \o EnsureNAT(h) \o EnsureEgress

DeleteNAT(iface) == <<TryDrop({<<"nat", iface>>})>>

\* The NAT goes from the interface the record names.
IgwDelete(r) ==
  DeleteEgress \o (IF rec["vpc"].exists /\ r.known # 0 THEN DeleteNAT(r.known) ELSE <<>>)

IgwProgram(h, r) == IF r.del THEN IgwDelete(r) ELSE IgwEnsure(h)
-----------------------------------------------------------------------------
(* A pass *)

Turn(a) == [NewAgent EXCEPT !.at = (a.at % Len(Passes)) + 1]

\* The record's VPC is missing, or has no bridge yet.
Waits(k) == k # "vpc" /\ ~rec[k].del /\ ~BridgeKnown

ProgramOf(h, k) ==
  CASE k = "vpc" -> VpcProgram(rec[k])
    [] k = "subnet" -> SubnetProgram(h, rec[k])
    [] k = "igw" -> IgwProgram(h, rec[k])

\* Reconcile of a record, up to its save; command f fails, 0 for none.
Do(h, k, f) ==
  LET prog == IF Waits(k) THEN <<>> ELSE ProgramOf(h, k)
      ran == Ran(kern[h], prog, f)
  IN /\ Passes[agent[h].at] = k /\ agent[h].got = None
     /\ rec[k].exists
     /\ f = 0 \/ (f \in DOMAIN prog /\ Fault)
     /\ f = 0 => Normal
     /\ kern' = [kern EXCEPT ![h] = ran.k]
     /\ agent' = [agent EXCEPT ![h].got = rec[k],
                  ![h].out = CASE ran.bad \/ Waits(k) -> "Later"
                                [] rec[k].del -> "Gone"
                                [] OTHER -> "Ready"]
     /\ UNCHANGED <<rec, nodes>>

Saved(h, k, r, out) ==
  CASE out = "Gone" -> [r EXCEPT !.exists = FALSE, !.fin = FALSE]
    [] out = "Ready" -> [r EXCEPT !.fin = TRUE, !.known = IF k = "igw" THEN h ELSE 1]
    [] OTHER -> [r EXCEPT !.fin = TRUE]

\* The save is refused when another host or a user has saved since the read.
Save(h, k) ==
  LET a == agent[h]
  IN /\ Passes[a.at] = k /\ a.got # None
     /\ rec' = IF rec[k] = a.got THEN [rec EXCEPT ![k] = Saved(h, k, @, a.out)] ELSE rec
     /\ agent' = [agent EXCEPT ![h] = Turn(@)]
     /\ UNCHANGED <<nodes, kern, changes, faults>>

Skip(h, k) ==
  /\ Passes[agent[h].at] = k /\ agent[h].got = None /\ ~rec[k].exists
  /\ agent' = [agent EXCEPT ![h] = Turn(@)]
  /\ UNCHANGED <<rec, nodes, kern, changes, faults>>

\* OverlayReconciler.ReconcileAll, which saves nothing
Overlay(h, f) ==
  LET prog == OverlayProgram(h)
  IN /\ Passes[agent[h].at] = "overlay"
     /\ f = 0 \/ (f \in DOMAIN prog /\ Fault)
     /\ f = 0 => Normal
     /\ kern' = [kern EXCEPT ![h] = Ran(@, prog, f).k]
     /\ agent' = [agent EXCEPT ![h] = Turn(@)]
     /\ UNCHANGED <<rec, nodes>>

AgentDies(h) ==
  /\ Fault /\ agent[h] # NewAgent
  /\ agent' = [agent EXCEPT ![h] = NewAgent]
  /\ UNCHANGED <<rec, nodes, kern>>

Agent(h) == Overlay(h, 0) \/ \E k \in Kinds : Do(h, k, 0) \/ Save(h, k) \/ Skip(h, k)

NwNext ==
  \/ \E k \in Kinds : Delete(k)
  \/ \E h \in Hosts :
       \/ Agent(h) \/ NamespaceDies(h) \/ Reboot(h) \/ AgentDies(h)
       \/ \E a \in Addresses : SetNode(h, a)
       \/ \E f \in 1..8 : Overlay(h, f) \/ \E k \in Kinds : Do(h, k, f)

\* Every agent keeps running its passes, one after the other, on its ticker.  A
\* pass is never disabled, so this is weak fairness of Agent(h); said so, TLC need
\* not run a program to find a pass enabled.
NwFairness == \A h \in Hosts : []<><<agent'[h].at # agent[h].at>>_nwVars

NwSpec == NwInit /\ [][NwNext]_nwVars /\ NwFairness
-----------------------------------------------------------------------------
(* Properties *)

Settles == <>[][FALSE]_<<changes, faults>>
Stays(k) == rec[k].exists /\ ~rec[k].del

\* A VPC that stays is whole on every host again after whatever failed, restarted
\* or changed address: bridge, VRF, namespace, and an overlay to exactly the
\* other nodes.
VpcWhole ==
  \A h \in Hosts :
    Settles /\ <>[](Stays("vpc") /\ nodes[h] # 0) =>
      <>[](/\ {P("bridge"), P("vrf"), P("enslaved"), P("marks"), P("ns"), P("legs"), P("joined")} \subseteq kern[h]
           /\ kern[h] \intersect Named("vx") = {<<"vx", nodes[h]>>}
           /\ kern[h] \intersect Named("peer") = {<<"peer", a>> : a \in {nodes[g] : g \in Hosts} \ {0, nodes[h]}})

\* Each registered host ends up with one address of its own in a subnet, no two
\* the same, whichever nodes came and went.
NodeAddressesApart ==
  Settles /\ <>[](Stays("vpc") /\ Stays("subnet")) =>
    <>[](\A h \in Hosts : nodes[h] # 0 =>
           /\ Cardinality(kern[h] \intersect Named("np")) = 1 /\ P("gw") \in kern[h]
           /\ \A g \in Hosts \ {h} : nodes[g] # 0 => kern[g] \intersect kern[h] \intersect Named("np") = {})

\* Behind a gateway that stays every host has the NAT on its own interface and
\* the VPC's default route.
WayOut ==
  \A h \in Hosts :
    Settles /\ <>[](Stays("vpc") /\ Stays("igw")) => <>[](<<"nat", h>> \in kern[h] /\ P("egress") \in kern[h])

\* The overlay of a VPC that is gone goes from every registered host.
OverlayGoes ==
  \A h \in Hosts :
    Settles /\ <>[](~rec["vpc"].exists /\ nodes[h] # 0) => <>[](kern[h] \intersect Named("vx") = {})

\* What was deleted goes, in whatever order a VPC and what is in it were.
RecordsGo == \A k \in Kinds : []<>~(rec[k].exists /\ rec[k].del)

\* The passes of all hosts end where the records want them.
NetworkSettles == VpcWhole /\ NodeAddressesApart /\ WayOut /\ OverlayGoes /\ RecordsGo

\* The record of a VPC goes only after its bridge (resource/vpc.go: `so the Linux
\* bridge is torn down before the resource record is removed').
\* It does not hold (README, Properties that do not hold).
BridgeBeforeRecord ==
  [][rec["vpc"].exists /\ ~rec'["vpc"].exists => \A h \in Hosts : P("bridge") \notin kern[h]]_nwVars

\* The record of a gateway goes only after its NAT rule (resource/network.go: `so
\* the NAT rule is removed before the internet-gateway record is deleted'), on
\* the host that removes it at least.
\* It does not hold (README, Properties that do not hold).
NatBeforeRecord ==
  [][\A h \in Hosts :
       rec["igw"].exists /\ ~rec'["igw"].exists /\ agent'[h] # agent[h] => <<"nat", h>> \notin kern[h]]_nwVars
=============================================================================
