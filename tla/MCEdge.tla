-------------------------------- MODULE MCEdge --------------------------------
(* The edge of the hosts: public addresses, layer-4 load balancers, packet  *)
(* filters and peerings, and infra-lb with its sockets.  They share no      *)
(* state; each is explored on its own.                                      *)
EXTENDS PublicIP, Sequences, TLC

CONSTANTS None, Unset

VARIABLES focus,   \* the component whose steps are taken
          lb, vpcUp, taken, pub, up, marked, kernel, agent, events, kind, pol, kern, fwAgent,
          fwEvents, overlap, vpcs, pr, peKern, peAgent, peEvents, file, loader, groups, live,
          slot, conn, blocked, status, hup, stop, pxEvents

MCAddresses == 1..3
MCReserved == {3}

\* Packets and rules that tell apart protocol, port, source and state
P(proto, port, src, est) == [proto |-> proto, port |-> port, src |-> src, est |-> est]
MCPackets == {P("tcp", 1, 1, FALSE), P("tcp", 2, 1, FALSE), P("tcp", 2, 2, TRUE), P("icmp", 3, 2, FALSE)}

R(proto, port, src) == [proto |-> proto, port |-> port, src |-> src]
A(action, proto, port, src) == [action |-> action, proto |-> proto, port |-> port, src |-> src]
W(prio, match, value, action) == [prio |-> prio, match |-> match, value |-> value, action |-> action]

Lists(k) ==
  CASE k = "sg" -> {<<>>, <<R("tcp", 1, 0), R("all", 1, 2)>>}
    [] k = "acl" -> {<<A("deny", "tcp", 1, 0), A("allow", "all", 0, 1)>>, <<A("allow", "icmp", 0, 0)>>}
    [] k = "waf" -> {<<W(2, "port", 1, "block"), W(1, "source_ip", 1, "allow")>>,
                     <<W(1, "path", 0, "log"), W(1, "source_ip", 2, "block")>>}
    [] k = "egress" -> {<<>>, <<R("tcp", 1, 0), R("any", 0, 2)>>}

\* Two configurations that share a socket, one with another protocol on the same
\* name and one that is rejected
Lc(k, p, g) == [key |-> k, kind |-> p, group |-> g]
Good(l, gs) == [valid |-> TRUE, groups |-> gs, listeners |-> l]
MCContents ==
  {Good(1 :> Lc(1, "http", 1), {1}),
   Good(1 :> Lc(1, "http", 2), {2}),
   Good(1 :> Lc(2, "tcp", 2), {2}),
   [Good(<<>>, {}) EXCEPT !.valid = FALSE]}
MCAtStart == {Good(1 :> Lc(1, "http", 1), {1})}

LbHosts == 1..2
LbEdges == {1}
LbPorts == 0..2
LbVIPs == 1..2
LbMembers == {1}
FwKinds == {"sg", "acl", "waf", "egress"}
FwHosts == {1}
FwTargets == 1..2
PeHosts == {1}
PxNames == {1}
PxSlots == 1..3
PxConns == {"c1"}

LB == INSTANCE LoadBalancers WITH
        Hosts <- LbHosts, Edges <- LbEdges, Ports <- LbPorts, VIPs <- LbVIPs,
        Members <- LbMembers, MaxEvents <- 2
FW == INSTANCE Firewalls WITH
        Kinds <- FwKinds, Hosts <- FwHosts, RuleLists <- Lists, Targets <- FwTargets,
        Packets <- MCPackets, MaxEvents <- 3, agent <- fwAgent, events <- fwEvents
PE == INSTANCE Peerings WITH
        Hosts <- PeHosts, CutLinks <- FALSE, MaxEvents <- 3, kern <- peKern, agent <- peAgent,
        events <- peEvents

PX == INSTANCE Proxy WITH
        Contents <- MCContents, AtStart <- MCAtStart, Names <- PxNames, Slots <- PxSlots,
        Conns <- PxConns, SilentBackends <- FALSE, MaxEvents <- 2, events <- pxEvents

lbState == <<lb, vpcUp, taken, pub, up, marked, kernel, agent, events>>
fwState == <<kind, pol, kern, fwAgent, fwEvents>>
peState == <<overlap, vpcs, pr, peKern, peAgent, peEvents>>
pxState == <<file, loader, groups, live, slot, conn, blocked, status, hup, stop, pxEvents>>

AllInit ==
  /\ focus \in {"public", "services", "filters", "peerings", "proxy"}
  /\ Init
  /\ LB!LbInit
  /\ FW!FwInit /\ (focus # "filters" => kind = "sg" /\ pol.rules = <<>> /\ pol.target = 1)
  /\ PE!PeInit /\ (focus # "peerings" => overlap)
  /\ PX!PxInit

\* A step of the component in focus
AllNext ==
  /\ UNCHANGED focus
  /\ \/ focus = "public" /\ UNCHANGED <<lbState, fwState, peState, pxState>> /\ Next
     \/ focus = "services" /\ UNCHANGED <<vars, fwState, peState, pxState>> /\ LB!LbNext
     \/ focus = "filters" /\ UNCHANGED <<vars, lbState, peState, pxState>> /\ FW!FwNext
     \/ focus = "peerings" /\ UNCHANGED <<vars, lbState, fwState, pxState>> /\ PE!PeNext
     \/ focus = "proxy" /\ UNCHANGED <<vars, lbState, fwState, peState>> /\ PX!PxNext

allVars == <<focus, vars, lbState, fwState, peState, pxState>>

\* The fairness of each component with a liveness property, in its focus.  The
\* proxy gets few signals: strong fairness of Hangup and of Shutdown, which are
\* taken finitely often, says that each is finally ready no more.
AllFairness ==
  /\ \A e \in Procs : WF_vars(focus = "public" /\ EdgeStep(e))
  /\ \A h \in 1..2 : WF_(lbState)(focus = "services" /\ LB!Reconcile(h))
  /\ WF_(lbState)(focus = "services" /\ LB!VPCReady) /\ WF_(lbState)(focus = "services" /\ LB!Resolve)
  /\ WF_(fwState)(focus = "filters" /\ FW!Pass(1))
  /\ WF_(pxState)(focus = "proxy" /\ PX!Turn) /\ WF_(pxState)(focus = "proxy" /\ PX!Tick)
  /\ <>[](focus # "proxy" \/ ~ENABLED PX!Hangup) /\ <>[](focus # "proxy" \/ ~ENABLED PX!Shutdown)
  /\ \A i \in 1..3 : WF_(pxState)(focus = "proxy" /\ PX!Closes(i)) /\ WF_(pxState)(focus = "proxy" /\ PX!DrainTimeout(i))
  /\ WF_(pxState)(focus = "proxy" /\ PX!Handle("c1")) /\ WF_(pxState)(focus = "proxy" /\ PX!BackendEnds("c1"))

AllSpec == AllInit /\ [][AllNext]_allVars /\ AllFairness
-----------------------------------------------------------------------------
\* LoadBalancers: served on every host and edge, or gone.
LbSettles == []<>(focus # "services") \/ LB!LbSettles
\* Firewalls: the rules of the record come into force, or the filter goes.
FilterSettles == []<>(focus # "filters") \/ FW!FilterSettles
\* Firewalls: rules in force are replaced without a gap.
NoGap == FW!NoGap
\* Peerings: nothing of a peering is left when its record goes.
UnjoinedFirst == PE!UnjoinedFirst
\* Proxy: the process ends where its file and its signals want it.
ProxySettles == []<>(focus # "proxy") \/ PX!ProxySettles
=============================================================================
