---------------------------- MODULE MCControlPlane ----------------------------
(* The control plane: the life of a compute between the API, the scheduler   *)
(* and the agents; the addresses of a subnet and the configuration of the    *)
(* load balancer.  They share no state; each is explored on its own.         *)
EXTENDS Lifecycle, Integers, TLC

VARIABLES focus,   \* the component whose steps are taken
          vpc, subnet, used, raw, cfg, verdict

\* Every listener protocol and mode over rules that overlap, every health check
\* around its defaults, and egress policies

a == <<"a">>
xa == <<"x", "a">>
MCHosts == {a, xa, <<"y", "a">>}
MCPaths == {<<"/">>, <<"/", "p">>, <<"/", "p", "q">>}
Pattern(w, l) == [wild |-> w, labels |-> l]

Check(p, i, t) ==
  [protocol |-> p, path |-> <<>>, port |-> 0, interval |-> i, timeout |-> t, healthy |-> 0, unhealthy |-> 0]
Group(p, hc, ts) == [protocol |-> p, port |-> 80, ca |-> "none", hc |-> hc, targets |-> ts]
Plain(p) == Group(p, Check("", 0, 0), <<>>)
Target(w, id) == [isIP |-> TRUE, port |-> 80, weight |-> w, id |-> id]

NoEgress == [domains |-> {}, nets |-> {}, compiles |-> TRUE]
Listener(p, m, cs, d, rs) ==
  [isIP |-> TRUE, port |-> 80, protocol |-> p, mode |-> m, certs |-> cs, default |-> d, rules |-> rs,
   hasEgress |-> FALSE, egress |-> NoEgress]
Cert == [pair |-> TRUE, names |-> {Pattern(FALSE, a)}]

Rules == [host : {<<>>, <<Pattern(FALSE, xa)>>, <<Pattern(TRUE, a)>>},
          prefix : {<<>>, <<"/">>, <<"/", "p">>}, group : {1, 2}]
RuleLists == {<<>>} \union [1..1 -> Rules] \union [1..2 -> Rules]

ListenerConfigs ==
  {[listener |-> Listener(p, m, IF c THEN <<Cert>> ELSE <<>>, 1, rs),
    groups |-> 1 :> Plain(q) @@ 2 :> Plain(IF s THEN q ELSE "tcp")] :
     p \in {"http", "https", "tls", "tcp"}, m \in {"", "reencrypt"}, c \in BOOLEAN,
     rs \in RuleLists, q \in {"http", "https", "tcp"}, s \in BOOLEAN}
GroupConfigs ==
  {[listener |-> Listener("http", "", <<>>, 1, <<>>),
    groups |-> 1 :> Group("http", Check(p, i, t), <<Target(w, 1), [Target(1, id) EXCEPT !.port = q]>>)] :
     p \in {"", "tcp"}, i \in {-1, 0, 1, 5}, t \in {0, 2, 6}, w \in {0, 1000, 1001}, id \in {1, 2},
     q \in {0, 80}}
EgressConfigs ==
  {[listener |-> [Listener(p, m, <<>>, 0, <<>>) EXCEPT
                    !.hasEgress = has, !.egress = [domains |-> ds, nets |-> ns, compiles |-> TRUE]],
    groups |-> <<>>] :
     p \in {"egress-http", "egress-tls"}, m \in {"", "terminate"}, has \in BOOLEAN,
     ds \in SUBSET {Pattern(FALSE, a), Pattern(TRUE, a), Pattern(FALSE, <<>>)}, ns \in SUBSET {2}}
MCRawConfigs == ListenerConfigs \union GroupConfigs \union EgressConfigs

AdVPCs == {<<0, 9>>, <<0, 5>>, <<32, 5>>, <<128, 7>>, <<240, 4>>, <<256, 8>>}
AdSubnetEs == 0..9
LfAddresses == 1..3
LfPublic == {1}

AD == INSTANCE Addressing WITH
        VPCs <- AdVPCs, SubnetEs <- AdSubnetEs
LF == INSTANCE LbConfig WITH
        RawConfigs <- MCRawConfigs, Hosts <- MCHosts, Paths <- MCPaths,
        Addresses <- LfAddresses, Public <- LfPublic

adState == <<vpc, subnet, used>>
lfState == <<raw, cfg, verdict>>

AllInit ==
  /\ focus \in {"lifecycle", "addressing", "lbconfig"}
  /\ Init
  /\ IF focus = "addressing" THEN AD!AdInit
     ELSE vpc = "" /\ subnet = "" /\ used = ""
  /\ IF focus = "lbconfig" THEN LF!LcInit
     ELSE raw = "" /\ cfg = "" /\ verdict = ""

\* A step of the component in focus
AllNext ==
  /\ UNCHANGED focus
  /\ \/ focus = "lifecycle" /\ UNCHANGED <<adState, lfState>> /\ Next
     \/ focus = "addressing" /\ UNCHANGED <<vars, lfState>> /\ AD!Instance
     \/ focus = "lbconfig" /\ UNCHANGED <<vars, adState>> /\ LF!ParseConfig

AllSpec == AllInit /\ [][AllNext]_<<focus, vars, adState, lfState>>
-----------------------------------------------------------------------------
\* Addressing: instances stay clear of node ports, overlaps are found.
AddressesApart == focus = "addressing" => AD!AddressesApart
\* LbConfig: an admitted configuration is accepted and does what it says.
ConfigHolds == focus = "lbconfig" => LF!ConfigHolds
=============================================================================
