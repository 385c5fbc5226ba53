----------------------------- MODULE Addressing -----------------------------
(***************************************************************************)
(* Which addresses of a block stand for what (manager/compute.go,          *)
(* subnet.go, egress.go, peering.go): the gateway, the resolver and the    *)
(* egress proxy from the bottom, the hosts' node ports from the top,       *)
(* instances and load balancers from .10 up.                               *)
(*                                                                         *)
(* A block is <<base, e>>, 2^e addresses from base.  Addresses are         *)
(* integers modulo Wrap, standing for uint32; the last octet is what       *)
(* remains modulo 256.                                                     *)
(***************************************************************************)
EXTENDS Integers, FiniteSets

CONSTANTS VPCs,     \* blocks of VPCs
          SubnetEs  \* sizes of subnets

Wrap == 2^16
maxNodePorts == 5

VARIABLES vpc, subnet,
          used      \* the addresses handed out

adVars == <<vpc, subnet, used>>

Block(c) == c[1]..(c[1] + 2^c[2] - 1)
Contains(c, a) == a \in Block(c)
Octet(a, o) == (a \div 256) * 256 + o
Next8(a) == Octet(a, (a + 1) % 256)

gatewayCIDR(c) == Next8(c[1])

lastHost(c) == (c[1] + 2^c[2] - 2) % Wrap

\* The address of a rank in a block, -1 when the block is too small
nodeAddress(c, rank) ==
  LET a == (lastHost(c) - rank) % Wrap IN IF Contains(c, a) THEN a ELSE -1

\* Mutant: the last of the node ports is forgotten.
Reserved_Four(c, a) == a > (lastHost(c) - (maxNodePorts - 1)) % Wrap

\* allocateIP leaves the top of the block to the node ports.
Reserved(c, a) == a > (lastHost(c) - maxNodePorts) % Wrap

Candidates(c, taken) ==
  {a \in {Octet(c[1], o) : o \in 10..249} : Contains(c, a) /\ ~Reserved(c, a) /\ a \notin taken}

allocateIP(c, taken) == CHOOSE a \in Candidates(c, taken) : \A b \in Candidates(c, taken) : a <= b

cidrsOverlap(a, b) == Contains(a, b[1]) \/ Contains(b, a[1])

SubnetsOf(v) == {<<b, e>> : b \in Block(v), e \in SubnetEs}

AdInit ==
  /\ vpc \in VPCs /\ subnet \in SubnetsOf(vpc)
  /\ subnet[1] % 2^subnet[2] = 0 /\ Block(subnet) \subseteq Block(vpc)
  /\ used = {}

\* An instance of the subnet gets an address.
Instance ==
  /\ Candidates(subnet, used) # {}
  /\ used' = used \union {allocateIP(subnet, used)}
  /\ UNCHANGED <<vpc, subnet>>

\* A load balancer gets one, of the VPC's block.
LoadBalancer ==
  /\ Candidates(vpc, used) # {}
  /\ used' = used \union {allocateIP(vpc, used)}
  /\ UNCHANGED <<vpc, subnet>>

AdSpec == AdInit /\ [][Instance]_adVars

AdSpecLB == AdInit /\ [][Instance \/ LoadBalancer]_adVars
-----------------------------------------------------------------------------
(* Properties *)

NodePorts(c) == {nodeAddress(c, r) : r \in 0..(maxNodePorts - 1)}

\* An address handed out is never one a host has in the same subnet, nor the
\* subnet's broadcast address (compute.go: `allocateIP never hands those addresses
\* out').
ClearOfNodePorts ==
  \A a \in used : a \in Block(subnet) => a \notin NodePorts(subnet) /\ a # subnet[1] + 2^subnet[2] - 1

\* An address handed out is a host address: neither that of the network nor that
\* of its gateway (compute.go: `allocateIP returns the first free host address in
\* cidr').
\* It does not hold (README, Properties that do not hold).
HostAddresses == used \intersect {subnet[1], gatewayCIDR(subnet)} = {}

\* A peering is refused exactly when the blocks share an address.
OverlapExact == cidrsOverlap(vpc, subnet) /\ \A v \in VPCs : cidrsOverlap(v, subnet) = (Block(v) \intersect Block(subnet) # {})

\* The address arithmetic keeps apart what must be: instances and node ports, and
\* subnets of VPCs that do not overlap.
AddressesApart == ClearOfNodePorts /\ OverlapExact
=============================================================================
