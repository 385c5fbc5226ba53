--------------------------- MODULE LoadBalancers ---------------------------
(***************************************************************************)
(* A layer-4 load balancer on every host of its VPC (manager/              *)
(* loadbalancer.go, lbns.go): each agent realizes it as an IPVS service in *)
(* the VPC's load-balancer namespace, an edge serves its public address    *)
(* too, and all of them share the record and its status.                   *)
(*                                                                         *)
(* A pass reads the record, works on the kernel and saves: what another    *)
(* host or the user does in between makes the save fail.                   *)
(***************************************************************************)
EXTENDS Naturals, FiniteSets, Listing

CONSTANTS Hosts,
          Edges,        \* the hosts facing the public block
          Ports,        \* of the service; 0 for none
          VIPs,         \* the addresses allocateIP may return, in order
          Members,      \* backends, each with its compute
          MaxEvents     \* bound on what users and instances do, on commands
                        \* that fail and on agents that restart

VARIABLES lb,       \* the record
          vpcUp,    \* the VPC has its bridge
          taken,    \* addresses instances hold
          pub,      \* the address of the public ip_address: 0 until resolved
          up,       \* the members whose compute has an address
          marked,   \* the members whose status says attached
          kernel,   \* host -> its namespace and routes
          agent,    \* host -> the reconciler
          events

lbVars == <<lb, vpcUp, taken, pub, up, marked, kernel, agent, events>>

NoLB == [exists |-> FALSE, del |-> FALSE, fin |-> FALSE, port |-> 0, public |-> FALSE,
         addr |-> 0, svc |-> 0, pubaddr |-> 0, phase |-> "Pending"]
NoKernel == [svcs |-> {}, vips |-> {}, servers |-> {}, pubs |-> {}]
NewAgent == [pc |-> "idle", got |-> NoLB, vip |-> 0, servers |-> {}, served |-> 0, healthy |-> 0]

LbInit ==
  /\ lb = [NoLB EXCEPT !.exists = TRUE, !.port = 1]
  /\ vpcUp = FALSE /\ taken = {} /\ pub = 0 /\ up = {} /\ marked = {}
  /\ kernel = [h \in Hosts |-> NoKernel]
  /\ agent = [h \in Hosts |-> NewAgent]
  /\ events = 0

Event == events < MaxEvents /\ events' = events + 1
-----------------------------------------------------------------------------
(* Users, instances and the VPC *)

UserFrame == UNCHANGED <<vpcUp, taken, pub, up, marked, kernel, agent>>

SetPort(p) ==
  /\ Event /\ lb.exists /\ ~lb.del /\ p # lb.port
  /\ lb' = [lb EXCEPT !.port = p]
  /\ UserFrame

SetPublic ==
  /\ Event /\ lb.exists /\ ~lb.del
  /\ lb' = [lb EXCEPT !.public = ~@]
  /\ UserFrame

DeleteLB ==
  /\ Event /\ lb.exists /\ ~lb.del
  /\ lb' = [lb EXCEPT !.del = TRUE, !.exists = lb.fin]
  /\ UserFrame

VPCReady ==
  /\ ~vpcUp /\ vpcUp' = TRUE
  /\ UNCHANGED <<lb, taken, pub, up, marked, kernel, agent, events>>

\* The public address is resolved; a compute gets its address or loses it.
Resolve ==
  /\ pub = 0 /\ pub' = 1
  /\ UNCHANGED <<lb, vpcUp, taken, up, marked, kernel, agent, events>>

Member(m) ==
  /\ Event
  /\ up' = IF m \in up THEN up \ {m} ELSE up \union {m}
  /\ UNCHANGED <<lb, vpcUp, taken, pub, marked, kernel, agent>>

\* The address book gives an instance an address the load balancers do not hold.
TakeAddress(a) ==
  /\ Event /\ a \notin taken /\ a # lb.addr
  /\ taken' = taken \union {a}
  /\ UNCHANGED <<lb, vpcUp, pub, up, marked, kernel, agent>>
-----------------------------------------------------------------------------
(* Reconcile, up to the kernel *)

EnvFrame == UNCHANGED <<vpcUp, taken, pub, up>>

\* The record as the pass has it, with the finalizer it attaches.
Fetched == [lb EXCEPT !.fin = TRUE]

\* usedAddresses and allocateIP: 0 when the block is full
Allocated == IF VIPs \subseteq taken THEN 0 ELSE First(VIPs \ taken)

Vip == IF lb.addr # 0 THEN lb.addr ELSE Allocated

\* ensure stops before the kernel: the VPC has no bridge, or no address is left.
Waits(h) ==
  /\ agent[h].pc = "idle" /\ lb.exists /\ ~lb.del
  /\ ~vpcUp \/ Vip = 0
  /\ lb' = [Fetched EXCEPT !.phase = IF vpcUp THEN "Error" ELSE "Pending"]
  /\ lb' # lb \/ agent[h].healthy # 0
  /\ agent' = [agent EXCEPT ![h].healthy = 0]
  /\ EnvFrame /\ UNCHANGED <<marked, kernel, events>>

\* The pass has read the record and the backends; nothing is announced until
\* it is served again.
Starting(a) ==
  [a EXCEPT !.pc = "configure", !.got = lb, !.vip = Vip, !.servers = up, !.healthy = 0]

Ensure(h) ==
  /\ agent[h].pc = "idle" /\ lb.exists /\ ~lb.del
  /\ vpcUp /\ Vip # 0
  /\ agent' = [agent EXCEPT ![h] = Starting(@)]
  /\ EnvFrame /\ UNCHANGED <<lb, marked, kernel, events>>
-----------------------------------------------------------------------------
(* The kernel *)

\* DeleteService and DeletePublicService take the address away with the service.
DeleteService(k, vip, port) ==
  [k EXCEPT !.svcs = @ \ {<<vip, port>>}, !.vips = @ \ {vip}]
DeletePublicService(k, a, port) ==
  [k EXCEPT !.pubs = @ \ {<<a, port>>, <<a, 0>>}]

dropOldPort(k, l, vip, edge) ==
  IF l.svc \in {0, l.port} THEN k
  ELSE LET gone == DeleteService(k, vip, l.svc)
       IN IF edge /\ l.pubaddr # 0 THEN DeletePublicService(gone, l.pubaddr, l.svc) ELSE gone

\* Mutant: the real servers that left are kept.
Synced_Kept(old, servers) == old \union servers

Synced(old, servers) == servers

\* EnsureService: the VIP on the anycast port, then syncService for a port
EnsureService(k, vip, port, servers) ==
  [k EXCEPT !.vips = @ \union {vip},
            !.svcs = IF port = 0 THEN @ ELSE @ \union {<<vip, port>>},
            !.servers = IF port = 0 THEN @ ELSE Synced(@, servers)]

\* The address the edge should serve, and whether the ip_address was found.
Wanted(l) == IF l.public THEN pub ELSE 0

\* ensurePublic on the kernel and on what the agent remembers; a public address
\* without a service has port 0.
EnsuredPublic(k, a, l) ==
  LET want == Wanted(l)
      clean == IF a.served \notin {0, want} THEN DeletePublicService(k, a.served, l.port) ELSE k
  IN IF want = 0 THEN clean ELSE [clean EXCEPT !.pubs = @ \union {<<want, l.port>>}]

PublicServed(a, l, ok) ==
  IF ok THEN [a EXCEPT !.served = Wanted(l), !.healthy = Wanted(l)] ELSE a

\* All of it works.
Configure(h) ==
  /\ agent[h].pc = "configure"
  /\ LET l == agent[h].got
         k == EnsureService(dropOldPort(kernel[h], l, agent[h].vip, h \in Edges),
                            agent[h].vip, l.port, agent[h].servers)
         a == [agent[h] EXCEPT !.pc = "save"]
     IN IF h \in Edges
        THEN /\ kernel' = [kernel EXCEPT ![h] = EnsuredPublic(k, a, l)]
             /\ agent' = [agent EXCEPT ![h] = PublicServed(a, l, TRUE)]
        ELSE /\ kernel' = [kernel EXCEPT ![h] = k]
             /\ agent' = [agent EXCEPT ![h] = a]
  /\ EnvFrame /\ UNCHANGED <<lb, marked, events>>

\* A command fails: before anything, after the VIP, or at the public leg.
ConfigureFails(h, at) ==
  /\ agent[h].pc = "configure" /\ Event
  /\ at = "public" => h \in Edges
  /\ LET l == agent[h].got
         k == dropOldPort(kernel[h], l, agent[h].vip, h \in Edges)
     IN kernel' = [kernel EXCEPT ![h] =
          CASE at = "start" -> @
            [] at = "vip" -> [k EXCEPT !.vips = @ \union {agent[h].vip}]
            [] at = "public" -> EnsureService(k, agent[h].vip, l.port, agent[h].servers)]
  /\ agent' = [agent EXCEPT ![h] =
       [PublicServed(@, agent[h].got, FALSE) EXCEPT !.pc = "saveError"]]
  /\ EnvFrame /\ UNCHANGED <<lb, marked>>
-----------------------------------------------------------------------------
(* The save *)

\* What the pass saves when all of it worked.
Saved(a, edge) ==
  [a.got EXCEPT !.fin = TRUE, !.addr = a.vip, !.svc = a.got.port,
                !.pubaddr = IF edge THEN Wanted(a.got) ELSE @, !.phase = "Ready"]

Save(h) ==
  /\ agent[h].pc \in {"save", "saveError"}
  /\ IF lb = agent[h].got
     THEN /\ lb' = IF agent[h].pc = "save" THEN Saved(agent[h], h \in Edges)
                   ELSE [agent[h].got EXCEPT !.fin = TRUE, !.phase = "Error"]
          /\ marked' = IF agent[h].pc = "save" THEN up ELSE marked
     ELSE UNCHANGED <<lb, marked>>
  /\ agent' = [agent EXCEPT ![h].pc = "idle", ![h].got = NoLB, ![h].vip = 0, ![h].servers = {}]
  /\ EnvFrame /\ UNCHANGED <<kernel, events>>

Deleting(h) == agent[h].pc = "idle" /\ lb.exists /\ lb.del

\* finalize fails before it removed anything.
FinalizeFails(h) ==
  /\ Deleting(h) /\ Event
  /\ lb' = [lb EXCEPT !.phase = "Error"]
  /\ EnvFrame /\ UNCHANGED <<marked, kernel, agent>>

\* finalize, the record's removal included: the host that gets there first
\* cleans up after itself.
Finalize(h) ==
  /\ Deleting(h)
  /\ LET k == IF lb.addr = 0 THEN kernel[h] ELSE DeleteService(kernel[h], lb.addr, lb.port)
         a == agent[h].served
     IN /\ kernel' = [kernel EXCEPT ![h] =
                        IF h \notin Edges THEN k
                        ELSE DeletePublicService(DeletePublicService(k, a, lb.port), lb.pubaddr, lb.port)]
        /\ agent' = [agent EXCEPT ![h].served = 0, ![h].healthy = 0]
  /\ lb' = NoLB
  /\ EnvFrame /\ UNCHANGED <<marked, events>>

\* ReconcileAll on a host whose load balancer left the store without it.
Forget(h) ==
  /\ agent[h].pc = "idle" /\ ~lb.exists /\ agent[h].healthy # 0
  /\ agent' = [agent EXCEPT ![h].healthy = 0]
  /\ EnvFrame /\ UNCHANGED <<lb, marked, kernel, events>>

\* The agent dies between two steps, or is restarted.
Restart(h) ==
  /\ Event
  /\ agent' = [agent EXCEPT ![h] = NewAgent]
  /\ EnvFrame /\ UNCHANGED <<lb, marked, kernel>>

Reconcile(h) ==
  \/ Waits(h) \/ Ensure(h) \/ Configure(h) \/ Save(h) \/ Finalize(h) \/ Forget(h)

LbNext ==
  \/ \E p \in Ports : SetPort(p)
  \/ SetPublic \/ DeleteLB \/ VPCReady \/ Resolve
  \/ \E m \in Members : Member(m)
  \/ \E a \in VIPs : TakeAddress(a)
  \/ \E h \in Hosts :
       \/ Reconcile(h) \/ Restart(h) \/ FinalizeFails(h)
       \/ \E at \in {"start", "vip", "public"} : ConfigureFails(h, at)

\* Every agent runs on its ticker; the VPC and the address come up.
LbFairness == /\ \A h \in Hosts : WF_lbVars(Reconcile(h))
              /\ WF_lbVars(VPCReady) /\ WF_lbVars(Resolve)

LbSpec == LbInit /\ [][LbNext]_lbVars /\ LbFairness
-----------------------------------------------------------------------------
(* Properties *)

\* What an edge announces it serves: an address is only announced while the
\* host holds its service (healthyPublic, bgp.go).
AnnouncedServed ==
  \A h \in Hosts : agent[h].healthy # 0 =>
    \E p \in Ports : <<agent[h].healthy, p>> \in kernel[h].pubs

\* A load balancer that is left alone is served on every host, on the address
\* and port of its record, by exactly the backends that run.
ServedEverywhere ==
  \A h \in Hosts :
    (<>[](lb.exists /\ ~lb.del /\ VIPs # taken)) /\ <>[][FALSE]_events =>
      <>[](/\ lb.addr \in kernel[h].vips
           /\ lb.port # 0 => <<lb.addr, lb.port>> \in kernel[h].svcs /\ kernel[h].servers = up)

\* Its public address is served by every edge.
PublicEverywhere ==
  \A h \in Edges :
    (<>[](lb.exists /\ ~lb.del /\ lb.public /\ VIPs # taken)) /\ <>[][FALSE]_events =>
      <>[](<<pub, lb.port>> \in kernel[h].pubs) /\ []<>(agent[h].healthy = pub)

\* A load balancer whose deletion was asked for goes.
LbGoes == []<>~(lb.exists /\ lb.del)

\* The passes of all hosts end where the record wants them: served on every host and
\* edge, or gone.
LbSettles == ServedEverywhere /\ PublicEverywhere /\ LbGoes

\* Before the record is deleted its service and its VIP are removed (resource/
\* loadbalancer.go: the finalizer is there `so the IPVS virtual service and its
\* VIP are removed before the load-balancer record is deleted').
\* It does not hold (README, Properties that do not hold).
RemovedBeforeRecord ==
  [][lb.exists /\ ~lb'.exists /\ lb.addr # 0 => \A h \in Hosts : lb.addr \notin kernel'[h].vips]_lbVars

\* The service of the port a load balancer had is removed (dropOldPort).
\* It does not hold (README, Properties that do not hold).
OldPortGoes ==
  \A h \in Hosts :
    <>[](lb.exists /\ ~lb.del /\ lb.addr # 0) /\ <>[][FALSE]_events =>
      <>[](kernel[h].svcs \subseteq {<<lb.addr, lb.port>>})

\* No host holds a VIP the record does not name.
\* It does not hold (README, Properties that do not hold).
OnlyItsVIP ==
  \A h \in Hosts : lb.exists /\ lb.addr # 0 /\ agent[h].pc = "idle" => kernel[h].vips \subseteq {lb.addr}
=============================================================================
