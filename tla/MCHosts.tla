------------------------------- MODULE MCHosts -------------------------------
(* What hosts keep: the addresses of instances and those of the public      *)
(* block, micro-VMs and their processes, the hypervisor and its virtio      *)
(* devices.  They share no state; each is explored on its own.              *)
EXTENDS InstanceAddresses, TLC

CONSTANTS Publics

VARIABLES focus,   \* the component whose steps are taken
          piBook, piOp, piWho, piIp, piUsed, piFaults, piRec, piPc, view, outdated, todo, kvs,
          piRequests, kind, reg, mem, drv, dev, objs, th, req, resets, image, mvRec, dep, host,
          seed, proc, sock, agent, events, srv, held, lost, hvTh, run, td, hvProc, failures

Alike == Permutations(Procs) \cup Permutations(Owners)

MCAddressesOf == 1..2
PiProcs == {"e1"}
PiAddresses == 1..3
PiReserved == {3}
ViDevices == {"blk", "tx", "rx"}
ViVcpus == [blk |-> 1, tx |-> 2]
ViAddrs == {1, 2}
ViOutcomes == [blk |-> {"ok", "fail", "bad"}, tx |-> {"ok"}, rx |-> {"ok", "fail"}]
ViResettable == {"blk"}
MvPids == 1..4
MvDies == {"idle", "check", "prepare", "wait", "create", "record", "save", "kill", "remove"}
MvStops == {"vmm", "nothing"}
MvImages == {"local", "fetched"}
HvVcpus == {1}
HvNet == {3}
HvTearers == {"request", "signal"}

PI == INSTANCE PublicIP WITH
        Procs <- PiProcs, Owners <- Publics, Addresses <- PiAddresses, Reserved <- PiReserved,
        MaxFaults <- 1, MaxRequests <- 3, book <- piBook, op <- piOp, who <- piWho, ip <- piIp,
        used <- piUsed, faults <- piFaults, rec <- piRec, pc <- piPc, requests <- piRequests
VI == INSTANCE Virtio WITH
        Devices <- ViDevices, Vcpus <- ViVcpus, Size <- 2, Wrap <- 4, Addrs <- ViAddrs,
        Outcomes <- ViOutcomes, MaxResets <- 1, Resettable <- ViResettable, SameAddr <- FALSE,
        SkipNum <- FALSE
MV == INSTANCE MicroVms WITH
        Pids <- MvPids, Dies <- MvDies, Stops <- MvStops, Reuse <- FALSE, Images <- MvImages,
        MaxEvents <- 3, rec <- mvRec
HV == INSTANCE Hypervisor WITH
        Vcpus <- HvVcpus, Net <- HvNet, Tearers <- HvTearers, MaxFailures <- 2, th <- hvTh,
        proc <- hvProc

piState == <<piBook, piOp, piWho, piIp, piUsed, piFaults, piRec, piPc, view, outdated, todo,
             kvs, piRequests>>
viState == <<kind, reg, mem, drv, dev, objs, th, req, resets>>
mvState == <<image, mvRec, dep, host, seed, proc, sock, agent, events>>
hvState == <<srv, held, lost, hvTh, run, td, hvProc, failures>>

AllInit ==
  /\ focus \in {"instances", "public", "virtio", "microvms", "hypervisor"}
  /\ Init
  /\ IF focus = "public" THEN PI!Init
     ELSE piBook = "" /\ piOp = "" /\ piWho = "" /\ piIp = "" /\ piUsed = "" /\
          piFaults = "" /\ piRec = "" /\ piPc = "" /\ view = "" /\ outdated = "" /\
          todo = "" /\ kvs = "" /\ piRequests = ""
  /\ IF focus = "virtio" THEN VI!ViInit
     ELSE kind = "" /\ reg = "" /\ mem = "" /\ drv = "" /\ dev = "" /\ objs = "" /\
          th = "" /\ req = "" /\ resets = ""
  /\ MV!MvInit /\ (focus # "microvms" => image = "local")
  /\ IF focus = "hypervisor" THEN HV!HvInit
     ELSE srv = "" /\ held = "" /\ lost = "" /\ hvTh = "" /\ run = "" /\ td = "" /\
          hvProc = "" /\ failures = ""

\* A step of the component in focus
AllNext ==
  /\ UNCHANGED focus
  /\ \/ focus = "instances" /\ UNCHANGED <<piState, viState, mvState, hvState>> /\ Next
     \/ focus = "public" /\ UNCHANGED <<vars, viState, mvState, hvState>> /\ PI!Next
     \/ focus = "virtio" /\ UNCHANGED <<vars, piState, mvState, hvState>> /\ VI!ViNext
     \/ focus = "microvms" /\ UNCHANGED <<vars, piState, viState, hvState>> /\ MV!MvNext
     \/ focus = "hypervisor" /\ UNCHANGED <<vars, piState, viState, mvState>> /\ HV!HvNext

AllSpec == AllInit /\ [][AllNext]_<<focus, vars, piState, viState, mvState, hvState>>
-----------------------------------------------------------------------------
\* PublicIP: with one edge, an address reported Ready is reserved.
ReadyReserved == focus = "public" => PI!ReadyReserved
\* Virtio: a request is done once, comes back once, and none is left.
ServedAndReturned == focus = "virtio" => VI!ServedAndReturned
\* MicroVms: a process on record is forgotten only once dead.
ReachKept == MV!ReachKept
\* Hypervisor: a machine that failed leaves nothing going on.
FailsClean == focus = "hypervisor" => HV!FailsClean
=============================================================================
