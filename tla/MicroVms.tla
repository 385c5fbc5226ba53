------------------------------ MODULE MicroVms ------------------------------
(***************************************************************************)
(* One micro-VM on the host it is scheduled to: the micro-VM pass          *)
(* (manager/microvm.go), the boot image (vmimage.go), the infra-hypervisor *)
(* processes it starts (vmm.go, cmd/hypervisor) and what each leaves on    *)
(* the host when it fails or dies.  How a process runs its guest is in     *)
(* Hypervisor; addresses are in InstanceAddresses.                         *)
(***************************************************************************)
EXTENDS Naturals, FiniteSets, Listing

CONSTANTS Pids,
          Dies,       \* the steps at which the agent may die
          Stops,      \* what an agent that dies takes along: "vmm" or "nothing"
          Reuse,      \* whether the pid of a dead process may be given out again
          Images,     \* where an image may come from: "fetched", "local"
          MaxEvents   \* bound on failures, deaths and what users do

VARIABLES image,   \* where its image comes from
          rec,     \* the record: [exists, del, fin, phase]
          dep,     \* its subnet, VPC and group: "missing", "waiting", "ready"
          host,    \* [dir, tap, up, rules, cache, disk, pidfile]
          seed,    \* whether the agent serves its cloud-init seed
          proc,    \* pid -> "none", "start", "listen", "run", "hung", "other"
          sock,    \* the process that made the control socket, 0 for no file
          agent,   \* [pc, got, pid, out]
          events

mvVars == <<image, rec, dep, host, seed, proc, sock, agent, events>>
vmmVars == <<proc, sock>>

NoHost == [dir |-> FALSE, tap |-> FALSE, up |-> FALSE, rules |-> 0, cache |-> "none", disk |-> "none", pidfile |-> 0]
NewRecord == [exists |-> TRUE, del |-> FALSE, fin |-> FALSE, phase |-> "Pending"]
AtRest == [pc |-> "idle", got |-> NewRecord, pid |-> 0, out |-> "none"]

MvInit ==
  /\ image \in Images /\ rec = NewRecord /\ dep = "waiting"
  /\ host = NoHost /\ seed = FALSE
  /\ proc = [p \in Pids |-> "none"] /\ sock = 0
  /\ agent = AtRest /\ events = 0

Event == events < MaxEvents /\ events' = events + 1 /\ UNCHANGED image
NoEvent == UNCHANGED <<image, events>>

\* processAlive: any process of that pid
processAlive(p) == p # 0 /\ proc[p] # "none"
Ours == {p \in Pids : proc[p] \notin {"none", "other"}}
Running == {p \in Pids : proc[p] \in {"run", "hung"}}
-----------------------------------------------------------------------------
(* Users, and what fails *)

\* The delete handler: a record without a finalizer goes at once.
Delete ==
  /\ Event /\ rec.exists /\ ~rec.del
  /\ rec' = [rec EXCEPT !.del = TRUE, !.exists = rec.fin]
  /\ UNCHANGED <<dep, host, seed, vmmVars, agent>>

DepChanges(d) ==
  /\ dep' = d /\ dep # d
  /\ IF d = "ready" THEN NoEvent ELSE Event
  /\ UNCHANGED <<rec, host, seed, vmmVars, agent>>

\* The socket of a process that is killed stays.
Killed(p) == proc' = [proc EXCEPT ![p] = "none"] /\ UNCHANGED sock

VmmDies(p) ==
  /\ Event /\ p \in Ours /\ Killed(p)
  /\ UNCHANGED <<rec, dep, host, seed, agent>>

\* The guest is done for, and its process is not.
GuestFails(p) ==
  /\ Event /\ proc[p] = "run" /\ proc' = [proc EXCEPT ![p] = "hung"]
  /\ UNCHANGED <<rec, dep, host, seed, sock, agent>>

PidReused(p) ==
  /\ Event /\ Reuse /\ host.pidfile = p /\ proc[p] = "none"
  /\ proc' = [proc EXCEPT ![p] = "other"]
  /\ UNCHANGED <<rec, dep, host, seed, sock, agent>>

\* Under its unit, which has no KillMode, a service takes every process of its
\* control group along; started otherwise it leaves them.
AgentDies(what) ==
  /\ Event /\ agent.pc \in Dies /\ agent' = AtRest /\ seed' = FALSE
  /\ IF what = "vmm"
     THEN proc' = [p \in Pids |-> IF p \in Ours THEN "none" ELSE proc[p]] /\ UNCHANGED sock
     ELSE UNCHANGED vmmVars
  /\ UNCHANGED <<rec, dep, host>>
-----------------------------------------------------------------------------
(* Reconcile *)

Goes(pc) == agent' = [agent EXCEPT !.pc = pc]
Fails == agent' = [agent EXCEPT !.pc = "save", !.out = "Error"]

\* resolve: an error, not yet, or a request
resolve == CASE dep = "missing" -> "Error" [] dep = "waiting" -> "Pending" [] OTHER -> "Ready"

Reconcile ==
  /\ agent.pc = "idle" /\ rec.exists
  /\ agent' = [agent EXCEPT !.got = rec,
                 !.pc = IF rec.del THEN IF rec.fin THEN "stop" ELSE "remove" ELSE IF resolve = "Ready" THEN "check" ELSE "save",
                 !.out = IF rec.del THEN "Gone" ELSE resolve]
  /\ UNCHANGED <<rec, dep, host, seed, vmmVars, image, events>>

\* What Put makes of the record, and the Delete that follows the last finalizer
Saved(r, out) ==
  IF out = "Gone" THEN [r EXCEPT !.fin = FALSE, !.exists = FALSE]
  ELSE [r EXCEPT !.fin = TRUE, !.phase = out]

\* Put stores nothing over a record that changed since it was read.
Save ==
  /\ agent.pc \in {"save", "remove"} /\ agent' = AtRest
  /\ rec' = IF rec = agent.got THEN Saved(rec, agent.out) ELSE rec
  /\ UNCHANGED <<dep, host, seed, vmmVars, image, events>>
-----------------------------------------------------------------------------
(* EnsureMicroVM *)

readAlivePid == processAlive(host.pidfile)

Check ==
  /\ agent.pc = "check"
  /\ Goes(IF readAlivePid THEN "save" ELSE "prepare")
  /\ UNCHANGED <<rec, dep, host, seed, vmmVars, image, events>>

\* The directory, the TAP device (four commands at most) and the group's two rules;
\* done counts the steps that worked.
Prepare(done) ==
  /\ agent.pc = "prepare"
  /\ host' = [host EXCEPT !.dir = done > 0 \/ @, !.tap = done > 1 \/ @, !.up = done > 2 \/ @,
                          !.rules = IF done = 5 THEN 2 ELSE IF done = 4 /\ @ = 0 THEN 1 ELSE @]
  /\ IF done = 5 THEN NoEvent /\ Goes("cache") ELSE Event /\ Fails
  /\ UNCHANGED <<rec, dep, seed, vmmVars>>

\* A fetched image is renamed into place.
download(h) == [h EXCEPT !.cache = "whole"]

\* ensureCached: a local image is copied there.
Cache(ok) ==
  /\ agent.pc = "cache"
  /\ IF ok THEN NoEvent ELSE Event /\ host.cache = "none"
  /\ IF ~ok THEN Fails /\ UNCHANGED host
     ELSE IF host.cache # "none" THEN Goes("clone") /\ UNCHANGED host
     ELSE IF image = "fetched" THEN Goes("clone") /\ host' = download(host)
     ELSE Goes("caching") /\ host' = [host EXCEPT !.cache = "part"]
  /\ UNCHANGED <<rec, dep, seed, vmmVars>>

CopyFailed == "none"

\* cloneFile into the cache, its failure undone
Caching(ok) ==
  /\ agent.pc = "caching"
  /\ IF ok THEN NoEvent /\ Goes("clone") ELSE Event /\ Fails
  /\ host' = [host EXCEPT !.cache = IF ok THEN "whole" ELSE CopyFailed]
  /\ UNCHANGED <<rec, dep, seed, vmmVars>>

\* resolve: a disk that is there is used as it is.
Clone ==
  /\ agent.pc = "clone"
  /\ IF host.disk # "none" THEN Goes("seed") /\ UNCHANGED host
     ELSE Goes("cloning") /\ host' = [host EXCEPT !.disk = "part"]
  /\ UNCHANGED <<rec, dep, seed, vmmVars, image, events>>

Cloning(ok) ==
  /\ agent.pc = "cloning"
  /\ IF ok THEN NoEvent /\ Goes("seed") ELSE Event /\ Fails
  /\ host' = [host EXCEPT !.disk = IF ok THEN host.cache ELSE CopyFailed]
  /\ UNCHANGED <<rec, dep, seed, vmmVars>>

Seed(ok) ==
  /\ agent.pc = "seed"
  /\ IF ok THEN NoEvent /\ Goes("spawn") /\ seed' = TRUE ELSE Event /\ Fails /\ UNCHANGED seed
  /\ UNCHANGED <<rec, dep, host, vmmVars>>

\* startVMM, up to waiting for the socket
Spawn(ok) ==
  /\ agent.pc = "spawn" /\ sock' = 0
  /\ IF ok THEN /\ NoEvent
                /\ LET p == First({q \in Pids : proc[q] = "none" /\ q # host.pidfile})
                   IN /\ proc' = [proc EXCEPT ![p] = "start"]
                      /\ agent' = [agent EXCEPT !.pc = "wait", !.pid = p]
     ELSE Event /\ Fails /\ UNCHANGED proc
  /\ UNCHANGED <<rec, dep, host, seed>>

\* The process opens its socket.
Listens(p) ==
  /\ proc[p] = "start" /\ proc' = [proc EXCEPT ![p] = "listen"] /\ sock' = p
  /\ UNCHANGED <<rec, dep, host, seed, agent, image, events>>

KillAndFail(p) == Fails /\ Killed(p)

Wait(timeout) ==
  /\ agent.pc = "wait"
  /\ IF timeout THEN sock = 0 /\ Event /\ KillAndFail(agent.pid)
     ELSE sock # 0 /\ NoEvent /\ Goes("create") /\ UNCHANGED vmmVars
  /\ UNCHANGED <<rec, dep, host, seed>>

\* Nobody is there any more.
WaitDead ==
  /\ agent.pc = "wait" /\ proc[agent.pid] = "none" /\ sock = 0 /\ Fails
  /\ UNCHANGED <<rec, dep, host, seed, vmmVars, image, events>>

\* tapIfreq: without IFF_MULTI_QUEUE a TAP device has one holder.
TapFree == Running = {}

\* newVMMClient and call: whoever is at the socket answers.
call(ok) == proc[sock] = "listen" /\ TapFree /\ ok

\* Whatever goes wrong, the process is killed.
Create(ok) ==
  /\ agent.pc = "create"
  /\ IF call(ok)
     THEN /\ proc' = [proc EXCEPT ![sock] = "run"] /\ Goes("record")
          /\ UNCHANGED <<sock, image, events>>
     ELSE (IF ok THEN NoEvent ELSE Event) /\ KillAndFail(agent.pid)
  /\ UNCHANGED <<rec, dep, host, seed>>

\* writePidFile: when it fails the process is left running.
Record(ok) ==
  /\ agent.pc = "record"
  /\ IF ok THEN NoEvent /\ Goes("save") /\ host' = [host EXCEPT !.pidfile = agent.pid]
     ELSE Event /\ Fails /\ UNCHANGED host
  /\ UNCHANGED <<rec, dep, seed, vmmVars>>
-----------------------------------------------------------------------------
(* DeleteMicroVM *)

\* A shutdown request to whoever is at the socket, who removes it
Shutdown(heard) ==
  /\ agent.pc = "stop" /\ seed' = FALSE /\ Goes("kill")
  /\ IF heard THEN NoEvent ELSE Event /\ readAlivePid
  /\ IF readAlivePid /\ heard /\ sock \in Ours
     THEN proc' = [proc EXCEPT ![sock] = "none"] /\ sock' = 0
     ELSE UNCHANGED vmmVars
  /\ UNCHANGED <<rec, dep, host>>

\* Mutant: a process that does not answer is left.
Grace_Trusted == 0

\* Who is killed once the grace period is over: whoever has the pid
Grace == IF processAlive(host.pidfile) THEN host.pidfile ELSE 0

\* The rest is best effort: the TAP device and the rules may be left.
Kill(ok) ==
  /\ agent.pc = "kill" /\ Goes("remove")
  /\ proc' = IF Grace # 0 THEN [proc EXCEPT ![Grace] = "none"] ELSE proc
  /\ sock' = 0
  /\ IF ok THEN NoEvent ELSE Event
  /\ host' = IF ok THEN [NoHost EXCEPT !.cache = host.cache]
             ELSE [host EXCEPT !.disk = "none", !.pidfile = 0, !.dir = FALSE]
  /\ UNCHANGED <<rec, dep, seed>>

\* Nothing is listed.
Skip == agent.pc = "idle" /\ ~rec.exists /\ UNCHANGED mvVars

Steps ==
  \/ Reconcile \/ Save \/ Check \/ Prepare(5) \/ Cache(TRUE) \/ Caching(TRUE) \/ Clone \/ Cloning(TRUE)
  \/ Seed(TRUE) \/ Spawn(TRUE) \/ Wait(FALSE) \/ WaitDead \/ Create(TRUE) \/ Record(TRUE)
  \/ Shutdown(TRUE) \/ Kill(TRUE)

Failures ==
  \/ \E n \in 0..4 : Prepare(n)
  \/ Cache(FALSE) \/ Caching(FALSE) \/ Cloning(FALSE) \/ Seed(FALSE) \/ Spawn(FALSE) \/ Wait(TRUE)
  \/ Create(FALSE) \/ Record(FALSE) \/ Shutdown(FALSE) \/ Kill(FALSE)

MvNext ==
  \/ Steps \/ Skip \/ Failures \/ Delete
  \/ \E d \in {"missing", "ready"} : DepChanges(d)
  \/ \E p \in Pids : VmmDies(p) \/ GuestFails(p) \/ PidReused(p) \/ Listens(p)
  \/ \E what \in Stops : AgentDies(what)

\* The agent's ticker, processes that are scheduled, and a network that gets ready
MvFairness ==
  /\ WF_mvVars(Steps) /\ WF_mvVars(DepChanges("ready"))
  /\ \A p \in Pids : WF_mvVars(Listens(p))

MvSpec == MvInit /\ [][MvNext]_mvVars /\ MvFairness
-----------------------------------------------------------------------------
(* Properties *)

\* Processes neither the pid file nor the agent at work knows of
Orphans == Ours \ {host.pidfile, agent.pid}

\* Never do two guests run from one micro-VM's disk, with whatever was left by an
\* agent that died or a pid file that could not be written (microvm.go:
\* EnsureMicroVM `boots the VM once'; tap.go: tapIfreq).
OneGuest == Cardinality(Running) <= 1

\* A guest is started from a whole image, whatever copies failed before (vmimage.go:
\* cloneFile removes what it could not finish, since a file that is there is used).
BootsWhole ==
  [][\A p \in Pids : proc[p] = "listen" /\ proc'[p] = "run" => host.disk = "whole"]_mvVars

\* Once nothing fails any more, a micro-VM that stays gets a process and is Ready
\* with it: a dead process is noticed, and what a failed attempt left does not stop
\* the next (microvm.go: ensure, readAlivePid).  An orphan does stop it.
VmUp ==
  <>[][FALSE]_events /\ <>[](rec.exists /\ ~rec.del /\ dep = "ready") /\ <>[](Orphans = {})
    => <>[](rec.phase = "Ready" /\ host.pidfile \in Ours)

\* A deleted micro-VM goes, whatever its process does (microvm.go: finalize).
DeletedGoes == []<>~(rec.exists /\ rec.del)

\* A process on record is forgotten only once it is dead, whether or not it
\* answers, also across deaths of the agent (microvm.go: DeleteMicroVM `killing
\* it if it doesn't respond').
ReachKept ==
  [][host.pidfile \in Ours => host'.pidfile = host.pidfile \/ proc'[host.pidfile] = "none"]_mvVars

\* No process of a micro-VM is out of the agent's reach (microvm.go: DeleteMicroVM
\* `shuts the infra-hypervisor process down').
\* It does not hold (README, Properties that do not hold).
NoOrphan == Orphans = {}

\* No guest outlives its record (resource/microvm.go: the finalizer is there `so the
\* infra-hypervisor process, TAP device and firewall rules are torn down before the
\* record is removed').
\* It does not hold (README, Properties that do not hold).
RunsRecorded == ~rec.exists ~> Running = {}

\* Only processes of the micro-VM are killed for it (microvm.go: readAlivePid: `a
\* stale file from a killed instance is treated the same as no file at all').
\* It does not hold (README, Properties that do not hold).
OnlyItsOwn == [][\A p \in Pids : proc[p] = "other" => proc'[p] = "other"]_mvVars

\* A guest outlives the agent (docs/architecture/go-hypervisor.md: `a VM survives an
\* infra-agent restart').
\* It does not hold (README, Properties that do not hold).
Survives == [][agent.pc # "idle" /\ agent' = AtRest /\ events' # events => Running = Running']_mvVars

\* A micro-VM is not Ready for ever with a guest that is done for (resource/microvm.go:
\* MicroVMStatus is `the observed state of a micro-VM').
\* It does not hold (README, Properties that do not hold).
ReadyObserved == \A p \in Pids : proc[p] = "hung" ~> proc[p] # "hung" \/ rec.phase # "Ready"
=============================================================================
