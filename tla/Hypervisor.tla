----------------------------- MODULE Hypervisor -----------------------------
(***************************************************************************)
(* One infra-hypervisor process (cmd/hypervisor, internal/hypervisor): the *)
(* control connection, the machine it boots, the goroutines of Run (one    *)
(* for each vCPU, one for the network device) and the two ways it is torn  *)
(* down: a shutdown request and a signal.  The guest decides when a vCPU   *)
(* leaves KVM_RUN, if ever.                                                *)
(***************************************************************************)
EXTENDS Naturals, Sequences, FiniteSets

CONSTANTS Vcpus, Net,    \* the vCPUs, and the thread of ReadLoop or none: {"net"} or {}
          Tearers,       \* who tears down: "request", "signal" or both
          MaxFailures    \* bound on boots, vCPUs and reads that fail

Threads == Vcpus \cup Net

VARIABLES srv,    \* the server: [machine, phase]
          held,   \* what the machine holds
          lost,   \* vCPUs that are open and not the machine's
          th,     \* thread -> "none", "check", "kvm", "left", "failed", "done"
          run,    \* Run: [pc, cancel, err]
          td,     \* tearer -> [pc, i]
          proc,   \* the process: [alive, crashed, sock]
          failures

hvVars == <<srv, held, lost, th, run, td, proc, failures>>

\* In the order of Close
Resources == <<"vcpus", "tap", "disk", "mem", "vm", "dev">>

HvInit ==
  /\ srv = [machine |-> FALSE, phase |-> "stopped"]
  /\ held = {} /\ lost = {}
  /\ th = [t \in Threads |-> "none"]
  /\ run = [pc |-> "none", cancel |-> FALSE, err |-> FALSE]
  /\ td = [a \in Tearers |-> [pc |-> "none", i |-> 1]]
  /\ proc = [alive |-> TRUE, crashed |-> FALSE, sock |-> TRUE]
  /\ failures = 0

Failure == failures < MaxFailures /\ failures' = failures + 1
NoFailure == UNCHANGED failures
Crash == proc' = [proc EXCEPT !.alive = FALSE, !.crashed = TRUE]
-----------------------------------------------------------------------------
(* New and handleCreate *)

\* What New holds after n steps: /dev/kvm, the VM, its memory, the TAP device, the
\* disk, then every vCPU
BootOrder == <<"dev", "vm", "mem", "tap", "disk", "vcpus">>
Opened(n) == {BootOrder[i] : i \in 1..n}

\* The deferred Close of a New that fails
Abandoned(n) == {}

\* A request that fails leaves no machine, and may be made again; one that comes
\* once there is a machine is answered with its status.  A vCPU that fails half-way
\* is in no list yet.
handleCreate(n) ==
  /\ proc.alive /\ ~srv.machine
  /\ "request" \in Tearers => td["request"].pc = "none"
  /\ IF n = 6
     THEN /\ NoFailure /\ UNCHANGED lost
          /\ srv' = [machine |-> TRUE, phase |-> "running"] /\ held' = Opened(6)
          /\ th' = [t \in Threads |-> "check"] /\ run' = [run EXCEPT !.pc = "wait"]
     ELSE /\ Failure /\ held' = Abandoned(n) /\ srv' = [srv EXCEPT !.phase = "error"]
          /\ lost' = IF n = 5 THEN lost \cup {1} ELSE lost
          /\ UNCHANGED <<th, run>>
  /\ UNCHANGED <<td, proc>>
-----------------------------------------------------------------------------
(* Run *)

Moves(t, to) == proc.alive /\ th' = [th EXCEPT ![t] = to]

\* The head of either loop
Enter(t) ==
  /\ th[t] = "check"
  /\ Moves(t, IF run.cancel THEN "done"
              ELSE IF t \in Vcpus /\ "vcpus" \notin held THEN "failed"
              ELSE IF t \in Net /\ "tap" \notin held THEN "done" ELSE "kvm")
  /\ UNCHANGED <<srv, held, lost, run, td, proc, failures>>

\* KVM_RUN returns, or a frame is read.
Exit(t) ==
  /\ th[t] = "kvm" /\ Moves(t, "left")
  /\ UNCHANGED <<srv, held, lost, run, td, proc, failures>>

\* The tap closed under ReadLoop ends it.
TapClosed(t) ==
  /\ t \in Net /\ th[t] = "kvm" /\ "tap" \notin held /\ Moves(t, "done")
  /\ UNCHANGED <<srv, held, lost, run, td, proc, failures>>

\* The exit is served from kvm_run, which Close unmaps, or the vCPU cannot go on.
Serve(t, ok) ==
  /\ th[t] = "left"
  /\ IF ok THEN NoFailure ELSE Failure
  /\ IF t \in Vcpus /\ "vcpus" \notin held THEN proc.alive /\ Crash /\ UNCHANGED th
     ELSE Moves(t, IF ok THEN "check" ELSE "failed") /\ UNCHANGED proc
  /\ UNCHANGED <<srv, held, lost, run, td>>

Cancelled(r) == [r EXCEPT !.err = TRUE, !.cancel = TRUE]

\* Run hears of the first failure.
Collect ==
  /\ proc.alive /\ run.pc = "wait" /\ ~run.err /\ \E t \in Threads : th[t] = "failed"
  /\ run' = Cancelled(run)
  /\ UNCHANGED <<srv, held, lost, th, td, proc, failures>>

Ended(t) == th[t] \in {"done", "failed"}

\* Mutant: Run returns with the first failure.
AllEnded_First == \E t \in Threads : th[t] = "failed"

\* The channel is closed once every goroutine is done.
AllEnded == \A t \in Threads : Ended(t)

\* Run returns, and the server's run sets the phase.
Returned ==
  /\ proc.alive /\ run.pc = "wait" /\ AllEnded
  /\ (\E t \in Threads : th[t] = "failed") => run.err
  /\ run' = [run EXCEPT !.pc = "returned"]
  /\ srv' = [srv EXCEPT !.phase = IF run.err THEN "error" ELSE "stopped"]
  /\ UNCHANGED <<held, lost, th, td, proc, failures>>
-----------------------------------------------------------------------------
(* teardown *)

\* handleShutdown or HandleSignal
Teardown(a) ==
  /\ proc.alive /\ td[a].pc = "none"
  /\ td' = [td EXCEPT ![a].pc = "cancel"]
  /\ srv' = [srv EXCEPT !.phase = "stopped"]
  /\ UNCHANGED <<held, lost, th, run, proc, failures>>

Cancel(a) ==
  /\ proc.alive /\ td[a].pc = "cancel"
  /\ run' = [run EXCEPT !.cancel = srv.machine \/ @]
  /\ td' = [td EXCEPT ![a].pc = IF srv.machine THEN "see" ELSE "unlink"]
  /\ UNCHANGED <<srv, held, lost, th, proc, failures>>

\* Whether Close may begin: 50 ms later, whatever the run loop does
Slept == TRUE

\* Close looks at each resource in turn,
See(a) ==
  /\ proc.alive /\ td[a].pc = "see" /\ Slept
  /\ td' = [td EXCEPT ![a] = IF @.i > Len(Resources) THEN [@ EXCEPT !.pc = "unlink"]
                             ELSE IF Resources[@.i] \in held THEN [@ EXCEPT !.pc = "close"]
                             ELSE [@ EXCEPT !.i = @ + 1]]
  /\ UNCHANGED <<srv, held, lost, th, run, proc, failures>>

\* and closes what it saw: one that another Close took away since is a nil pointer.
CloseOne(a) ==
  LET x == Resources[td[a].i] IN
  /\ proc.alive /\ td[a].pc = "close"
  /\ held' = held \ {x}
  /\ IF x \in {"vm", "dev"} /\ x \notin held THEN Crash ELSE UNCHANGED proc
  /\ td' = [td EXCEPT ![a].pc = "see", ![a].i = @ + 1]
  /\ UNCHANGED <<srv, lost, th, run, failures>>

Unlink(a) ==
  /\ proc.alive /\ td[a].pc = "unlink"
  /\ td' = [td EXCEPT ![a].pc = "exit"] /\ proc' = [proc EXCEPT !.sock = FALSE]
  /\ UNCHANGED <<srv, held, lost, th, run, failures>>

ExitProcess(a) ==
  /\ proc.alive /\ td[a].pc = "exit" /\ proc' = [proc EXCEPT !.alive = FALSE]
  /\ UNCHANGED <<srv, held, lost, th, run, td, failures>>

\* A process without a machine, or with one that is done, waits for requests.
Waits == ~proc.alive \/ run.pc # "wait"
Idle == Waits /\ UNCHANGED hvVars

Tears(a) == Cancel(a) \/ See(a) \/ CloseOne(a) \/ Unlink(a) \/ ExitProcess(a)

Works(t) == Enter(t) \/ TapClosed(t) \/ Serve(t, TRUE)

HvNext ==
  \/ \E n \in 0..6 : handleCreate(n)
  \/ \E t \in Threads : Works(t) \/ Exit(t) \/ Serve(t, FALSE)
  \/ Collect \/ Returned \/ Idle
  \/ \E a \in Tearers : Teardown(a) \/ Tears(a)

\* Goroutines are scheduled.  Nothing makes a guest exit.
HvFairness ==
  /\ \A t \in Threads : WF_hvVars(Works(t))
  /\ WF_hvVars(Collect) /\ WF_hvVars(Returned)
  /\ \A a \in Tearers : WF_hvVars(Tears(a))

HvSpec == HvInit /\ [][HvNext]_hvVars /\ HvFairness
-----------------------------------------------------------------------------
(* Properties *)

\* A boot that fails leaves nothing behind to keep the next one from the TAP device
\* or the disk (machine.go: New, whose deferred Close takes a machine at any stage).
BootFailsClean == ~srv.machine => held = {}

\* An error is not reported while a goroutine of Run may still touch the machine
\* (runloop.go: Run returns once every vCPU and ReadLoop has).
QuietAtError == srv.phase = "error" => \A t \in Threads : th[t] \in {"none", "done", "failed"}

\* A machine that failed, at boot or running, leaves nothing going on.
FailsClean == BootFailsClean /\ QuietAtError

\* The first vCPU that cannot go on stops the others and shows in the phase, if each
\* of them leaves KVM_RUN now and then (runloop.go: Run `cancels every other
\* goroutine too in that case and returns the first such error').
FailureShows ==
  (\A t \in Threads : []<>(th[t] # "kvm"))
    => []<>((\E t \in Threads : th[t] = "failed") => srv.phase # "running" \/ ~proc.alive)

\* A process told to stop ends, even when its guest never leaves KVM_RUN and both
\* ways to stop it are taken at once (server.go: teardown does not wait for Run).
ShutdownEnds == \A a \in Tearers : []<>(td[a].pc # "none" => ~proc.alive)

\* A failed vCPU shows whatever the others do (runloop.go: Run, as above).
\* It does not hold (README, Properties that do not hold).
AlwaysShows == (\E t \in Threads : th[t] = "failed") ~> srv.phase # "running" \/ ~proc.alive

\* Closing the machine under its run loop breaks nothing (server.go: Close `is safe to
\* call concurrently with a still-running loop (it would just make the next KVM_RUN
\* fail)'; teardown is `safe to call more than once').
\* It does not hold (README, Properties that do not hold).
NoCrash == ~proc.crashed

\* A failed boot closes every vCPU too (machine.go: Close `closes every fd').
\* It does not hold (README, Properties that do not hold).
NoVcpuLost == lost = {}
=============================================================================
