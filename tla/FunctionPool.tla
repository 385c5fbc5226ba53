---------------------------- MODULE FunctionPool ----------------------------
(***************************************************************************)
(* The warm pool of functions: the FunctionController of the leader        *)
(* (controllers/function.go), the invocations served by infra-api          *)
(* (function/invoke.go) and the computes both of them create               *)
(* (functionpool/pool.go).  A compute is named after the host port it      *)
(* takes, so its uid is used again once the port is free.                  *)
(*                                                                         *)
(* A step is one access to the store.  registry.TryUpdate is one step: its *)
(* swap fails unless the value is the one it read.                         *)
(***************************************************************************)
EXTENDS Naturals, FiniteSets, Listing

CONSTANTS Fns,          \* the functions
          Slots,        \* names for function instances
          Ports,        \* the host ports function computes may take
          Invs,         \* the invocations clients make
          MinWarm, MaxWarm, AllowColdStart,    \* the WarmPoolPolicy
          MaxFaults,    \* bound on passes cut short, deaths of infra-api, lost
                        \* races of a release, store errors, timeouts, failed
                        \* computes and dependencies that are not ready
          MaxCreations, \* bound on creations of a function
          Nothing       \* no record, no name

VARIABLES fns,     \* the function records
          insts,   \* the function_instance records
          cps,     \* the computes of functions, by port
          ctl,     \* the pass of the controller
          inv,     \* the invocations
          faults, creations

fpVars == <<fns, insts, cps, ctl, inv, faults, creations>>

FnRecords == [del : BOOLEAN, fin : BOOLEAN, phase : {"Pending", "Ready"}]
InstRecords == [fn : Fns, port : Ports, state : {"Warm", "Assigned"},
                del : BOOLEAN, phase : {"Pending", "Reconciling", "Ready", "Error"}]
ComputeRecords == [fn : Fns, del : BOOLEAN, phase : {"", "Ready", "Error"},
                   old : BOOLEAN]

\* Names are numbers, for the order in which records are listed.
ASSUME FpAssumption == Fns \cup Slots \cup Ports \subseteq Nat /\ Nothing \notin InstRecords

IdleCtl == [pc |-> "idle", fns |-> [f \in Fns |-> Nothing],
            insts |-> [i \in Slots |-> Nothing], cps |-> [p \in Ports |-> Nothing],
            todo |-> {}, fn |-> Nothing, work |-> {}, evict |-> {}, need |-> 0,
            cand |-> {}, port |-> Nothing]
IdleInv == [pc |-> "idle", fn |-> Nothing, work |-> <<>>, cur |-> Nothing,
            port |-> Nothing, cand |-> {}, tries |-> 0]
EndInv == [IdleInv EXCEPT !.pc = "done"]

FpInit ==
  /\ fns = [f \in Fns |-> Nothing]
  /\ insts = [i \in Slots |-> Nothing]
  /\ cps = [p \in Ports |-> Nothing]
  /\ ctl = IdleCtl
  /\ inv = [v \in Invs |-> IdleInv]
  /\ faults = 0 /\ creations = 0

\* A name no record and no process uses: uids are random, a name that nobody
\* remembers stands for a new one.
FreshSlots == {i \in Slots : /\ insts[i] = Nothing
                             /\ ctl.insts[i] = Nothing
                             /\ \A v \in Invs : inv[v].cur # i /\ i \notin DOMAIN inv[v].work}

UsedPorts == {p \in Ports : cps[p] # Nothing}

\* functionpool.CreateCompute puts a record with no expected version: it is
\* written only if there is none.
NewCompute(f) == [fn |-> f, del |-> FALSE, phase |-> "", old |-> FALSE]
Retired(p) == IF cps[p] = Nothing THEN cps
              ELSE [cps EXCEPT ![p].del = TRUE]

NewInst(f, p, s) == [fn |-> f, port |-> p, state |-> s, del |-> FALSE,
                     phase |-> "Pending"]

Fault == faults < MaxFaults /\ faults' = faults + 1
-----------------------------------------------------------------------------
(* Clients *)

CreateFunction(f) ==
  /\ fns[f] = Nothing
  /\ creations < MaxCreations
  /\ creations' = creations + 1
  /\ fns' = [fns EXCEPT ![f] = [del |-> FALSE, fin |-> FALSE, phase |-> "Pending"]]
  /\ UNCHANGED <<insts, cps, ctl, inv, faults>>

DeleteFunction(f) ==
  /\ fns[f] # Nothing
  /\ ~fns[f].del
  /\ fns' = [fns EXCEPT ![f] = IF @.fin THEN [@ EXCEPT !.del = TRUE] ELSE Nothing]
  /\ UNCHANGED <<insts, cps, ctl, inv, faults, creations>>
-----------------------------------------------------------------------------
(* The agents that realise the computes, and the passage of time *)

AgentReady(p) ==
  /\ cps[p] # Nothing
  /\ ~cps[p].del
  /\ cps[p].phase # "Ready"
  /\ cps' = [cps EXCEPT ![p].phase = "Ready"]
  /\ UNCHANGED <<fns, insts, ctl, inv, faults, creations>>

AgentError(p) ==
  /\ cps[p] # Nothing
  /\ ~cps[p].del
  /\ cps[p].phase = ""
  /\ Fault
  /\ cps' = [cps EXCEPT ![p].phase = "Error"]
  /\ UNCHANGED <<fns, insts, ctl, inv, creations>>

AgentRemove(p) ==
  /\ cps[p] # Nothing
  /\ cps[p].del
  /\ cps' = [cps EXCEPT ![p] = Nothing]
  /\ UNCHANGED <<fns, insts, ctl, inv, faults, creations>>

\* Two minutes pass since the compute was created.  A pass and the timeouts of a
\* cold start are shorter than that; the age of a compute with an instance does
\* not matter.
Age(p) ==
  /\ cps[p] # Nothing
  /\ ~cps[p].old
  /\ ctl.pc = "idle"
  /\ \A v \in Invs : inv[v].pc = "putinst" => inv[v].port # p
  /\ \A i \in Slots : insts[i] # Nothing => insts[i].port # p
  /\ cps' = [cps EXCEPT ![p].old = TRUE]
  /\ UNCHANGED <<fns, insts, ctl, inv, faults, creations>>
-----------------------------------------------------------------------------
(* FunctionController.Reconcile *)

Listed(c, i) == c.insts[i] # Nothing
Of(c, f) == {i \in Slots : Listed(c, i) /\ c.insts[i].fn = f}

\* Computes of the pool that no listed instance names and that are old enough.
Orphans(c) ==
  {p \in Ports : /\ c.cps[p] # Nothing
                 /\ ~c.cps[p].del
                 /\ c.cps[p].old
                 /\ \A i \in Slots : Listed(c, i) => c.insts[i].port # p}

\* The phase syncInstances gives an instance from the listed compute.
Tracked(c, i) == LET cp == c.cps[c.insts[i].port]
                 IN IF cp = Nothing THEN "Error"
                    ELSE CASE cp.phase = "Ready" -> "Ready"
                           [] cp.phase = "Error" -> "Reconciling"
                           [] OTHER -> "Pending"
OutOfSync(c, f) ==
  {i \in Of(c, f) : ~c.insts[i].del /\ c.insts[i].phase # Tracked(c, i)}

\* Instances that count towards MinWarm.
Counted(c, f) == {i \in Of(c, f) : LET r == c.insts[i]
                                       cp == c.cps[r.port]
                                   IN /\ ~r.del
                                      /\ r.state = "Warm"
                                      /\ cp # Nothing
                                      /\ ~cp.del
                                      /\ cp.phase # "Error"}
Missing(c, f) == IF Cardinality(Counted(c, f)) < MinWarm
                 THEN MinWarm - Cardinality(Counted(c, f)) ELSE 0
Live(c, f) == {i \in Of(c, f) : /\ ~c.insts[i].del
                                /\ c.insts[i].state = "Warm"
                                /\ Tracked(c, i) = "Ready"}

\* evictIdle: the instances above MaxWarm go, and those above MinWarm whose
\* idle time is up.
Evictable(c, f) ==
  LET n == Cardinality(Live(c, f))
      over == IF MaxWarm > 0 /\ n > MaxWarm THEN n - MaxWarm ELSE 0
  IN {s \in SUBSET Live(c, f) :
        /\ Cardinality(s) >= over
        /\ Cardinality(s) > over => n - Cardinality(s) >= MinWarm}

\* A pass forgets what it will not read again: after the last function only the
\* instances to evict and those without a function matter.
Trim(c) ==
  IF c.todo # {} THEN c
  ELSE [c EXCEPT !.cps = [p \in Ports |-> Nothing],
                 !.insts = [i \in Slots |->
                    IF i \in c.evict \/ (Listed(c, i) /\ c.fns[c.insts[i].fn] = Nothing)
                    THEN c.insts[i] ELSE Nothing]]

\* Where a pass stands once it has nothing left to do in a loop; c is the pass.
AtReap(c) ==
  IF c.todo = {} THEN IdleCtl
  ELSE [c EXCEPT !.pc = "mark", !.fn = Nothing, !.evict = {First(c.todo)},
                 !.todo = @ \ {First(c.todo)}]
AtNext(c) ==
  IF c.todo = {}
  THEN AtReap([c EXCEPT !.todo = {i \in Slots : /\ Listed(c, i)
                                                /\ ~c.insts[i].del
                                                /\ c.fns[c.insts[i].fn] = Nothing}])
  ELSE LET f == First(c.todo)
           d == [c EXCEPT !.todo = @ \ {f}, !.fn = f]
       IN IF ~c.fns[f].del THEN [d EXCEPT !.pc = "deps"]
          ELSE IF Of(c, f) = {} THEN [d EXCEPT !.pc = "dropfn"]
          ELSE Trim([d EXCEPT !.pc = "mark", !.evict = Of(c, f)])
AtFinal(c) ==
  IF c.todo # {} THEN [c EXCEPT !.pc = "final"]
  ELSE AtNext([c EXCEPT !.todo = {f \in Fns : c.fns[f] # Nothing}])
AtRetire(c) ==
  IF c.todo # {} THEN [c EXCEPT !.pc = "retire"]
  ELSE AtFinal([c EXCEPT !.todo = {i \in Slots : Listed(c, i) /\ c.insts[i].del}])
AtMark(c) ==
  IF c.evict # {} THEN Trim([c EXCEPT !.pc = "mark"])
  ELSE IF c.fn = Nothing THEN AtReap(c)
  ELSE IF c.fns[c.fn].del THEN AtNext(c)
  ELSE Trim([c EXCEPT !.pc = "putfn"])
AtFill(c) ==
  IF c.need > 0 THEN {[c EXCEPT !.pc = "ports"]}
  ELSE {AtMark([c EXCEPT !.evict = s]) : s \in Evictable(c, c.fn)}
AtSync(c) ==
  IF c.work # {} THEN {[c EXCEPT !.pc = "sync"]}
  ELSE AtFill([c EXCEPT !.need = Missing(c, c.fn)])
\* An error ends the function it happened in, or this orphan instance.
AtError(c) ==
  LET d == [c EXCEPT !.evict = {}, !.work = {}, !.need = 0, !.cand = {}, !.port = Nothing]
  IN IF c.fn = Nothing THEN AtReap(d) ELSE AtNext(d)

CtlListFunctions ==
  /\ ctl.pc = "idle"
  /\ ctl' = [ctl EXCEPT !.pc = "listinsts", !.fns = fns]
  /\ UNCHANGED <<fns, insts, cps, inv, faults, creations>>

CtlListInstances ==
  /\ ctl.pc = "listinsts"
  /\ ctl' = [ctl EXCEPT !.pc = "listcps", !.insts = insts]
  /\ UNCHANGED <<fns, insts, cps, inv, faults, creations>>

CtlListComputes ==
  /\ ctl.pc = "listcps"
  /\ LET c == [ctl EXCEPT !.cps = cps]
     IN ctl' = AtRetire([c EXCEPT !.todo = Orphans(c)])
  /\ UNCHANGED <<fns, insts, cps, inv, faults, creations>>

CtlRetire ==
  /\ ctl.pc = "retire"
  /\ cps' = Retired(First(ctl.todo))
  /\ ctl' = AtRetire([ctl EXCEPT !.todo = @ \ {First(ctl.todo)}])
  /\ UNCHANGED <<fns, insts, inv, faults, creations>>

\* finalizeInstance: wait while a compute of that name exists.
CtlFinalize ==
  /\ ctl.pc = "final"
  /\ LET i == First(ctl.todo)
     IN ctl' = IF cps[ctl.insts[i].port] = Nothing THEN [ctl EXCEPT !.pc = "remove"]
               ELSE AtFinal([ctl EXCEPT !.todo = @ \ {i}])
  /\ UNCHANGED <<fns, insts, cps, inv, faults, creations>>

CtlRemove ==
  /\ ctl.pc = "remove"
  /\ insts' = [insts EXCEPT ![First(ctl.todo)] = Nothing]
  /\ ctl' = AtFinal([ctl EXCEPT !.todo = @ \ {First(ctl.todo)}])
  /\ UNCHANGED <<fns, cps, inv, faults, creations>>

\* finalizeFunction when no instance is listed: the only finalizer comes off
\* and the record is deleted.
CtlDropFunction ==
  /\ ctl.pc = "dropfn"
  /\ fns' = [fns EXCEPT ![ctl.fn] = Nothing]
  /\ ctl' = AtNext(ctl)
  /\ UNCHANGED <<insts, cps, inv, faults, creations>>

\* functions.Put: written only if the record is still the one that was listed.
PutFunction(phase) ==
  fns' = [fns EXCEPT ![ctl.fn] =
            IF @ = ctl.fns[ctl.fn] THEN [@ EXCEPT !.fin = TRUE, !.phase = phase] ELSE @]

\* deps.ready: the subnet, the VPC and the security group.
CtlDeps ==
  /\ ctl.pc = "deps"
  /\ \/ /\ ctl' \in AtSync([ctl EXCEPT !.work = OutOfSync(ctl, ctl.fn)])
        /\ UNCHANGED <<fns, faults>>
     \/ /\ Fault
        /\ PutFunction("Pending")
        /\ ctl' = AtNext(ctl)
  /\ UNCHANGED <<insts, cps, inv, creations>>

CtlSync ==
  /\ ctl.pc = "sync"
  /\ LET i == First(ctl.work)
     IN \/ /\ insts[i] = ctl.insts[i]
           /\ insts' = [insts EXCEPT ![i].phase = Tracked(ctl, i)]
           /\ ctl' \in AtSync([ctl EXCEPT !.work = @ \ {i}])
        \/ /\ insts[i] # ctl.insts[i]
           /\ ctl' = AtError(ctl)
           /\ UNCHANGED insts
  /\ UNCHANGED <<fns, cps, inv, faults, creations>>

CtlPorts ==
  /\ ctl.pc = "ports"
  /\ ctl' = IF UsedPorts = Ports THEN AtError(ctl)          \* no free function port
            ELSE [ctl EXCEPT !.pc = "putcp", !.cand = Ports \ UsedPorts]
  /\ UNCHANGED <<fns, insts, cps, inv, faults, creations>>

CtlPutCompute ==
  /\ ctl.pc = "putcp"
  /\ LET p == First(ctl.cand)
     IN \/ /\ cps[p] = Nothing
           /\ cps' = [cps EXCEPT ![p] = NewCompute(ctl.fn)]
           /\ ctl' = [ctl EXCEPT !.pc = "putinst", !.port = p, !.cand = {}]
        \/ /\ cps[p] # Nothing
           /\ ctl' = IF ctl.cand = {p} THEN AtError(ctl) ELSE [ctl EXCEPT !.cand = @ \ {p}]
           /\ UNCHANGED cps
  /\ UNCHANGED <<fns, insts, inv, faults, creations>>

CtlPutInstance ==
  /\ ctl.pc = "putinst"
  /\ \/ \E i \in FreshSlots :
          /\ insts' = [insts EXCEPT ![i] = NewInst(ctl.fn, ctl.port, "Warm")]
          /\ ctl' \in AtFill([ctl EXCEPT !.need = @ - 1, !.port = Nothing])
          /\ UNCHANGED <<cps, faults>>
     \/ /\ Fault
        /\ cps' = Retired(ctl.port)
        /\ ctl' = AtError(ctl)
        /\ UNCHANGED insts
  /\ UNCHANGED <<fns, inv, creations>>

\* Mutant: an instance is marked whatever its state.
Busy_Never(r) == FALSE

\* deleteInstance leaves an instance that is being used alone.
Busy(r) == r.state = "Assigned"

\* deleteInstance, first access: mark the instance unless it is Assigned.  One
\* that was listed as deleting is not read again.
CtlMark ==
  /\ ctl.pc = "mark"
  /\ LET i == First(ctl.evict)
         r == insts[i]
         rest == [ctl EXCEPT !.evict = @ \ {i}]
         marked == [ctl EXCEPT !.pc = "getcp", !.port = ctl.insts[i].port]
     IN \/ /\ ctl.insts[i].del
           /\ ctl' = marked
           /\ UNCHANGED insts
        \/ /\ ~ctl.insts[i].del /\ r = Nothing
           /\ ctl' = AtError(ctl)
           /\ UNCHANGED insts
        \/ /\ ~ctl.insts[i].del /\ r # Nothing /\ Busy(r)
           /\ ctl' = AtMark(rest)
           /\ UNCHANGED insts
        \/ /\ ~ctl.insts[i].del /\ r # Nothing /\ ~Busy(r)
           /\ insts' = [insts EXCEPT ![i].del = TRUE]
           /\ ctl' = marked
  /\ UNCHANGED <<fns, cps, inv, faults, creations>>

\* The swap of deleteInstance loses its race.
CtlMarkLost ==
  /\ ctl.pc = "mark"
  /\ ~ctl.insts[First(ctl.evict)].del /\ insts[First(ctl.evict)] # Nothing
  /\ Fault
  /\ ctl' = AtError(ctl)
  /\ UNCHANGED <<fns, insts, cps, inv, creations>>

CtlGetCompute ==
  /\ ctl.pc = "getcp"
  /\ ctl' = IF cps[ctl.port] = Nothing \/ cps[ctl.port].del
            THEN AtMark([ctl EXCEPT !.evict = @ \ {First(@)}, !.port = Nothing])
            ELSE [ctl EXCEPT !.pc = "markcp", !.cps[ctl.port] = cps[ctl.port]]
  /\ UNCHANGED <<fns, insts, cps, inv, faults, creations>>

CtlMarkCompute ==
  /\ ctl.pc = "markcp"
  /\ \/ /\ cps[ctl.port] = ctl.cps[ctl.port]
        /\ cps' = [cps EXCEPT ![ctl.port].del = TRUE]
        /\ ctl' = AtMark([ctl EXCEPT !.evict = @ \ {First(@)}, !.port = Nothing])
     \/ /\ cps[ctl.port] # ctl.cps[ctl.port]
        /\ ctl' = AtError(ctl)
        /\ UNCHANGED cps
  /\ UNCHANGED <<fns, insts, inv, faults, creations>>

\* The end of ensureFunction.
CtlPutFunction ==
  /\ ctl.pc = "putfn"
  /\ PutFunction("Ready")
  /\ ctl' = AtNext(ctl)
  /\ UNCHANGED <<insts, cps, inv, faults, creations>>

CtlCrash ==
  /\ ctl.pc # "idle"
  /\ Fault
  /\ ctl' = IdleCtl
  /\ UNCHANGED <<fns, insts, cps, inv, creations>>

CtlStep ==
  \/ CtlListFunctions \/ CtlListInstances \/ CtlListComputes
  \/ CtlRetire \/ CtlFinalize \/ CtlRemove \/ CtlDropFunction \/ CtlDeps
  \/ CtlSync \/ CtlPorts \/ CtlPutCompute \/ CtlPutInstance \/ CtlMark \/ CtlMarkLost
  \/ CtlGetCompute \/ CtlMarkCompute \/ CtlPutFunction
-----------------------------------------------------------------------------
(* Service.Invoke *)

InvSet(v, r) == inv' = [inv EXCEPT ![v] = r]

InvStart(v, f) ==
  /\ inv[v].pc = "idle"
  /\ fns[f] # Nothing
  /\ fns[f].phase = "Ready"
  /\ InvSet(v, [IdleInv EXCEPT !.pc = "list", !.fn = f])
  /\ UNCHANGED <<fns, insts, cps, ctl, faults, creations>>

\* With no candidate left an invocation fails or starts an instance itself.
AtClaim(c) == IF DOMAIN c.work # {} THEN [c EXCEPT !.pc = "claim", !.cur = Nothing, !.port = Nothing]
              ELSE IF AllowColdStart THEN [IdleInv EXCEPT !.pc = "cold", !.fn = c.fn]
              ELSE EndInv

InvList(v) ==
  /\ inv[v].pc = "list"
  /\ InvSet(v, AtClaim([inv[v] EXCEPT
                  !.work = [i \in {j \in Slots : /\ insts[j] # Nothing
                                                 /\ insts[j].fn = inv[v].fn
                                                 /\ ~insts[j].del
                                                 /\ insts[j].state = "Warm"}
                              |-> insts[i].port]]))
  /\ UNCHANGED <<fns, insts, cps, ctl, faults, creations>>

\* The candidate and the name of its compute are from the listing, the compute
\* is read now.
InvCheck(v) ==
  /\ inv[v].pc = "claim"
  /\ LET i == First(DOMAIN inv[v].work)
         p == inv[v].work[i]
         rest == [inv[v] EXCEPT !.work = [j \in DOMAIN @ \ {i} |-> @[j]]]
     IN InvSet(v, IF cps[p] # Nothing /\ cps[p].phase = "Ready"
                  THEN [rest EXCEPT !.pc = "swap", !.cur = i, !.port = p]
                  ELSE AtClaim(rest))
  /\ UNCHANGED <<fns, insts, cps, ctl, faults, creations>>

\* What the swap's mutation accepts.
Claimable(r) == r # Nothing /\ ~r.del /\ r.state = "Warm"

\* The swap may lose its race; the next candidate is tried.
InvClaim(v) ==
  /\ inv[v].pc = "swap"
  /\ LET r == insts[inv[v].cur]
     IN \/ /\ Claimable(r)
           /\ insts' = [insts EXCEPT ![inv[v].cur].state = "Assigned"]
           /\ InvSet(v, [inv[v] EXCEPT !.pc = "forward", !.work = <<>>])
        \/ /\ r # Nothing
           /\ InvSet(v, AtClaim(inv[v]))
           /\ UNCHANGED insts
        \/ /\ r = Nothing
           /\ InvSet(v, EndInv)
           /\ UNCHANGED insts
  /\ UNCHANGED <<fns, cps, ctl, faults, creations>>

InvCold(v) ==
  /\ inv[v].pc = "cold"
  /\ InvSet(v, IF UsedPorts = Ports THEN EndInv
               ELSE [inv[v] EXCEPT !.pc = "putcp", !.cand = Ports \ UsedPorts])
  /\ UNCHANGED <<fns, insts, cps, ctl, faults, creations>>

InvPutCompute(v) ==
  /\ inv[v].pc = "putcp"
  /\ LET p == First(inv[v].cand)
     IN \/ /\ cps[p] = Nothing
           /\ cps' = [cps EXCEPT ![p] = NewCompute(inv[v].fn)]
           /\ InvSet(v, [inv[v] EXCEPT !.pc = "putinst", !.port = p, !.cand = {}])
        \/ /\ cps[p] # Nothing
           /\ InvSet(v, IF inv[v].cand = {p} THEN EndInv
                        ELSE [inv[v] EXCEPT !.cand = @ \ {p}])
           /\ UNCHANGED cps
  /\ UNCHANGED <<fns, insts, ctl, faults, creations>>

InvPutInstance(v) ==
  /\ inv[v].pc = "putinst"
  /\ \/ \E i \in FreshSlots :
          /\ insts' = [insts EXCEPT ![i] = NewInst(inv[v].fn, inv[v].port, "Assigned")]
          /\ InvSet(v, [inv[v] EXCEPT !.pc = "wait", !.cur = i])
          /\ UNCHANGED <<cps, faults>>
     \/ /\ Fault
        /\ cps' = Retired(inv[v].port)
        /\ InvSet(v, EndInv)
        /\ UNCHANGED insts
  /\ UNCHANGED <<fns, ctl, creations>>

InvWait(v) ==
  /\ inv[v].pc = "wait"
  /\ \/ /\ cps[inv[v].port] # Nothing
        /\ cps[inv[v].port].phase = "Ready"
        /\ InvSet(v, [inv[v] EXCEPT !.pc = "forward"])
        /\ UNCHANGED faults
     \/ /\ Fault                                        \* timeout or cancelled
        /\ InvSet(v, [inv[v] EXCEPT !.pc = "giveup"])
  /\ UNCHANGED <<fns, insts, cps, ctl, creations>>

InvGiveUp(v) ==
  /\ inv[v].pc = "giveup"
  /\ insts' = [insts EXCEPT ![inv[v].cur] =
                 IF @ = Nothing THEN @ ELSE [@ EXCEPT !.del = TRUE, !.state = "Warm"]]
  /\ InvSet(v, [inv[v] EXCEPT !.pc = "retire"])
  /\ UNCHANGED <<fns, cps, ctl, faults, creations>>

InvRetire(v) ==
  /\ inv[v].pc = "retire"
  /\ cps' = Retired(inv[v].port)
  /\ InvSet(v, EndInv)
  /\ UNCHANGED <<fns, insts, ctl, faults, creations>>

\* The answer, or an error, ends the use of the instance (assignedBody.done);
\* release makes three attempts at the swap.
InvRelease(v) ==
  /\ inv[v].pc = "forward"
  /\ \/ /\ insts' = [insts EXCEPT ![inv[v].cur] =
                       IF @ = Nothing THEN @ ELSE [@ EXCEPT !.state = "Warm"]]
        /\ InvSet(v, EndInv)
        /\ UNCHANGED faults
     \/ /\ insts[inv[v].cur] # Nothing
        /\ Fault
        /\ InvSet(v, IF inv[v].tries = 2 THEN EndInv
                     ELSE [inv[v] EXCEPT !.tries = @ + 1])
        /\ UNCHANGED insts
  /\ UNCHANGED <<fns, cps, ctl, creations>>

InvCrash(v) ==
  /\ inv[v].pc \notin {"idle", "done"}
  /\ Fault
  /\ InvSet(v, EndInv)
  /\ UNCHANGED <<fns, insts, cps, ctl, creations>>

InvStep(v) ==
  \/ InvList(v) \/ InvCheck(v) \/ InvClaim(v) \/ InvCold(v) \/ InvPutCompute(v)
  \/ InvPutInstance(v) \/ InvWait(v) \/ InvGiveUp(v) \/ InvRetire(v)
  \/ InvRelease(v)
-----------------------------------------------------------------------------
FpNext ==
  \/ \E f \in Fns : CreateFunction(f) \/ DeleteFunction(f)
  \/ \E p \in Ports : AgentReady(p) \/ AgentError(p) \/ AgentRemove(p) \/ Age(p)
  \/ CtlStep \/ CtlCrash
  \/ \E v \in Invs : (\E f \in Fns : InvStart(v, f)) \/ InvStep(v) \/ InvCrash(v)

\* The controller runs on its ticker, agents finalize, invocations end and time
\* passes; nothing makes clients act.
FpFairness ==
  /\ WF_fpVars(CtlStep)
  /\ \A v \in Invs : WF_fpVars(InvStep(v))
  /\ \A p \in Ports : WF_fpVars(AgentRemove(p)) /\ WF_fpVars(Age(p))

FpSpec == FpInit /\ [][FpNext]_fpVars /\ FpFairness
-----------------------------------------------------------------------------
FpTypeOK ==
  /\ fns \in [Fns -> FnRecords \union {Nothing}]
  /\ insts \in [Slots -> InstRecords \union {Nothing}]
  /\ cps \in [Ports -> ComputeRecords \union {Nothing}]
  /\ \A v \in Invs : DOMAIN inv[v].work \subseteq Slots /\ inv[v].cand \subseteq Ports

Using(v) == inv[v].pc = "forward"

\* An instance serves one invocation at a time: claims, releases, passes of the
\* controller and failed cold starts never leave two invocations with one
\* instance.
ExclusiveClaim ==
  \A v, w \in Invs : Using(v) /\ Using(w) /\ v # w => inv[v].cur # inv[w].cur

\* While an invocation uses an instance its record is there, Assigned and not
\* marked for deletion: no eviction, finalization or reaping touches it.
ClaimHolds ==
  \A v \in Invs : Using(v) =>
    /\ insts[inv[v].cur] # Nothing
    /\ insts[inv[v].cur].state = "Assigned"
    /\ ~insts[inv[v].cur].del

\* Invoke: an instance in use is in nobody else's use, and stays assigned.
ClaimedAlone == ExclusiveClaim /\ ClaimHolds

\* The compute of an instance in use is not marked for deletion: "The pool
\* controller excludes it from eviction [...] while it is assigned".
\* It does not hold (README, Properties that do not hold).
AssignedComputeKept ==
  \A v \in Invs : Using(v) =>
    LET c == cps[inv[v].port] IN c # Nothing /\ ~c.del

\* An instance marked for deletion is removed.
\* It does not hold (README, Properties that do not hold).
MarkedInstanceGoes ==
  \A i \in Slots : (insts[i] # Nothing /\ insts[i].del) ~> (insts[i] = Nothing)
=============================================================================
