----------------------------- MODULE Listeners -----------------------------
(***************************************************************************)
(* The listener pass of every agent (manager/l7.go): it renders the        *)
(* listeners of a VPC into the configuration of the infra-lb of its host,  *)
(* has systemd start, reload or stop it, and records on the shared records *)
(* what infra-lb reports: the phase of each listener, and the health of    *)
(* the targets as its host sees them.  infra-lb itself is Proxy.tla; here  *)
(* it loads its file and says what it has bound.                           *)
(***************************************************************************)
EXTENDS Naturals, FiniteSets

CONSTANTS Hosts, Ids,
          Conditions,  \* those listeners come into, among the five below
          MaxEvents,   \* bound on changes, failures and crashes
          None

(* What a listener's record and the ones it refers to amount to:            *)
(*   ok        it can be served                                             *)
(*   waiting   no address, group or certificate yet (a pendingError)        *)
(*   broken    a port, group, certificate or CA that cannot be used         *)
(*   mismatch  a group infra-lb cannot send to from this listener           *)
(*   gone      deleted, or its load balancer is                             *)
AllConditions == {"ok", "waiting", "broken", "mismatch", "gone"}

VARIABLES cond,     \* listener -> condition
          phase,    \* listener -> phase, with whether it is converged
          seen,     \* host -> the health of the targets, as the checks there say
          health,   \* host -> its entry in the target group's status
          plane,    \* host -> the files and the unit
          pass,     \* host -> the pass
          events

liVars == <<cond, phase, seen, health, plane, pass, events>>

NoPlane == [dir |-> FALSE, file |-> None, active |-> FALSE, running |-> None, status |-> None]
NoPass == [pc |-> "idle", cond |-> None, phase |-> None, health |-> None]

LiInit ==
  /\ cond = [l \in Ids |-> "ok"]
  /\ phase = [l \in Ids |-> <<"Pending", FALSE>>]
  /\ seen = [h \in Hosts |-> "unknown"] /\ health = [h \in Hosts |-> "none"]
  /\ plane = [h \in Hosts |-> NoPlane]
  /\ pass = [h \in Hosts |-> NoPass]
  /\ events = 0

Event == events < MaxEvents /\ events' = events + 1

\* A user, the certificate controller or another pass changes what a listener
\* needs; a new generation is not converged.
Change(l, c) ==
  /\ Event /\ c # cond[l]
  /\ cond' = [cond EXCEPT ![l] = c]
  /\ phase' = [phase EXCEPT ![l] = <<@[1], FALSE>>]
  /\ UNCHANGED <<seen, health, plane, pass>>

\* Their load balancer goes; the records of the listeners stay as they are.
LbDeleted ==
  /\ Event /\ \E l \in Ids : cond[l] # "gone"
  /\ cond' = [l \in Ids |-> "gone"]
  /\ UNCHANGED <<phase, seen, health, plane, pass>>

Checks(h, v) ==
  /\ Event /\ v # seen[h]
  /\ seen' = [seen EXCEPT ![h] = v]
  /\ UNCHANGED <<cond, phase, health, plane, pass>>
-----------------------------------------------------------------------------
(* infra-lb and systemd *)

\* A turn of infra-lb: it loads its file and writes its status beside it.
LbTurn(h) ==
  /\ plane[h].active /\ plane[h].file # None
  /\ LET st == [bound |-> plane[h].file, view |-> seen[h]]
     IN /\ plane[h].running # plane[h].file \/ plane[h].status # st
        /\ plane' = [plane EXCEPT ![h].running = plane[h].file, ![h].status = st]
  /\ UNCHANGED <<cond, phase, seen, health, pass, events>>

\* It crashes; its files stay.
LbCrash(h) ==
  /\ Event /\ plane[h].active
  /\ plane' = [plane EXCEPT ![h].active = FALSE, ![h].running = None]
  /\ UNCHANGED <<cond, phase, seen, health, pass>>
-----------------------------------------------------------------------------
(* The pass *)

\* config: the listeners that are rendered
Rendered(c) == {l \in Ids : c[l] \in {"ok", "mismatch"}}

\* Config.Validate: one listener infra-lb would reject rejects them all.
Valid(c) == \A l \in Rendered(c) : c[l] = "ok"

Load(h) ==
  /\ pass[h].pc = "idle"
  /\ pass' = [pass EXCEPT ![h] = [pc |-> "plane", cond |-> cond, phase |-> phase, health |-> health]]
  /\ UNCHANGED <<cond, phase, seen, health, plane, events>>

\* Mutant: a unit that runs is not told of the new file.
Applied_NoReload(p, cfg) ==
  [p EXCEPT !.dir = TRUE, !.active = TRUE, !.file = IF p.active THEN @ ELSE cfg]

\* ExecDataPlane.Apply: the file by rename when it differs, then start or reload
Applied(p, cfg) == [p EXCEPT !.dir = TRUE, !.file = cfg, !.active = TRUE]

\* ExecDataPlane.Stop
Stopped(p) == NoPlane

Serving(p) == p.dir

DoPlane(h) ==
  /\ pass[h].pc = "plane"
  /\ LET cfg == Rendered(pass[h].cond)
     IN \/ /\ cfg # {} /\ Valid(pass[h].cond)
           /\ plane' = [plane EXCEPT ![h] = Applied(@, cfg)]
           /\ pass' = [pass EXCEPT ![h].pc = "report"]
        \/ /\ cfg # {} /\ ~Valid(pass[h].cond)
           /\ pass' = [pass EXCEPT ![h] = NoPass]
           /\ UNCHANGED plane
        \/ /\ cfg = {}
           /\ plane' = [plane EXCEPT ![h] = IF Serving(@) THEN Stopped(@) ELSE @]
           /\ pass' = [pass EXCEPT ![h] = NoPass]
  /\ UNCHANGED <<cond, phase, seen, health, events>>

\* The file is not written, or the unit does not start or reload.
PlaneFails(h, written) ==
  /\ pass[h].pc = "plane" /\ Event
  /\ Rendered(pass[h].cond) # {} /\ Valid(pass[h].cond)
  /\ plane' = IF written THEN [plane EXCEPT ![h].dir = TRUE, ![h].file = Rendered(pass[h].cond)] ELSE plane
  /\ pass' = [pass EXCEPT ![h] = NoPass]
  /\ UNCHANGED <<cond, phase, seen, health>>

\* The unit does not stop, or its directory stays.
StopFails(h, stopped) ==
  /\ pass[h].pc = "plane" /\ Event
  /\ Rendered(pass[h].cond) = {} /\ Serving(plane[h])
  /\ plane' = IF stopped THEN [plane EXCEPT ![h].active = FALSE, ![h].running = None] ELSE plane
  /\ pass' = [pass EXCEPT ![h] = NoPass]
  /\ UNCHANGED <<cond, phase, seen, health>>

\* report: the phase of a listener, from its problem and the status infra-lb
\* last wrote.
PhaseOf(c, st, l) ==
  CASE c[l] = "waiting" -> "Pending"
    [] c[l] = "broken" -> "Error"
    [] OTHER -> IF st # None /\ l \in st.bound THEN "Ready" ELSE "Pending"

Reported(p, new) == <<new, new = "Ready" \/ p[2]>>

\* The entries of the other hosts stay.
Merged(old, h, v) == [old EXCEPT ![h] = v]

\* The records are saved unless someone else saved them since the pass began.
Report(h) ==
  /\ pass[h].pc = "report"
  /\ LET st == plane[h].status
     IN /\ phase' = [l \in Ids |->
             IF pass[h].cond[l] = "gone" \/ phase[l] # pass[h].phase[l] \/ cond[l] # pass[h].cond[l] THEN phase[l]
             ELSE Reported(phase[l], PhaseOf(pass[h].cond, st, l))]
        /\ health' = IF st = None \/ health # pass[h].health THEN health ELSE Merged(health, h, st.view)
  /\ pass' = [pass EXCEPT ![h] = NoPass]
  /\ UNCHANGED <<cond, seen, plane, events>>

AgentDies(h) ==
  /\ Event /\ pass[h].pc # "idle"
  /\ pass' = [pass EXCEPT ![h] = NoPass]
  /\ UNCHANGED <<cond, phase, seen, health, plane>>

Pass(h) == Load(h) \/ DoPlane(h) \/ Report(h)

LiNext ==
  \/ \E l \in Ids, c \in Conditions : Change(l, c)
  \/ LbDeleted
  \/ \E h \in Hosts :
       \/ Pass(h) \/ LbTurn(h) \/ LbCrash(h) \/ AgentDies(h)
       \/ \E v \in {"healthy", "unhealthy"} : Checks(h, v)
       \/ \E w \in BOOLEAN : PlaneFails(h, w) \/ StopFails(h, w)

LiFairness == \A h \in Hosts : WF_liVars(Pass(h)) /\ WF_liVars(LbTurn(h))

LiSpec == LiInit /\ [][LiNext]_liVars /\ LiFairness
-----------------------------------------------------------------------------
(* Properties *)

Settles == <>[][FALSE]_events

\* Unless a listener of the VPC is one infra-lb rejects, every listener that can
\* be served is, on every host, with the others that can and no more; when none
\* can, infra-lb does not run.
ServedOnEveryHost ==
  Settles /\ <>[](\A l \in Ids : cond[l] # "mismatch") =>
    <>[](\A h \in Hosts :
           LET cfg == {l \in Ids : cond[l] = "ok"}
           IN IF cfg = {} THEN plane[h] = NoPlane ELSE plane[h].active /\ plane[h].running = cfg)

\* While some listener is served, the phase of each follows: Ready when it is
\* served and not otherwise.
PhaseFollows ==
  \A l \in Ids :
    Settles /\ <>[](cond[l] # "gone" /\ (\E m \in Ids : cond[m] = "ok") /\ \A m \in Ids : cond[m] # "mismatch") =>
      <>[]((phase[l][1] = "Ready") = (cond[l] = "ok"))

\* The health each host sees ends up in the group's status beside what the
\* others see, although they all write the same record.
HealthReported ==
  Settles /\ <>[]((\E m \in Ids : cond[m] = "ok") /\ \A m \in Ids : cond[m] # "mismatch") =>
    <>[](\A h \in Hosts : health[h] = seen[h])

\* The passes of all hosts end where the listeners want them: served, with the phase
\* and the health that is seen.
ListenersSettle == ServedOnEveryHost /\ PhaseFollows /\ HealthReported

\* A listener that cannot be served says so (l7.go: it `is left out, with the
\* reason in problems').
\* It does not hold (README, Properties that do not hold).
ProblemTold ==
  \A l \in Ids :
    Settles /\ <>[](cond[l] \in {"waiting", "broken"}) => <>[](phase[l][1] # "Ready")

\* A listener that can be served is, whatever the others are (l7.go: `every
\* listener using it goes, so the configuration stays whole').
\* It does not hold (README, Properties that do not hold).
OthersServed ==
  \A l \in Ids, h \in Hosts :
    Settles /\ <>[](cond[l] = "ok") => <>[](plane[h].running # None /\ l \in plane[h].running)
=============================================================================
