----------------------------- MODULE MCBalancing -----------------------------
(* Balancing: the targets of a group and the listeners that are served from *)
(* them.  They share no state; each is explored on its own.                 *)
EXTENDS Balancer

CONSTANTS None

VARIABLES focus,   \* the component whose steps are taken
          cond, phase, seen, health, plane, pass, events

MCWeight == <<2, 1>>

LiHosts == 1..2
LiIds == 1..2
LiConditions == {"ok", "broken"}

LI == INSTANCE Listeners WITH
        Hosts <- LiHosts, Ids <- LiIds, Conditions <- LiConditions, MaxEvents <- 2

liState == <<cond, phase, seen, health, plane, pass, events>>

AllInit ==
  /\ focus \in {"balancer", "listeners"}
  /\ BlInit
  /\ LI!LiInit

\* A step of the component in focus
AllNext ==
  /\ UNCHANGED focus
  /\ \/ focus = "balancer" /\ UNCHANGED liState /\ BlNext
     \/ focus = "listeners" /\ UNCHANGED blVars /\ LI!LiNext

allVars == <<focus, blVars, liState>>

\* The fairness of each component, in its focus
AllFairness ==
  /\ \A t \in 1..2 : WF_(blVars)(focus = "balancer" /\ Probe(t)) /\ WF_(blVars)(focus = "balancer" /\ Observe(t))
  /\ WF_(blVars)(focus = "balancer" /\ Serve("r1")) /\ WF_(blVars)(focus = "balancer" /\ \E o \in late : ObserveLate(o))
  /\ \A h \in 1..2 : WF_(liState)(focus = "listeners" /\ LI!Pass(h)) /\ WF_(liState)(focus = "listeners" /\ LI!LbTurn(h))

AllSpec == AllInit /\ [][AllNext]_allVars /\ AllFairness
-----------------------------------------------------------------------------
\* Listeners: served, with the phase and the health that is seen.
ListenersSettle == []<>(focus # "listeners") \/ LI!ListenersSettle
=============================================================================
