------------------------------ MODULE Balancer ------------------------------
(***************************************************************************)
(* One target group of infra-lb: the balancer and the health of its        *)
(* targets (lbproxy/pool.go), the checker of every target (health.go), and *)
(* the requests and connections that go through it (l7.go, l4.go).         *)
(*                                                                         *)
(* A probe or an attempt has its result at one moment and is recorded at a *)
(* later one; in between the target may change, other requests may be      *)
(* recorded and the configuration may be applied again.  Counters that are *)
(* only compared with a threshold stop there.                              *)
(***************************************************************************)
EXTENDS Integers, FiniteSetsExt, Listing

CONSTANTS Targets,      \* numbered as the configuration lists them
          Weight,       \* target -> its weight
          HealthyThreshold, UnhealthyThreshold,
          Requests,
          MaxReloads,   \* bound on configurations applied
          MaxIncidents  \* bound on targets that go up or down, on 5xx answers
                        \* and broken connections, and on configurations

VARIABLES up,       \* the targets that answer
          state,    \* targetState
          current,  \* generation -> target -> its round-robin counter
          checker,  \* target -> where its checker is
          late,     \* observations of checkers that were cancelled too late
          req, gen, incidents

blVars == <<up, state, current, checker, late, req, gen, incidents>>

NewState == [health |-> "unknown", successes |-> 0, failures |-> 0, passive |-> 0]
NewRequest == [pc |-> "idle", kind |-> "get", gen |-> 0, at |-> 0, exclude |-> {},
               result |-> "none", got |-> {}]
Kinds == {"get", "post", "tcp"}

BlInit ==
  /\ up = Targets
  /\ state = [t \in Targets |-> NewState]
  /\ current = [g \in 0..MaxReloads |-> [t \in Targets |-> 0]]
  /\ checker = [t \in Targets |-> "timer"]
  /\ late = {}
  /\ req = [r \in Requests |-> NewRequest]
  /\ gen = 0 /\ incidents = 0

Incident == incidents < MaxIncidents /\ incidents' = incidents + 1

Flip(t) ==
  /\ Incident
  /\ up' = IF t \in up THEN up \ {t} ELSE up \union {t}
  /\ UNCHANGED <<state, current, checker, late, req, gen>>
-----------------------------------------------------------------------------
(* Health *)

Capped(n, limit) == IF n < limit THEN n ELSE limit

eligible(t) == state[t].health # "unhealthy"

\* Mutant: only a target that was never decided on becomes healthy.
CheckPassed_First(s) ==
  LET n == Capped(s.successes + 1, HealthyThreshold)
  IN [s EXCEPT !.successes = n, !.failures = 0,
               !.health = IF n >= HealthyThreshold /\ @ = "unknown" THEN "healthy" ELSE @]

\* observeCheck without and with an error
CheckPassed(s) ==
  LET n == Capped(s.successes + 1, HealthyThreshold)
  IN [s EXCEPT !.successes = n, !.failures = 0,
               !.health = IF n >= HealthyThreshold THEN "healthy" ELSE @,
               !.passive = IF n >= HealthyThreshold THEN 0 ELSE @]
CheckFailed(s) ==
  LET n == Capped(s.failures + 1, UnhealthyThreshold)
  IN [s EXCEPT !.failures = n, !.successes = 0,
               !.health = IF n >= UnhealthyThreshold THEN "unhealthy" ELSE @]
observeCheck(s, ok) == IF ok THEN CheckPassed(s) ELSE CheckFailed(s)

\* observeTraffic with an error, and without
TrafficFailed(s) ==
  LET n == Capped(s.passive + 1, UnhealthyThreshold)
  IN [s EXCEPT !.passive = n,
               !.health = IF n >= UnhealthyThreshold THEN "unhealthy" ELSE @,
               !.successes = IF n >= UnhealthyThreshold THEN 0 ELSE @]
observeTraffic(s, ok) == IF ok THEN [s EXCEPT !.passive = 0] ELSE TrafficFailed(s)

\* checker.run: the probe, and its observation.
Probe(t) ==
  /\ checker[t] = "timer"
  /\ checker' = [checker EXCEPT ![t] = IF t \in up THEN "passed" ELSE "failed"]
  /\ UNCHANGED <<up, state, current, late, req, gen, incidents>>

Observe(t) ==
  /\ checker[t] # "timer"
  /\ state' = [state EXCEPT ![t] = observeCheck(@, checker[t] = "passed")]
  /\ checker' = [checker EXCEPT ![t] = "timer"]
  /\ UNCHANGED <<up, current, late, req, gen, incidents>>

\* A checker that had seen its context alive before Apply cancelled it.
ObserveLate(o) ==
  /\ late' = late \ {o}
  /\ state' = [state EXCEPT ![o[1]] = observeCheck(@, o[2] = "passed")]
  /\ UNCHANGED <<up, current, checker, req, gen, incidents>>

\* The counters of a group that no request uses any more are gone with it.
Collected(c, rs, g0) ==
  [g \in 0..MaxReloads |->
     IF g = g0 \/ \E r \in Requests : rs[r].pc # "idle" /\ rs[r].gen = g
     THEN c[g] ELSE [t \in Targets |-> 0]]

\* Apply with the same targets: a new group, whose counters start at zero, on
\* the states of the old one; with another health check the checkers restart.
Reload(restart, slow) ==
  /\ gen < MaxReloads /\ Incident
  /\ gen' = gen + 1
  /\ checker' = IF restart THEN [t \in Targets |-> "timer"] ELSE checker
  /\ late' = IF restart THEN late \union {<<t, checker[t]>> : t \in {u \in slow : checker[u] # "timer"}}
             ELSE late
  /\ current' = Collected(current, req, gen')
  /\ UNCHANGED <<up, state, req>>
-----------------------------------------------------------------------------
(* pick: smooth weighted round robin *)

Candidates(exclude) ==
  LET fit == {t \in Targets \ exclude : eligible(t)}
  IN IF fit = {} THEN Targets \ exclude ELSE fit

Best(c, s) == First({t \in s : \A u \in s : c[t] >= c[u]})

\* Mutant: the weight of the chosen target is taken back, not everyone's.
Picked_Own(c, s) ==
  LET raised == [t \in Targets |-> IF t \in s THEN c[t] + Weight[t] ELSE c[t]]
  IN [raised EXCEPT ![Best(raised, s)] = @ - Weight[Best(raised, s)]]

\* The counters after a pick among s.
Picked(c, s) ==
  LET raised == [t \in Targets |-> IF t \in s THEN c[t] + Weight[t] ELSE c[t]]
  IN [raised EXCEPT ![Best(raised, s)] = @ - MapThenSumSet(LAMBDA t : Weight[t], s)]

Chosen(c, s) == Best([t \in Targets |-> c[t] + Weight[t]], s)

Start(r, k) ==
  /\ req[r].pc = "idle"
  /\ req' = [req EXCEPT ![r] = [NewRequest EXCEPT !.pc = "pick", !.kind = k, !.gen = gen]]
  /\ UNCHANGED <<up, state, current, checker, late, gen, incidents>>

Pick(r) ==
  /\ req[r].pc = "pick"
  /\ LET g == req[r].gen
         s == Candidates(req[r].exclude)
     IN IF s = {}
        THEN /\ req' = [req EXCEPT ![r].pc = "failed"]
             /\ UNCHANGED current
        ELSE /\ current' = [current EXCEPT ![g] = Picked(@, s)]
             /\ req' = [req EXCEPT ![r].pc = "send", ![r].at = Chosen(current[g], s)]
  /\ UNCHANGED <<up, state, checker, late, gen, incidents>>
-----------------------------------------------------------------------------
(* RoundTrip and dialTarget: an attempt at one target, then what to do next *)

Attempt(r, result) ==
  /\ req' = [req EXCEPT ![r].pc = "result", ![r].result = result,
                        ![r].got = IF result = "dial" THEN @ ELSE @ \union {req[r].at}]
  /\ UNCHANGED <<up, state, current, checker, late, gen>>

Dial(r) ==
  /\ req[r].pc = "send" /\ req[r].at \notin up
  /\ Attempt(r, "dial") /\ UNCHANGED incidents

Answered(r) ==
  /\ req[r].pc = "send" /\ req[r].at \in up
  /\ Attempt(r, "ok") /\ UNCHANGED incidents

\* A 5xx answer, or a connection that breaks once the request is on its way.
Trouble(r, result) ==
  /\ req[r].pc = "send" /\ req[r].at \in up /\ req[r].kind # "tcp"
  /\ Incident
  /\ Attempt(r, result)

\* A body that was read is not sent again, nor is a method with effects unless
\* the connection was never there; `post' stands for one with a body.
retryable(q) == q.result = "dial" \/ q.kind = "get"

\* The outcome is recorded; the second attempt is the last.
AfterAttempt(q) ==
  IF q.result \in {"ok", "5xx"} THEN NewRequest
  ELSE IF q.exclude # {} \/ ~retryable(q) THEN [q EXCEPT !.pc = "failed"]
  ELSE [q EXCEPT !.pc = "pick", !.exclude = @ \union {q.at}]

Record(r) ==
  /\ req[r].pc = "result"
  /\ state' = [state EXCEPT ![req[r].at] = observeTraffic(@, req[r].result = "ok")]
  /\ req' = [req EXCEPT ![r] = AfterAttempt(@)]
  /\ current' = Collected(current, req', gen)
  /\ UNCHANGED <<up, checker, late, gen, incidents>>

Finish(r) ==
  /\ req[r].pc = "failed"
  /\ req' = [req EXCEPT ![r] = NewRequest]
  /\ current' = Collected(current, req', gen)
  /\ UNCHANGED <<up, state, checker, late, gen, incidents>>

Serve(r) == Pick(r) \/ Dial(r) \/ Answered(r) \/ Record(r) \/ Finish(r)

BlNext ==
  \/ \E t \in Targets : Flip(t) \/ Probe(t) \/ Observe(t)
  \/ \E o \in late : ObserveLate(o)
  \/ \E restart \in BOOLEAN, slow \in SUBSET Targets :
       (slow = {} \/ restart) /\ Reload(restart, slow)
  \/ \E r \in Requests :
       \/ \E k \in Kinds : Start(r, k)
       \/ \E result \in {"5xx", "broken"} : Trouble(r, result)
       \/ Serve(r)

\* Checkers run on timers; a request that was accepted is served.
BlFairness ==
  /\ \A t \in Targets : WF_blVars(Probe(t)) /\ WF_blVars(Observe(t))
  /\ \A r \in Requests : WF_blVars(Serve(r))
  /\ WF_blVars(\E o \in late : ObserveLate(o))

BlSpec == BlInit /\ [][BlNext]_blVars /\ BlFairness
-----------------------------------------------------------------------------

Total == MapThenSumSet(LAMBDA t : Weight[t], Targets)

\* The counters of a group sum to zero and none drifts away from the others,
\* whichever targets become eligible, are excluded and come back between the
\* picks: no target is starved or flooded later for what happened before.
CountersBalanced ==
  \A g \in 0..gen :
    /\ MapThenSumSet(LAMBDA t : current[g][t], Targets) = 0
    /\ \A t \in Targets : current[g][t] \in -Total..Total

\* A request with effects reaches one target at most, whatever breaks
\* (retryable, l7.go).
SentOnce == \A r \in Requests : req[r].kind = "post" => Cardinality(req[r].got) <= 1

\* A request fails only after it was tried on a target, on two when it could be
\* sent again and there was another: a group with targets always picks one, if
\* need be among the unhealthy ones.
FailedAfterTrying ==
  \A r \in Requests : req[r].pc = "failed" =>
    /\ req[r].at # 0
    /\ req[r].result = "dial" => Cardinality(req[r].exclude \union {req[r].at}) = Capped(2, Cardinality(Targets))

\* A request gets its turn, and goes to no more and no fewer targets than it may.
RequestsRight == CountersBalanced /\ SentOnce /\ FailedAfterTrying

\* A target is back in rotation only on HealthyThreshold checks in a row
\* (observeTraffic: `eject the target until active checks bring it back').
BackAfterChecks ==
  [][\A t \in Targets :
       (state[t].health = "unhealthy" /\ state'[t].health # "unhealthy")
         => state[t].successes >= HealthyThreshold - 1 /\ state[t].failures = 0]_blVars

\* A target that answers from some time on is healthy from some time on, and
\* one that does not is out of the rotation.
HealthFollows ==
  \A t \in Targets :
    /\ <>[](t \in up) => <>[](eligible(t))
    /\ <>[](t \notin up) => <>[](~eligible(t))
=============================================================================
