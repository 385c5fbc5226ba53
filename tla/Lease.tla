------------------------------- MODULE Lease -------------------------------
(***************************************************************************)
(* Leader election of the controller-manager: the lease record in the      *)
(* shared store (internal/controllers/lease.go) and the loop of one        *)
(* manager that competes for it, with the goroutine that renews it while   *)
(* controllers run (internal/controllers/manager.go).                      *)
(*                                                                         *)
(* Time is kept relative: lease.left is how far the stored Expiry lies     *)
(* ahead of the slowest clock of the cluster, and Tick lets one unit pass. *)
(* Each manager reads its own clock, Offset[m] ahead of that one.          *)
(***************************************************************************)
EXTENDS Integers

CONSTANTS
    Managers,     \* controller-manager instances, each with its own holder id
    Faulty,       \* the ones that may crash, restart or be told to stop
    TTL,          \* lease lifetime
    Offset,       \* how far each manager's clock runs ahead of the slowest
    NControllers, \* controllers registered with Manager.Add
    MaxErrors,    \* bound on failing store calls
    Absent,       \* no lease record was ever written
    Released      \* the record Release leaves: empty holder, zero expiry

ASSUME LeaseAssumption ==
    /\ Faulty \subseteq Managers
    /\ TTL \in Nat \ {0}
    /\ Offset \in [Managers -> Nat]
    /\ NControllers \in Nat
    /\ MaxErrors \in Nat
    /\ Absent \notin Managers
    /\ Released \notin Managers
    /\ Absent # Released

VARIABLES
    lease,    \* the stored record
    main,     \* what the goroutine of Manager.Run is doing
    ren,      \* the renewal goroutine of RunOnce
    cur,      \* how the bytes read relate to the bytes stored now
    pend,     \* time left on the expiry a swap in flight would write
    mine,     \* time left on the last expiry this manager knows it wrote
    ctl,      \* controllers started in this RunOnce
    stopping, \* the managers whose Run context is cancelled
    errs      \* store calls that have failed so far

vars == <<lease, main, ren, cur, pend, mine, ctl, stopping, errs>>

-----------------------------------------------------------------------------

Init ==
    /\ lease = [holder |-> Absent, left |-> 0]
    /\ main = [m \in Managers |-> "idle"]
    /\ ren = [m \in Managers |-> "off"]
    /\ cur = [m \in Managers |-> "stale"]
    /\ pend = [m \in Managers |-> 0]
    /\ mine = [m \in Managers |-> 0]
    /\ ctl = [m \in Managers |-> 0]
    /\ stopping = {}
    /\ errs = 0

\* !rec.Expiry.After(l.now()), on m's clock.
Expired(m) == lease.left <= Offset[m]

\* Mutants of MayAcquire: the holder and the expiry are not looked at, or the
\* expiry is not.
MayAcquire_Any(m) == TRUE
MayAcquire_NoTakeover(m) == lease.holder \in {Absent, Released, m}

\* Acquire takes a free or expired lease and renews its own.
MayAcquire(m) == lease.holder \in {Absent, Released, m} \/ Expired(m)

\* Renew extends only a lease that is still its own and unexpired.
MayRenew(m) == lease.holder = m /\ ~Expired(m)

\* Get: the bytes m will pass to CompareAndSwap. Every record a swap writes is
\* unique to its instant, but the bytes Release writes are always the same.
Read(m) ==
    cur' = [cur EXCEPT ![m] = IF lease.holder = Released THEN "free" ELSE "current"]

\* swap computes the new expiry before it calls CompareAndSwap.
Propose(m) == pend' = [pend EXCEPT ![m] = TTL + Offset[m]]

\* Mutant of Unchanged: a plain Put in place of CompareAndSwap.
Unchanged_Blind(m) == TRUE

\* CompareAndSwap finds the bytes m read.
Unchanged(m) == cur[m] = "current" \/ (cur[m] = "free" /\ lease.holder = Released)

\* A successful CompareAndSwap outdates what every other manager has read.
Write(m, rec) ==
    /\ lease' = rec
    /\ cur' = [k \in Managers |-> IF k = m \/ cur[k] = "current" THEN "stale" ELSE cur[k]]

-----------------------------------------------------------------------------
(* Manager.Run and RunOnce *)

\* Lease.Acquire up to its swap; standing by leaves everything as it is.
AcquireRead(m) ==
    /\ main[m] = "idle"
    /\ MayAcquire(m)
    /\ Read(m)
    /\ Propose(m)
    /\ main' = [main EXCEPT ![m] = "acquire"]
    /\ UNCHANGED <<lease, ren, mine, ctl, stopping, errs>>

\* The swap of Acquire, then RunOnce starts the renewal goroutine.
AcquireWon(m) ==
    /\ main[m] = "acquire"
    /\ Unchanged(m)
    /\ Write(m, [holder |-> m, left |-> pend[m]])
    /\ mine' = [mine EXCEPT ![m] = pend[m]]
    /\ main' = [main EXCEPT ![m] = "run"]
    /\ ren' = [ren EXCEPT ![m] = "wait"]
    /\ ctl' = [ctl EXCEPT ![m] = 0]
    /\ UNCHANGED <<pend, stopping, errs>>

AcquireLost(m) ==
    /\ main[m] = "acquire"
    /\ ~Unchanged(m)
    /\ main' = [main EXCEPT ![m] = "idle"]
    /\ UNCHANGED <<lease, ren, cur, pend, mine, ctl, stopping, errs>>

\* runCtx.Err() # nil: the renewal failed, or the process is shutting down.
Cancelled(m) == m \in stopping \/ ren[m] = "lost"

\* The loop over m.controllers enters the next one.
StartController(m) ==
    /\ main[m] = "run"
    /\ ctl[m] < NControllers
    /\ ~Cancelled(m)
    /\ ctl' = [ctl EXCEPT ![m] = @ + 1]
    /\ UNCHANGED <<lease, main, ren, cur, pend, mine, stopping, errs>>

\* The loop ends and cancels runCtx.
EndControllers(m) ==
    /\ main[m] = "run"
    /\ ctl[m] = NControllers \/ Cancelled(m)
    /\ main' = [main EXCEPT ![m] = "join"]
    /\ UNCHANGED <<lease, ren, cur, pend, mine, ctl, stopping, errs>>

\* <-stopped: RunOnce returns once the renewal goroutine has.
Join(m) ==
    /\ main[m] = "join"
    /\ ren[m] \in {"off", "lost"}
    /\ main' = [main EXCEPT ![m] = "idle"]
    /\ ren' = [ren EXCEPT ![m] = "off"]
    /\ UNCHANGED <<lease, cur, pend, mine, ctl, stopping, errs>>

\* Lease.Release up to its swap; a lease that is not ours is left alone.
ReleaseRead(m) ==
    /\ main[m] = "idle"
    /\ m \in stopping
    /\ IF lease.holder = m
         THEN Read(m) /\ main' = [main EXCEPT ![m] = "release"]
         ELSE UNCHANGED cur /\ main' = [main EXCEPT ![m] = "exited"]
    /\ UNCHANGED <<lease, ren, pend, mine, ctl, stopping, errs>>

ReleaseSwap(m) ==
    /\ main[m] = "release"
    /\ IF Unchanged(m)
         THEN /\ Write(m, [holder |-> Released, left |-> 0])
              /\ mine' = [mine EXCEPT ![m] = 0]
         ELSE UNCHANGED <<lease, cur, mine>>
    /\ main' = [main EXCEPT ![m] = "exited"]
    /\ UNCHANGED <<ren, pend, ctl, stopping, errs>>

-----------------------------------------------------------------------------
(* The renewal goroutine *)

\* Mutant of RenewRead: a lost lease does not end the goroutine.
RenewRead_GoesOn(m) ==
    /\ ren[m] = "wait"
    /\ MayRenew(m)
    /\ Read(m)
    /\ Propose(m)
    /\ ren' = [ren EXCEPT ![m] = "renew"]
    /\ UNCHANGED <<lease, main, mine, ctl, stopping, errs>>

\* A tick of the renewal ticker: Renew up to its swap. The ticker may be late,
\* and may fire once more after the loop has cancelled runCtx.
RenewRead(m) ==
    /\ ren[m] = "wait"
    /\ IF MayRenew(m)
         THEN /\ Read(m)
              /\ Propose(m)
              /\ ren' = [ren EXCEPT ![m] = "renew"]
         ELSE /\ ren' = [ren EXCEPT ![m] = "lost"]
              /\ UNCHANGED <<cur, pend>>
    /\ UNCHANGED <<lease, main, mine, ctl, stopping, errs>>

RenewSwap(m) ==
    /\ ren[m] = "renew"
    /\ IF Unchanged(m)
         THEN /\ Write(m, [holder |-> m, left |-> pend[m]])
              /\ mine' = [mine EXCEPT ![m] = pend[m]]
              /\ ren' = [ren EXCEPT ![m] = "wait"]
         ELSE /\ ren' = [ren EXCEPT ![m] = "lost"]
              /\ UNCHANGED <<lease, cur, mine>>
    /\ UNCHANGED <<main, pend, ctl, stopping, errs>>

\* <-runCtx.Done()
RenewerDone(m) ==
    /\ ren[m] = "wait"
    /\ main[m] = "join" \/ m \in stopping
    /\ ren' = [ren EXCEPT ![m] = "off"]
    /\ UNCHANGED <<lease, main, cur, pend, mine, ctl, stopping, errs>>

-----------------------------------------------------------------------------
(* Failures and the environment *)

\* A store call fails. A CompareAndSwap that reports an error may have been
\* applied (the reply was lost), so the record may change behind m's back.
StoreError(m) ==
    /\ errs < MaxErrors
    /\ errs' = errs + 1
    /\ \/ /\ main[m] = "acquire"
          /\ main' = [main EXCEPT ![m] = "idle"]
          /\ UNCHANGED ren
       \/ /\ main[m] = "release"
          /\ main' = [main EXCEPT ![m] = "exited"]
          /\ UNCHANGED ren
       \/ /\ ren[m] = "renew"
          /\ ren' = [ren EXCEPT ![m] = "lost"]
          /\ UNCHANGED main
    /\ \/ UNCHANGED <<lease, cur>>
       \/ /\ Unchanged(m)
          /\ Write(m, IF main[m] = "release"
                        THEN [holder |-> Released, left |-> 0]
                        ELSE [holder |-> m, left |-> pend[m]])
    /\ mine' = [mine EXCEPT ![m] = IF main[m] = "release" THEN 0 ELSE @]
    /\ UNCHANGED <<pend, ctl, stopping>>

\* A failed Get ends Acquire, Release or Renew before anything is written.
ReadError(m) ==
    /\ errs < MaxErrors
    /\ errs' = errs + 1
    /\ \/ /\ main[m] = "idle"
          /\ m \in stopping
          /\ main' = [main EXCEPT ![m] = "exited"]
          /\ UNCHANGED ren
       \/ /\ ren[m] = "wait"
          /\ ren' = [ren EXCEPT ![m] = "lost"]
          /\ UNCHANGED main
    /\ UNCHANGED <<lease, cur, pend, mine, ctl, stopping>>

\* SIGTERM cancels the context of Run.
Stop(m) ==
    /\ m \in Faulty
    /\ main[m] \notin {"exited", "crashed"}
    /\ m \notin stopping
    /\ stopping' = stopping \cup {m}
    /\ UNCHANGED <<lease, main, ren, cur, pend, mine, ctl, errs>>

Crash(m) ==
    /\ m \in Faulty
    /\ main[m] \notin {"exited", "crashed"}
    /\ main' = [main EXCEPT ![m] = "crashed"]
    /\ ren' = [ren EXCEPT ![m] = "off"]
    /\ mine' = [mine EXCEPT ![m] = 0]
    /\ UNCHANGED <<lease, cur, pend, ctl, stopping, errs>>

\* The process comes back with the host name and pid it had, so under the same
\* holder id; with another pid it is another manager.
Restart(m) ==
    /\ main[m] \in {"exited", "crashed"}
    /\ main' = [main EXCEPT ![m] = "idle"]
    /\ stopping' = stopping \ {m}
    /\ mine' = [mine EXCEPT ![m] = 0]
    /\ ctl' = [ctl EXCEPT ![m] = 0]
    /\ UNCHANGED <<lease, ren, cur, pend, errs>>

Less(n) == IF n = 0 THEN 0 ELSE n - 1

\* One unit of time passes on every clock.
Tick ==
    /\ lease' = [lease EXCEPT !.left = Less(@)]
    /\ pend' = [m \in Managers |-> Less(pend[m])]
    /\ mine' = [m \in Managers |-> Less(mine[m])]
    /\ UNCHANGED <<main, ren, cur, ctl, stopping, errs>>

Next ==
    \/ Tick
    \/ \E m \in Managers :
        \/ AcquireRead(m) \/ AcquireWon(m) \/ AcquireLost(m)
        \/ StartController(m) \/ EndControllers(m) \/ Join(m)
        \/ ReleaseRead(m) \/ ReleaseSwap(m)
        \/ RenewRead(m) \/ RenewSwap(m) \/ RenewerDone(m)
        \/ StoreError(m) \/ ReadError(m)
        \/ Stop(m) \/ Crash(m) \/ Restart(m)

\* Go schedules both goroutines of a live process; select picks at random
\* between a cancelled context and the ticker, so shutdown is not starved. A
\* controller may hang: nothing is assumed about StartController.
Fairness ==
    /\ WF_vars(Tick)
    /\ \A m \in Managers :
        /\ WF_vars(AcquireRead(m))
        /\ WF_vars(AcquireWon(m) \/ AcquireLost(m))
        /\ WF_vars(Join(m))
        /\ SF_vars(ReleaseRead(m))
        /\ WF_vars(ReleaseSwap(m))
        /\ WF_vars(RenewRead(m))
        /\ WF_vars(RenewSwap(m))
        /\ SF_vars(RenewerDone(m))

Spec == Init /\ [][Next]_vars

FairSpec == Spec /\ Fairness

-----------------------------------------------------------------------------
(* Properties *)

MainStates == {"idle", "acquire", "run", "join", "release", "exited", "crashed"}

\* Type invariant of the election: every variable keeps the type its Go
\* counterpart has.
TypeOK ==
    /\ lease \in [holder : Managers \cup {Absent, Released}, left : Nat]
    /\ main \in [Managers -> MainStates]
    /\ ren \in [Managers -> {"off", "wait", "renew", "lost"}]
    /\ cur \in [Managers -> {"free", "current", "stale"}]
    /\ pend \in [Managers -> Nat]
    /\ mine \in [Managers -> Nat]
    /\ ctl \in [Managers -> 0 .. NControllers]
    /\ stopping \subseteq Managers
    /\ errs \in 0 .. MaxErrors

\* Nobody's clock has reached the expiry m last wrote.
Unexpired(m) == mine[m] > 0 /\ \A k \in Managers \ {m} : mine[m] > Offset[k]

\* Election safety of Lease.Acquire and Renew: a manager whose lease no other
\* clock has seen expire is the holder the store records, for at least as long
\* as it believes; so two managers never hold unexpired leases at once.
LeaseExclusion ==
    \A m \in Managers :
        Unexpired(m) => lease.holder = m /\ lease.left >= mine[m]

\* What a step may never do to the record: take it from a holder before that
\* holder's lease has expired on the clock of whoever takes it, or free it on
\* behalf of another manager (Lease.Release swaps only its own record).
NoTheft ==
    [][\A m \in Managers :
         lease.holder = m /\ lease'.holder # m =>
            \/ lease'.holder \in Managers /\ lease.left <= Offset[lease'.holder]
            \/ lease'.holder = Released /\ main[m] = "release"]_vars

\* Failover (Manager.Run): whatever crashes, stops or restarts, a manager gets
\* to run the controllers again and again.
LeaderAgain == []<>(\E m \in Managers : main[m] = "run")

\* The renewal goroutine of RunOnce cancels the controllers of a manager that
\* is no longer the holder, even if the controller it is in never returns.
LostLeaderCancelled ==
    \A m \in Managers :
        []<>(main[m] # "run" \/ Cancelled(m) \/ lease.holder = m)

\* Leadership goes on: there is a leader again and again, and whoever lost the lease
\* (Renew, the deadline of the renewal goroutine) has its controllers cancelled.
LeadershipPasses == LeaderAgain /\ LostLeaderCancelled

\* The claim of internal/controllers/manager.go:21-22 on Manager: "only while
\* it holds the leader lease, so exactly one instance is active across the
\* cluster".
\* It does not hold (README, Properties that do not hold).
OneActive ==
    \A m, k \in Managers : main[m] = "run" /\ main[k] = "run" => m = k

=============================================================================
