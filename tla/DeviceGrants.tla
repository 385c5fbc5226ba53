----------------------------- MODULE DeviceGrants -----------------------------
(* The device authorization grant: `infra login' (cmd/cli/login.go) asks an  *)
(* identity provider for a code, a person approves or denies it in the       *)
(* console, and the command polls until it gets a token.  The pending        *)
(* authorizations are one record of the shared store (internal/idp           *)
(* device.go); every request rewrites that record with a compare-and-swap,   *)
(* at whichever provider it reaches.                                         *)

EXTENDS Naturals, FiniteSets, Functions

CONSTANTS
  Idps,          \* instances of infra-idp on the same store
  Logins,        \* runs of `infra login', each with the codes it is given
  Interrupted,   \* logins interrupted before their first poll
  People,        \* who may approve or deny
  MaxPending,    \* maxDeviceAuthorizations
  MaxAttempts,   \* tries of a swap in transact
  MaxAnswers,    \* answers that people send
  MaxFaults,     \* lost answers and clocks that disagree
  None

ASSUME DgAssumption == None \notin People /\ MaxPending \in Nat

VARIABLES
  grants,    \* the record: pending logins with their state, None before it exists
  expired,   \* logins whose codes are past ExpiresAt
  tx,        \* the transaction each provider has under its mutex
  login,     \* where each login is
  said,      \* answers 204 to people: <<login, person, approved or denied>>
  issued,    \* tokens issued: <<login, person>>
  answers,   \* answers sent
  faults

dgvars == <<grants, expired, tx, login, said, issued, answers, faults>>

NoRequest == [pc |-> "free", op |-> "none", login |-> None, who |-> None,
         old |-> None, new |-> None, result |-> "none", by |-> None, tries |-> 0]

DgInit ==
  /\ grants = None
  /\ expired = {}
  /\ tx = [i \in Idps |-> NoRequest]
  /\ login = [l \in Logins |-> "new"]
  /\ said = {}
  /\ issued = {}
  /\ answers = 0
  /\ faults = 0

Tx(i, t) == tx' = [tx EXCEPT ![i] = t]

\* The authorizations as transact finds them, without the expired ones
Live == IF grants = None THEN << >> ELSE Restrict(grants, DOMAIN grants \ expired)

Pending == [status |-> "pending", by |-> None, polled |-> FALSE]

Full(g) == Cardinality(DOMAIN g) >= MaxPending

\* A change that the next swap tries to store, with what it will answer
Change(g, r) == [new |-> g, result |-> r, by |-> None]

Create(g, l) ==
  IF Full(g) THEN Change(None, "capacity")
  ELSE Change([k \in DOMAIN g \cup {l} |-> IF k = l THEN Pending ELSE g[k]], "created")

Resolve(g, l, p, status) ==
  IF l \in DOMAIN g /\ g[l].status = "pending"
  THEN Change([g EXCEPT ![l] = [@ EXCEPT !.status = status, !.by = p]], status)
  ELSE Change(g, "not_found")

\* Mutant: the authorization is removed before its state is looked at.
Consumed_First(g, l) == [new |-> Restrict(g, DOMAIN g \ {l}), result |-> "expired_token", by |-> None]

\* An answered authorization is handed over and removed.
Consumed(g, l) == [new |-> Restrict(g, DOMAIN g \ {l}), result |-> g[l].status, by |-> g[l].by]

\* poll; early is what the comparison of now with LastPoll says
PollChange(g, l, early) ==
  IF l \notin DOMAIN g THEN Change(g, "expired_token")
  ELSE IF g[l].status # "pending" THEN Consumed(g, l)
  ELSE Change([g EXCEPT ![l].polled = TRUE], IF early THEN "slow_down" ELSE "pending")

Changed(t, early) ==
  CASE t.op = "create"  -> Create(Live, t.login)
    [] t.op = "approve" -> Resolve(Live, t.login, t.who, "approved")
    [] t.op = "deny"    -> Resolve(Live, t.login, t.who, "denied")
    [] t.op = "poll"    -> PollChange(Live, t.login, early)

\* transact up to the swap, for transaction t of provider i.  The command keeps
\* the interval by its own clock; a provider whose clock is behind the one that
\* stored LastPoll sees it early.
Loaded(i, t) ==
  \E early \in BOOLEAN :
    /\ early => faults < MaxFaults /\ t.op = "poll"
    /\ early => t.login \in DOMAIN Live /\ Live[t.login].polled
    /\ faults' = IF early THEN faults + 1 ELSE faults
    /\ LET c == Changed(t, early) IN
         Tx(i, IF c.result = "capacity" THEN [t EXCEPT !.pc = "reply", !.result = c.result]
               ELSE [t EXCEPT !.pc = "swap", !.old = grants, !.new = c.new, !.result = c.result,
                              !.by = c.by])

Asked(i, op, l, p) ==
  /\ tx[i].pc = "free"
  /\ Loaded(i, [NoRequest EXCEPT !.op = op, !.login = l, !.who = p])

\* deviceLogin: the request for a code, and a poll, which follows the last one
\* after the interval
Start(i, l) ==
  /\ login[l] = "new"
  /\ Asked(i, "create", l, None)
  /\ login' = [login EXCEPT ![l] = "asked"]
  /\ UNCHANGED <<grants, expired, said, issued, answers>>

Poll(i, l) ==
  /\ login[l] = "waiting"
  /\ Asked(i, "poll", l, None)
  /\ login' = [login EXCEPT ![l] = "polling"]
  /\ UNCHANGED <<grants, expired, said, issued, answers>>

\* A person with the user code, once the command has shown it
Answer(i, l, p, op) ==
  /\ login[l] \in {"waiting", "polling"}
  /\ ~\E j \in Idps : tx[j].who = p
  /\ answers < MaxAnswers
  /\ answers' = answers + 1
  /\ Asked(i, op, l, p)
  /\ UNCHANGED <<grants, expired, login, said, issued>>

\* The next attempt after a swap that failed
Load(i) ==
  /\ tx[i].pc = "load"
  /\ Loaded(i, tx[i])
  /\ UNCHANGED <<grants, expired, login, said, issued, answers>>

\* Mutant: the record is put back without comparing.
Swaps_Always(t) == TRUE

Swaps(t) == grants = t.old

\* CompareAndSwap: done, tried again, or given up after the last attempt
Swap(i) ==
  /\ tx[i].pc = "swap"
  /\ IF Swaps(tx[i])
     THEN grants' = tx[i].new /\ Tx(i, [tx[i] EXCEPT !.pc = "reply", !.old = None, !.new = None, !.tries = 0])
     ELSE /\ UNCHANGED grants
          /\ Tx(i, IF tx[i].tries + 1 < MaxAttempts
                   THEN [tx[i] EXCEPT !.pc = "load", !.tries = @ + 1, !.old = None, !.new = None]
                   ELSE [NoRequest EXCEPT !.pc = "reply", !.op = tx[i].op, !.login = tx[i].login,
                                     !.who = tx[i].who, !.result = "error"])
  /\ UNCHANGED <<expired, login, said, issued, answers, faults>>

\* What deviceLogin makes of an answer
Told(l, result) ==
  CASE result = "created"  -> IF l \in Interrupted THEN "failed" ELSE "waiting"
    [] result = "approved" -> "token"
    [] result \in {"pending", "slow_down"} -> IF l \in expired THEN "expired" ELSE "waiting"
    [] result = "expired_token" -> "expired"
    [] result = "denied" -> "denied"
    [] OTHER -> "failed"

\* deviceGrant issues the token of an approved authorization, then answers.
\* The answer arrives, or is lost on the way.
Reply(i) ==
  /\ tx[i].pc = "reply"
  /\ LET t == tx[i] IN
       /\ issued' = IF t.op = "poll" /\ t.result = "approved"
                    THEN issued \cup {<<t.login, t.by>>} ELSE issued
       /\ \/ /\ login' = IF t.who = None THEN [login EXCEPT ![t.login] = Told(t.login, t.result)]
                         ELSE login
             /\ said' = IF t.who # None /\ t.result \in {"approved", "denied"}
                        THEN said \cup {<<t.login, t.who, t.result>>} ELSE said
             /\ UNCHANGED faults
          \/ /\ faults < MaxFaults
             /\ faults' = faults + 1
             /\ login' = IF t.who = None THEN [login EXCEPT ![t.login] = "failed"] ELSE login
             /\ UNCHANGED said
  /\ Tx(i, NoRequest)
  /\ UNCHANGED <<grants, expired, answers>>

\* The provider dies, or the store fails: a swap that was sent may be applied.
Die(i) ==
  /\ tx[i].pc \in {"load", "swap"}
  /\ faults < MaxFaults
  /\ faults' = faults + 1
  /\ \/ UNCHANGED grants
     \/ tx[i].pc = "swap" /\ Swaps(tx[i]) /\ grants' = tx[i].new
  /\ login' = IF tx[i].who = None THEN [login EXCEPT ![tx[i].login] = "failed"] ELSE login
  /\ Tx(i, NoRequest)
  /\ UNCHANGED <<expired, said, issued, answers>>

\* deviceCodeTTL passes
Expire(l) ==
  /\ login[l] # "new" /\ l \notin expired
  /\ expired' = expired \cup {l}
  /\ UNCHANGED <<grants, tx, login, said, issued, answers, faults>>

Serve(i) == Load(i) \/ Swap(i) \/ Reply(i)

DgNext ==
  \/ \E i \in Idps :
       \/ Serve(i) \/ Die(i)
       \/ \E l \in Logins :
            \/ Start(i, l) \/ Poll(i, l)
            \/ \E p \in People, op \in {"approve", "deny"} : Answer(i, l, p, op)
  \/ \E l \in Logins : Expire(l)

\* A provider finishes the requests it has, the command keeps polling.
DgSpec ==
  /\ DgInit /\ [][DgNext]_dgvars
  /\ \A i \in Idps : WF_dgvars(Serve(i))
  /\ \A l \in Logins : WF_dgvars(\E i \in Idps : Poll(i, l))

-----------------------------------------------------------------------------

\* transact: no more than maxDeviceAuthorizations are pending at a time,
\* however the requests of several providers fall.
PendingBounded == grants # None => Cardinality(DOMAIN grants) <= MaxPending

\* approve and deny: of all answers to a code, one is told that it decided;
\* when somebody was told, a token is issued for the one who was told that
\* they approved, and never after a denial.
DecidedOnce ==
  \A l \in Logins :
    /\ Cardinality({d \in said : d[1] = l}) <= 1
    /\ \A d \in said, g \in issued : d[1] = l /\ g[1] = l => d[3] = "approved" /\ g[2] = d[2]

\* deviceGrant: the approval that a person was told of becomes the token of
\* the command that waits for it, unless its code expires, or the command got
\* no answer or an error.
ApprovalGrants ==
  \A l \in Logins :
    []<>((\E d \in said : d[1] = l /\ d[3] = "approved") => login[l] \in {"token", "failed"} \/ l \in expired)

==============================================================================
