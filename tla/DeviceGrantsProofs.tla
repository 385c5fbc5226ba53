-------------------------- MODULE DeviceGrantsProofs --------------------------
(***************************************************************************)
(* DecidedOnce of DeviceGrants, for every number of providers, logins and  *)
(* people: of all answers to a code one decides it, and a token is issued  *)
(* only as the one who was told has decided.  The argument follows a code  *)
(* through the shared record: it is created once, while it is pending      *)
(* nobody has been told anything, once it is answered the record says what *)
(* was told, and once it is handed over it never comes back.               *)
(***************************************************************************)
EXTENDS DeviceGrants, FiniteSetTheorems, TLAPS

\* The state of an authorization.
Statuses == {"pending", "approved", "denied"}

Entries == [status : Statuses, by : People \cup {None}, polled : BOOLEAN]

\* What a transaction may answer.
Results == {"none", "capacity", "created", "not_found", "expired_token", "slow_down", "error"}
             \cup Statuses

\* The record, or none.
Tables == {None} \cup UNION {[S -> Entries] : S \in SUBSET Logins}

\* The transaction of a provider.
Requests ==
  [pc : {"free", "load", "swap", "reply"}, op : {"none", "create", "approve", "deny", "poll"},
   login : Logins \cup {None}, who : People \cup {None}, old : Tables, new : Tables,
   result : Results, by : People \cup {None}, tries : Nat]

\* Where a login may be.
Places == {"new", "asked", "waiting", "polling", "token", "denied", "expired", "failed"}

\* The types of the variables the argument is about.
DgTypeOK ==
  /\ grants \in Tables
  /\ tx \in [Idps -> Requests]
  /\ login \in [Logins -> Places]

\* The table has login l.
Has(g, l) == g # None /\ l \in DOMAIN g

\* g says of l what h says
Keeps(g, h, l) == Has(h, l) /\ g[l].status = h[l].status /\ g[l].by = h[l].by

\* What was answered, or is about to be: <<login, person, approved or denied>>
Deciding(t) == t.pc = "reply" /\ t.op \in {"approve", "deny"} /\ t.result \in {"approved", "denied"}
Claim(t) == <<t.login, t.who, t.result>>
Claims == said \cup {Claim(tx[i]) : i \in {j \in Idps : Deciding(tx[j])}}

\* Tokens that were issued, or are about to be: <<login, person>>
Granting(t) == t.pc = "reply" /\ t.op = "poll" /\ t.result = "approved"
Grants == issued \cup {<<tx[i].login, tx[i].by>> : i \in {j \in Idps : Granting(tx[j])}}

\* The request of l that creates its code is under way.
Creating(t) == t.op = "create" /\ t.pc \in {"load", "swap"}
Unborn(l) == login[l] = "new" \/ \E i \in Idps : Creating(tx[i]) /\ tx[i].login = l

\* What request op of l may make of the table old, and with which result.
Allowed(op, l, p, old, new, result, by) ==
  /\ \A k : Has(new, k) /\ k # l => Keeps(new, old, k)
  /\ op = "create" => (Has(new, l) => new[l].status = "pending")
  /\ op \in {"approve", "deny"} /\ result \in {"approved", "denied"} =>
       /\ Has(old, l) /\ old[l].status = "pending"
       /\ Has(new, l) => new[l].status = result /\ new[l].by = p
  /\ op = "poll" /\ result \in {"approved", "denied"} =>
       /\ Has(old, l) /\ old[l].status = result /\ old[l].by = by
       /\ ~Has(new, l)
  /\ op # "create" /\ result \notin {"approved", "denied"} => (Has(new, l) => Keeps(new, old, l))

\* What transaction t is about to swap.
SwapOf(t) == Allowed(t.op, t.login, t.who, t.old, t.new, t.result, t.by)

\* What a provider is about to swap was allowed for what it read.
RequestInv ==
  \A i \in Idps :
    /\ tx[i].pc = "swap" => SwapOf(tx[i])
    /\ tx[i].op = "none" <=> tx[i].pc = "free"
    /\ tx[i].op \in {"approve", "deny"} => tx[i].who # None
    /\ tx[i].op \in {"create", "poll"} => tx[i].who = None
    /\ tx[i].op # "none" => tx[i].login \in Logins

\* Before its code exists nobody has answered a login or been given its token,
\* and a command has one request under way.
BirthInv ==
  /\ \A l \in Logins : Unborn(l) =>
       /\ ~Has(grants, l)
       /\ \A d \in Claims : d[1] # l
       /\ \A g \in Grants : g[1] # l
       /\ \A i \in Idps : tx[i].op # "none" /\ tx[i].login = l => tx[i].op = "create"
  /\ \A i \in Idps : tx[i].op = "create" => login[tx[i].login] = "asked"
  /\ \A i \in Idps : tx[i].op = "poll" => login[tx[i].login] = "polling"
  /\ \A i, j \in Idps :
       {tx[i].op, tx[j].op} \subseteq {"create", "poll"} /\ tx[i].login = tx[j].login => i = j

\* The record says what was told of a code, one was told at most, and a code
\* that was handed over is gone.
ClaimInv ==
  /\ \A d \in Claims : Has(grants, d[1]) => grants[d[1]].status = d[3] /\ grants[d[1]].by = d[2]
  /\ \A d, e \in Claims : d[1] = e[1] => d = e
  /\ \A d \in Claims : d[3] \in {"approved", "denied"}
  /\ \A g \in Grants : ~Has(grants, g[1])
  /\ \A g \in Grants, d \in Claims : g[1] = d[1] => d[3] = "approved" /\ g[2] = d[2]

\* The inductive invariant.
DgInv == DgTypeOK /\ RequestInv /\ BirthInv /\ ClaimInv

-----------------------------------------------------------------------------

USE DgAssumption DEF DgAssumption

\* Marking an entry as polled.
LEMMA PolledEntry ==
  ASSUME NEW e \in Entries
  PROVE  /\ e.status \in Statuses /\ e.by \in People \cup {None}
         /\ [e EXCEPT !.polled = TRUE] \in Entries
         /\ [e EXCEPT !.polled = TRUE].status = e.status
         /\ [e EXCEPT !.polled = TRUE].by = e.by
  BY Zenon DEF Entries

\* A new authorization.
LEMMA PendingEntry == Pending \in Entries /\ Pending.status = "pending"
  BY Zenon DEF Pending, Entries, Statuses

\* What transact finds is part of the record.
LEMMA LiveTable ==
  ASSUME grants \in Tables
  PROVE  \E S \in SUBSET Logins :
           /\ Live \in [S -> Entries]
           /\ \A k \in S : Has(grants, k) /\ Live[k] = grants[k]
<1>1. CASE grants = None
  <2>1. Live \in [{} -> Entries]
    BY <1>1 DEF Live
  <2>2. QED
    BY <2>1
<1>2. CASE grants # None
  <2>1. PICK S \in SUBSET Logins : grants \in [S -> Entries]
    BY <1>2 DEF Tables
  <2>2. /\ Live \in [S \ expired -> Entries]
        /\ \A k \in S \ expired : Has(grants, k) /\ Live[k] = grants[k]
    BY <1>2, <2>1 DEF Live, Restrict, Has
  <2>3. QED
    BY <2>2
<1>3. QED
  BY <1>1, <1>2

\* create adds a pending code and touches no other.
LEMMA CreateAllowed ==
  ASSUME grants \in Tables, NEW l \in Logins, NEW p, NEW c, c = Create(Live, l), c.result # "capacity"
  PROVE  /\ c.new \in Tables /\ c.result \in Results /\ c.by = None
         /\ Allowed("create", l, p, grants, c.new, c.result, c.by)
<1>1. PICK S \in SUBSET Logins :
           /\ Live \in [S -> Entries]
           /\ \A k \in S : Has(grants, k) /\ Live[k] = grants[k]
  BY LiveTable
<1> DEFINE n == [k \in DOMAIN Live \cup {l} |-> IF k = l THEN Pending ELSE Live[k]]
<1>2. c.new = n /\ c.result = "created" /\ c.by = None
  BY DEF Create, Change
<1>3. n \in [S \cup {l} -> Entries]
  BY <1>1, PendingEntry
<1>4. n \in Tables
  BY <1>3 DEF Tables
<1>5. n[l].status = "pending" /\ \A k \in S : k # l => n[k] = grants[k]
  BY <1>1, PendingEntry
<1>6. \A k : Has(n, k) /\ k # l => Keeps(n, grants, k)
  BY <1>1, <1>3, <1>5 DEF Has, Keeps
<1> HIDE DEF n
<1>7. QED
  BY <1>2, <1>4, <1>5, <1>6 DEF Allowed, Results

\* approve and deny answer a pending code, or change nothing.
LEMMA ResolveAllowed ==
  ASSUME grants \in Tables, NEW l \in Logins, NEW p \in People, NEW op \in {"approve", "deny"},
         NEW s \in {"approved", "denied"}, NEW c, c = Resolve(Live, l, p, s)
  PROVE  /\ c.new \in Tables /\ c.result \in Results /\ c.by = None
         /\ Allowed(op, l, p, grants, c.new, c.result, c.by)
<1>1. PICK S \in SUBSET Logins :
           /\ Live \in [S -> Entries]
           /\ \A k \in S : Has(grants, k) /\ Live[k] = grants[k]
  BY LiveTable
<1>2. CASE l \in DOMAIN Live /\ Live[l].status = "pending"
  <2> DEFINE n == [Live EXCEPT ![l] = [@ EXCEPT !.status = s, !.by = p]]
  <2> DEFINE e == Live[l]
             m == [e EXCEPT !.status = s, !.by = p]
  <2>1. c.new = n /\ c.result = s /\ c.by = None
    BY <1>2 DEF Resolve, Change
  <2>2. e \in Entries /\ s \in Statuses
    BY <1>1, <1>2 DEF Statuses
  <2>3. n = [Live EXCEPT ![l] = m]
    BY Zenon
  <2> HIDE DEF e
  <2>4. m \in Entries /\ m.status = s /\ m.by = p
    BY <2>2, Zenon DEF Entries
  <2> HIDE DEF m
  <2>5. /\ n \in [S -> Entries]
        /\ n[l] = m
        /\ \A k \in S : k # l => n[k] = Live[k]
    BY <1>1, <1>2, <2>3, <2>4
  <2>6. Has(grants, l) /\ grants[l].status = "pending"
    BY <1>1, <1>2
  <2>7. \A k : Has(n, k) /\ k # l => Keeps(n, grants, k)
    BY <1>1, <2>5 DEF Has, Keeps
  <2>8. n \in Tables
    BY <2>5 DEF Tables
  <2> HIDE DEF n
  <2>9. QED
    BY <2>1, <2>4, <2>5, <2>6, <2>7, <2>8 DEF Allowed, Results, Statuses
<1>3. CASE ~(l \in DOMAIN Live /\ Live[l].status = "pending")
  <2>1. c.new = Live /\ c.result = "not_found" /\ c.by = None
    BY <1>3 DEF Resolve, Change
  <2>2. Live \in Tables
    BY <1>1 DEF Tables
  <2>3. \A k : Has(Live, k) => Keeps(Live, grants, k)
    BY <1>1 DEF Has, Keeps
  <2>4. QED
    BY <2>1, <2>2, <2>3 DEF Allowed, Results
<1>4. QED
  BY <1>2, <1>3

\* poll hands over an answered code and removes it, or answers nothing.
LEMMA PollAllowed ==
  ASSUME grants \in Tables, NEW l \in Logins, NEW p, NEW early \in BOOLEAN,
         NEW c, c = PollChange(Live, l, early)
  PROVE  /\ c.new \in Tables /\ c.result \in Results /\ c.by \in People \cup {None}
         /\ Allowed("poll", l, p, grants, c.new, c.result, c.by)
<1>1. PICK S \in SUBSET Logins :
           /\ Live \in [S -> Entries]
           /\ \A k \in S : Has(grants, k) /\ Live[k] = grants[k]
  BY LiveTable
<1>2. CASE l \notin DOMAIN Live
  <2>1. c.new = Live /\ c.result = "expired_token" /\ c.by = None
    BY <1>2 DEF PollChange, Change
  <2>2. Live \in Tables
    BY <1>1 DEF Tables
  <2>3. \A k : Has(Live, k) => Keeps(Live, grants, k)
    BY <1>1 DEF Has, Keeps
  <2>4. QED
    BY <2>1, <2>2, <2>3 DEF Allowed, Results
<1>3. CASE l \in DOMAIN Live /\ Live[l].status # "pending"
  <2> DEFINE n == [k \in DOMAIN Live \ {l} |-> Live[k]]
  <2>1. c.new = n /\ c.result = Live[l].status /\ c.by = Live[l].by
    BY <1>3 DEF PollChange, Consumed, Restrict
  <2>2. n \in [S \ {l} -> Entries] /\ \A k \in S \ {l} : n[k] = Live[k]
    BY <1>1
  <2>3. ~Has(n, l) /\ \A k : Has(n, k) => Keeps(n, grants, k)
    BY <1>1, <2>2 DEF Has, Keeps
  <2>4. Has(grants, l) /\ grants[l] = Live[l]
    BY <1>1, <1>3
  <2>5. Live[l].status \in Statuses \ {"pending"} /\ Live[l].by \in People \cup {None}
    BY <1>1, <1>3, PolledEntry
  <2>6. n \in Tables
    BY <2>2 DEF Tables
  <2> HIDE DEF n
  <2>7. QED
    BY <2>1, <2>3, <2>4, <2>5, <2>6 DEF Allowed, Results, Statuses
<1>4. CASE l \in DOMAIN Live /\ Live[l].status = "pending"
  <2> DEFINE n == [Live EXCEPT ![l].polled = TRUE]
  <2>1. c.new = n /\ c.result \in {"slow_down", "pending"} /\ c.by = None
    BY <1>4 DEF PollChange, Change
  <2>2. /\ n \in [S -> Entries]
        /\ n[l] = [Live[l] EXCEPT !.polled = TRUE]
        /\ \A k \in S : k # l => n[k] = Live[k]
    BY <1>1, <1>4, PolledEntry
  <2>3. n[l].status = Live[l].status /\ n[l].by = Live[l].by
    BY <1>1, <1>4, <2>2, PolledEntry
  <2>4. \A k : Has(n, k) => Keeps(n, grants, k)
    BY <1>1, <2>2, <2>3 DEF Has, Keeps
  <2>5. n \in Tables
    BY <2>2 DEF Tables
  <2> HIDE DEF n
  <2>6. QED
    BY <2>1, <2>4, <2>5 DEF Allowed, Results, Statuses
<1>5. QED
  BY <1>2, <1>3, <1>4

\* transact up to its swap: a change that is allowed, or no room for a new code.
LEMMA LoadedRequest ==
  ASSUME DgTypeOK, NEW i \in Idps, NEW t \in Requests, Loaded(i, t),
         t.op # "none", t.login \in Logins, t.op \in {"approve", "deny"} => t.who \in People
  PROVE  \E u \in Requests :
           /\ tx' = [tx EXCEPT ![i] = u]
           /\ u.op = t.op /\ u.login = t.login /\ u.who = t.who
           /\ \/ u.pc = "swap" /\ SwapOf(u)
              \/ u.pc = "reply" /\ u.result = "capacity"
<1>1. PICK early \in BOOLEAN :
        LET c == Changed(t, early) IN
          Tx(i, IF c.result = "capacity" THEN [t EXCEPT !.pc = "reply", !.result = c.result]
                ELSE [t EXCEPT !.pc = "swap", !.old = grants, !.new = c.new, !.result = c.result,
                               !.by = c.by])
  BY DEF Loaded
<1> DEFINE c == Changed(t, early)
<1>2. CASE c.result = "capacity"
  <2> DEFINE u == [t EXCEPT !.pc = "reply", !.result = "capacity"]
  <2>1. tx' = [tx EXCEPT ![i] = u]
    BY <1>1, <1>2 DEF Tx
  <2>2. /\ u \in Requests /\ u.pc = "reply" /\ u.result = "capacity"
        /\ u.op = t.op /\ u.login = t.login /\ u.who = t.who
    BY DEF Requests, Results
  <2>3. QED
    BY <2>1, <2>2
<1>3. CASE c.result # "capacity"
  <2>1. /\ c.new \in Tables /\ c.result \in Results /\ c.by \in People \cup {None}
        /\ Allowed(t.op, t.login, t.who, grants, c.new, c.result, c.by)
    <3>1. CASE t.op = "create"
      <4>1. c = Create(Live, t.login)
        BY <3>1 DEF Changed
      <4>2. QED
        BY <1>3, <3>1, <4>1, CreateAllowed DEF DgTypeOK
    <3>2. CASE t.op = "approve"
      <4>1. c = Resolve(Live, t.login, t.who, "approved")
        BY <3>2 DEF Changed
      <4>2. QED
        BY <3>2, <4>1, ResolveAllowed DEF DgTypeOK
    <3>3. CASE t.op = "deny"
      <4>1. c = Resolve(Live, t.login, t.who, "denied")
        BY <3>3 DEF Changed
      <4>2. QED
        BY <3>3, <4>1, ResolveAllowed DEF DgTypeOK
    <3>4. CASE t.op = "poll"
      <4>1. c = PollChange(Live, t.login, early)
        BY <3>4 DEF Changed
      <4>2. QED
        BY <3>4, <4>1, PollAllowed DEF DgTypeOK
    <3>5. QED
      BY <3>1, <3>2, <3>3, <3>4 DEF Requests
  <2> DEFINE u == [t EXCEPT !.pc = "swap", !.old = grants, !.new = c.new, !.result = c.result,
                            !.by = c.by]
  <2>2. tx' = [tx EXCEPT ![i] = u]
    BY <1>1, <1>3 DEF Tx
  <2> HIDE DEF c
  <2>3. /\ u \in Requests /\ u.pc = "swap"
        /\ u.op = t.op /\ u.login = t.login /\ u.who = t.who
        /\ u.old = grants /\ u.new = c.new /\ u.result = c.result /\ u.by = c.by
    BY <2>1 DEF Requests, DgTypeOK
  <2>4. SwapOf(u)
    BY <2>1, <2>3 DEF SwapOf
  <2>5. QED
    BY <2>2, <2>3, <2>4
<1>4. QED
  BY <1>2, <1>3

\* A transaction that moves on without an answer adds none.
LEMMA QuietMove ==
  ASSUME DgTypeOK, NEW i \in Idps, NEW u \in Requests, tx' = [tx EXCEPT ![i] = u],
         ~Deciding(u), ~Granting(u), said' = said, issued' = issued
  PROVE  Claims' \subseteq Claims /\ Grants' \subseteq Grants
<1>1. \A j \in Idps : Deciding(tx[j])' => Deciding(tx[j]) /\ tx'[j] = tx[j]
  BY DEF DgTypeOK
<1>2. \A j \in Idps : Granting(tx[j])' => Granting(tx[j]) /\ tx'[j] = tx[j]
  BY DEF DgTypeOK
<1>3. QED
  BY <1>1, <1>2 DEF Claims, Grants, Claim

\* What was answered stays right as long as the table keeps what it says of it.
LEMMA ClaimFrame ==
  ASSUME ClaimInv, Claims' \subseteq Claims, Grants' \subseteq Grants,
         \A d \in Claims : Has(grants', d[1]) => Keeps(grants', grants, d[1]),
         \A g \in Grants : Has(grants', g[1]) => Has(grants, g[1])
  PROVE  ClaimInv'
  BY DEF ClaimInv, Keeps

\* A swap that is applied creates the code it was asked to create, and keeps
\* what the table says of every code that was answered.
LEMMA SwapApplied ==
  ASSUME DgTypeOK, RequestInv, BirthInv, ClaimInv, NEW i \in Idps, tx[i].pc = "swap",
         grants = tx[i].old, grants' = tx[i].new
  PROVE  /\ \A d \in Claims : Has(grants', d[1]) => Keeps(grants', grants, d[1])
         /\ \A g \in Grants : Has(grants', g[1]) => Has(grants, g[1])
         /\ \A k : Has(grants', k) => Has(grants, k) \/ (k = tx[i].login /\ Creating(tx[i]))
<1> DEFINE t == tx[i]
<1>1. /\ SwapOf(t) /\ t.op # "none" /\ t.login \in Logins
  BY DEF RequestInv
<1>2. \A k : Has(grants', k) /\ k # t.login => Keeps(grants', grants, k)
  BY <1>1 DEF SwapOf, Allowed
<1>3. CASE t.op = "create"
  <2>1. Unborn(t.login)
    BY <1>3 DEF Unborn, Creating
  <2>2. (\A d \in Claims : d[1] # t.login) /\ \A g \in Grants : g[1] # t.login
    BY <1>1, <2>1 DEF BirthInv
  <2>3. QED
    BY <1>2, <1>3, <2>2 DEF Keeps, Creating
<1>4. CASE t.op # "create" /\ t.result \notin {"approved", "denied"}
  <2>1. Has(grants', t.login) => Keeps(grants', grants, t.login)
    BY <1>1, <1>4 DEF SwapOf, Allowed
  <2>2. QED
    BY <1>2, <2>1 DEF Keeps
<1>5. CASE t.op \in {"approve", "deny"} /\ t.result \in {"approved", "denied"}
  <2>1. Has(grants, t.login) /\ grants[t.login].status = "pending"
    BY <1>1, <1>5 DEF SwapOf, Allowed
  <2>2. \A d \in Claims : d[1] # t.login
    BY <2>1 DEF ClaimInv
  <2>3. QED
    BY <1>2, <2>1, <2>2 DEF Keeps
<1>6. CASE t.op = "poll" /\ t.result \in {"approved", "denied"}
  <2>1. ~Has(grants', t.login)
    BY <1>1, <1>6 DEF SwapOf, Allowed
  <2>2. QED
    BY <1>2, <2>1 DEF Keeps
<1>7. t.op \in {"create", "approve", "deny", "poll"}
  BY <1>1 DEF DgTypeOK, Requests
<1>8. QED
  BY <1>1, <1>3, <1>4, <1>5, <1>6, <1>7

\* A code comes into being once: what transaction i may do next.
LEMMA BirthStep ==
  ASSUME DgTypeOK, RequestInv, BirthInv, NEW i \in Idps, NEW u \in Requests,
         tx' = [tx EXCEPT ![i] = u],
         \A l \in Logins : login'[l] = "new" => login[l] = "new",
         \A j \in Idps \ {i} : tx[j].op \in {"create", "poll"} => login'[tx[j].login] = login[tx[j].login],
         u.op # "none" => u.login \in Logins,
         \/ u.op = "none"
         \/ /\ u.op = tx[i].op /\ u.login = tx[i].login /\ login'[u.login] = login[u.login]
            /\ Creating(u) => Creating(tx[i])
         \/ u.op = "create" /\ login[u.login] = "new" /\ login'[u.login] = "asked"
         \/ u.op = "poll" /\ login[u.login] = "waiting" /\ login'[u.login] = "polling"
         \/ u.op \in {"approve", "deny"} /\ login[u.login] \in {"waiting", "polling"},
         \A d \in Claims' : d \in Claims \/ Has(grants, d[1]),
         \A g \in Grants' : g \in Grants \/ Has(grants, g[1]),
         \A k : Has(grants', k) =>
           Has(grants, k) \/ (k = tx[i].login /\ Creating(tx[i]) /\ ~Creating(u))
  PROVE  BirthInv'
<1>1. tx'[i] = u /\ \A j \in Idps \ {i} : tx'[j] = tx[j]
  BY DEF DgTypeOK
<1>2. ASSUME NEW l \in Logins, Unborn(l)' PROVE Unborn(l)
  <2>1. CASE login'[l] = "new"
    BY <2>1 DEF Unborn
  <2>2. CASE \E j \in Idps : Creating(tx'[j]) /\ tx'[j].login = l
    BY <1>1, <2>2 DEF Unborn, Creating
  <2>3. QED
    BY <1>2, <2>1, <2>2 DEF Unborn
<1>3. ASSUME NEW l \in Logins, Unborn(l)' PROVE ~Has(grants', l)
  <2>1. ~Has(grants, l)
    BY <1>2, <1>3 DEF BirthInv
  <2>2. ASSUME l = tx[i].login, Creating(tx[i]), ~Creating(u) PROVE FALSE
    <3>1. login[l] = "asked"
      BY <2>2 DEF BirthInv, Creating
    <3>2. \A j \in Idps : Creating(tx[j]) /\ tx[j].login = l => j = i
      BY <2>2 DEF BirthInv, Creating
    <3>3. QED
      BY <1>1, <1>3, <2>2, <3>1, <3>2 DEF Unborn
  <2>3. QED
    BY <2>1, <2>2
<1>4. ASSUME NEW l \in Logins, Unborn(l)'
      PROVE  (\A d \in Claims' : d[1] # l) /\ \A g \in Grants' : g[1] # l
  BY <1>2, <1>4 DEF BirthInv
<1>5. ASSUME NEW l \in Logins, Unborn(l)', NEW j \in Idps, tx'[j].op # "none", tx'[j].login = l
      PROVE  tx'[j].op = "create"
  <2>1. CASE j # i
    BY <1>1, <1>2, <1>5, <2>1 DEF BirthInv
  <2>2. CASE j = i
    <3>1. login[l] \notin {"waiting", "polling"}
      BY <1>2, <1>5 DEF BirthInv, Unborn, Creating
    <3>2. tx[i].op # "none" /\ tx[i].login = l => tx[i].op = "create"
      BY <1>2, <1>5 DEF BirthInv
    <3>3. QED
      BY <1>1, <1>5, <2>2, <3>1, <3>2
  <2>3. QED
    BY <2>1, <2>2
<1>6. \A j \in Idps :
        /\ tx'[j].op = "create" => login'[tx'[j].login] = "asked"
        /\ tx'[j].op = "poll" => login'[tx'[j].login] = "polling"
  BY <1>1 DEF BirthInv
<1>7. \A j \in Idps \ {i} : {u.op, tx[j].op} \subseteq {"create", "poll"} => u.login # tx[j].login
  BY DEF BirthInv
<1>8. \A j, k \in Idps : {tx'[j].op, tx'[k].op} \subseteq {"create", "poll"} /\ tx'[j].login = tx'[k].login => j = k
  BY <1>1, <1>7 DEF BirthInv
<1>9. ASSUME NEW l \in Logins, Unborn(l)'
      PROVE  \A j \in Idps : tx'[j].op # "none" /\ tx'[j].login = l => tx'[j].op = "create"
  BY <1>5, <1>9
<1>10. \A l \in Logins : Unborn(l)' =>
         /\ ~Has(grants', l)
         /\ \A d \in Claims' : d[1] # l
         /\ \A g \in Grants' : g[1] # l
         /\ \A j \in Idps : tx'[j].op # "none" /\ tx'[j].login = l => tx'[j].op = "create"
  BY <1>3, <1>4, <1>9
<1>11. QED
  BY <1>6, <1>8, <1>10 DEF BirthInv

\* No request is a request, and none of the others.
LEMMA NoRequestType ==
  /\ NoRequest \in Requests
  /\ NoRequest.pc = "free" /\ NoRequest.op = "none"
  /\ ~Deciding(NoRequest) /\ ~Granting(NoRequest) /\ ~Creating(NoRequest)
<1>1. /\ NoRequest \in Requests
      /\ NoRequest.pc = "free" /\ NoRequest.op = "none"
  BY DEF NoRequest, Requests, Tables, Results, Statuses
<1>2. QED
  BY <1>1 DEF Deciding, Granting, Creating

\* The part of RequestInv that concerns one transaction.
RequestOK(t) ==
  /\ t.pc = "swap" => SwapOf(t)
  /\ t.op = "none" <=> t.pc = "free"
  /\ t.op \in {"approve", "deny"} => t.who # None
  /\ t.op \in {"create", "poll"} => t.who = None
  /\ t.op # "none" => t.login \in Logins

\* A request arrives at provider i, or is tried again.
LEMMA LoadStep ==
  ASSUME DgInv, NEW i \in Idps, NEW t \in Requests, Loaded(i, t), UNCHANGED <<grants, said, issued>>,
         login' \in [Logins -> Places], t.op # "none", t.login \in Logins,
         t.op \in {"approve", "deny"} => t.who \in People,
         t.op \in {"create", "poll"} => t.who = None,
         \A l \in Logins : login'[l] = "new" => login[l] = "new",
         \A j \in Idps \ {i} : tx[j].op \in {"create", "poll"} => login'[tx[j].login] = login[tx[j].login],
         \/ t = tx[i] /\ t.pc = "load" /\ login' = login
         \/ t.op = "create" /\ login[t.login] = "new" /\ login'[t.login] = "asked"
         \/ t.op = "poll" /\ login[t.login] = "waiting" /\ login'[t.login] = "polling"
         \/ t.op \in {"approve", "deny"} /\ login[t.login] \in {"waiting", "polling"}
  PROVE  DgInv'
<1>1. PICK u \in Requests :
           /\ tx' = [tx EXCEPT ![i] = u]
           /\ u.op = t.op /\ u.login = t.login /\ u.who = t.who
           /\ \/ u.pc = "swap" /\ SwapOf(u)
              \/ u.pc = "reply" /\ u.result = "capacity"
  BY LoadedRequest DEF DgInv
<1>2. DgTypeOK'
  BY <1>1 DEF DgInv, DgTypeOK
<1>3. ~Deciding(u) /\ ~Granting(u)
  BY <1>1 DEF Deciding, Granting
<1>4. Claims' \subseteq Claims /\ Grants' \subseteq Grants
  BY <1>1, <1>3, QuietMove DEF DgInv
<1>5. ClaimInv'
  BY <1>4, ClaimFrame DEF DgInv, Keeps
<1>6. RequestOK(u)
  BY <1>1 DEF RequestOK
<1>7. RequestInv'
  BY <1>1, <1>6 DEF DgInv, DgTypeOK, RequestInv, RequestOK
<1>8. Creating(u) /\ t = tx[i] /\ t.pc = "load" => Creating(tx[i])
  BY <1>1 DEF Creating
<1>9. BirthInv'
  BY <1>1, <1>4, <1>8, BirthStep DEF DgInv
<1>10. QED
  BY <1>2, <1>5, <1>7, <1>9 DEF DgInv

\* The first request of a login: its code is new.
LEMMA StartStep ==
  ASSUME DgInv, NEW i \in Idps, NEW l \in Logins, Start(i, l)
  PROVE  DgInv'
<1> DEFINE t == [NoRequest EXCEPT !.op = "create", !.login = l, !.who = None]
<1>1. t \in Requests /\ t.op = "create" /\ t.login = l /\ t.who = None
  BY DEF NoRequest, Requests, Tables, Results, Statuses
<1>2. Loaded(i, t) /\ login[l] = "new" /\ UNCHANGED <<grants, said, issued>>
  BY DEF Start, Asked
<1>3. login' = [login EXCEPT ![l] = "asked"]
  BY DEF Start
<1> HIDE DEF t
<1>4. login' \in [Logins -> Places] /\ login'[l] = "asked" /\ \A k \in Logins : k # l => login'[k] = login[k]
  BY <1>3 DEF DgInv, DgTypeOK, Places
<1>5. \A j \in Idps : tx[j].op \in {"create", "poll"} => tx[j].login \in Logins /\ tx[j].login # l
  BY <1>2 DEF DgInv, BirthInv, RequestInv
<1>6. QED
  BY <1>1, <1>2, <1>4, <1>5, LoadStep

\* A poll: the command has no other request under way.
LEMMA PollStep ==
  ASSUME DgInv, NEW i \in Idps, NEW l \in Logins, Poll(i, l)
  PROVE  DgInv'
<1> DEFINE t == [NoRequest EXCEPT !.op = "poll", !.login = l, !.who = None]
<1>1. t \in Requests /\ t.op = "poll" /\ t.login = l /\ t.who = None
  BY DEF NoRequest, Requests, Tables, Results, Statuses
<1>2. Loaded(i, t) /\ login[l] = "waiting" /\ UNCHANGED <<grants, said, issued>>
  BY DEF Poll, Asked
<1>3. login' = [login EXCEPT ![l] = "polling"]
  BY DEF Poll
<1> HIDE DEF t
<1>4. login' \in [Logins -> Places] /\ login'[l] = "polling" /\ \A k \in Logins : k # l => login'[k] = login[k]
  BY <1>3 DEF DgInv, DgTypeOK, Places
<1>5. \A j \in Idps : tx[j].op \in {"create", "poll"} => tx[j].login \in Logins /\ tx[j].login # l
  BY <1>2 DEF DgInv, BirthInv, RequestInv
<1>6. QED
  BY <1>1, <1>2, <1>4, <1>5, LoadStep

\* An answer of a person comes once the code is shown.
LEMMA AnswerStep ==
  ASSUME DgInv, NEW i \in Idps, NEW l \in Logins, NEW p \in People, NEW op \in {"approve", "deny"},
         Answer(i, l, p, op)
  PROVE  DgInv'
<1> DEFINE t == [NoRequest EXCEPT !.op = op, !.login = l, !.who = p]
<1>1. t \in Requests /\ t.op = op /\ t.login = l /\ t.who = p
  BY DEF NoRequest, Requests, Tables, Results, Statuses
<1>2. Loaded(i, t) /\ login[l] \in {"waiting", "polling"} /\ UNCHANGED <<grants, login, said, issued>>
  BY DEF Answer, Asked
<1> HIDE DEF t
<1>3. QED
  BY <1>1, <1>2, LoadStep DEF DgInv, DgTypeOK

\* The next attempt computes its change anew.
LEMMA RetryStep ==
  ASSUME DgInv, NEW i \in Idps, Load(i)
  PROVE  DgInv'
<1>1. Loaded(i, tx[i]) /\ tx[i].pc = "load" /\ UNCHANGED <<grants, login, said, issued>>
  BY DEF Load
<1>2. /\ tx[i] \in Requests /\ tx[i].op # "none" /\ tx[i].login \in Logins
      /\ tx[i].op \in {"approve", "deny"} => tx[i].who \in People
      /\ tx[i].op \in {"create", "poll"} => tx[i].who = None
  <2>1. tx[i] \in Requests /\ tx[i].who \in People \cup {None}
    BY DEF DgInv, DgTypeOK, Requests
  <2>2. QED
    BY <1>1, <2>1 DEF DgInv, RequestInv
<1>3. QED
  BY <1>1, <1>2, LoadStep DEF DgInv, DgTypeOK

\* The swap: a transaction that wins it is about to answer what it stored.
LEMMA SwapStep ==
  ASSUME DgInv, NEW i \in Idps, Swap(i)
  PROVE  DgInv'
<1> DEFINE t == tx[i]
<1>1. /\ t \in Requests /\ t.pc = "swap" /\ RequestOK(t) /\ t.op # "none"
      /\ UNCHANGED <<login, said, issued>>
  BY DEF DgInv, DgTypeOK, RequestInv, RequestOK, Swap
<1>2. ASSUME NEW u \in Requests, tx' = [tx EXCEPT ![i] = u], u.pc \in {"load", "reply"},
             u.op = t.op, u.login = t.login, u.who = t.who, grants' \in Tables
      PROVE  DgTypeOK' /\ RequestInv'
  BY <1>1, <1>2 DEF DgInv, DgTypeOK, RequestInv, RequestOK
<1>3. CASE Swaps(t)
  <2> DEFINE u == [t EXCEPT !.pc = "reply", !.old = None, !.new = None, !.tries = 0]
  <2>1. tx' = [tx EXCEPT ![i] = u] /\ grants = t.old /\ grants' = t.new
    BY <1>3 DEF Swap, Swaps, Tx
  <2>2. /\ u \in Requests /\ u.pc = "reply" /\ u.op = t.op /\ u.login = t.login /\ u.who = t.who
        /\ u.result = t.result /\ u.by = t.by /\ t.new \in Tables
    BY <1>1 DEF Requests, Tables
  <2> HIDE DEF u
  <2>3. DgTypeOK' /\ RequestInv'
    BY <1>2, <2>1, <2>2
  <2>4. /\ \A d \in Claims : Has(grants', d[1]) => Keeps(grants', grants, d[1])
        /\ \A g \in Grants : Has(grants', g[1]) => Has(grants, g[1])
        /\ \A k : Has(grants', k) => Has(grants, k) \/ (k = t.login /\ Creating(t))
    BY <1>1, <2>1, SwapApplied DEF DgInv
  <2>5. SwapOf(t)
    BY <1>1 DEF RequestOK
  <2>6. ~Creating(u)
    BY <2>2 DEF Creating
  <2>7. ASSUME ClaimInv', \A d \in Claims' : d \in Claims \/ Has(grants, d[1]),
               \A g \in Grants' : g \in Grants \/ Has(grants, g[1])
        PROVE  DgInv'
    <3>1. BirthInv'
      BY <1>1, <2>1, <2>2, <2>4, <2>6, <2>7, BirthStep DEF DgInv, RequestOK
    <3>2. QED
      BY <2>3, <2>7, <3>1 DEF DgInv
  <2>8. CASE ~Deciding(u) /\ ~Granting(u)
    <3>1. Claims' \subseteq Claims /\ Grants' \subseteq Grants
      BY <1>1, <2>1, <2>2, <2>8, QuietMove DEF DgInv
    <3>2. ClaimInv'
      BY <2>4, <3>1, ClaimFrame DEF DgInv
    <3>3. QED
      BY <2>7, <3>1, <3>2
  <2>9. CASE Deciding(u)
    <3>1. /\ t.result \in {"approved", "denied"}
          /\ Has(grants, t.login) /\ grants[t.login].status = "pending"
          /\ Has(grants', t.login) => grants'[t.login].status = t.result /\ grants'[t.login].by = t.who
      BY <2>1, <2>2, <2>5, <2>9 DEF Deciding, SwapOf, Allowed
    <3>2. ~Granting(u)
      BY <2>9 DEF Deciding, Granting
    <3>3. Claims' \subseteq Claims \cup {Claim(u)} /\ Grants' \subseteq Grants
      BY <1>1, <2>1, <3>2 DEF DgInv, DgTypeOK, Claims, Grants
    <3>4. Claim(u) = <<t.login, t.who, t.result>>
      BY <2>2 DEF Claim
    <3>5. (\A d \in Claims : d[1] # t.login) /\ (\A g \in Grants : g[1] # t.login)
      BY <3>1 DEF DgInv, ClaimInv
    <3>6. ClaimInv'
      BY <2>4, <3>1, <3>3, <3>4, <3>5 DEF DgInv, ClaimInv, Keeps
    <3>7. QED
      BY <2>7, <3>1, <3>3, <3>4, <3>6
  <2>10. CASE Granting(u)
    <3>1. /\ t.result = "approved"
          /\ Has(grants, t.login) /\ grants[t.login].status = "approved" /\ grants[t.login].by = t.by
          /\ ~Has(grants', t.login)
      BY <2>1, <2>2, <2>5, <2>10 DEF Granting, SwapOf, Allowed
    <3>2. ~Deciding(u)
      BY <2>10 DEF Deciding, Granting
    <3>3. Claims' \subseteq Claims /\ Grants' \subseteq Grants \cup {<<t.login, t.by>>}
      BY <1>1, <2>1, <2>2, <3>2 DEF DgInv, DgTypeOK, Claims, Grants
    <3>4. \A d \in Claims : d[1] = t.login => d[3] = "approved" /\ d[2] = t.by
      BY <3>1 DEF DgInv, ClaimInv
    <3>5. ClaimInv'
      BY <2>4, <3>1, <3>3, <3>4 DEF DgInv, ClaimInv, Keeps
    <3>6. QED
      BY <2>7, <3>1, <3>3, <3>5
  <2>11. QED
    BY <2>8, <2>9, <2>10
<1>4. CASE ~Swaps(t)
  <2>1. ASSUME NEW u \in Requests, tx' = [tx EXCEPT ![i] = u], u.pc \in {"load", "reply"},
               u.op = t.op, u.login = t.login, u.who = t.who,
               u.pc = "load" \/ u.result = "error"
        PROVE  DgInv'
    <3>1. UNCHANGED grants
      BY <1>4 DEF Swap
    <3>2. ~Deciding(u) /\ ~Granting(u)
      BY <2>1 DEF Deciding, Granting
    <3>3. Creating(u) => Creating(t)
      BY <1>1, <2>1 DEF Creating
    <3>4. Claims' \subseteq Claims /\ Grants' \subseteq Grants
      BY <1>1, <2>1, <3>2, QuietMove DEF DgInv
    <3>5. ClaimInv'
      BY <3>1, <3>4, ClaimFrame DEF DgInv, Keeps
    <3>6. BirthInv'
      BY <1>1, <2>1, <3>1, <3>3, <3>4, BirthStep DEF DgInv, RequestOK
    <3>7. DgTypeOK' /\ RequestInv'
      BY <1>2, <2>1, <3>1 DEF DgInv, DgTypeOK
    <3>8. QED
      BY <3>5, <3>6, <3>7 DEF DgInv
  <2> DEFINE r == [t EXCEPT !.pc = "load", !.tries = @ + 1, !.old = None, !.new = None]
             e == [NoRequest EXCEPT !.pc = "reply", !.op = t.op, !.login = t.login,
                                    !.who = t.who, !.result = "error"]
  <2>2. tx' = [tx EXCEPT ![i] = r] \/ tx' = [tx EXCEPT ![i] = e]
    BY <1>4 DEF Swap, Tx
  <2>3. r \in Requests /\ r.pc = "load" /\ r.op = t.op /\ r.login = t.login /\ r.who = t.who
    <3>1. t.tries + 1 \in Nat /\ None \in Tables
      BY <1>1 DEF Requests, Tables
    <3>2. r = [t EXCEPT !.pc = "load", !.tries = t.tries + 1, !.old = None, !.new = None]
      BY <1>1 DEF Requests
    <3>3. QED
      BY <1>1, <3>1, <3>2 DEF Requests
  <2>4. /\ e \in Requests /\ e.pc = "reply" /\ e.op = t.op /\ e.login = t.login /\ e.who = t.who
        /\ e.result = "error"
    BY <1>1 DEF NoRequest, Requests, Tables, Results
  <2> HIDE DEF r, e
  <2>5. QED
    BY <2>1, <2>2, <2>3, <2>4
<1>5. QED
  BY <1>3, <1>4

\* A request that ends tells the command, if it is one of the command's.
LEMMA LoginTold ==
  ASSUME DgInv, NEW i \in Idps, tx[i].op # "none", NEW w \in Places \ {"new"},
         login' = IF tx[i].who = None THEN [login EXCEPT ![tx[i].login] = w] ELSE login
  PROVE  /\ login' \in [Logins -> Places]
         /\ \A l \in Logins : login'[l] = "new" => login[l] = "new"
         /\ \A j \in Idps \ {i} :
              tx[j].op \in {"create", "poll"} => login'[tx[j].login] = login[tx[j].login]
<1>1. tx[i].login \in Logins /\ login \in [Logins -> Places]
  BY DEF DgInv, DgTypeOK, RequestInv
<1>2. tx[i].who = None => tx[i].op \in {"create", "poll"}
  BY DEF DgInv, DgTypeOK, RequestInv, Requests
<1>3. ASSUME NEW j \in Idps \ {i}, tx[j].op \in {"create", "poll"}, tx[i].who = None
      PROVE  tx[j].login \in Logins /\ tx[j].login # tx[i].login
  BY <1>2, <1>3 DEF DgInv, RequestInv, BirthInv
<1>4. QED
  BY <1>1, <1>3

\* A provider is done with its request, whether or not the swap was applied.
LEMMA DoneStep ==
  ASSUME DgInv, NEW i \in Idps, tx[i].op # "none", tx' = [tx EXCEPT ![i] = NoRequest],
         NEW w \in Places \ {"new"},
         login' = IF tx[i].who = None THEN [login EXCEPT ![tx[i].login] = w] ELSE login,
         Claims' \subseteq Claims, Grants' \subseteq Grants,
         \/ UNCHANGED grants
         \/ tx[i].pc = "swap" /\ grants = tx[i].old /\ grants' = tx[i].new
  PROVE  DgInv'
<1>1. /\ \A d \in Claims : Has(grants', d[1]) => Keeps(grants', grants, d[1])
      /\ \A g \in Grants : Has(grants', g[1]) => Has(grants, g[1])
      /\ \A k : Has(grants', k) => Has(grants, k) \/ (k = tx[i].login /\ Creating(tx[i]))
  <2>1. CASE UNCHANGED grants
    BY <2>1 DEF Keeps
  <2>2. CASE tx[i].pc = "swap" /\ grants = tx[i].old /\ grants' = tx[i].new
    BY <2>2, SwapApplied DEF DgInv
  <2>3. QED
    BY <2>1, <2>2
<1>2. ClaimInv'
  BY <1>1, ClaimFrame DEF DgInv
<1>3. /\ login' \in [Logins -> Places]
      /\ \A l \in Logins : login'[l] = "new" => login[l] = "new"
      /\ \A j \in Idps \ {i} :
           tx[j].op \in {"create", "poll"} => login'[tx[j].login] = login[tx[j].login]
  BY LoginTold
<1>4. BirthInv'
  BY <1>1, <1>3, NoRequestType, BirthStep DEF DgInv
<1>5. grants' \in Tables
  BY DEF DgInv, DgTypeOK, Requests
<1>6. DgTypeOK'
  BY <1>3, <1>5, NoRequestType DEF DgInv, DgTypeOK
<1>7. RequestInv'
  BY NoRequestType DEF DgInv, DgTypeOK, RequestInv
<1>8. QED
  BY <1>2, <1>4, <1>6, <1>7 DEF DgInv

\* What is said and issued is what the reply carries.
LEMMA ReplyStep ==
  ASSUME DgInv, NEW i \in Idps, Reply(i)
  PROVE  DgInv'
<1> DEFINE t == tx[i]
<1>1. t \in Requests /\ t.pc = "reply" /\ t.op # "none" /\ tx' = [tx EXCEPT ![i] = NoRequest] /\ UNCHANGED grants
  BY DEF DgInv, DgTypeOK, RequestInv, Reply, Tx
<1>2. issued' \subseteq issued \cup {<<t.login, t.by>>} /\ (issued' = issued \/ Granting(t))
  BY <1>1 DEF Reply, Granting
<1>3. said' \subseteq said \cup {Claim(t)} /\ (said' = said \/ Deciding(t))
  BY <1>1 DEF Reply, Deciding, Claim, DgInv, RequestInv, DgTypeOK, Requests
<1>4. \A j \in Idps : tx'[j] = tx[j] \/ tx'[j] = NoRequest
  BY <1>1 DEF DgInv, DgTypeOK
<1>5. Claims' \subseteq Claims
  BY <1>3, <1>4, NoRequestType DEF Claims
<1>6. Grants' \subseteq Grants
  BY <1>2, <1>4, NoRequestType DEF Grants
<1>7. \E w \in Places \ {"new"} :
        login' = IF t.who = None THEN [login EXCEPT ![t.login] = w] ELSE login
  <2>1. Told(t.login, t.result) \in Places \ {"new"}
    BY DEF Told, Places
  <2>2. QED
    BY <2>1 DEF Reply, Places
<1>8. QED
  BY <1>1, <1>5, <1>6, <1>7, DoneStep

\* Nobody is told what a provider that dies has swapped.
LEMMA DieStep ==
  ASSUME DgInv, NEW i \in Idps, Die(i)
  PROVE  DgInv'
<1>1. /\ tx' = [tx EXCEPT ![i] = NoRequest] /\ UNCHANGED <<said, issued>>
      /\ login' = IF tx[i].who = None THEN [login EXCEPT ![tx[i].login] = "failed"] ELSE login
      /\ \/ UNCHANGED grants
         \/ tx[i].pc = "swap" /\ grants = tx[i].old /\ grants' = tx[i].new
  BY DEF Die, Tx, Swaps
<1>2. tx[i].op # "none"
  BY DEF Die, DgInv, RequestInv
<1>3. Claims' \subseteq Claims /\ Grants' \subseteq Grants
  BY <1>1, NoRequestType, QuietMove DEF DgInv
<1>4. "failed" \in Places \ {"new"}
  BY DEF Places
<1>5. QED
  BY <1>1, <1>2, <1>3, <1>4, DoneStep

\* Every step keeps the invariant.
LEMMA DgInvStep ==
  ASSUME DgInv, [DgNext]_dgvars
  PROVE  DgInv'
<1>1. ASSUME UNCHANGED <<grants, tx, login, said, issued>>
      PROVE  DgInv'
  <2>1. DgTypeOK' /\ RequestInv'
    BY <1>1 DEF DgInv, DgTypeOK, RequestInv
  <2>2. Claims' = Claims /\ Grants' = Grants
    BY <1>1 DEF Claims, Grants
  <2>3. ClaimInv'
    BY <1>1, <2>2 DEF DgInv, ClaimInv
  <2>4. \A l \in Logins : Unborn(l)' = Unborn(l)
    BY <1>1 DEF Unborn
  <2>5. BirthInv'
    BY <1>1, <2>2, <2>4 DEF DgInv, BirthInv
  <2>6. QED
    BY <2>1, <2>3, <2>5 DEF DgInv
<1>2. ASSUME NEW l \in Logins, Expire(l) PROVE DgInv'
  BY <1>1, <1>2 DEF Expire
<1>3. CASE UNCHANGED dgvars
  BY <1>1, <1>3 DEF dgvars
<1>4. QED
  BY <1>2, <1>3, StartStep, PollStep, AnswerStep, RetryStep, SwapStep, ReplyStep, DieStep
     DEF DgNext, Serve

\* Nothing is asked or answered at first.
LEMMA DgInvInit == DgInit => DgInv
<1> SUFFICES ASSUME DgInit PROVE DgInv
  OBVIOUS
<1>1. \A i \in Idps : tx[i] = NoRequest
  BY DEF DgInit
<1>2. Claims = {} /\ Grants = {}
  BY <1>1, NoRequestType DEF DgInit, Claims, Grants
<1>3. DgTypeOK
  BY NoRequestType DEF DgInit, DgTypeOK, Tables, Places
<1>4. RequestInv
  BY <1>1, NoRequestType DEF RequestInv
<1>5. BirthInv
  BY <1>1, <1>2, NoRequestType DEF BirthInv, DgInit, Has
<1>6. ClaimInv
  BY <1>2 DEF ClaimInv
<1>7. QED
  BY <1>3, <1>4, <1>5, <1>6 DEF DgInv

\* approve, deny and deviceGrant: of all answers to a code one is told that it
\* decided, and a token is issued only to the person who was told that they
\* approved, for any number of providers, retries, deaths and lost answers.
THEOREM AnswersDecideOnce == DgSpec => []DecidedOnce
<1>1. DgInv => DecidedOnce
  <2> SUFFICES ASSUME DgInv, NEW l \in Logins
               PROVE  /\ Cardinality({d \in said : d[1] = l}) <= 1
                      /\ \A d \in said, g \in issued :
                           d[1] = l /\ g[1] = l => d[3] = "approved" /\ g[2] = d[2]
    BY DEF DecidedOnce
  <2>1. said \subseteq Claims /\ issued \subseteq Grants
    BY DEF Claims, Grants
  <2> DEFINE T == {d \in said : d[1] = l}
  <2>2. T = {} \/ \E d \in T : T = {d}
    BY <2>1 DEF DgInv, ClaimInv
  <2>3. Cardinality(T) <= 1
    <3> HIDE DEF T
    <3>1. CASE T = {}
      BY <3>1, FS_EmptySet
    <3>2. CASE \E d \in T : T = {d}
      BY <3>2, FS_Singleton
    <3>3. QED
      BY <2>2, <3>1, <3>2
  <2>4. QED
    BY <2>1, <2>3 DEF DgInv, ClaimInv
<1>2. QED
  BY <1>1, DgInvInit, DgInvStep, PTL DEF DgSpec

-----------------------------------------------------------------------------

\* At most maxDeviceAuthorizations.
Small(g) == g # None => IsFiniteSet(DOMAIN g) /\ Cardinality(DOMAIN g) <= MaxPending

\* Neither the record nor what is about to replace it is over the limit.
BoundInv == Small(grants) /\ \A i \in Idps : tx[i].pc = "swap" => Small(tx[i].new)

\* Expired codes only make the record smaller.
LEMMA SmallLive ==
  ASSUME DgTypeOK, Small(grants)
  PROVE  /\ \E S \in SUBSET Logins : Live \in [S -> Entries]
         /\ IsFiniteSet(DOMAIN Live) /\ Cardinality(DOMAIN Live) <= MaxPending
<1>1. PICK S \in SUBSET Logins :
           /\ Live \in [S -> Entries]
           /\ \A k \in S : Has(grants, k) /\ Live[k] = grants[k]
  BY LiveTable DEF DgTypeOK
<1>2. CASE S = {}
  BY <1>1, <1>2, FS_EmptySet
<1>3. CASE S # {}
  <2>1. S \subseteq DOMAIN grants /\ grants # None
    BY <1>1, <1>3 DEF Has
  <2>2. IsFiniteSet(DOMAIN grants) /\ Cardinality(DOMAIN grants) <= MaxPending
    BY <2>1 DEF Small
  <2>3. IsFiniteSet(S) /\ Cardinality(S) <= Cardinality(DOMAIN grants)
    BY <2>1, <2>2, FS_Subset
  <2>4. Cardinality(S) \in Nat /\ Cardinality(DOMAIN grants) \in Nat
    BY <2>2, <2>3, FS_CardinalityType
  <2>5. QED
    BY <1>1, <2>2, <2>3, <2>4
<1>4. QED
  BY <1>2, <1>3

\* What transact is about to store is within the limit.
LEMMA SmallChange ==
  ASSUME DgTypeOK, Small(grants), NEW t \in Requests, t.op # "none", NEW early \in BOOLEAN,
         Changed(t, early).result # "capacity"
  PROVE  Small(Changed(t, early).new)
<1> DEFINE c == Changed(t, early)
<1>1. PICK S \in SUBSET Logins : Live \in [S -> Entries] /\ IsFiniteSet(S) /\ Cardinality(S) <= MaxPending
  BY SmallLive
<1>2. CASE t.op = "create"
  <2> DEFINE n == [k \in DOMAIN Live \cup {t.login} |-> IF k = t.login THEN Pending ELSE Live[k]]
  <2>1. c.new = n /\ ~Full(Live)
    BY <1>2 DEF Changed, Create, Change
  <2>2. DOMAIN n = S \cup {t.login} /\ Cardinality(S) < MaxPending
    BY <1>1, <2>1, FS_CardinalityType DEF Full
  <2>3. IsFiniteSet(S \cup {t.login}) /\ Cardinality(S \cup {t.login}) \in {Cardinality(S), Cardinality(S) + 1}
    BY <1>1, FS_AddElement
  <2>4. QED
    BY <1>1, <2>1, <2>2, <2>3, FS_CardinalityType DEF Small
<1>3. CASE t.op # "create"
  <2>1. DOMAIN c.new \subseteq S
    BY <1>1, <1>3 DEF Changed, Resolve, PollChange, Consumed, Change, Restrict, Requests
  <2>2. IsFiniteSet(DOMAIN c.new) /\ Cardinality(DOMAIN c.new) <= Cardinality(S)
    BY <1>1, <2>1, FS_Subset
  <2>3. QED
    BY <1>1, <2>2, FS_CardinalityType DEF Small
<1>4. QED
  BY <1>2, <1>3

\* A provider that loads the record prepares one within the limit.
LEMMA BoundLoaded ==
  ASSUME DgTypeOK, BoundInv, NEW i \in Idps, NEW t \in Requests, t.op # "none", Loaded(i, t),
         UNCHANGED grants
  PROVE  BoundInv'
<1>1. PICK early \in BOOLEAN :
        LET c == Changed(t, early) IN
          Tx(i, IF c.result = "capacity" THEN [t EXCEPT !.pc = "reply", !.result = c.result]
                ELSE [t EXCEPT !.pc = "swap", !.old = grants, !.new = c.new, !.result = c.result,
                               !.by = c.by])
  BY DEF Loaded
<1> DEFINE c == Changed(t, early)
<1>2. c.result # "capacity" => Small(c.new)
  BY SmallChange DEF BoundInv
<1>3. CASE c.result = "capacity"
  <2>1. tx'[i].pc = "reply" /\ \A j \in Idps : j # i => tx'[j] = tx[j]
    BY <1>1, <1>3 DEF Tx, DgTypeOK, Requests
  <2>2. QED
    BY <2>1 DEF BoundInv
<1>4. CASE c.result # "capacity"
  <2>1. tx'[i].new = c.new /\ \A j \in Idps : j # i => tx'[j] = tx[j]
    BY <1>1, <1>4 DEF Tx, DgTypeOK, Requests
  <2>2. QED
    BY <1>2, <1>4, <2>1 DEF BoundInv
<1>5. QED
  BY <1>3, <1>4

\* Steps that load nothing put in the record what was found to be small.
LEMMA BoundStep ==
  ASSUME DgInv, BoundInv, [DgNext]_dgvars
  PROVE  BoundInv'
<1>1. ASSUME NEW i \in Idps, NEW l \in Logins, NEW op \in {"create", "approve", "deny", "poll"},
             NEW p \in People \cup {None}, Asked(i, op, l, p), UNCHANGED grants
      PROVE  BoundInv'
  <2> DEFINE t == [NoRequest EXCEPT !.op = op, !.login = l, !.who = p]
  <2>1. t \in Requests /\ t.op # "none"
    BY DEF NoRequest, Requests, Tables, Results, Statuses
  <2>2. Loaded(i, t)
    BY <1>1 DEF Asked
  <2> HIDE DEF t
  <2>3. QED
    BY <1>1, <2>1, <2>2, BoundLoaded DEF DgInv
<1>2. ASSUME NEW i \in Idps, Load(i)
      PROVE  BoundInv'
  <2>1. tx[i] \in Requests /\ tx[i].op # "none"
    BY <1>2 DEF DgInv, DgTypeOK, RequestInv, Load
  <2>2. QED
    BY <1>2, <2>1, BoundLoaded DEF DgInv, Load
<1>3. ASSUME NEW i \in Idps, Swap(i) \/ Reply(i) \/ Die(i)
      PROVE  BoundInv'
  <2>1. tx[i] \in Requests /\ tx \in [Idps -> Requests]
    BY DEF DgInv, DgTypeOK
  <2>2. tx'[i].pc # "swap" /\ \A j \in Idps : j # i => tx'[j] = tx[j]
    <3>1. CASE Reply(i) \/ Die(i)
      BY <2>1, <3>1, NoRequestType DEF Reply, Die, Tx
    <3>2. CASE Swap(i)
      <4> DEFINE t == tx[i]
                 u == [t EXCEPT !.pc = "reply", !.old = None, !.new = None, !.tries = 0]
                 r == [t EXCEPT !.pc = "load", !.tries = @ + 1, !.old = None, !.new = None]
                 e == [NoRequest EXCEPT !.pc = "reply", !.op = t.op, !.login = t.login,
                                        !.who = t.who, !.result = "error"]
      <4>1. \E v \in {u, r, e} : tx' = [tx EXCEPT ![i] = v]
        BY <3>2 DEF Swap, Tx
      <4>2. u.pc = "reply" /\ r.pc = "load" /\ e.pc = "reply"
        BY <2>1 DEF Requests, NoRequest
      <4> HIDE DEF u, r, e
      <4>3. QED
        BY <2>1, <4>1, <4>2
    <3>3. QED
      BY <1>3, <3>1, <3>2
  <2>3. Small(grants')
    BY <1>3 DEF BoundInv, Swap, Reply, Die
  <2>4. QED
    BY <2>2, <2>3 DEF BoundInv
<1>4. CASE UNCHANGED <<grants, tx>>
  BY <1>4 DEF BoundInv
<1>5. QED
  BY <1>1, <1>2, <1>3, <1>4 DEF DgNext, Serve, Start, Poll, Answer, Expire, dgvars

\* transact: the record never holds more than maxDeviceAuthorizations, for any
\* number of providers that add to it at once.
THEOREM PendingIsBounded == DgSpec => []PendingBounded
<1>1. DgInit => BoundInv
  BY NoRequestType DEF DgInit, BoundInv, Small
<1>2. BoundInv => PendingBounded
  BY DEF BoundInv, Small, PendingBounded
<1>3. QED
  BY <1>1, <1>2, DgInvInit, DgInvStep, BoundStep, PTL DEF DgSpec
===============================================================================
