--------------------------- MODULE PublicIPProofs ---------------------------
(***************************************************************************)
(* ReadyReserved of PublicIP with one edge, for every number of            *)
(* ip_addresses, addresses, requests and faults: an ip_address that is     *)
(* Ready has its address reserved.                                         *)
(***************************************************************************)
EXTENDS PublicIP, TLAPS

\* The edge e acts only for ip_addresses: in resolve for one it listed, in the
\* sweep for one it did not list.
ActsFor(e) ==
    /\ pc[e] = "idle" => op[e] = "none"
    /\ pc[e] = "resolve" => op[e] \in {"none", "reserve", "holder", "ok", "no"}
    /\ pc[e] = "resolve" /\ op[e] # "none" => who[e] \in Owners /\ view[e][who[e]] # Absent
    /\ pc[e] = "sweep" => op[e] \in {"none", "get", "delete", "ok", "no"}
    /\ op[e] \in {"get", "delete"} => who[e] \in Owners /\ view[e][who[e]] = Absent
    /\ op[e] \in {"get", "delete", "holder"} => ip[e] \in Addresses

\* What it still has to do.
Pending(e) ==
    /\ \A o \in todo[e] : view[e][o] # Absent
    /\ \A kv \in kvs[e] : view[e][kv[2]] = Absent
    /\ pc[e] # "sweep" => kvs[e] = {}

\* A claim that ended well left the reservation, and what is about to be deleted is
\* the reservation of the one the edge acts for.
Claimed(e) ==
    /\ pc[e] = "resolve" /\ op[e] = "ok" => ip[e] \in Addresses /\ book[ip[e]] = who[e]
    /\ op[e] = "delete" => book[ip[e]] = who[e]

\* Nothing becomes Ready behind the back of the edge: what it did not list is not.
Unlisted(e) == pc[e] # "idle" => \A o \in Owners : view[e][o] = Absent => ~Ready(o)

EdgeInv == \A e \in Procs : ActsFor(e) /\ Pending(e) /\ Claimed(e) /\ Unlisted(e)

\* An ip_address that is Ready has an address, and the reservation of it.
HeldInv == \A o \in Owners : Ready(o) => rec[o].addr \in Addresses /\ book[rec[o].addr] = o

\* The inductive invariant.
PublicInv == TypeOK /\ EdgeInv /\ HeldInv

-----------------------------------------------------------------------------

USE AddressBookAssumption, PublicIPAssumption DEF AddressBookAssumption, PublicIPAssumption

\* The records that are written.
LEMMA RecordFields ==
    ASSUME NEW r \in Records, NEW x \in Addresses \cup {0}
    PROVE  /\ [r EXCEPT !.want = x, !.current = FALSE] \in Records
           /\ [r EXCEPT !.want = x, !.current = FALSE].addr = r.addr
           /\ [r EXCEPT !.want = x, !.current = FALSE].phase = r.phase
           /\ [r EXCEPT !.addr = x, !.phase = "Ready", !.current = TRUE] \in Records
           /\ [r EXCEPT !.addr = x, !.phase = "Ready", !.current = TRUE].addr = x
           /\ [r EXCEPT !.phase = "Error"] \in Records
           /\ [r EXCEPT !.phase = "Error"].phase = "Error"
           /\ r.want \in Addresses \cup {0} /\ r.addr \in Addresses \cup {0}
  BY Zenon DEF Records

\* A new record.
LEMMA NewRecord ==
    ASSUME NEW x \in Addresses \cup {0}
    PROVE  /\ [want |-> x, addr |-> 0, phase |-> "Unset", current |-> FALSE] \in Records
           /\ [want |-> x, addr |-> 0, phase |-> "Unset", current |-> FALSE].phase = "Unset"
  BY Zenon DEF Records

\* A record is stored; what the edges that are in a pass listed is outdated.
LEMMA Stored ==
    ASSUME TypeOK, NEW o \in Owners, NEW r \in Records \cup {Absent}, Store(o, r)
    PROVE  /\ rec' \in [Owners -> Records \cup {Absent}] /\ rec'[o] = r
           /\ \A q \in Owners : q # o => rec'[q] = rec[q]
           /\ outdated' \subseteq Procs \X Owners
  BY DEF TypeOK, Store

\* A request changes one record, and makes none Ready.
LEMMA RequestStep ==
    ASSUME PublicInv, NEW o \in Owners, NEW r \in Records \cup {Absent}, Store(o, r), Request,
           r # Absent /\ r.phase = "Ready" => Ready(o) /\ r.addr = rec[o].addr
    PROVE  PublicInv'
<1>1. /\ rec' \in [Owners -> Records \cup {Absent}] /\ rec'[o] = r
      /\ \A q \in Owners : q # o => rec'[q] = rec[q]
      /\ outdated' \subseteq Procs \X Owners
  BY Stored DEF PublicInv
<1>2. UNCHANGED <<bookVars, pc, view, todo, kvs>> /\ requests' \in 0 .. MaxRequests
  BY DEF Request, PublicInv, TypeOK
<1>3. \A q \in Owners : Ready(q)' => Ready(q) /\ rec'[q].addr = rec[q].addr
  BY <1>1 DEF Ready
<1>4. TypeOK'
  BY <1>1, <1>2 DEF PublicInv, TypeOK, BookTypeOK, bookVars
<1>5. EdgeInv'
  BY <1>2, <1>3 DEF PublicInv, EdgeInv, ActsFor, Pending, Claimed, Unlisted, bookVars
<1>6. HeldInv'
  BY <1>2, <1>3 DEF PublicInv, HeldInv, bookVars
<1>7. QED
  BY <1>4, <1>5, <1>6 DEF PublicInv

\* An ip_address is created, updated or deleted.
LEMMA RequestsStep ==
    ASSUME PublicInv, NEW o \in Owners, Create(o) \/ Update(o) \/ Delete(o)
    PROVE  PublicInv'
<1>1. CASE Create(o)
  <2>1. PICK x \in Addresses \cup {0} :
          Store(o, [want |-> x, addr |-> 0, phase |-> "Unset", current |-> FALSE])
    BY <1>1 DEF Create
  <2> DEFINE r == [want |-> x, addr |-> 0, phase |-> "Unset", current |-> FALSE]
  <2>2. r \in Records /\ r.phase = "Unset"
    BY NewRecord
  <2>3. Store(o, r) /\ Request
    BY <1>1, <2>1 DEF Create
  <2> HIDE DEF r
  <2>4. QED
    BY <2>2, <2>3, RequestStep
<1>2. CASE Update(o)
  <2>1. rec[o] # Absent /\ rec[o] \in Records
    BY <1>2 DEF Update, PublicInv, TypeOK
  <2>2. PICK x \in Addresses \cup {0} : Store(o, [rec[o] EXCEPT !.want = x, !.current = FALSE])
    BY <1>2 DEF Update
  <2> DEFINE r == [rec[o] EXCEPT !.want = x, !.current = FALSE]
  <2>3. r \in Records /\ r.addr = rec[o].addr /\ r.phase = rec[o].phase
    BY <2>1, RecordFields
  <2>4. Store(o, r) /\ Request
    BY <1>2, <2>2 DEF Update
  <2> HIDE DEF r
  <2>5. QED
    BY <2>1, <2>3, <2>4, RequestStep DEF Ready
<1>3. CASE Delete(o)
  BY <1>3, RequestStep DEF Delete
<1>4. QED
  BY <1>1, <1>2, <1>3

-----------------------------------------------------------------------------
(* The pass of an edge, which is the only one *)

\* A step of the edge that leaves the records and the book.
LEMMA EdgeStepKeeps ==
    ASSUME PublicInv, \A d, e \in Procs : d = e, NEW e \in Procs, UNCHANGED <<book, rec>>, TypeOK',
           (ActsFor(e) /\ Pending(e) /\ Claimed(e) /\ Unlisted(e))'
    PROVE  PublicInv'
<1>1. EdgeInv'
  BY DEF EdgeInv
<1>2. HeldInv'
  BY DEF PublicInv, HeldInv, Ready
<1>3. QED
  BY <1>1, <1>2 DEF PublicInv

\* ReconcileAll lists the ip_addresses.
LEMMA ListAllStep ==
    ASSUME PublicInv, \A d, e \in Procs : d = e, NEW e \in Procs, ListAll(e)
    PROVE  PublicInv'
<1>1. /\ UNCHANGED <<bookVars, rec, kvs, requests>> /\ pc' = [pc EXCEPT ![e] = "resolve"]
      /\ view' = [view EXCEPT ![e] = rec]
      /\ outdated' = {eo \in outdated : eo[1] # e}
      /\ todo' = [todo EXCEPT ![e] = {o \in Owners : rec[o] # Absent}]
      /\ pc[e] = "idle"
  BY DEF ListAll
<1>2. TypeOK'
  BY <1>1 DEF PublicInv, TypeOK, BookTypeOK, bookVars
<1>3. /\ pc'[e] = "resolve" /\ view'[e] = rec /\ todo'[e] = {o \in Owners : rec[o] # Absent}
      /\ op'[e] = "none" /\ kvs'[e] = {}
  BY <1>1 DEF PublicInv, TypeOK, BookTypeOK, EdgeInv, ActsFor, Pending, bookVars
<1>4. (ActsFor(e) /\ Pending(e) /\ Claimed(e) /\ Unlisted(e))'
  BY <1>1, <1>3 DEF ActsFor, Pending, Claimed, Unlisted, Ready
<1>5. UNCHANGED <<book, rec>>
  BY <1>1 DEF bookVars
<1>6. QED
  BY <1>2, <1>4, <1>5, EdgeStepKeeps

\* An operation on the book starts.
LEMMA Begins ==
    ASSUME TypeOK, NEW e \in Procs, NEW o \in Owners \cup {Nobody},
           NEW access \in {"none", "reserve", "get", "no"}, NEW x \in Addresses \cup {0},
           NEW except \in SUBSET Addresses, Begin(e, o, access, x, except)
    PROVE  /\ BookTypeOK' /\ UNCHANGED book
           /\ op'[e] = access /\ who'[e] = o /\ ip'[e] = x
  BY DEF TypeOK, BookTypeOK, Begin, Set

\* resolve goes for an address.
LEMMA ResolveStep ==
    ASSUME PublicInv, \A d, e \in Procs : d = e, NEW e \in Procs, NEW o \in Owners, Resolve(e, o)
    PROVE  PublicInv'
<1>1. /\ pc[e] = "resolve" /\ op[e] = "none" /\ o \in todo[e]
      /\ UNCHANGED <<rec, pc, view, outdated, todo, kvs, requests>>
  BY DEF Resolve
<1>2. view[e][o] # Absent /\ view[e][o] \in Records
  BY <1>1 DEF PublicInv, EdgeInv, Pending, TypeOK
<1>3. Want(view[e][o]) \in Addresses \cup {0}
  BY <1>2, RecordFields DEF Want
<1>4. Reserved \cup Requested(e) \in SUBSET Addresses
  <2>1. \A q \in Owners : view[e][q] # Absent => view[e][q].want \in Addresses \cup {0}
    <3> TAKE q \in Owners
    <3> HAVE view[e][q] # Absent
    <3>1. view[e][q] \in Records
      BY DEF PublicInv, TypeOK
    <3>2. 0 \in Addresses \cup {0}
      OBVIOUS
    <3>3. QED
      BY <3>1, <3>2, RecordFields
  <2>2. QED
    BY <2>1 DEF Requested
<1>5. /\ BookTypeOK' /\ UNCHANGED book /\ who'[e] = o /\ op'[e] \in {"reserve", "no"}
  <2> DEFINE x == Want(view[e][o])
  <2>1. CASE x = 0 /\ BeginAllocate(e, o, Reserved \cup Requested(e))
    BY <1>4, <2>1, Begins DEF PublicInv, BeginAllocate
  <2>2. CASE x \in Reserved /\ Begin(e, o, "no", 0, {})
    BY <2>2, Begins DEF PublicInv
  <2>3. CASE x \notin Reserved \cup {0} /\ BeginClaim(e, o, x)
    BY <2>3, Begins DEF PublicInv, BeginClaim, BeginAllocate
  <2>4. QED
    BY <2>1, <2>2, <2>3 DEF Resolve
<1>6. TypeOK'
  BY <1>1, <1>5 DEF PublicInv, TypeOK
<1>7. (ActsFor(e) /\ Pending(e) /\ Claimed(e) /\ Unlisted(e))'
  BY <1>1, <1>2, <1>5 DEF PublicInv, EdgeInv, ActsFor, Pending, Claimed, Unlisted, Ready
<1>8. QED
  BY <1>1, <1>5, <1>6, <1>7, EdgeStepKeeps

\* releaseStale lists the reservations of ip_addresses that were not listed.
LEMMA ListReservationsStep ==
    ASSUME PublicInv, \A d, e \in Procs : d = e, NEW e \in Procs, ListReservations(e)
    PROVE  PublicInv'
<1> DEFINE s == {<<x, book[x]>> : x \in {y \in Addresses : book[y] \notin Live(e) \cup {Free}}}
<1>1. /\ op[e] = "none" /\ pc' = [pc EXCEPT ![e] = "sweep"] /\ kvs' = [kvs EXCEPT ![e] = s]
      /\ UNCHANGED <<bookVars, rec, view, outdated, todo, requests>>
  BY DEF ListReservations
<1>2. s \in SUBSET (Addresses \X Owners) /\ \A kv \in s : view[e][kv[2]] = Absent
  BY DEF PublicInv, TypeOK, BookTypeOK, Live
<1> HIDE DEF s
<1>3. TypeOK'
  BY <1>1, <1>2 DEF PublicInv, TypeOK, BookTypeOK, bookVars
<1>4. pc'[e] = "sweep" /\ kvs'[e] = s
  BY <1>1 DEF PublicInv, TypeOK
<1>5. UNCHANGED <<book, rec, op, view, todo>>
  BY <1>1 DEF bookVars
<1>6. pc[e] = "resolve"
  BY DEF ListReservations
<1>7. (ActsFor(e) /\ Pending(e) /\ Claimed(e) /\ Unlisted(e))'
  BY <1>1, <1>2, <1>4, <1>5, <1>6 DEF PublicInv, EdgeInv, ActsFor, Pending, Claimed, Unlisted, Ready
<1>8. QED
  BY <1>3, <1>5, <1>7, EdgeStepKeeps

\* release of the next reservation starts.
LEMMA ReleaseStaleStep ==
    ASSUME PublicInv, \A d, e \in Procs : d = e, NEW e \in Procs, ReleaseStale(e)
    PROVE  PublicInv'
<1>1. PICK kv \in kvs[e] : kvs' = [kvs EXCEPT ![e] = kvs[e] \ {kv}] /\ BeginRelease(e, kv[2], kv[1])
  BY DEF ReleaseStale
<1>2. /\ pc[e] = "sweep" /\ UNCHANGED <<rec, pc, view, outdated, todo, requests>>
  BY DEF ReleaseStale
<1>3. kv[1] \in Addresses /\ kv[2] \in Owners /\ view[e][kv[2]] = Absent
  BY DEF PublicInv, TypeOK, EdgeInv, Pending
<1>4. BookTypeOK' /\ UNCHANGED book /\ op'[e] = "get" /\ who'[e] = kv[2] /\ ip'[e] = kv[1]
  BY <1>1, <1>3, Begins DEF PublicInv, BeginRelease
<1>5. kvs'[e] \subseteq kvs[e] /\ kvs' \in [Procs -> SUBSET (Addresses \X Owners)]
  BY <1>1 DEF PublicInv, TypeOK
<1>6. TypeOK'
  BY <1>2, <1>4, <1>5 DEF PublicInv, TypeOK
<1>7. (ActsFor(e) /\ Pending(e) /\ Claimed(e) /\ Unlisted(e))'
  BY <1>2, <1>3, <1>4, <1>5 DEF PublicInv, EdgeInv, ActsFor, Pending, Claimed, Unlisted, Ready
<1>8. QED
  BY <1>2, <1>4, <1>6, <1>7, EdgeStepKeeps

\* A pass is over: the edge forgets what it listed.
LEMMA LeaveStep ==
    ASSUME PublicInv, \A d, e \in Procs : d = e, NEW e \in Procs, Leave(e), Forget(e),
           UNCHANGED <<book, rec, requests>>, faults' \in 0 .. MaxFaults
    PROVE  PublicInv'
<1>1. TypeOK'
  <2>1. view' \in [Procs -> [Owners -> Records \cup {Absent}]]
    BY DEF PublicInv, TypeOK, Leave
  <2>2. QED
    BY <2>1 DEF PublicInv, TypeOK, BookTypeOK, Leave, Forget, Set
<1>2. pc'[e] = "idle" /\ op'[e] = "none" /\ todo'[e] = {} /\ kvs'[e] = {}
  BY DEF PublicInv, TypeOK, BookTypeOK, Leave, Forget, Set
<1>3. (ActsFor(e) /\ Pending(e) /\ Claimed(e) /\ Unlisted(e))'
  BY <1>2 DEF ActsFor, Pending, Claimed, Unlisted
<1>4. QED
  BY <1>1, <1>3, EdgeStepKeeps

\* The pass ends, or the agent restarts.
LEMMA EndStep ==
    ASSUME PublicInv, \A d, e \in Procs : d = e, NEW e \in Procs, EndPass(e) \/ Crash(e)
    PROVE  PublicInv'
<1>1. Leave(e) /\ Forget(e) /\ UNCHANGED <<book, rec, requests>>
  BY DEF EndPass, Crash, End
<1>2. faults' \in 0 .. MaxFaults
  BY DEF EndPass, Crash, End, PublicInv, TypeOK, BookTypeOK
<1>3. QED
  BY <1>1, <1>2, LeaveStep

\* What an access of the book does: it takes free addresses for the ip_address the
\* edge acts for, gives up the one that is to be deleted, and leaves the others.
Accesses(e) ==
    /\ BookTypeOK' /\ UNCHANGED who
    /\ \A y \in Addresses : book'[y] # book[y] =>
         book[y] = Free \/ (op[e] = "delete" /\ y = ip[e])
    /\ \/ (op[e] \in {"reserve", "holder"} /\ op'[e] \in {"reserve", "holder", "ok", "no"})
       \/ (op[e] = "get" /\ op'[e] \in {"delete", "ok", "no"} /\ ip'[e] = ip[e])
       \/ (op[e] = "delete" /\ op'[e] \in {"ok", "no"})
    /\ op'[e] = "holder" => ip'[e] \in Addresses
    /\ op[e] \in {"reserve", "holder"} /\ op'[e] = "ok" => ip'[e] \in Addresses /\ book'[ip'[e]] = who[e]
    /\ op'[e] = "delete" => book'[ip'[e]] = who[e]

\* claim, allocate and release access the book in this way.
LEMMA AccessMoves ==
    ASSUME PublicInv, NEW e \in Procs, BookStep(e) \/ BookError(e)
    PROVE  Accesses(e)
<1>0. BookTypeOK
  BY DEF PublicInv, TypeOK
<1>1. who[e] \in Owners /\ (op[e] \in {"get", "delete", "holder"} => ip[e] \in Addresses)
  <2>1. op[e] \in {"reserve", "holder", "get", "delete"}
    BY DEF BookStep, BookError, Reserve, Holder, ReleaseGet, ReleaseDelete
  <2>2. pc[e] \in {"idle", "resolve", "sweep"} /\ ActsFor(e)
    BY DEF PublicInv, TypeOK, EdgeInv
  <2>3. QED
    BY <2>1, <2>2 DEF ActsFor
<1>2. CASE Reserve(e)
  <2>0. op[e] = "reserve" /\ UNCHANGED <<who, used, faults>>
    BY <1>2 DEF Reserve
  <2>1. CASE Addresses \subseteq used[e] /\ Ended(e, "no") /\ UNCHANGED <<book, ip>>
    BY <1>0, <2>0, <2>1 DEF BookTypeOK, Ended, Accesses
  <2>2. ASSUME NEW x \in Addresses, ip' = [ip EXCEPT ![e] = x], book[x] = Free,
               book' = [book EXCEPT ![x] = who[e]], Ended(e, "ok")
        PROVE  Accesses(e)
    <3>1. BookTypeOK'
      BY <1>0, <1>1, <2>0, <2>2 DEF BookTypeOK, Ended
    <3>2. op'[e] = "ok" /\ ip'[e] = x /\ book'[x] = who[e]
      BY <1>0, <2>2 DEF BookTypeOK, Ended
    <3>3. \A y \in Addresses : book'[y] # book[y] => book[y] = Free
      BY <1>0, <2>2 DEF BookTypeOK
    <3>4. QED
      BY <2>0, <3>1, <3>2, <3>3 DEF Accesses
  <2>3. ASSUME NEW x \in Addresses, ip' = [ip EXCEPT ![e] = x], Ended(e, "holder"), UNCHANGED book
        PROVE  Accesses(e)
    <3>1. BookTypeOK'
      BY <1>0, <2>0, <2>3 DEF BookTypeOK, Ended
    <3>2. op'[e] = "holder" /\ ip'[e] = x
      BY <1>0, <2>3 DEF BookTypeOK, Ended
    <3>3. QED
      BY <2>0, <2>3, <3>1, <3>2 DEF Accesses
  <2>4. QED
    BY <1>2, <2>1, <2>2, <2>3 DEF Reserve
<1>3. CASE Holder(e)
  <2>0. op[e] = "holder" /\ UNCHANGED <<book, who, ip, faults>>
    BY <1>3 DEF Holder
  <2>1. CASE book[ip[e]] \in {Free, who[e]}
    <3>1. UNCHANGED used /\ op' = [op EXCEPT ![e] = IF book[ip[e]] = Free THEN "no" ELSE "ok"]
      BY <1>3, <2>1 DEF Holder, Ended
    <3>2. BookTypeOK' /\ (op'[e] = "no" \/ (op'[e] = "ok" /\ book[ip[e]] = who[e]))
      BY <1>0, <2>0, <2>1, <3>1 DEF BookTypeOK
    <3>3. QED
      BY <1>1, <2>0, <3>2 DEF Accesses
  <2>2. CASE book[ip[e]] \notin {Free, who[e]}
    <3>1. used' = [used EXCEPT ![e] = used[e] \cup {ip[e]}] /\ op' = [op EXCEPT ![e] = "reserve"]
      BY <1>3, <2>2 DEF Holder, Ended
    <3>2. BookTypeOK' /\ op'[e] = "reserve"
      BY <1>0, <1>1, <2>0, <3>1 DEF BookTypeOK
    <3>3. QED
      BY <1>1, <2>0, <3>2 DEF Accesses
  <2>3. QED
    BY <2>1, <2>2
<1>4. CASE ReleaseGet(e)
  <2>1. op' = [op EXCEPT ![e] = IF book[ip[e]] = who[e] THEN "delete" ELSE "ok"]
    BY <1>4 DEF ReleaseGet, Ended
  <2>2. op[e] = "get" /\ UNCHANGED <<book, who, ip, used, faults>>
    BY <1>4 DEF ReleaseGet
  <2>3. BookTypeOK' /\ (op'[e] = "ok" \/ (op'[e] = "delete" /\ book[ip[e]] = who[e]))
    BY <1>0, <2>1, <2>2 DEF BookTypeOK
  <2>4. QED
    BY <2>2, <2>3 DEF Accesses
<1>5. CASE ReleaseDelete(e)
  <2>1. BookTypeOK' /\ op'[e] = "ok" /\ \A y \in Addresses : book'[y] # book[y] => y = ip[e]
    BY <1>0, <1>1, <1>5 DEF ReleaseDelete, Ended, BookTypeOK
  <2>2. QED
    BY <1>5, <2>1 DEF ReleaseDelete, Accesses
<1>6. CASE BookError(e)
  <2>1. /\ UNCHANGED <<who, ip, used>> /\ op' = [op EXCEPT ![e] = "no"] /\ faults' \in 0 .. MaxFaults
        /\ op[e] \in {"reserve", "holder", "get", "delete"}
    BY <1>0, <1>6 DEF BookError, Ended, BookTypeOK
  <2>2. CASE UNCHANGED book
    BY <1>0, <2>1, <2>2 DEF Accesses, BookTypeOK
  <2>3. CASE op[e] = "delete" /\ book' = [book EXCEPT ![ip[e]] = Free]
    BY <1>0, <1>1, <2>1, <2>3 DEF Accesses, BookTypeOK
  <2>4. CASE /\ op[e] = "reserve"
             /\ \E x \in Addresses : book[x] = Free /\ book' = [book EXCEPT ![x] = who[e]]
    BY <1>0, <1>1, <2>1, <2>4 DEF Accesses, BookTypeOK
  <2>5. QED
    BY <1>6, <2>2, <2>3, <2>4 DEF BookError
<1>7. QED
  BY <1>2, <1>3, <1>4, <1>5, <1>6 DEF BookStep

\* An access keeps the reservations of what is Ready: what it gives up belongs to
\* an ip_address that was not listed.
LEMMA AccessStep ==
    ASSUME PublicInv, \A d, e \in Procs : d = e, NEW e \in Procs, Access(e)
    PROVE  PublicInv'
<1>1. Accesses(e) /\ UNCHANGED <<rec, pc, view, outdated, todo, kvs, requests>>
  BY AccessMoves DEF Access
<1>2. TypeOK'
  BY <1>1 DEF PublicInv, TypeOK, Accesses
<1>3. ActsFor(e) /\ Pending(e) /\ Claimed(e) /\ Unlisted(e)
  BY DEF PublicInv, EdgeInv
<1>4. HeldInv'
  <2> SUFFICES ASSUME NEW o \in Owners, Ready(o)
               PROVE  rec[o].addr \in Addresses /\ book'[rec[o].addr] = o
    BY <1>1 DEF HeldInv, Ready
  <2>1. rec[o].addr \in Addresses /\ book[rec[o].addr] = o
    BY DEF PublicInv, HeldInv
  <2>2. ~(op[e] = "delete" /\ rec[o].addr = ip[e])
    <3> SUFFICES ASSUME op[e] = "delete", rec[o].addr = ip[e] PROVE FALSE
      OBVIOUS
    <3>1. o = who[e] /\ view[e][o] = Absent /\ pc[e] # "idle"
      BY <1>3, <2>1 DEF Claimed, ActsFor
    <3>2. QED
      BY <1>3, <3>1 DEF Unlisted
  <2>3. QED
    BY <1>1, <2>1, <2>2 DEF Accesses
<1>5. ActsFor(e)'
  <2>1. pc[e] \in {"idle", "resolve", "sweep"}
    BY DEF PublicInv, TypeOK
  <2>2. QED
    BY <1>1, <1>3, <2>1 DEF ActsFor, Accesses
<1>6. Pending(e)' /\ Unlisted(e)'
  BY <1>1, <1>3 DEF Pending, Unlisted, Ready
<1>7. Claimed(e)'
  BY <1>1, <1>3 DEF Claimed, ActsFor, Accesses
<1>8. EdgeInv'
  BY <1>5, <1>6, <1>7 DEF EdgeInv
<1>9. QED
  BY <1>2, <1>4, <1>8 DEF PublicInv

\* ReconcileAll writes what resolve came to.
LEMMA RecordStep ==
    ASSUME PublicInv, \A d, e \in Procs : d = e, NEW e \in Procs, Record(e)
    PROVE  PublicInv'
<1> DEFINE o == who[e]
           r == Resolved(e, view[e][o])
<1>1. /\ pc[e] = "resolve" /\ op[e] \in {"ok", "no"} /\ UNCHANGED <<pc, view, kvs, requests>>
      /\ End(e) /\ todo' = [todo EXCEPT ![e] = todo[e] \ {o}]
      /\ IF r # view[e][o] /\ <<e, o>> \notin outdated THEN Store(o, r) ELSE UNCHANGED <<rec, outdated>>
  BY DEF Record
<1>2. o \in Owners /\ view[e][o] # Absent /\ view[e][o] \in Records
  BY <1>1 DEF PublicInv, EdgeInv, ActsFor, TypeOK
<1>3. op[e] = "ok" => ip[e] \in Addresses /\ book[ip[e]] = o
  BY <1>1 DEF PublicInv, EdgeInv, Claimed
<1>4. r \in Records /\ (r.phase = "Ready" => r.addr \in Addresses /\ book[r.addr] = o)
  <2>1. CASE op[e] = "ok"
    <3>1. r = [view[e][o] EXCEPT !.addr = ip[e], !.phase = "Ready", !.current = TRUE]
      BY <2>1 DEF Resolved
    <3>2. ip[e] \in Addresses \cup {0}
      BY <1>3, <2>1
    <3>3. r \in Records /\ r.addr = ip[e]
      <4> HIDE DEF r
      <4>1. QED
        BY ONLY <1>2, <3>1, <3>2, RecordFields, Zenon
    <3>4. QED
      BY <1>3, <2>1, <3>3
  <2>2. CASE op[e] # "ok"
    <3>1. 0 \in Addresses \cup {0}
      OBVIOUS
    <3>2. QED
      BY <1>2, <2>2, <3>1, RecordFields DEF Resolved
  <2>3. QED
    BY <2>1, <2>2
<1> HIDE DEF r
<1>5. /\ rec' \in [Owners -> Records \cup {Absent}] /\ outdated' \subseteq Procs \X Owners
      /\ \A q \in Owners : rec'[q] = rec[q] \/ (q = o /\ rec'[q] = r)
  <2>1. CASE r # view[e][o] /\ <<e, o>> \notin outdated
    BY <1>1, <1>2, <1>4, <2>1, Stored DEF PublicInv
  <2>2. CASE ~(r # view[e][o] /\ <<e, o>> \notin outdated)
    BY <1>1, <2>2 DEF PublicInv, TypeOK
  <2>3. QED
    BY <2>1, <2>2
<1>6. BookTypeOK' /\ UNCHANGED book /\ op'[e] = "none"
  BY <1>1 DEF End, Forget, Set, PublicInv, TypeOK, BookTypeOK
<1>7. TypeOK'
  BY <1>1, <1>5, <1>6 DEF PublicInv, TypeOK
<1>8. HeldInv'
  BY <1>4, <1>5, <1>6 DEF PublicInv, HeldInv, Ready
<1>9. todo'[e] \subseteq todo[e]
  BY <1>1 DEF PublicInv, TypeOK
<1>10. Unlisted(e)'
  BY <1>1, <1>2, <1>5 DEF PublicInv, EdgeInv, Unlisted, Ready
<1>11. ActsFor(e)' /\ Pending(e)' /\ Claimed(e)'
  BY <1>1, <1>6, <1>9 DEF PublicInv, EdgeInv, ActsFor, Pending, Claimed
<1>12. EdgeInv'
  BY <1>10, <1>11 DEF EdgeInv
<1>13. QED
  BY <1>7, <1>8, <1>12 DEF PublicInv

-----------------------------------------------------------------------------

\* The invariant holds before the first request.
LEMMA PublicInit == Init => PublicInv
<1> SUFFICES ASSUME Init PROVE PublicInv
  OBVIOUS
<1>1. TypeOK
  BY DEF Init, BookInit, TypeOK, BookTypeOK
<1>2. EdgeInv
  BY DEF Init, BookInit, EdgeInv, ActsFor, Pending, Claimed, Unlisted
<1>3. HeldInv
  BY DEF Init, HeldInv, Ready
<1>4. QED
  BY <1>1, <1>2, <1>3 DEF PublicInv

\* Every step keeps it, if there is one edge.
LEMMA PublicStep ==
    ASSUME \A d, e \in Procs : d = e
    PROVE  PublicInv /\ [Next]_vars => PublicInv'
<1> SUFFICES ASSUME PublicInv, [Next]_vars PROVE PublicInv'
  OBVIOUS
<1>1. CASE UNCHANGED vars
  <2>1. TypeOK'
    BY <1>1 DEF vars, bookVars, PublicInv, TypeOK, BookTypeOK
  <2>2. EdgeInv'
    <3>1. ASSUME NEW e \in Procs PROVE (ActsFor(e) /\ Pending(e) /\ Claimed(e) /\ Unlisted(e))'
      BY <1>1 DEF vars, bookVars, PublicInv, EdgeInv, ActsFor, Pending, Claimed, Unlisted, Ready
    <3>2. QED
      BY <3>1 DEF EdgeInv
  <2>3. HeldInv'
    BY <1>1 DEF vars, bookVars, PublicInv, HeldInv, Ready
  <2>4. QED
    BY <2>1, <2>2, <2>3 DEF PublicInv
<1>2. ASSUME NEW o \in Owners, Create(o) \/ Update(o) \/ Delete(o)
      PROVE  PublicInv'
  BY <1>2, RequestsStep
<1>3. ASSUME NEW e \in Procs, ListAll(e) \/ Access(e) \/ Record(e)
      PROVE  PublicInv'
  BY <1>3, ListAllStep, AccessStep, RecordStep
<1>4. ASSUME NEW e \in Procs, NEW o \in Owners, Resolve(e, o)
      PROVE  PublicInv'
  BY <1>4, ResolveStep
<1>5. ASSUME NEW e \in Procs, ListReservations(e) \/ ReleaseStale(e)
      PROVE  PublicInv'
  BY <1>5, ListReservationsStep, ReleaseStaleStep
<1>6. ASSUME NEW e \in Procs, EndPass(e) \/ Crash(e)
      PROVE  PublicInv'
  BY <1>6, EndStep
<1>7. QED
  BY <1>1, <1>2, <1>3, <1>4, <1>5, <1>6 DEF Next, EdgeStep

\* With one edge, an ip_address that is Ready has its address reserved: the sweep
\* takes no reservation of it away, whatever is created, changed or deleted during
\* the pass, which calls of the store fail, and whenever the agent restarts.
THEOREM ReadyIsReserved ==
    ASSUME \A d, e \in Procs : d = e
    PROVE  Spec => []ReadyReserved
<1>1. PublicInv => ReadyReserved
  BY DEF PublicInv, HeldInv, ReadyReserved
<1>2. PublicInv /\ [Next]_vars => PublicInv'
  BY PublicStep
<1>3. QED
  BY <1>1, <1>2, PublicInit, PTL DEF Spec
==============================================================================
