---------------------- MODULE InstanceAddressesProofs ----------------------
(***************************************************************************)
(* AddressHeld of InstanceAddresses for every number of agents, instances  *)
(* and addresses, as long as no instance is evicted and no uid is used     *)
(* twice.  Then each record is reconciled by one agent only, and only that *)
(* agent touches its reservation.                                          *)
(***************************************************************************)
EXTENDS InstanceAddresses, TLAPS

USE AddressBookAssumption, InstanceAddressesAssumption
    DEF AddressBookAssumption, InstanceAddressesAssumption

\* The fields of a new record.
LEMMA PlacedFields ==
    ASSUME NEW n \in Procs
    PROVE  Placed(n) \in Records /\ Placed(n).node = n /\ Placed(n).ip = 0
  BY Zenon DEF Records, Placed

\* The fields of the records the writers make of a record.
LEMMA RecordFields ==
    ASSUME NEW r \in Records
    PROVE  /\ Unplaced(r) \in Records
           /\ Marked(r) \in Records /\ Marked(r).node = r.node
              /\ Marked(r).ip = r.ip /\ IsDeleting(Marked(r))
           /\ Finalized(r) \in Records /\ Finalized(r).node = r.node
              /\ Finalized(r).ip = r.ip
              /\ (IsDeleting(r) => IsDeleting(Finalized(r)))
<1>1. Unplaced(r) \in Records
  BY Zenon DEF Records, Unplaced
<1>2. Marked(r) \in Records /\ Marked(r).node = r.node
      /\ Marked(r).ip = r.ip /\ IsDeleting(Marked(r))
  BY Zenon DEF Records, Marked, IsDeleting
<1>3. Finalized(r) \in Records /\ Finalized(r).node = r.node
      /\ Finalized(r).ip = r.ip /\ (IsDeleting(r) => IsDeleting(Finalized(r)))
  BY Zenon DEF Records, Finalized, IsDeleting
<1>4. QED
  BY <1>1, <1>2, <1>3

\* The fields of the record ensure writes.
LEMMA RealisedFields ==
    ASSUME NEW r \in Records, NEW x \in Addresses \cup {0}
    PROVE  /\ Realised(r, x) \in Records
           /\ Realised(r, x).node = r.node
           /\ Realised(r, x).ip = x
           /\ IsDeleting(r) => IsDeleting(Realised(r, x))
  BY Zenon DEF Records, Realised, IsDeleting

\* A record's node and address.
LEMMA RecordTypes ==
    ASSUME NEW r \in Records
    PROVE  r.node \in Procs \cup {None} /\ r.ip \in Addresses \cup {0}
  BY Zenon DEF Records

\* What an agent is at: idle agents have no operation, the accesses of release
\* belong to finalize and the others to ensure, and each has its address.
AgentAt(a) ==
    /\ pc[a] = "idle" => who[a] = Nobody /\ op[a] = "none"
    /\ pc[a] # "idle" => who[a] \in created /\ snap[a] \in Records \ {Absent}
    /\ pc[a] \in {"ensure", "finalize"} /\ a \notin stale => rec[who[a]] = snap[a]
    /\ op[a] \in {"list", "reserve", "holder"} => pc[a] = "ensure"
    /\ op[a] \in {"get", "delete"} => pc[a] = "finalize"
    /\ op[a] \in {"get", "delete", "holder"} => ip[a] \in Addresses
    /\ op[a] = "ok" /\ pc[a] = "ensure" => ip[a] \in Addresses

AgentInv == \A a \in Procs : AgentAt(a)

\* Each record has one agent, the one of the node it was placed on.
OneAgent ==
    /\ \A o \in Owners : rec[o] # Absent => o \in created /\ rec[o].node \in Procs
    /\ \A a \in Procs :
         pc[a] # "idle" /\ rec[who[a]] # Absent => rec[who[a]].node = a
    /\ \A a, b \in Procs : pc[a] # "idle" /\ who[a] = who[b] => a = b

\* A reservation is deleted by its owner's agent, once the record is being
\* deleted or gone.
ReleaseInv ==
    \A a \in Procs :
        /\ pc[a] \in {"finalize", "remove"} =>
              rec[who[a]] = Absent \/ IsDeleting(rec[who[a]])
        /\ pc[a] \in {"finalize", "remove"} => IsDeleting(snap[a])
        /\ op[a] = "delete" => book[ip[a]] = who[a]

\* The inductive invariant.
AddressInv == TypeOK /\ AgentInv /\ OneAgent /\ ReleaseInv /\ AddressHeld

\* What an access of the address book may do: it concerns a alone, ends a claim
\* well only with the reservation made, turns to a deletion only of what a's
\* owner holds, and takes away no reservation but that one.
Moves(a) ==
    /\ UNCHANGED <<rec, pc, snap, stale, created, who>>
    /\ \A b \in Procs \ {a} : op'[b] = op[b] /\ ip'[b] = ip[b]
    /\ \/ op[a] \in {"reserve", "holder"} /\ op'[a] \in {"reserve", "holder", "ok", "no"}
       \/ op[a] \in {"get", "delete"} /\ op'[a] \in {"delete", "ok", "no"}
    /\ op'[a] \in {"holder", "delete"} => ip'[a] \in Addresses
    /\ op[a] \in {"reserve", "holder"} /\ op'[a] = "ok" =>
          ip'[a] \in Addresses /\ book'[ip'[a]] = who[a]
    /\ op'[a] = "delete" => book'[ip'[a]] = who[a]
    /\ \A o \in Owners : \A y \in Addresses :
         book[y] = o /\ (o = who[a] => op[a] # "delete") => book'[y] = o

\* The agent a writes at most its own record, and its reconcile ends or, with
\* the record being deleted, goes on to remove it.
Moved(a) ==
    /\ book' = book /\ created' = created
    /\ \A o \in Owners \ {who[a]} : rec'[o] = rec[o]
    /\ \A b \in Procs \ {a} :
         /\ pc'[b] = pc[b] /\ who'[b] = who[b] /\ op'[b] = op[b]
         /\ ip'[b] = ip[b] /\ snap'[b] = snap[b] /\ (b \in stale' <=> b \in stale)
    /\ \/ pc'[a] = "idle" /\ who'[a] = Nobody /\ op'[a] = "none"
       \/ /\ pc[a] = "finalize" /\ pc'[a] = "remove"
          /\ who'[a] = who[a] /\ op'[a] = "ok" /\ snap'[a] = snap[a]
          /\ rec'[who[a]] # Absent => IsDeleting(rec'[who[a]])

\* What a leaves in its record: still its own, and not without its address.
LeavesHeld(a) ==
    rec'[who[a]] # Absent =>
        /\ rec'[who[a]].node = a
        /\ ~IsDeleting(rec'[who[a]]) /\ rec'[who[a]].ip # 0 =>
              book[rec'[who[a]].ip] = who[a]

\* Every step keeps every variable's type.
LEMMA TypeStep == TypeOK /\ AgentInv /\ [Next]_vars => TypeOK'
<1> SUFFICES ASSUME TypeOK, AgentInv, [Next]_vars PROVE TypeOK'
  OBVIOUS
<1> USE DEF TypeOK, BookTypeOK, bookVars
<1>1. ASSUME NEW o \in Owners, Create(o) \/ Update(o) \/ Delete(o) \/ Evict(o)
      PROVE  TypeOK'
  <2>1. CASE Create(o)
    BY <2>1, PlacedFields DEF Create, Store, Request
  <2>2. CASE Update(o)
    BY <2>2 DEF Update, Store, Request
  <2>3. CASE Delete(o)
    BY <2>3, RecordFields DEF Delete, Store, Request
  <2>4. CASE Evict(o)
    BY <2>4, RecordFields DEF Evict, Store
  <2>5. QED
    BY <1>1, <2>1, <2>2, <2>3, <2>4
<1>2. ASSUME NEW a \in Procs, NEW o \in Owners, Load(a, o)
      PROVE  TypeOK'
  <2>1. rec[o] \in Records /\ rec[o].ip \in Addresses \cup {0}
    BY <1>2, RecordTypes DEF Load
  <2>2. QED
    BY <1>2, <2>1
       DEF Load, Goto, Begin, BeginClaim, BeginAllocate, BeginRelease, Set
<1>3. ASSUME NEW a \in Procs, ListUsed(a)
      PROVE  TypeOK'
  <2>1. {rec[o].ip : o \in {q \in Owners \ {who[a]} : rec[q] # Absent}} \ {0}
          \subseteq Addresses
    BY RecordTypes
  <2>2. QED
    BY <1>3, <2>1 DEF ListUsed, BeginAllocate, Begin, Set
<1>4. ASSUME NEW a \in Procs, Access(a)
      PROVE  TypeOK'
  <2>1. op[a] \in {"reserve", "delete"} => who[a] \in Owners
    BY DEF AgentInv, AgentAt
  <2>2. CASE Reserve(a) \/ Holder(a)
    BY <1>4, <2>1, <2>2 DEF Access, Reserve, Holder, Ended, AgentInv, AgentAt
  <2>3. CASE ReleaseGet(a) \/ ReleaseDelete(a)
    BY <1>4, <2>1, <2>3 DEF Access, ReleaseGet, ReleaseDelete, Ended
  <2>4. CASE BookError(a)
    BY <1>4, <2>1, <2>4 DEF Access, BookError, Ended
  <2>5. QED
    BY <1>4, <2>2, <2>3, <2>4 DEF Access, BookStep
<1>5. ASSUME NEW a \in Procs, Save(a)
      PROVE  TypeOK'
  <2>1. snap[a] \in Records /\ who[a] \in Owners
    BY <1>5 DEF Save, AgentInv, AgentAt
  <2>2. Realised(snap[a], IF op[a] = "ok" THEN ip[a] ELSE snap[a].ip) \in Records
    BY <2>1, RecordTypes, RealisedFields
  <2>3. QED
    BY <1>5, <2>1, <2>2 DEF Save, Put, GiveUp, Leave, End, Forget, Set, Goto
<1>6. ASSUME NEW a \in Procs, DropFinalizer(a)
      PROVE  TypeOK'
  <2>1. Finalized(snap[a]) \in Records /\ who[a] \in Owners
    BY <1>6, RecordFields DEF DropFinalizer, AgentInv, AgentAt
  <2>2. QED
    <3>1. CASE GiveUp(a)
      BY <1>6, <3>1 DEF DropFinalizer, GiveUp, Leave, End, Forget, Set, Goto
    <3>2. CASE ~GiveUp(a)
      BY <1>6, <2>1, <3>2 DEF DropFinalizer, Put, Goto, bookVars
    <3>3. QED
      BY <3>1, <3>2
<1>7. ASSUME NEW a \in Procs, Remove(a) \/ Crash(a)
      PROVE  TypeOK'
  BY <1>7 DEF Remove, Crash, Leave, End, Forget, Set, Goto
<1>8. CASE UNCHANGED vars
  BY <1>8 DEF vars
<1>9. QED
  BY <1>1, <1>2, <1>3, <1>4, <1>5, <1>6, <1>7, <1>8 DEF Next

-----------------------------------------------------------------------------

\* Every step of the API, of an agent and of the address book keeps the
\* invariant, where nothing is evicted and no uid is used again.
LEMMA AddressStep ==
    ASSUME MaxEvictions = 0, Reusable = {}
    PROVE  AddressInv /\ [Next]_vars => AddressInv'
<1> SUFFICES ASSUME AddressInv, [Next]_vars PROVE AddressInv'
  OBVIOUS
<1> USE DEF AddressInv
<1>0. TypeOK'
  BY TypeStep
<1>t. /\ rec \in [Owners -> Records \cup {Absent}]
      /\ pc \in [Procs -> {"idle", "ensure", "finalize", "remove"}]
      /\ who \in [Procs -> Owners \cup {Nobody}]
      /\ op \in [Procs -> {"none", "list", "reserve", "holder", "get", "delete", "ok", "no"}]
      /\ book \in [Addresses -> Owners \cup {Free}]
      /\ ip \in [Procs -> Addresses \cup {0}]
      /\ snap \in [Procs -> Records \cup {Absent}]
      /\ created \subseteq Owners /\ stale \subseteq Procs
  BY DEF TypeOK, BookTypeOK
<1>w. \A a \in Procs : pc[a] # "idle" => who[a] \in Owners
  BY <1>t DEF AgentInv, AgentAt
<1>i. \A o \in Owners : rec[o] # Absent => rec[o].ip \in Addresses \cup {0}
  BY <1>t, RecordTypes
<1>o. \A a, b \in Procs : pc[a] # "idle" /\ a # b => who[b] # who[a]
  BY DEF OneAgent
<1>m. ASSUME NEW a \in Procs, pc[a] # "idle", Moved(a), LeavesHeld(a)
      PROVE  AddressInv'
  <2>1. /\ who[a] \in Owners /\ who[a] \in created /\ snap[a] \in Records \ {Absent}
        /\ \A b \in Procs \ {a} : who[b] # who[a]
    BY <1>m, <1>w, <1>o DEF AgentInv, AgentAt
  <2>2. AgentInv'
    <3>1. ASSUME NEW b \in Procs \ {a} PROVE AgentAt(b)'
      <4>1. pc[b] # "idle" => rec'[who[b]] = rec[who[b]]
        BY <1>m, <1>w, <2>1 DEF Moved
      <4>2. AgentAt(b)
        BY DEF AgentInv
      <4>3. QED
        BY <1>m, <4>1, <4>2 DEF Moved, AgentAt
    <3>2. AgentAt(a)'
      BY <1>m, <2>1 DEF Moved, AgentAt
    <3>3. QED
      BY <3>1, <3>2 DEF AgentInv
  <2>3. OneAgent'
    <3>1. ASSUME NEW o \in Owners, rec'[o] # Absent
          PROVE  o \in created' /\ rec'[o].node \in Procs
      <4>1. CASE o = who[a]
        BY <1>m, <2>1, <3>1, <4>1 DEF Moved, LeavesHeld
      <4>2. CASE o # who[a]
        BY <1>m, <3>1, <4>2 DEF Moved, OneAgent
      <4>3. QED
        BY <4>1, <4>2
    <3>2. ASSUME NEW b \in Procs, pc'[b] # "idle", rec'[who'[b]] # Absent
          PROVE  rec'[who'[b]].node = b
      <4>1. CASE b = a
        BY <1>m, <3>2, <4>1 DEF Moved, LeavesHeld
      <4>2. CASE b # a
        BY <1>m, <1>w, <2>1, <3>2, <4>2 DEF Moved, OneAgent
      <4>3. QED
        BY <4>1, <4>2
    <3>3. ASSUME NEW b \in Procs, NEW c \in Procs, pc'[b] # "idle", who'[b] = who'[c]
          PROVE  b = c
      <4>1. who[b] \in Owners /\ pc[b] # "idle" /\ who'[b] = who[b]
        BY <1>m, <1>w, <3>3 DEF Moved
      <4>2. who'[c] = who[c]
        BY <1>m, <3>3, <4>1, AddressBookAssumption DEF Moved
      <4>3. QED
        BY <1>o, <3>3, <4>1, <4>2
    <3>4. QED
      BY <3>1, <3>2, <3>3 DEF OneAgent
  <2>4. ReleaseInv'
    <3>1. ASSUME NEW b \in Procs \ {a}
          PROVE  /\ pc'[b] \in {"finalize", "remove"} =>
                       /\ rec'[who'[b]] = Absent \/ IsDeleting(rec'[who'[b]])
                       /\ IsDeleting(snap'[b])
                 /\ op'[b] = "delete" => book'[ip'[b]] = who'[b]
      BY <1>m, <1>w, <2>1 DEF Moved, ReleaseInv
    <3>2. /\ pc'[a] \in {"finalize", "remove"} =>
                /\ rec'[who'[a]] = Absent \/ IsDeleting(rec'[who'[a]])
                /\ IsDeleting(snap'[a])
          /\ op'[a] # "delete"
      BY <1>m DEF Moved, ReleaseInv
    <3>3. (\A b \in Procs :
             /\ pc[b] \in {"finalize", "remove"} =>
                   /\ rec[who[b]] = Absent \/ IsDeleting(rec[who[b]])
                   /\ IsDeleting(snap[b])
             /\ op[b] = "delete" => book[ip[b]] = who[b])'
      BY <3>1, <3>2 DEF IsDeleting
    <3>4. QED
      BY <3>3 DEF ReleaseInv
  <2>5. AddressHeld'
    <3>1. ASSUME NEW o \in Owners, rec'[o] # Absent, ~IsDeleting(rec'[o]), rec'[o].ip # 0
          PROVE  book'[rec'[o].ip] = o
      BY <1>m, <3>1 DEF Moved, LeavesHeld, AddressHeld
    <3>2. ASSUME NEW b \in Procs, pc'[b] = "ensure", op'[b] = "ok", b \notin stale'
          PROVE  book'[ip'[b]] = who'[b]
      BY <1>m, <3>2 DEF Moved, AddressHeld
    <3>3. QED
      BY <3>1, <3>2 DEF AddressHeld, IsDeleting
  <2>6. QED
    BY <1>0, <2>2, <2>3, <2>4, <2>5
<1>g. ASSUME NEW a \in Procs, pc[a] # "idle", UNCHANGED <<book, rec, created>>,
             Goto(a, "idle"), Forget(a), snap' = [snap EXCEPT ![a] = Absent],
             stale' = stale \ {a}
      PROVE  AddressInv'
  <2>1. Moved(a)
    BY <1>g, <1>t DEF Moved, Goto, Forget, Set
  <2>2. LeavesHeld(a)
    BY <1>g, <1>w DEF LeavesHeld, OneAgent, AddressHeld
  <2>3. QED
    BY <1>g, <1>m, <2>1, <2>2
<1>1. ASSUME NEW o \in Owners, Create(o)
      PROVE  AddressInv'
  <2>1. PICK n \in Procs : Store(o, Placed(n))
    BY <1>1 DEF Create
  <2>2. \A a \in Procs : who[a] # o
    BY <1>1, <1>t, <1>w DEF AgentInv, AgentAt, Create
  <2> USE <1>1, <1>t, <1>w, <2>1, <2>2 DEF Create, Store, Request, bookVars
  <2>3. AgentInv'
    BY DEF AgentInv, AgentAt
  <2>4. OneAgent'
    <3>1. Placed(n).node = n
      BY PlacedFields
    <3>2. \A q \in Owners : rec'[q] # Absent => q \in created' /\ rec'[q].node \in Procs
      BY <3>1 DEF OneAgent
    <3>3. \A b \in Procs : pc[b] # "idle" => rec'[who[b]] = rec[who[b]]
      OBVIOUS
    <3>4. QED
      BY <3>2, <3>3 DEF OneAgent
  <2>5. ReleaseInv'
    BY DEF ReleaseInv
  <2>6. AddressHeld'
    BY PlacedFields DEF AddressHeld
  <2>7. QED
    BY <1>0, <2>3, <2>4, <2>5, <2>6
<1>2. ASSUME NEW o \in Owners, Update(o)
      PROVE  AddressInv'
  <2> USE <1>2, <1>t, <1>w DEF Update, Store, Request, bookVars
  <2>1. AgentInv'
    BY DEF AgentInv, AgentAt
  <2>2. OneAgent' /\ ReleaseInv'
    BY DEF OneAgent, ReleaseInv
  <2>3. AddressHeld'
    BY DEF AddressHeld
  <2>4. QED
    BY <1>0, <2>1, <2>2, <2>3
<1>3. ASSUME NEW o \in Owners, Delete(o)
      PROVE  AddressInv'
  <2>1. rec[o] \in Records
    BY <1>3, <1>t DEF Delete
  <2> USE <1>3, <1>t, <1>w, <2>1 DEF Delete, Store, Request, bookVars
  <2>2. AgentInv'
    BY DEF AgentInv, AgentAt
  <2>3. OneAgent'
    BY RecordFields DEF OneAgent
  <2>4. ReleaseInv'
    BY RecordFields DEF ReleaseInv
  <2>5. AddressHeld'
    BY RecordFields DEF AddressHeld
  <2>6. QED
    BY <1>0, <2>2, <2>3, <2>4, <2>5
<1>4. ASSUME NEW o \in Owners, Evict(o)
      PROVE  AddressInv'
  BY <1>4 DEF Evict, TypeOK
<1>5. ASSUME NEW a \in Procs, NEW o \in Owners, Load(a, o)
      PROVE  AddressInv'
  <2>1. /\ rec[o] \in Records /\ rec[o].ip \in Addresses \cup {0}
        /\ rec[o].node = a /\ o \in created
    BY <1>5, <1>t, RecordTypes DEF Load, InScope, OneAgent
  <2>2. pc[a] = "idle" /\ rec[o] # Absent
    BY <1>5 DEF Load
  <2>3. \A b \in Procs : pc[b] = "idle" => who[b] # o
    BY DEF AgentInv, AgentAt
  <2>4. \A b \in Procs : pc[b] # "idle" /\ who[b] = o => b = a
    BY <2>1, <2>2 DEF OneAgent
  <2>5. \A b \in Procs : who[b] # o
    BY <2>2, <2>3, <2>4
  <2>6. /\ UNCHANGED <<book, rec, created>>
        /\ \A b \in Procs \ {a} :
             /\ pc'[b] = pc[b] /\ who'[b] = who[b] /\ op'[b] = op[b]
             /\ ip'[b] = ip[b] /\ snap'[b] = snap[b] /\ (b \in stale' <=> b \in stale)
        /\ who'[a] = o /\ snap'[a] = rec[o]
    BY <1>5, <1>t DEF Load, Goto, Begin, BeginClaim, BeginAllocate, BeginRelease, Set
  <2>7. \/ /\ pc'[a] = "ensure" /\ op'[a] \in {"no", "list", "reserve"}
        \/ /\ pc'[a] = "finalize" /\ op'[a] \in {"get", "ok"} /\ IsDeleting(rec[o])
           /\ op'[a] = "get" => ip'[a] \in Addresses
        \/ pc'[a] = "remove" /\ op'[a] = "ok" /\ IsDeleting(rec[o])
    <3>1. CASE ~IsDeleting(rec[o])
      BY <1>5, <1>t, <3>1 DEF Load, Goto, Begin, BeginClaim, BeginAllocate, Set
    <3>2. CASE IsDeleting(rec[o]) /\ HasFinalizer(rec[o])
      BY <1>5, <1>t, <2>1, <3>2 DEF Load, Goto, Begin, BeginRelease, Set
    <3>3. CASE IsDeleting(rec[o]) /\ ~HasFinalizer(rec[o])
      BY <1>5, <1>t, <3>3 DEF Load, Goto, Begin, Set
    <3>4. QED
      BY <3>1, <3>2, <3>3
  <2>8. AgentInv'
    <3>1. ASSUME NEW b \in Procs \ {a} PROVE AgentAt(b)'
      <4>1. AgentAt(b)
        BY DEF AgentInv
      <4>2. QED
        BY <2>6, <4>1 DEF AgentAt
    <3>2. AgentAt(a)'
      BY <2>1, <2>2, <2>6, <2>7 DEF AgentAt
    <3>3. QED
      BY <3>1, <3>2 DEF AgentInv
  <2>9. OneAgent'
    <3>1. ASSUME NEW b \in Procs, pc'[b] # "idle", rec'[who'[b]] # Absent
          PROVE  rec'[who'[b]].node = b
      <4>1. CASE b = a
        BY <2>1, <2>6, <4>1
      <4>2. CASE b # a
        BY <2>6, <3>1, <4>2 DEF OneAgent
      <4>3. QED
        BY <4>1, <4>2
    <3>2. ASSUME NEW b \in Procs, NEW c \in Procs, pc'[b] # "idle", who'[b] = who'[c]
          PROVE  b = c
      <4>1. CASE b = a \/ c = a
        BY <2>5, <2>6, <3>2, <4>1
      <4>2. CASE b # a /\ c # a
        <5>1. pc[b] # "idle" /\ who[b] = who[c]
          BY <2>6, <3>2, <4>2
        <5>2. QED
          BY <1>o, <5>1
      <4>3. QED
        BY <4>1, <4>2
    <3>3. QED
      BY <2>6, <3>1, <3>2 DEF OneAgent
  <2>10. ReleaseInv'
    <3>1. ASSUME NEW b \in Procs
          PROVE  /\ pc'[b] \in {"finalize", "remove"} =>
                       /\ rec'[who'[b]] = Absent \/ IsDeleting(rec'[who'[b]])
                       /\ IsDeleting(snap'[b])
                 /\ op'[b] = "delete" => book'[ip'[b]] = who'[b]
      <4>1. CASE b = a
        BY <2>6, <2>7, <4>1
      <4>2. CASE b # a
        BY <2>6, <4>2 DEF ReleaseInv
      <4>3. QED
        BY <4>1, <4>2
    <3>2. QED
      BY <3>1 DEF ReleaseInv, IsDeleting
  <2>11. AddressHeld'
    BY <2>6, <2>7 DEF AddressHeld
  <2>12. QED
    BY <1>0, <2>8, <2>9, <2>10, <2>11
<1>6. ASSUME NEW a \in Procs, ListUsed(a)
      PROVE  AddressInv'
  <2>1. /\ op[a] = "list" /\ op'[a] = "reserve" /\ who' = who
        /\ \A b \in Procs \ {a} : op'[b] = op[b] /\ ip'[b] = ip[b]
        /\ UNCHANGED <<book, rec, pc, snap, stale, created>>
    BY <1>6, <1>t DEF ListUsed, BeginAllocate, Begin, Set
  <2>2. AgentInv'
    <3>1. ASSUME NEW b \in Procs PROVE AgentAt(b)'
      <4>1. AgentAt(b)
        BY DEF AgentInv
      <4>2. CASE b = a
        BY <2>1, <4>1, <4>2 DEF AgentAt
      <4>3. CASE b # a
        BY <2>1, <4>1, <4>3 DEF AgentAt
      <4>4. QED
        BY <4>2, <4>3
    <3>2. QED
      BY <3>1 DEF AgentInv
  <2>3. OneAgent'
    BY <2>1 DEF OneAgent
  <2>4. ReleaseInv'
    BY <2>1 DEF ReleaseInv
  <2>5. AddressHeld'
    BY <2>1 DEF AddressHeld
  <2>6. QED
    BY <1>0, <2>2, <2>3, <2>4, <2>5
<1>7. ASSUME NEW a \in Procs, Access(a)
      PROVE  AddressInv'
  <2>1. /\ UNCHANGED <<rec, pc, snap, stale, created>>
        /\ BookStep(a) \/ BookError(a)
    BY <1>7 DEF Access
  <2>2. op[a] \in {"get", "delete", "holder"} => ip[a] \in Addresses
    BY DEF AgentInv, AgentAt
  <2>3. op[a] = "delete" => book[ip[a]] = who[a]
    BY DEF ReleaseInv
  <2>4. Moves(a)
    <3> USE <1>t, <2>1, <2>2, <2>3 DEF Moves, Ended
    <3>1. CASE Reserve(a)
      <4>1. CASE UNCHANGED book
        BY <3>1, <4>1 DEF Reserve
      <4>2. ASSUME NEW x \in Addresses, book[x] = Free,
                   ip' = [ip EXCEPT ![a] = x], book' = [book EXCEPT ![x] = who[a]],
                   op' = [op EXCEPT ![a] = "ok"]
            PROVE  Moves(a)
        <5>1. op[a] = "reserve" /\ who' = who
          BY <3>1 DEF Reserve
        <5>2. \A o \in Owners : \A y \in Addresses : book[y] = o => book'[y] = o
          BY <4>2
        <5>3. QED
          BY <4>2, <5>1, <5>2
      <4>3. QED
        BY <3>1, <4>1, <4>2 DEF Reserve
    <3>2. CASE Holder(a)
      BY <3>2 DEF Holder
    <3>3. CASE ReleaseGet(a)
      BY <3>3 DEF ReleaseGet
    <3>4. CASE ReleaseDelete(a)
      BY <3>4 DEF ReleaseDelete
    <3>5. CASE BookError(a)
      BY <3>5 DEF BookError
    <3>6. QED
      BY <3>1, <3>2, <3>3, <3>4, <3>5 DEF BookStep
  <2>5. AgentInv'
    <3>1. ASSUME NEW b \in Procs \ {a} PROVE AgentAt(b)'
      BY <2>4 DEF Moves, AgentInv, AgentAt
    <3>2. AgentAt(a)'
      <4>1. AgentAt(a)
        BY DEF AgentInv
      <4>2. QED
        BY <2>4, <4>1 DEF Moves, AgentAt
    <3>3. QED
      BY <3>1, <3>2 DEF AgentInv
  <2>6. OneAgent'
    BY <2>4 DEF Moves, OneAgent
  <2>7. pc[a] # "idle" /\ (op[a] = "delete" => pc[a] = "finalize")
        /\ (pc[a] = "ensure" => op[a] \in {"reserve", "holder"})
    BY <2>4 DEF Moves, AgentInv, AgentAt
  <2>8. ASSUME NEW b \in Procs, op'[b] = "delete"
        PROVE  book'[ip'[b]] = who[b]
    <3>1. CASE b = a
      BY <2>4, <2>8, <3>1 DEF Moves
    <3>2. CASE b # a
      <4>1. op[b] = "delete" /\ ip'[b] = ip[b] /\ who[b] # who[a]
        BY <1>o, <2>4, <2>7, <2>8, <3>2 DEF Moves
      <4>2. ip[b] \in Addresses /\ who[b] \in Owners /\ book[ip[b]] = who[b]
        BY <1>w, <4>1 DEF AgentInv, AgentAt, ReleaseInv
      <4>3. QED
        BY <2>4, <4>1, <4>2 DEF Moves
    <3>3. QED
      BY <3>1, <3>2
  <2>9. ReleaseInv'
    BY <2>4, <2>8 DEF Moves, ReleaseInv
  <2>10. ASSUME NEW o \in Owners, rec[o] # Absent, ~IsDeleting(rec[o]), rec[o].ip # 0
         PROVE  book'[rec[o].ip] = o
    <3>1. o = who[a] => op[a] # "delete"
      BY <2>7, <2>10 DEF ReleaseInv
    <3>2. rec[o].ip \in Addresses /\ book[rec[o].ip] = o
      BY <1>i, <2>10 DEF AddressHeld
    <3>3. QED
      BY <2>4, <3>1, <3>2 DEF Moves
  <2>11. ASSUME NEW b \in Procs, pc[b] = "ensure", op'[b] = "ok", b \notin stale
         PROVE  book'[ip'[b]] = who[b]
    <3>1. CASE b = a
      BY <2>4, <2>7, <2>11, <3>1 DEF Moves
    <3>2. CASE b # a
      <4>1. op[b] = "ok" /\ ip'[b] = ip[b] /\ who[b] # who[a]
        BY <1>o, <2>4, <2>7, <2>11, <3>2 DEF Moves
      <4>2. ip[b] \in Addresses /\ who[b] \in Owners /\ book[ip[b]] = who[b]
        BY <1>w, <2>11, <4>1 DEF AgentInv, AgentAt, AddressHeld
      <4>3. QED
        BY <2>4, <4>1, <4>2 DEF Moves
    <3>3. QED
      BY <3>1, <3>2
  <2>12. AddressHeld'
    BY <2>4, <2>10, <2>11 DEF Moves, AddressHeld
  <2>13. QED
    BY <1>0, <2>5, <2>6, <2>9, <2>12
<1>8. ASSUME NEW a \in Procs, Save(a)
      PROVE  AddressInv'
  <2>1. /\ snap[a] \in Records /\ who[a] \in Owners /\ pc[a] = "ensure"
        /\ snap[a].ip \in Addresses \cup {0} /\ created' = created
    BY <1>8, <1>t, <1>w, RecordTypes DEF Save, AgentInv, AgentAt
  <2>2. CASE GiveUp(a)
    BY <1>g, <2>1, <2>2 DEF GiveUp, Leave, End
  <2>3. CASE ~GiveUp(a)
    <3> DEFINE x == IF op[a] = "ok" THEN ip[a] ELSE snap[a].ip
               R == Realised(snap[a], x)
    <3>1. Put(a, R) /\ Leave(a)
      BY <1>8, <2>3 DEF Save
    <3>2. rec[who[a]] = snap[a]
      BY <2>1, <3>1 DEF Put, AgentInv, AgentAt
    <3>3. /\ x \in Addresses \cup {0}
          /\ IF op[a] = "ok" THEN x = ip[a] ELSE x = snap[a].ip
      BY <1>t, <2>1
    <3> HIDE DEF x
    <3>4. R \in Records /\ R.node = snap[a].node /\ R.ip = x
          /\ (IsDeleting(snap[a]) => IsDeleting(R))
      BY <2>1, <3>3, RealisedFields
    <3>5. snap[a].node = a /\ snap[a] # Absent
      BY <2>1, <3>2 DEF OneAgent, AgentInv, AgentAt
    <3> HIDE DEF R
    <3>6. Moved(a)
      BY <1>o, <1>t, <2>1, <3>1 DEF Moved, Put, Leave, End, Forget, Set, Goto
    <3>7. rec'[who[a]] = R
      BY <1>t, <2>1, <3>1 DEF Put
    <3>8. ~IsDeleting(R) /\ x # 0 => book[x] = who[a]
      <4>1. CASE op[a] = "ok"
        <5>1. a \notin stale
          BY <3>1 DEF Put
        <5>2. book[ip[a]] = who[a]
          BY <2>1, <4>1, <5>1 DEF AddressHeld
        <5>3. QED
          BY <3>3, <4>1, <5>2
      <4>2. CASE op[a] # "ok"
        BY <2>1, <3>2, <3>3, <3>4, <3>5, <4>2 DEF AddressHeld
      <4>3. QED
        BY <4>1, <4>2
    <3>9. LeavesHeld(a)
      BY <3>4, <3>5, <3>7, <3>8 DEF LeavesHeld
    <3>10. QED
      BY <1>m, <2>1, <3>6, <3>9
  <2>4. QED
    BY <2>2, <2>3
<1>9. ASSUME NEW a \in Procs, DropFinalizer(a)
      PROVE  AddressInv'
  <2>1. /\ snap[a] \in Records /\ who[a] \in Owners /\ pc[a] = "finalize"
        /\ IsDeleting(snap[a]) /\ created' = created
    BY <1>9, <1>t, <1>w DEF DropFinalizer, AgentInv, AgentAt, ReleaseInv
  <2>2. CASE GiveUp(a)
    BY <1>g, <2>1, <2>2 DEF GiveUp, Leave, End
  <2>3. CASE ~GiveUp(a)
    <3>1. /\ Put(a, Finalized(snap[a])) /\ pc' = [pc EXCEPT ![a] = "remove"]
          /\ UNCHANGED <<bookVars, snap, created>>
          /\ op[a] = "ok"
      BY <1>9, <2>3 DEF DropFinalizer, Goto
    <3>2. rec[who[a]] = snap[a] /\ rec'[who[a]] = Finalized(snap[a])
      BY <1>t, <2>1, <3>1 DEF Put, AgentInv, AgentAt
    <3>3. /\ Finalized(snap[a]).node = snap[a].node
          /\ IsDeleting(Finalized(snap[a]))
      BY <2>1, RecordFields
    <3>4. snap[a].node = a
      BY <2>1, <3>2 DEF OneAgent, AgentInv, AgentAt
    <3>5. Moved(a)
      BY <1>o, <1>t, <2>1, <3>1, <3>2, <3>3 DEF Moved, Put, bookVars
    <3>6. LeavesHeld(a)
      BY <3>2, <3>3, <3>4 DEF LeavesHeld
    <3>7. QED
      BY <1>m, <2>1, <3>5, <3>6
  <2>4. QED
    BY <2>2, <2>3
<1>10. ASSUME NEW a \in Procs, Remove(a)
       PROVE  AddressInv'
  <2>1. pc[a] = "remove" /\ who[a] \in Owners
    BY <1>10, <1>w DEF Remove
  <2>2. Moved(a)
    BY <1>10, <1>o, <1>t, <2>1 DEF Moved, Remove, Leave, End, Forget, Set, Goto
  <2>3. LeavesHeld(a)
    BY <1>10, <1>t, <2>1 DEF LeavesHeld, Remove
  <2>4. QED
    BY <1>m, <2>1, <2>2, <2>3
<1>11. ASSUME NEW a \in Procs, Crash(a)
       PROVE  AddressInv'
  BY <1>g, <1>11 DEF Crash
<1>12. CASE UNCHANGED vars
  BY <1>0, <1>12 DEF vars, bookVars, AgentInv, AgentAt, OneAgent, ReleaseInv, AddressHeld
<1>13. QED
  BY <1>1, <1>2, <1>3, <1>4, <1>5, <1>6, <1>7, <1>8, <1>9, <1>10, <1>11, <1>12 DEF Next

\* AddressHeld for every number of agents, instances and addresses, whatever
\* fails or crashes: where no instance is evicted and no uid is used again, a
\* live instance keeps the reservation of its address and no agent starts an
\* instance on an address reserved for another (resolve in compute.go).
THEOREM AddressesAreHeld ==
    ASSUME MaxEvictions = 0, Reusable = {}
    PROVE  Spec => []AddressHeld
<1>1. ASSUME Init PROVE AddressInv
  <2>1. TypeOK
    BY <1>1 DEF Init, BookInit, TypeOK, BookTypeOK
  <2>2. AgentInv /\ OneAgent
    BY <1>1 DEF Init, BookInit, AgentInv, AgentAt, OneAgent
  <2>3. ReleaseInv /\ AddressHeld
    BY <1>1 DEF Init, BookInit, ReleaseInv, AddressHeld
  <2>4. QED
    BY <2>1, <2>2, <2>3 DEF AddressInv
<1>2. AddressInv /\ [Next]_vars => AddressInv'
  BY AddressStep
<1>3. AddressInv => AddressHeld
  BY DEF AddressInv
<1>4. QED
  BY <1>1, <1>2, <1>3, PTL DEF Spec
=============================================================================
