---------------------------- MODULE AddressBook ----------------------------
(***************************************************************************)
(* Address reservations in the shared store: addressBook of                *)
(* internal/manager/addressbook.go.  A process runs one claim, allocate or *)
(* release at a time; each store access of it is a step.  A reservation is *)
(* created only where there is none, and dropped by a read followed by an  *)
(* unconditional delete.                                                   *)
(*                                                                         *)
(* op[p] is the access p makes next, or how its last operation ended:      *)
(* "ok" when it succeeded, "no" when it returned an error or, for a claim, *)
(* another holder.                                                         *)
(***************************************************************************)
EXTENDS Integers

CONSTANTS
    Procs,     \* agents: the callers
    Owners,    \* uids that hold reservations
    Addresses, \* the host addresses of the block, in the order they are tried
    MaxFaults, \* bound on failing store calls and crashes
    Free,      \* no reservation
    Nobody     \* no owner: p has no operation

ASSUME AddressBookAssumption ==
    /\ Addresses \subseteq Nat \ {0}
    /\ MaxFaults \in Nat
    /\ Free \notin Owners
    /\ Nobody \notin Owners

VARIABLES
    book,   \* the reservation of each address
    op,     \* see above
    who,    \* the owner p acts for
    ip,     \* the address p is at; 0 for none
    used,   \* addresses p's allocate does not try
    faults  \* faults so far

bookVars == <<book, op, who, ip, used, faults>>

BookInit ==
    /\ book = [x \in Addresses |-> Free]
    /\ op = [p \in Procs |-> "none"]
    /\ who = [p \in Procs |-> Nobody]
    /\ ip = [p \in Procs |-> 0]
    /\ used = [p \in Procs |-> {}]
    /\ faults = 0

-----------------------------------------------------------------------------
(* How a caller starts an operation *)

Set(p, o, access, x, except) ==
    /\ op' = [op EXCEPT ![p] = access]
    /\ who' = [who EXCEPT ![p] = o]
    /\ ip' = [ip EXCEPT ![p] = x]
    /\ used' = [used EXCEPT ![p] = except]

\* The caller is left without an operation.
Forget(p) == Set(p, Nobody, "none", 0, {})

Begin(p, o, access, x, except) ==
    /\ Set(p, o, access, x, except)
    /\ UNCHANGED <<book, faults>>

\* allocate(cidr, subnet, owner, used)
BeginAllocate(p, o, except) == Begin(p, o, "reserve", 0, except)

\* claim(subnet, ip, owner): an allocation that may try one address only.
BeginClaim(p, o, x) == BeginAllocate(p, o, Addresses \ {x})

\* release(subnet, ip, owner)
BeginRelease(p, o, x) == Begin(p, o, "get", x, {})

End(p) == Forget(p) /\ UNCHANGED <<book, faults>>

-----------------------------------------------------------------------------
(* The accesses *)

Ended(p, how) == op' = [op EXCEPT ![p] = how]

\* allocateIP: the first address not in used.
IsNext(p, x) == x \notin used[p] /\ \A y \in Addresses \ used[p] : x <= y

\* allocate picks the next address, and claim tries to create its reservation.
Reserve(p) ==
    /\ op[p] = "reserve"
    /\ \/ /\ Addresses \subseteq used[p]
          /\ Ended(p, "no")
          /\ UNCHANGED <<book, ip>>
       \/ \E x \in Addresses :
            /\ IsNext(p, x)
            /\ ip' = [ip EXCEPT ![p] = x]
            /\ \/ /\ book[x] = Free
                  /\ book' = [book EXCEPT ![x] = who[p]]
                  /\ Ended(p, "ok")
               \/ /\ book[x] # Free
                  /\ Ended(p, "holder")
                  /\ UNCHANGED book
    /\ UNCHANGED <<who, used, faults>>

\* Mutant of Holder: allocate tries the address it just lost again.
Holder_Retries(p) ==
    /\ op[p] = "holder"
    /\ Ended(p, IF book[ip[p]] = Free THEN "no"
                ELSE IF book[ip[p]] = who[p] THEN "ok" ELSE "reserve")
    /\ UNCHANGED <<book, who, ip, used, faults>>

\* The swap failed: claim reads who holds the address, and allocate goes on to
\* the next one. A reservation released meanwhile makes the read an error.
Holder(p) ==
    /\ op[p] = "holder"
    /\ IF book[ip[p]] \in {Free, who[p]}
         THEN /\ Ended(p, IF book[ip[p]] = Free THEN "no" ELSE "ok")
              /\ UNCHANGED used
         ELSE /\ used' = [used EXCEPT ![p] = @ \cup {ip[p]}]
              /\ Ended(p, "reserve")
    /\ UNCHANGED <<book, who, ip, faults>>

\* Mutant of ReleaseGet: any reservation of the address is dropped.
ReleaseGet_AnyOwner(p) ==
    /\ op[p] = "get"
    /\ Ended(p, IF book[ip[p]] # Free THEN "delete" ELSE "ok")
    /\ UNCHANGED <<book, who, ip, used, faults>>

\* release reads the reservation; another owner's is kept.
ReleaseGet(p) ==
    /\ op[p] = "get"
    /\ Ended(p, IF book[ip[p]] = who[p] THEN "delete" ELSE "ok")
    /\ UNCHANGED <<book, who, ip, used, faults>>

ReleaseDelete(p) ==
    /\ op[p] = "delete"
    /\ book' = [book EXCEPT ![ip[p]] = Free]
    /\ Ended(p, "ok")
    /\ UNCHANGED <<who, ip, used, faults>>

\* A store call fails; a write may have been applied all the same.
BookError(p) ==
    /\ op[p] \in {"reserve", "holder", "get", "delete"}
    /\ faults < MaxFaults
    /\ faults' = faults + 1
    /\ Ended(p, "no")
    /\ \/ UNCHANGED book
       \/ op[p] = "delete" /\ book' = [book EXCEPT ![ip[p]] = Free]
       \/ /\ op[p] = "reserve"
          /\ \E x \in Addresses :
               IsNext(p, x) /\ book[x] = Free /\ book' = [book EXCEPT ![x] = who[p]]
    /\ UNCHANGED <<who, ip, used>>

BookStep(p) == Reserve(p) \/ Holder(p) \/ ReleaseGet(p) \/ ReleaseDelete(p)

BookTypeOK ==
    /\ book \in [Addresses -> Owners \cup {Free}]
    /\ op \in [Procs -> {"none", "list", "reserve", "holder", "get", "delete", "ok", "no"}]
    /\ who \in [Procs -> Owners \cup {Nobody}]
    /\ ip \in [Procs -> Addresses \cup {0}]
    /\ used \in [Procs -> SUBSET Addresses]
    /\ faults \in 0 .. MaxFaults
=============================================================================
