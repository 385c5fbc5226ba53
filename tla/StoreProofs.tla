---------------------------- MODULE StoreProofs -----------------------------
(***************************************************************************)
(* The store under the managers: the lease they keep in it, which elects   *)
(* the leading one, and its file backend, which implements the Store       *)
(* interface.  Each part is proved for every value of its own constants and *)
(* says nothing of the other.                                              *)
(***************************************************************************)
EXTENDS Lease, FileStore, TLAPS


-----------------------------------------------------------------------------
(* Leader election is safe for every set of managers, every TTL and every  *)
(* clock offset: LeaseExclusion and NoTheft of Lease, from one inductive   *)
(* invariant.                                                              *)

\* The renewal goroutine exists only inside RunOnce, so a manager has at most
\* one swap in flight.
OneSwap ==
    \A m \in Managers : ren[m] # "off" => main[m] \in {"run", "join"}

\* What a swap in flight knows as long as the bytes it read are still stored:
\* the condition under which its caller decided to swap still holds.
SwapInv ==
    \A m \in Managers :
        /\ main[m] = "acquire" /\ cur[m] = "current" =>
              lease.holder \in {Absent, m} \/ lease.left <= Offset[m]
        /\ ren[m] = "renew" \/ main[m] = "release" =>
              cur[m] # "free" /\ (cur[m] = "current" => lease.holder = m)

\* A swap in flight proposes an expiry no earlier than the one already won.
ProposalInv ==
    \A m \in Managers :
        /\ mine[m] <= TTL + Offset[m]
        /\ pend[m] <= TTL + Offset[m]
        /\ main[m] = "acquire" \/ ren[m] = "renew" => pend[m] >= mine[m]

\* The inductive invariant: LeaseExclusion alone is not inductive, because a
\* swap in flight could overwrite an unexpired lease if nothing said why it
\* was started.
LeaseInv == TypeOK /\ OneSwap /\ SwapInv /\ ProposalInv /\ LeaseExclusion

\* Every step of the election keeps every variable's type.
LEMMA TypeStep == TypeOK /\ [Next]_vars => TypeOK'
<1> USE LeaseAssumption DEF LeaseAssumption
<1> SUFFICES ASSUME TypeOK, [Next]_vars PROVE TypeOK'
  OBVIOUS
<1> USE DEF TypeOK, MainStates
<1>1. CASE Tick
  BY <1>1 DEF Tick, Less
<1>2. ASSUME NEW m \in Managers,
             AcquireRead(m) \/ AcquireWon(m) \/ AcquireLost(m)
      PROVE  TypeOK'
  BY <1>2 DEF AcquireRead, AcquireWon, AcquireLost, Read, Propose, Write
<1>3. ASSUME NEW m \in Managers,
             StartController(m) \/ EndControllers(m) \/ Join(m)
      PROVE  TypeOK'
  BY <1>3 DEF StartController, EndControllers, Join
<1>4. ASSUME NEW m \in Managers, ReleaseRead(m) \/ ReleaseSwap(m)
      PROVE  TypeOK'
  BY <1>4 DEF ReleaseRead, ReleaseSwap, Read, Write
<1>5. ASSUME NEW m \in Managers,
             RenewRead(m) \/ RenewSwap(m) \/ RenewerDone(m)
      PROVE  TypeOK'
  BY <1>5 DEF RenewRead, RenewSwap, RenewerDone, Read, Propose, Write
<1>6. ASSUME NEW m \in Managers, StoreError(m) \/ ReadError(m)
      PROVE  TypeOK'
  BY <1>6 DEF StoreError, ReadError, Write
<1>7. ASSUME NEW m \in Managers, Stop(m) \/ Crash(m) \/ Restart(m)
      PROVE  TypeOK'
  BY <1>7 DEF Stop, Crash, Restart
<1>8. CASE UNCHANGED vars
  BY <1>8 DEF vars
<1>9. QED
  BY <1>1, <1>2, <1>3, <1>4, <1>5, <1>6, <1>7, <1>8 DEF Next

\* Every variable of the election keeps its type.
THEOREM TypeCorrect == Spec => []TypeOK
<1> USE LeaseAssumption DEF LeaseAssumption
<1>1. Init => TypeOK
  BY DEF Init, TypeOK, MainStates
<1>2. QED
  BY <1>1, TypeStep, PTL DEF Spec

-----------------------------------------------------------------------------

\* Every step of the election keeps the inductive invariant.
LEMMA LeaseStep == LeaseInv /\ [Next]_vars => LeaseInv'
<1> USE LeaseAssumption DEF LeaseAssumption
<1> SUFFICES ASSUME LeaseInv, [Next]_vars PROVE LeaseInv'
  OBVIOUS
<1>0. TypeOK'
  BY TypeStep DEF LeaseInv
<1> USE <1>0 DEF LeaseInv, TypeOK, MainStates, OneSwap, SwapInv, ProposalInv,
                 LeaseExclusion, Unexpired
<1>1. CASE Tick
  BY <1>1 DEF Tick, Less
<1>2. ASSUME NEW m \in Managers, AcquireRead(m)
      PROVE  LeaseInv'
  BY <1>2 DEF AcquireRead, Read, Propose, MayAcquire, Expired
<1>3. ASSUME NEW m \in Managers, AcquireWon(m)
      PROVE  LeaseInv'
  BY <1>3 DEF AcquireWon, Unchanged, Write
<1>4. ASSUME NEW m \in Managers,
             AcquireLost(m) \/ StartController(m) \/ EndControllers(m) \/ Join(m)
      PROVE  LeaseInv'
  BY <1>4 DEF AcquireLost, StartController, EndControllers, Join
<1>5. ASSUME NEW m \in Managers, ReleaseRead(m)
      PROVE  LeaseInv'
  BY <1>5 DEF ReleaseRead, Read
<1>6. ASSUME NEW m \in Managers, ReleaseSwap(m)
      PROVE  LeaseInv'
  BY <1>6 DEF ReleaseSwap, Unchanged, Write
<1>7. ASSUME NEW m \in Managers, RenewRead(m)
      PROVE  LeaseInv'
  BY <1>7 DEF RenewRead, Read, Propose, MayRenew, Expired
<1>8. ASSUME NEW m \in Managers, RenewSwap(m)
      PROVE  LeaseInv'
  BY <1>8 DEF RenewSwap, Unchanged, Write
<1>9. ASSUME NEW m \in Managers, StoreError(m)
      PROVE  LeaseInv'
  BY <1>9 DEF StoreError, Unchanged, Write
<1>10. ASSUME NEW m \in Managers,
              RenewerDone(m) \/ ReadError(m) \/ Stop(m) \/ Crash(m) \/ Restart(m)
       PROVE  LeaseInv'
  BY <1>10 DEF RenewerDone, ReadError, Stop, Crash, Restart
<1>11. CASE UNCHANGED vars
  BY <1>11 DEF vars
<1>12. QED
  BY <1>1, <1>2, <1>3, <1>4, <1>5, <1>6, <1>7, <1>8, <1>9, <1>10, <1>11 DEF Next

\* The inductive invariant holds initially and forever.
LEMMA LeaseInvariant == Spec => []LeaseInv
<1> USE LeaseAssumption DEF LeaseAssumption
<1>1. Init => LeaseInv
  BY DEF Init, LeaseInv, TypeOK, MainStates, OneSwap, SwapInv, ProposalInv,
         LeaseExclusion, Unexpired
<1>2. QED
  BY <1>1, LeaseStep, PTL DEF Spec

\* Election safety: a manager whose lease no other clock has seen expire is the
\* recorded holder, whatever the number of managers, the TTL and the offsets.
THEOREM LeaseIsExclusive == Spec => []LeaseExclusion
<1>1. LeaseInv => LeaseExclusion
  BY DEF LeaseInv
<1>2. QED
  BY <1>1, LeaseInvariant, PTL

\* The record passes from a holder to another manager only once it has expired
\* on that manager's clock, and is freed only by its holder's own Release.
THEOREM LeaseIsNotStolen == Spec => NoTheft
<1> USE LeaseAssumption DEF LeaseAssumption
<1> DEFINE Guarded ==
      \A m \in Managers :
         lease.holder = m /\ lease'.holder # m =>
            \/ lease'.holder \in Managers /\ lease.left <= Offset[lease'.holder]
            \/ lease'.holder = Released /\ main[m] = "release"
<1>1. LeaseInv /\ [Next]_vars => [Guarded]_vars
  <2> SUFFICES ASSUME LeaseInv, Next,
                      NEW h \in Managers, lease.holder = h, lease'.holder # h
               PROVE  \/ lease'.holder \in Managers /\ lease.left <= Offset[lease'.holder]
                      \/ lease'.holder = Released /\ main[h] = "release"
    OBVIOUS
  <2> USE DEF LeaseInv, TypeOK, OneSwap, SwapInv
  <2>1. CASE Tick
    BY <2>1 DEF Tick
  <2>2. ASSUME NEW m \in Managers, AcquireWon(m)
        PROVE  lease'.holder \in Managers /\ lease.left <= Offset[lease'.holder]
    BY <2>2 DEF AcquireWon, Unchanged, Write
  <2>3. ASSUME NEW m \in Managers, ReleaseSwap(m)
        PROVE  lease'.holder = Released /\ main[h] = "release"
    BY <2>3 DEF ReleaseSwap, Unchanged, Write
  <2>4. ASSUME NEW m \in Managers, RenewSwap(m)
        PROVE  FALSE
    BY <2>4 DEF RenewSwap, Unchanged, Write
  <2>5. ASSUME NEW m \in Managers, StoreError(m)
        PROVE  \/ lease'.holder \in Managers /\ lease.left <= Offset[lease'.holder]
               \/ lease'.holder = Released /\ main[h] = "release"
    BY <2>5 DEF StoreError, Unchanged, Write
  <2>6. QED
    BY <2>1, <2>2, <2>3, <2>4, <2>5
       DEF Next, AcquireRead, AcquireLost, StartController, EndControllers, Join,
           ReleaseRead, RenewRead, RenewerDone, ReadError, Stop, Crash, Restart
<1>2. QED
  BY <1>1, LeaseInvariant, PTL DEF Spec, NoTheft

-----------------------------------------------------------------------------
(* The file store implements the Store interface, for any number of        *)
(* clients, keys, values and directories.                                  *)

\* What a call has done by the time it is at its place: a Get that answers has
\* read, a List that reads the directory has read nothing, a write under the
\* lock is of the kind that got there, and a swap that is about to rename found
\* the value it expects, which nobody else can have changed since.
CallOK(c) ==
  /\ pc[c] \in {"get", "readdir"} => \A k \in Keys : got[c][k] = Unread
  /\ pc[c] \in {"get", "answer"} => call[c] \in Gets
  /\ pc[c] \in {"readdir", "readfiles"} => call[c] \in Lists
  /\ pc[c] = "answer" => \A k \in call[c].want : got[c][k] # Unread
  /\ pc[c] \in {"lock", "sync"} => call[c] \in Writes
  /\ pc[c] = "compare" => call[c] \in Swaps
  /\ pc[c] = "remove" => call[c] \in Deletes
  /\ pc[c] = "rename" => call[c] \in Puts \cup Swaps
  /\ pc[c] = "rename" /\ call[c] \in Swaps => file[call[c].key] = call[c].old

FsInv == FsTypeOK /\ \A c \in Clients : CallOK(c)

-----------------------------------------------------------------------------

\* The calls of the file store are calls of the interface.
LEMMA ReadsAreReads ==
  ASSUME NEW o \in Reads
  PROVE  /\ o \in Abs!Reads
         /\ o.want \subseteq Keys
         /\ o.op \in {"get", "list"}
BY DirAssumption, NoneAssumption, UnreadAssumption DEF Reads, Gets, Lists, In, Abs!Reads

\* The writes of the file store are writes of Store: a put, a delete as the put of None,
\* or a swap.
LEMMA WritesAreWrites ==
  ASSUME NEW o \in Writes
  PROVE  /\ o \in Abs!Writes
         /\ o.key \in Keys
         /\ o.new \in Cells
         /\ o \in Swaps => o.op = "swap"
         /\ o \in Puts \cup Deletes => o.op = "put"
         /\ o \in Deletes => o.new = None
BY DirAssumption, NoneAssumption, UnreadAssumption DEF Writes, Puts, Deletes, Swaps, Cells, Abs!Writes, Abs!Cells

\* No write is also a read.
LEMMA WritesAreNotReads ==
  ASSUME NEW o \in Writes
  PROVE  o \notin Reads
<1> USE DirAssumption, NoneAssumption, UnreadAssumption
<1>1. o.op \in {"put", "swap"}
  BY DEF Writes, Puts, Deletes, Swaps
<1> QED
  BY <1>1, ReadsAreReads

-----------------------------------------------------------------------------

\* The invariant holds of an empty directory with no call under way.
LEMMA InitInv == FsInit => FsInv
BY DirAssumption, NoneAssumption, UnreadAssumption DEF FsInit, FsInv, FsTypeOK, CallOK, Cells, Locs, Locked

\* The calls other than c are where they were, with what they had: c changed
\* the files only while it held the lock.
LEMMA OthersOK ==
  ASSUME FsInv, NEW c \in Clients, NEW d \in Clients \ {c},
         pc'[d] = pc[d], call'[d] = call[d], got'[d] = got[d],
         file' = file \/ pc[c] \in Locked
  PROVE  CallOK(d)'
<1> USE DirAssumption, NoneAssumption, UnreadAssumption
<1>1. CASE file' = file
  BY <1>1 DEF FsInv, CallOK
<1>2. CASE pc[c] \in Locked
  <2>1. pc[d] # "rename"
    BY <1>2 DEF FsInv, FsTypeOK, Locked
  <2> QED
    BY <2>1 DEF FsInv, CallOK
<1> QED
  BY <1>1, <1>2

\* A call under the lock either stays under it or ends and lets it go.
LEMMA LockMoves ==
  ASSUME FsTypeOK, NEW c \in Clients, NEW l \in Locs, pc[c] \in Locked, Goto(c, l),
         IF l \in Locked THEN lock' = lock ELSE lock' = None
  PROVE  /\ pc' \in [Clients -> Locs] /\ lock' \in Clients \cup {None}
         /\ \A d \in Clients : lock' = d <=> pc'[d] \in Locked
<1> USE DirAssumption, NoneAssumption, UnreadAssumption
<1>1. lock = c
  BY DEF FsTypeOK
<1>2. pc' \in [Clients -> Locs] /\ pc'[c] = l /\ \A d \in Clients \ {c} : pc'[d] = pc[d]
  BY DEF FsTypeOK, Goto
<1>3. lock' \in Clients \cup {None}
  BY DEF FsTypeOK
<1>4. \A d \in Clients : lock' = d <=> pc'[d] \in Locked
  <2> SUFFICES ASSUME NEW d \in Clients PROVE lock' = d <=> pc'[d] \in Locked
    OBVIOUS
  <2>1. CASE d = c
    BY <1>1, <1>2, <2>1
  <2>2. CASE d # c
    <3>1. pc[d] \notin Locked
      BY <1>1, <2>2 DEF FsTypeOK
    <3> QED
      BY <1>1, <1>2, <2>2, <3>1
  <2> QED
    BY <2>1, <2>2
<1> QED
  BY <1>2, <1>3, <1>4

\* Each step of a client keeps the invariant.
LEMMA NextInv == FsInv /\ [FsNext]_fsvars => FsInv'
<1> USE DirAssumption, NoneAssumption, UnreadAssumption
<1> SUFFICES ASSUME FsInv, [FsNext]_fsvars
             PROVE  FsInv'
  OBVIOUS
<1> USE DEF FsInv
<1>1. ASSUME NEW c \in Clients, NEW o \in Reads \cup Writes, Start(c, o)
      PROVE  FsInv'
  <2>1. FsTypeOK'
    BY <1>1 DEF Start, Goto, FsTypeOK, Locs, Locked
  <2>2. CallOK(c)'
    <3>1. pc'[c] \in {"lock", "get", "readdir"} /\ call'[c] = o /\ \A k \in Keys : got'[c][k] = Unread
      BY <1>1 DEF Start, Goto, FsTypeOK
    <3>2. /\ pc'[c] = "lock" => o \in Writes
          /\ pc'[c] = "get" => o \in Gets
          /\ pc'[c] = "readdir" => o \in Lists
      BY <1>1 DEF Start, Goto, FsTypeOK, Reads
    <3> QED
      BY <3>1, <3>2 DEF CallOK
  <2>3. \A d \in Clients \ {c} : CallOK(d)'
    BY <1>1, OthersOK DEF Start, Goto, FsTypeOK
  <2> QED
    BY <2>1, <2>2, <2>3
<1>2. ASSUME NEW c \in Clients, NEW k \in Keys, ReadEntry(c, k)
      PROVE  FsInv'
  <2>1. FsTypeOK'
    <3>1. CASE file[k] # None
      BY <1>2, <3>1 DEF ReadEntry, ReadKeys, FsTypeOK
    <3>2. CASE file[k] = None
      BY <1>2, <3>2 DEF ReadEntry, Done, Goto, FsTypeOK, Locs, Locked
    <3> QED
      BY <3>1, <3>2
  <2>2. CallOK(c)'
    BY <1>2 DEF ReadEntry, ReadKeys, Done, Goto, FsTypeOK, CallOK
  <2>3. \A d \in Clients \ {c} : CallOK(d)'
    BY <1>2, OthersOK DEF ReadEntry, ReadKeys, Done, Goto, FsTypeOK
  <2> QED
    BY <2>1, <2>2, <2>3
<1>3. ASSUME NEW c \in Clients, Get(c)
      PROVE  FsInv'
  <2>0. call[c] \in Gets /\ call[c].want \subseteq Keys
    BY <1>3, ReadsAreReads DEF Get, CallOK, Reads
  <2>1. FsTypeOK'
    BY <1>3 DEF Get, ReadKeys, Goto, FsTypeOK, Locs, Locked
  <2>2. \A k \in call[c].want : got'[c][k] # Unread
    BY <1>3, <2>0 DEF Get, ReadKeys, FsTypeOK, Cells
  <2>3. CallOK(c)'
    BY <1>3, <2>0, <2>2 DEF Get, Goto, FsTypeOK, CallOK
  <2>4. \A d \in Clients \ {c} : CallOK(d)'
    BY <1>3, OthersOK DEF Get, ReadKeys, Goto, FsTypeOK
  <2> QED
    BY <2>1, <2>3, <2>4
<1>4. ASSUME NEW c \in Clients, ReadDir(c)
      PROVE  FsInv'
  <2>1. FsTypeOK'
    BY <1>4 DEF ReadDir, ReadKeys, Goto, FsTypeOK, Locs, Locked
  <2>2. CallOK(c)'
    BY <1>4 DEF ReadDir, Goto, FsTypeOK, CallOK
  <2>3. \A d \in Clients \ {c} : CallOK(d)'
    BY <1>4, OthersOK DEF ReadDir, ReadKeys, Goto, FsTypeOK
  <2> QED
    BY <2>1, <2>2, <2>3
<1>5. ASSUME NEW c \in Clients, Listed(c)
      PROVE  FsInv'
  <2>1. FsTypeOK'
    BY <1>5 DEF Listed, Done, Goto, FsTypeOK, Locs, Locked
  <2>2. CallOK(c)'
    BY <1>5 DEF Listed, Done, Goto, FsTypeOK, CallOK
  <2>3. \A d \in Clients \ {c} : CallOK(d)'
    BY <1>5, OthersOK DEF Listed, Done, Goto, FsTypeOK
  <2> QED
    BY <2>1, <2>2, <2>3
<1>6. ASSUME NEW c \in Clients, Lock(c)
      PROVE  FsInv'
  <2>1. FsTypeOK'
    BY <1>6 DEF Lock, Goto, FsTypeOK, Locs, Locked
  <2>2. CallOK(c)'
    BY <1>6 DEF Lock, Goto, FsTypeOK, CallOK, Writes
  <2>3. \A d \in Clients \ {c} : CallOK(d)'
    BY <1>6, OthersOK DEF Lock, Goto, FsTypeOK
  <2> QED
    BY <2>1, <2>2, <2>3
<1>7. ASSUME NEW c \in Clients, Compare(c)
      PROVE  FsInv'
  <2>1. FsTypeOK'
    <3>1. pc[c] \in Locked /\ "rename" \in Locs \cap Locked /\ "done" \in Locs \ Locked
      BY <1>7 DEF Compare, Locs, Locked
    <3>2. CASE Goto(c, "rename") /\ UNCHANGED <<lock, outcome>>
      BY <1>7, <3>1, <3>2, LockMoves DEF Compare, FsTypeOK
    <3>3. CASE Done(c, "refused") /\ lock' = None
      <4>1. outcome' \in [Clients -> {"none", "ok", "refused", "error"}]
        BY <3>3 DEF Done, FsTypeOK
      <4> QED
        BY <1>7, <3>1, <3>3, <4>1, LockMoves DEF Compare, Done, FsTypeOK
    <3> QED
      BY <1>7, <3>2, <3>3 DEF Compare
  <2>2. CallOK(c)'
    BY <1>7 DEF Compare, Done, Goto, Matches, FsTypeOK, CallOK
  <2>3. \A d \in Clients \ {c} : CallOK(d)'
    BY <1>7, OthersOK DEF Compare, Done, Goto, Matches, FsTypeOK
  <2> QED
    BY <2>1, <2>2, <2>3
<1>8. ASSUME NEW c \in Clients, Rename(c)
      PROVE  FsInv'
  <2>0. pc[c] \in Locked /\ call[c] \in Writes /\ call[c].key \in Keys /\ call[c].new \in Cells
    BY <1>8, WritesAreWrites DEF Rename, CallOK, Writes, Locked
  <2>1. FsTypeOK'
    BY <1>8, <2>0 DEF Rename, Goto, FsTypeOK, Locs, Locked, Cells
  <2>2. CallOK(c)'
    BY <1>8, <2>0 DEF Rename, Goto, FsTypeOK, CallOK
  <2>3. \A d \in Clients \ {c} : CallOK(d)'
    BY <1>8, <2>0, OthersOK DEF Rename, Goto, FsTypeOK
  <2> QED
    BY <2>1, <2>2, <2>3
<1>9. ASSUME NEW c \in Clients, Remove(c)
      PROVE  FsInv'
  <2>0. pc[c] \in Locked /\ call[c] \in Writes /\ call[c].key \in Keys /\ call[c].new \in Cells
    BY <1>9, WritesAreWrites DEF Remove, CallOK, Writes, Locked
  <2>1. FsTypeOK'
    <3>1. "sync" \in Locs \cap Locked /\ "done" \in Locs \ Locked
      BY DEF Locs, Locked
    <3>2. CASE Goto(c, "sync") /\ file' = [file EXCEPT ![call[c].key] = None] /\ UNCHANGED <<lock, outcome>>
      <4>1. file' \in [Keys -> Cells]
        BY <2>0, <3>2 DEF FsTypeOK, Cells
      <4> QED
        BY <1>9, <2>0, <3>1, <3>2, <4>1, LockMoves DEF Remove, FsTypeOK
    <3>3. CASE Done(c, "ok") /\ lock' = None /\ UNCHANGED file
      <4>1. outcome' \in [Clients -> {"none", "ok", "refused", "error"}]
        BY <3>3 DEF Done, FsTypeOK
      <4> QED
        BY <1>9, <2>0, <3>1, <3>3, <4>1, LockMoves DEF Remove, Done, FsTypeOK
    <3> QED
      BY <1>9, <3>2, <3>3 DEF Remove
  <2>2. CallOK(c)'
    BY <1>9, <2>0 DEF Remove, Done, Goto, FsTypeOK, CallOK
  <2>3. \A d \in Clients \ {c} : CallOK(d)'
    BY <1>9, <2>0, OthersOK DEF Remove, Done, Goto, FsTypeOK
  <2> QED
    BY <2>1, <2>2, <2>3
<1>10. ASSUME NEW c \in Clients, SyncDirectory(c)
      PROVE  FsInv'
  <2>1. FsTypeOK'
    BY <1>10 DEF SyncDirectory, Done, Goto, Synced, FsTypeOK, Locs, Locked
  <2>2. CallOK(c)'
    BY <1>10 DEF SyncDirectory, Done, Goto, Synced, FsTypeOK, CallOK
  <2>3. \A d \in Clients \ {c} : CallOK(d)'
    BY <1>10, OthersOK DEF SyncDirectory, Done, Goto, Synced, FsTypeOK
  <2> QED
    BY <2>1, <2>2, <2>3
<1>11. ASSUME NEW c \in Clients, Return(c)
      PROVE  FsInv'
  <2>1. FsTypeOK'
    BY <1>11 DEF Return, Goto, FsTypeOK, Locs, Locked
  <2>2. CallOK(c)'
    BY <1>11 DEF Return, Goto, FsTypeOK, CallOK
  <2>3. \A d \in Clients \ {c} : CallOK(d)'
    BY <1>11, OthersOK DEF Return, Goto, FsTypeOK
  <2> QED
    BY <2>1, <2>2, <2>3
<1>12. ASSUME NEW c \in Clients, Fail(c)
      PROVE  FsInv'
  <2>1. FsTypeOK'
    BY <1>12 DEF Fail, Done, Goto, Unlocked, Fault, FsTypeOK, Locs, Locked
  <2>2. CallOK(c)'
    BY <1>12 DEF Fail, Done, Goto, Unlocked, Fault, FsTypeOK, CallOK
  <2>3. \A d \in Clients \ {c} : CallOK(d)'
    BY <1>12, OthersOK DEF Fail, Done, Goto, Unlocked, Fault, FsTypeOK
  <2> QED
    BY <2>1, <2>2, <2>3
<1>13. ASSUME NEW c \in Clients, Die(c)
      PROVE  FsInv'
  <2>1. FsTypeOK'
    BY <1>13 DEF Die, Goto, Unlocked, Fault, FsTypeOK, Locs, Locked
  <2>2. CallOK(c)'
    BY <1>13 DEF Die, Goto, Unlocked, Fault, FsTypeOK, CallOK
  <2>3. \A d \in Clients \ {c} : CallOK(d)'
    BY <1>13, OthersOK DEF Die, Goto, Unlocked, Fault, FsTypeOK
  <2> QED
    BY <2>1, <2>2, <2>3
<1>14. ASSUME NEW k \in Keys, WriteBack(k)
      PROVE  FsInv'
  BY <1>14 DEF WriteBack, FsTypeOK, CallOK
<1>15. CASE PowerLoss
  BY <1>15 DEF PowerLoss, FsTypeOK, CallOK, Locs, Locked
<1>16. CASE UNCHANGED fsvars
  BY <1>16 DEF fsvars, FsTypeOK, CallOK
<1> QED
  BY <1>1, <1>2, <1>3, <1>4, <1>5, <1>6, <1>7, <1>8, <1>9, <1>10, <1>11, <1>12, <1>13, <1>14, <1>15, <1>16 DEF FsNext
-----------------------------------------------------------------------------

\* The phases of the calls, as the refinement mapping reads them from pc
Phases == [d \in Clients |-> Phase(pc[d])]

\* A call that moves on to l is, for Store, in the phase of l.
LEMMA PhaseGoto ==
  ASSUME FsTypeOK, NEW c \in Clients, NEW l, Goto(c, l)
  PROVE  Phases' = [Phases EXCEPT ![c] = Phase(l)]
BY DirAssumption, NoneAssumption, UnreadAssumption DEF FsTypeOK, Goto, Phases

\* A call that moves on within its phase does nothing that Store sees.
LEMMA PhaseSame ==
  ASSUME FsTypeOK, NEW c \in Clients, NEW l, Goto(c, l), Phase(l) = Phase(pc[c])
  PROVE  Phases' = Phases
BY DirAssumption, NoneAssumption, UnreadAssumption DEF FsTypeOK, Goto, Phases

\* The initial states of the file store are initial states of Store.
LEMMA InitRefines == FsInit => Abs!SInit
BY DirAssumption, NoneAssumption, UnreadAssumption DEF FsInit, Abs!SInit, Phase

\* Every step of the file store is a step of the interface, or none: taking the
\* lock and a comparison that succeeds change nothing a caller could see.
LEMMA NextRefines == FsInv /\ [FsNext]_fsvars => [Abs!SNext]_(Abs!svars)
<1> USE DirAssumption, NoneAssumption, UnreadAssumption
<1> SUFFICES ASSUME FsInv, [FsNext]_fsvars
             PROVE  [Abs!SNext]_(Abs!svars)
  OBVIOUS
<1> USE DEF FsInv
<1>0. FsTypeOK /\ \A c \in Clients : Phases[c] = Phase(pc[c])
  BY DEF Phases
<1>1. ASSUME NEW c \in Clients, NEW o \in Reads \cup Writes, Start(c, o)
      PROVE  Abs!SNext
  <2>1. o \in Abs!Calls
    BY ReadsAreReads, WritesAreWrites DEF Abs!Calls
  <2>2. Phases[c] = "idle" /\ Phases' = [Phases EXCEPT ![c] = "called"]
    <3>1. pc[c] = "idle" /\ \E l \in {"lock", "get", "readdir"} : Goto(c, l)
      BY <1>1 DEF Start
    <3>2. PICK l \in {"lock", "get", "readdir"} : Goto(c, l)
      BY <3>1
    <3>3. Phase(l) = "called" /\ Phase(pc[c]) = "idle"
      BY <3>1 DEF Phase
    <3> QED
      BY <1>0, <3>2, <3>3, PhaseGoto
  <2>3. Abs!Invoke(c, o)
    BY <1>1, <2>2 DEF Start, Abs!Invoke, Phases
  <2> QED
    BY <2>1, <2>3 DEF Abs!SNext
<1>2. ASSUME NEW c \in Clients, NEW k \in Keys, ReadEntry(c, k)
      PROVE  Abs!SNext
  <2>1. Phases[c] = "called" /\ call[c] \in Abs!Reads
    BY <1>0, <1>2, ReadsAreReads DEF ReadEntry, Phase, CallOK, Reads
  <2>2. CASE file[k] # None
    <3>1. Phases' = Phases
      BY <1>2, <2>2 DEF ReadEntry, Phases
    <3>2. Abs!Collect(c, {k})
      BY <1>2, <2>1, <2>2, <3>1 DEF ReadEntry, ReadKeys, Abs!Collect, Phases
    <3> QED
      BY <3>2 DEF Abs!SNext
  <2>3. CASE file[k] = None
    <3>1. Phases' = [Phases EXCEPT ![c] = "done"]
      BY <1>0, <1>2, <2>3, PhaseGoto DEF ReadEntry, Done, Phase
    <3>2. Abs!Fail(c)
      BY <1>2, <2>1, <2>3, <3>1 DEF ReadEntry, Done, Abs!Fail, Abs!Finish, Abs!Abandons, Phases
    <3> QED
      BY <3>2 DEF Abs!SNext
  <2> QED
    BY <2>2, <2>3
<1>3. ASSUME NEW c \in Clients, Get(c)
      PROVE  Abs!SNext
  <2>1. Phases[c] = "called" /\ call[c] \in Abs!Reads /\ call[c].want \subseteq Keys
    BY <1>0, <1>3, ReadsAreReads DEF Get, Phase, CallOK, Reads
  <2>2. Phases' = Phases
    BY <1>0, <1>3, PhaseSame DEF Get, Phase
  <2>3. Abs!Collect(c, call[c].want)
    BY <1>3, <2>1, <2>2 DEF Get, ReadKeys, CallOK, Abs!Collect, Phases
  <2> QED
    BY <2>1, <2>3 DEF Abs!SNext
<1>4. ASSUME NEW c \in Clients, ReadDir(c)
      PROVE  Abs!SNext
  <2> DEFINE s == {k \in call[c].want : file[k] = None}
  <2>1. Phases[c] = "called" /\ call[c] \in Abs!Reads /\ s \subseteq Keys /\ s \subseteq call[c].want
    BY <1>0, <1>4, ReadsAreReads DEF ReadDir, Phase, CallOK, Reads
  <2>2. Phases' = Phases
    BY <1>0, <1>4, PhaseSame DEF ReadDir, Phase
  <2>3. \A k \in s : got[c][k] = Unread
    BY <1>4, <2>1 DEF ReadDir, CallOK
  <2>4. got' = [got EXCEPT ![c] = [k \in Keys |-> IF k \in s THEN file[k] ELSE got[c][k]]]
    BY <1>4 DEF ReadDir, ReadKeys
  <2> HIDE DEF s
  <2>5. Abs!Collect(c, s)
    BY <1>4, <2>1, <2>2, <2>3, <2>4 DEF ReadDir, Abs!Collect, Phases
  <2> QED
    BY <2>1, <2>5 DEF Abs!SNext
<1>5. ASSUME NEW c \in Clients, Listed(c)
      PROVE  Abs!SNext
  <2>1. /\ Phases[c] = "called" /\ call[c] \in Abs!Reads
        /\ \A k \in call[c].want : got[c][k] # Unread
    BY <1>0, <1>5, ReadsAreReads DEF Listed, Phase, CallOK, Reads
  <2>2. Phases' = [Phases EXCEPT ![c] = "done"]
    BY <1>0, <1>5, PhaseGoto DEF Listed, Done, Phase
  <2>3. Abs!Answer(c)
    BY <1>5, <2>1, <2>2 DEF Listed, Done, Abs!Answer, Abs!Finish, Phases
  <2> QED
    BY <2>3 DEF Abs!SNext
<1>6. ASSUME NEW c \in Clients, Lock(c)
      PROVE  UNCHANGED Abs!svars
  <2>1. Phases' = Phases
    BY <1>0, <1>6, PhaseSame DEF Lock, Phase
  <2> QED
    BY <1>6, <2>1 DEF Lock, Abs!svars, Phases
<1>7. ASSUME NEW c \in Clients, Compare(c)
      PROVE  Abs!SNext \/ UNCHANGED Abs!svars
  <2>1. CASE Matches(call[c])
    <3>1. Phases' = Phases
      BY <1>0, <1>7, <2>1, PhaseSame DEF Compare, Phase
    <3> QED
      BY <1>7, <2>1, <3>1 DEF Compare, Abs!svars, Phases
  <2>2. CASE ~Matches(call[c])
    <3>1. call[c] \in Writes /\ call[c] \in Abs!Writes /\ call[c].op = "swap"
      BY <1>7, WritesAreWrites DEF Compare, CallOK, Writes
    <3>2. Phases[c] = "called" /\ Phases' = [Phases EXCEPT ![c] = "done"]
      BY <1>0, <1>7, <2>2, PhaseGoto DEF Compare, Done, Phase
    <3>3. Abs!Refuse(c)
      BY <1>7, <2>2, <3>1, <3>2 DEF Compare, Done, Matches, Abs!Refuse, Abs!Matches, Abs!Finish, Phases
    <3> QED
      BY <3>3 DEF Abs!SNext
  <2> QED
    BY <2>1, <2>2
<1>8. ASSUME NEW c \in Clients, Rename(c)
      PROVE  Abs!SNext
  <2>1. /\ call[c] \in Abs!Writes
        /\ call[c].op = "put" \/ file[call[c].key] = call[c].old
    BY <1>8, WritesAreWrites DEF Rename, CallOK, Writes
  <2>2. Phases[c] = "called" /\ Phases' = [Phases EXCEPT ![c] = "applied"]
    BY <1>0, <1>8, PhaseGoto DEF Rename, Phase
  <2>3. Abs!Apply(c)
    BY <1>8, <2>1, <2>2 DEF Rename, Abs!Apply, Abs!Matches, Abs!Effect, Phases
  <2> QED
    BY <2>3 DEF Abs!SNext
<1>9. ASSUME NEW c \in Clients, Remove(c)
      PROVE  Abs!SNext
  <2>1. call[c] \in Abs!Writes /\ call[c].op = "put" /\ call[c].new = None
    BY <1>9, WritesAreWrites DEF Remove, CallOK, Writes
  <2>2. Phases[c] = "called"
    BY <1>0, <1>9 DEF Remove, Phase
  <2>3. CASE file[call[c].key] # None
    <3>1. Phases' = [Phases EXCEPT ![c] = "applied"]
      BY <1>0, <1>9, <2>3, PhaseGoto DEF Remove, Phase
    <3>2. Abs!Apply(c)
      BY <1>9, <2>1, <2>2, <2>3, <3>1 DEF Remove, Abs!Apply, Abs!Matches, Abs!Effect, Phases
    <3> QED
      BY <3>2 DEF Abs!SNext
  <2>4. CASE file[call[c].key] = None
    <3>1. Phases' = [Phases EXCEPT ![c] = "done"]
      BY <1>0, <1>9, <2>4, PhaseGoto DEF Remove, Done, Phase
    <3>2. Abs!NothingToDelete(c)
      BY <1>9, <2>1, <2>2, <2>4, <3>1 DEF Remove, Done, Abs!NothingToDelete, Abs!Finish, Phases
    <3> QED
      BY <3>2 DEF Abs!SNext
  <2> QED
    BY <2>3, <2>4
<1>10. ASSUME NEW c \in Clients, SyncDirectory(c)
       PROVE  Abs!SNext
  <2> DEFINE s == In(Dir[call[c].key])
  <2>1. call[c].key \in s /\ s \subseteq Keys
    BY <1>10, WritesAreWrites DEF SyncDirectory, CallOK, In
  <2>2. Phases[c] = "applied" /\ Phases' = [Phases EXCEPT ![c] = "done"]
    BY <1>0, <1>10, PhaseGoto DEF SyncDirectory, Done, Phase
  <2>3. disk' = [k \in Keys |-> IF k \in s THEN file[k] ELSE disk[k]]
    BY <1>10 DEF SyncDirectory, Synced
  <2> HIDE DEF s
  <2>4. Abs!KeepAnswer(c, s)
    BY <1>10, <2>1, <2>2, <2>3 DEF SyncDirectory, Done, Abs!KeepAnswer, Abs!Finish, Phases
  <2> QED
    BY <2>1, <2>4 DEF Abs!SNext
<1>11. ASSUME NEW c \in Clients, Return(c)
       PROVE  Abs!SNext
  <2>1. Phases[c] = "done" /\ Phases' = [Phases EXCEPT ![c] = "idle"]
    BY <1>0, <1>11, PhaseGoto DEF Return, Phase
  <2>2. Abs!Return(c)
    BY <1>11, <2>1 DEF Return, Abs!Return, Phases
  <2> QED
    BY <2>2 DEF Abs!SNext
<1>12. ASSUME NEW c \in Clients, Fail(c)
       PROVE  Abs!SNext
  <2>1. Phases[c] \in {"called", "applied"} /\ Phases' = [Phases EXCEPT ![c] = "done"]
    BY <1>0, <1>12, PhaseGoto DEF Fail, Done, Phase
  <2>2. Abs!Fail(c)
    BY <1>12, <2>1 DEF Fail, Done, Abs!Fail, Abs!Finish, Abs!Abandons, Phases
  <2> QED
    BY <2>2 DEF Abs!SNext
<1>13. ASSUME NEW c \in Clients, Die(c)
       PROVE  Abs!SNext
  <2>1. Phases[c] # "idle" /\ Phases' = [Phases EXCEPT ![c] = "idle"]
    BY <1>0, <1>13, PhaseGoto DEF Die, Phase
  <2>2. Abs!Die(c)
    BY <1>13, <2>1 DEF Die, Abs!Die, Abs!Abandons, Phases
  <2> QED
    BY <2>2 DEF Abs!SNext
<1>14. ASSUME NEW k \in Keys, WriteBack(k)
       PROVE  Abs!SNext
  <2>1. Abs!Keep({k})
    BY <1>14 DEF WriteBack, Abs!Keep
  <2> QED
    BY <2>1 DEF Abs!SNext
<1>15. ASSUME PowerLoss
       PROVE  Abs!SNext
  <2>1. Phases' = [c \in Clients |-> "idle"]
    BY <1>15 DEF PowerLoss, Phases, Phase
  <2>2. Abs!PowerLoss
    BY <1>15, <2>1 DEF PowerLoss, Abs!PowerLoss, Phases
  <2> QED
    BY <2>2 DEF Abs!SNext
<1>16. CASE UNCHANGED fsvars
  BY <1>16 DEF fsvars, Abs!svars
<1> QED
  BY <1>1, <1>2, <1>3, <1>4, <1>5, <1>6, <1>7, <1>8, <1>9, <1>10, <1>11, <1>12, <1>13, <1>14,
     <1>15, <1>16 DEF FsNext

-----------------------------------------------------------------------------

\* withWriteLock: the lock is held by exactly the call between its two Flock
\* calls, whatever died or failed before.
THEOREM LockDiscipline == FsSpec => []FsTypeOK
<1> USE DirAssumption, NoneAssumption, UnreadAssumption
<1>1. FsInv => FsTypeOK
  BY DEF FsInv
<1> QED
  BY <1>1, InitInv, NextInv, PTL DEF FsSpec

\* The file store is a Store, with any number of clients, keys, values and
\* directories, any failures, deaths and power losses.
THEOREM FileStoreImplements == FsSpec => ImplementsStore
BY DirAssumption, NoneAssumption, UnreadAssumption, InitInv, NextInv, InitRefines, NextRefines, PTL DEF FsSpec, ImplementsStore, Abs!SSpec
=============================================================================
