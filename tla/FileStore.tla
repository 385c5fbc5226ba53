------------------------------ MODULE FileStore ------------------------------
(* internal/state/file_store.go: the store as files under one directory, one *)
(* file per key, shared by the processes of a host.                          *)
(*                                                                           *)
(*   file   what the processes see in the directories                        *)
(*   disk   what a power loss leaves of it: a rename or a removal is on disk *)
(*          once its directory has been synced, or when the kernel writes it *)
(*          back of its own accord                                           *)
(*   lock   the holder of the flock on .store.lock; the kernel drops it when *)
(*          its process dies                                                 *)
(*   pc     where a call stands                                              *)
(*                                                                           *)
(* A value is a whole file: it is written and synced under a temporary name  *)
(* before the rename, and a file that was opened keeps its content, so one   *)
(* ReadFile is one step.  Temporary files that a death leaves are never      *)
(* listed and never removed.  The directories of the kinds exist and are on  *)
(* disk: MkdirAll does not sync the parent of a directory it makes.          *)

EXTENDS Naturals

CONSTANTS Clients, Keys, Values, Dirs, Dir, None, Unread, MaxCalls, MaxFaults

VARIABLES file, disk, lock, pc, call, got, outcome, calls, faults

fsvars == <<file, disk, lock, pc, call, got, outcome, calls, faults>>

ASSUME DirAssumption == Dir \in [Keys -> Dirs]

ASSUME NoneAssumption == None \notin Values /\ None \notin Clients

ASSUME UnreadAssumption == Unread \notin Values \cup {None}

Cells == Values \cup {None}

In(d) == {k \in Keys : Dir[k] = d}

Gets == [op : {"get"}, want : {{k} : k \in Keys}]

Lists == [op : {"list"}, want : {In(d) : d \in Dirs}]

Puts == [op : {"put"}, key : Keys, old : {None}, new : Values]

Deletes == [op : {"put"}, key : Keys, old : {None}, new : {None}]

Swaps == [op : {"swap"}, key : Keys, old : Cells, new : Values]

Reads == Gets \cup Lists

Writes == Puts \cup Deletes \cup Swaps

FsInit ==
  /\ file = [k \in Keys |-> None]
  /\ disk = [k \in Keys |-> None]
  /\ lock = None
  /\ pc = [c \in Clients |-> "idle"]
  /\ call = [c \in Clients |-> None]
  /\ got = [c \in Clients |-> [k \in Keys |-> Unread]]
  /\ outcome = [c \in Clients |-> "none"]
  /\ calls = 0
  /\ faults = 0

Goto(c, l) == pc' = [pc EXCEPT ![c] = l]

Start(c, o) ==
  /\ pc[c] = "idle"
  /\ calls < MaxCalls
  /\ calls' = calls + 1
  /\ Goto(c, IF o \in Writes THEN "lock" ELSE IF o \in Gets THEN "get" ELSE "readdir")
  /\ call' = [call EXCEPT ![c] = o]
  /\ got' = [got EXCEPT ![c] = [k \in Keys |-> Unread]]
  /\ outcome' = [outcome EXCEPT ![c] = "none"]
  /\ UNCHANGED <<file, disk, lock, faults>>

Done(c, r) ==
  /\ Goto(c, "done")
  /\ outcome' = [outcome EXCEPT ![c] = r]

ReadKeys(c, s) ==
  got' = [got EXCEPT ![c] = [k \in Keys |-> IF k \in s THEN file[k] ELSE got[c][k]]]

\* Get: ErrNotFound is the value None.
Get(c) ==
  /\ pc[c] = "get"
  /\ ReadKeys(c, call[c].want)
  /\ Goto(c, "answer")
  /\ UNCHANGED <<file, disk, lock, call, outcome, calls, faults>>

\* List reads the names first: the keys it does not find are settled.
ReadDir(c) ==
  /\ pc[c] = "readdir"
  /\ ReadKeys(c, {k \in call[c].want : file[k] = None})
  /\ Goto(c, "readfiles")
  /\ UNCHANGED <<file, disk, lock, call, outcome, calls, faults>>

\* One of the entries: it may be gone by now, and the List fails with it.
ReadEntry(c, k) ==
  /\ pc[c] = "readfiles"
  /\ k \in call[c].want
  /\ got[c][k] = Unread
  /\ \/ /\ file[k] # None
        /\ ReadKeys(c, {k})
        /\ UNCHANGED <<pc, outcome>>
     \/ /\ file[k] = None
        /\ Done(c, "error")
        /\ UNCHANGED got
  /\ UNCHANGED <<file, disk, lock, call, calls, faults>>

Listed(c) ==
  /\ \/ pc[c] = "answer"
     \/ pc[c] = "readfiles" /\ \A k \in call[c].want : got[c][k] # Unread
  /\ Done(c, "ok")
  /\ UNCHANGED <<file, disk, lock, call, got, calls, faults>>

\* withWriteLock
Lock(c) ==
  /\ pc[c] = "lock"
  /\ lock = None
  /\ lock' = c
  /\ Goto(c, IF call[c] \in Swaps THEN "compare"
             ELSE IF call[c] \in Deletes THEN "remove" ELSE "rename")
  /\ UNCHANGED <<file, disk, call, got, outcome, calls, faults>>

\* The comparison of CompareAndSwap.
Matches(o) == file[o.key] = o.old

Compare(c) ==
  /\ pc[c] = "compare"
  /\ \/ /\ Matches(call[c])
        /\ Goto(c, "rename")
        /\ UNCHANGED <<lock, outcome>>
     \/ /\ ~Matches(call[c])
        /\ Done(c, "refused")
        /\ lock' = None
  /\ UNCHANGED <<file, disk, call, got, calls, faults>>

\* putLocked up to the rename
Rename(c) ==
  /\ pc[c] = "rename"
  /\ file' = [file EXCEPT ![call[c].key] = call[c].new]
  /\ Goto(c, "sync")
  /\ UNCHANGED <<disk, lock, call, got, outcome, calls, faults>>

\* deleteLocked up to the removal
Remove(c) ==
  /\ pc[c] = "remove"
  /\ \/ /\ file[call[c].key] # None
        /\ file' = [file EXCEPT ![call[c].key] = None]
        /\ Goto(c, "sync")
        /\ UNCHANGED <<lock, outcome>>
     \/ /\ file[call[c].key] = None
        /\ Done(c, "ok")
        /\ lock' = None
        /\ UNCHANGED file
  /\ UNCHANGED <<disk, call, got, calls, faults>>

\* Mutant: the directory is not synced.
Synced_Not(d) == UNCHANGED disk

\* syncDirectory
Synced(d) == disk' = [k \in Keys |-> IF k \in In(d) THEN file[k] ELSE disk[k]]

SyncDirectory(c) ==
  /\ pc[c] = "sync"
  /\ Synced(Dir[call[c].key])
  /\ Done(c, "ok")
  /\ lock' = None
  /\ UNCHANGED <<file, call, got, calls, faults>>

Return(c) ==
  /\ pc[c] = "done"
  /\ Goto(c, "idle")
  /\ UNCHANGED <<file, disk, lock, call, got, outcome, calls, faults>>

Fault == faults < MaxFaults /\ faults' = faults + 1

Unlocked(c) == lock' = IF lock = c THEN None ELSE lock

\* A system call fails, or the caller's context has ended (contextStore).
Fail(c) ==
  /\ pc[c] \notin {"idle", "done"}
  /\ Fault
  /\ Done(c, "error")
  /\ Unlocked(c)
  /\ UNCHANGED <<file, disk, call, got, calls>>

Die(c) ==
  /\ pc[c] # "idle"
  /\ Fault
  /\ Goto(c, "idle")
  /\ Unlocked(c)
  /\ UNCHANGED <<file, disk, call, got, outcome, calls>>

\* The kernel writes back what has changed of one directory.
WriteBack(k) ==
  /\ disk[k] # file[k]
  /\ disk' = [j \in Keys |-> IF j \in {k} THEN file[j] ELSE disk[j]]
  /\ UNCHANGED <<file, lock, pc, call, got, outcome, calls, faults>>

PowerLoss ==
  /\ Fault
  /\ file' = disk
  /\ lock' = None
  /\ pc' = [c \in Clients |-> "idle"]
  /\ UNCHANGED <<disk, call, got, outcome, calls>>

FsNext ==
  \/ \E c \in Clients :
       \/ \E o \in Reads \cup Writes : Start(c, o)
       \/ \E k \in Keys : ReadEntry(c, k)
       \/ Get(c) \/ ReadDir(c) \/ Listed(c)
       \/ Lock(c) \/ Compare(c) \/ Rename(c) \/ Remove(c) \/ SyncDirectory(c)
       \/ Return(c) \/ Fail(c) \/ Die(c)
  \/ \E k \in Keys : WriteBack(k)
  \/ PowerLoss

FsSpec == FsInit /\ [][FsNext]_fsvars

-----------------------------------------------------------------------------

Locs == {"idle", "get", "answer", "readdir", "readfiles", "lock", "compare",
         "rename", "remove", "sync", "done"}

Locked == {"compare", "rename", "remove", "sync"}

\* The type of the state, and the lock is held by exactly the call that is
\* between withWriteLock's two Flock calls, whoever died or failed before.
FsTypeOK ==
  /\ file \in [Keys -> Cells]
  /\ disk \in [Keys -> Cells]
  /\ lock \in Clients \cup {None}
  /\ pc \in [Clients -> Locs]
  /\ call \in [Clients -> Reads \cup Writes \cup {None}]
  /\ got \in [Clients -> [Keys -> Cells \cup {Unread}]]
  /\ outcome \in [Clients -> {"none", "ok", "refused", "error"}]
  /\ \A c \in Clients : lock = c <=> pc[c] \in Locked

\* The state of the calls in the terms of the specification they implement.
Phase(l) ==
  IF l \in {"idle", "done"} THEN l ELSE IF l = "sync" THEN "applied" ELSE "called"

Abs == INSTANCE Store
  WITH kv <- file, kept <- disk, late <- {}, phase <- [c \in Clients |-> Phase(pc[c])]

\* The file store implements the Store interface: every call takes effect at
\* once, a swap only over the value it expects, an answered write survives a
\* power loss, and a List reads each key at a moment of its own.
ImplementsStore == Abs!SSpec

==============================================================================
