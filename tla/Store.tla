-------------------------------- MODULE Store --------------------------------
(* What internal/state promises to its callers: the Store interface          *)
(* (store.go).  Every call takes effect at one moment between its start and  *)
(* its answer; a write that was answered without an error survives a power   *)
(* loss; one that failed may have been applied, and a store at the end of a  *)
(* network may even apply it after the caller gave up (LateApply).  A List   *)
(* reads each key at a moment of its own.                                    *)
(*                                                                           *)
(* The file store implements this specification: FileStore, with the proof   *)
(* in FileStoreProofs.                                                       *)

CONSTANTS Clients, Keys, Values, None, Unread

VARIABLES kv, kept, late, phase, call, got, outcome

svars == <<kv, kept, late, phase, call, got, outcome>>

Cells == Values \cup {None}

\* Get and List read the keys in `want'; Put, Delete (new = None) and
\* CompareAndSwap (old = None: expect absent) write one.
Reads == [op : {"get", "list"}, want : SUBSET Keys]

Writes == [op : {"put", "swap"}, key : Keys, old : Cells, new : Cells]

Calls == Reads \cup Writes

SInit ==
  /\ kv = [k \in Keys |-> None]
  /\ kept = kv
  /\ late = {}
  /\ phase = [c \in Clients |-> "idle"]
  /\ call = [c \in Clients |-> None]
  /\ got = [c \in Clients |-> [k \in Keys |-> Unread]]
  /\ outcome = [c \in Clients |-> "none"]

Invoke(c, o) ==
  /\ phase[c] = "idle"
  /\ phase' = [phase EXCEPT ![c] = "called"]
  /\ call' = [call EXCEPT ![c] = o]
  /\ got' = [got EXCEPT ![c] = [k \in Keys |-> Unread]]
  /\ outcome' = [outcome EXCEPT ![c] = "none"]
  /\ UNCHANGED <<kv, kept, late>>

\* Some keys of a Get or a List are read.
Collect(c, s) ==
  /\ phase[c] = "called"
  /\ call[c] \in Reads
  /\ s \subseteq call[c].want
  /\ \A k \in s : got[c][k] = Unread
  /\ got' = [got EXCEPT ![c] = [k \in Keys |-> IF k \in s THEN kv[k] ELSE got[c][k]]]
  /\ UNCHANGED <<kv, kept, late, phase, call, outcome>>

Matches(o) == o.op = "put" \/ kv[o.key] = o.old

Effect(o) == kv' = [kv EXCEPT ![o.key] = o.new]

Apply(c) ==
  /\ phase[c] = "called"
  /\ call[c] \in Writes
  /\ Matches(call[c])
  /\ Effect(call[c])
  /\ phase' = [phase EXCEPT ![c] = "applied"]
  /\ UNCHANGED <<kept, late, call, got, outcome>>

Finish(c, r) ==
  /\ phase' = [phase EXCEPT ![c] = "done"]
  /\ outcome' = [outcome EXCEPT ![c] = r]

\* A successful answer: all that was asked has been read, or the write is one
\* that a power loss leaves.
Answer(c) ==
  /\ \/ /\ phase[c] = "called"
        /\ call[c] \in Reads
        /\ \A k \in call[c].want : got[c][k] # Unread
     \/ /\ phase[c] = "applied"
        /\ kept[call[c].key] = kv[call[c].key]
  /\ Finish(c, "ok")
  /\ UNCHANGED <<kv, kept, late, call, got>>

\* A CompareAndSwap that found another value.
Refuse(c) ==
  /\ phase[c] = "called"
  /\ call[c] \in Writes
  /\ ~Matches(call[c])
  /\ Finish(c, "refused")
  /\ UNCHANGED <<kv, kept, late, call, got>>

\* A Delete of a key that is absent: no error, and no promise that a power loss
\* does not bring the key back.
NothingToDelete(c) ==
  /\ phase[c] = "called"
  /\ call[c] \in Writes
  /\ call[c].op = "put" /\ call[c].new = None /\ kv[call[c].key] = None
  /\ Finish(c, "ok")
  /\ UNCHANGED <<kv, kept, late, call, got>>

\* What a call that ends early may leave behind at the far end.
Abandons(c) ==
  \/ late' = late
  \/ phase[c] = "called" /\ call[c] \in Writes /\ late' = late \cup {call[c]}

Fail(c) ==
  /\ phase[c] \in {"called", "applied"}
  /\ Finish(c, "error")
  /\ Abandons(c)
  /\ UNCHANGED <<kv, kept, call, got>>

Return(c) ==
  /\ phase[c] = "done"
  /\ phase' = [phase EXCEPT ![c] = "idle"]
  /\ UNCHANGED <<kv, kept, late, call, got, outcome>>

\* The process of the caller dies.
Die(c) ==
  /\ phase[c] # "idle"
  /\ phase' = [phase EXCEPT ![c] = "idle"]
  /\ Abandons(c)
  /\ UNCHANGED <<kv, kept, call, got, outcome>>

LateApply(o) ==
  /\ o \in late
  /\ late' = late \ {o}
  /\ \/ Matches(o) /\ Effect(o)
     \/ UNCHANGED kv
  /\ UNCHANGED <<kept, phase, call, got, outcome>>

\* Written values reach the disk.
Keep(s) ==
  /\ kept' = [k \in Keys |-> IF k \in s THEN kv[k] ELSE kept[k]]
  /\ UNCHANGED <<kv, late, phase, call, got, outcome>>

\* The host of the store loses its power, and its callers with it.
PowerLoss ==
  /\ kv' = kept
  /\ phase' = [c \in Clients |-> "idle"]
  /\ UNCHANGED <<kept, late, call, got, outcome>>

\* The step at which the directory is synced is the one that answers.
KeepAnswer(c, s) ==
  /\ phase[c] = "applied"
  /\ call[c].key \in s
  /\ kept' = [k \in Keys |-> IF k \in s THEN kv[k] ELSE kept[k]]
  /\ Finish(c, "ok")
  /\ UNCHANGED <<kv, late, call, got>>

SNext ==
  \/ \E c \in Clients :
       \/ \E o \in Calls : Invoke(c, o)
       \/ \E s \in SUBSET Keys : Collect(c, s) \/ KeepAnswer(c, s)
       \/ Apply(c) \/ Answer(c) \/ Refuse(c) \/ NothingToDelete(c)
       \/ Fail(c) \/ Return(c) \/ Die(c)
  \/ \E o \in late : LateApply(o)
  \/ \E s \in SUBSET Keys : Keep(s)
  \/ PowerLoss

SSpec == SInit /\ [][SNext]_svars

==============================================================================
