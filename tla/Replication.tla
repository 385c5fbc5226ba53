----------------------------- MODULE Replication -----------------------------
(***************************************************************************)
(* The transfer of a disk's backing file to the nodes that replicate it:   *)
(* the server of the primary (replication/server.go), which captures       *)
(* immutable snapshots named by their digest, and the clients              *)
(* (replication/client.go), which resume a partial transfer.               *)
(*                                                                         *)
(* A file is a sequence of blocks; a block is the version of the disk it   *)
(* was read from and a snapshot's digest is that version.                  *)
(***************************************************************************)
EXTENDS Naturals, Sequences

CONSTANTS Pullers,      \* the replicas of the disk
          Blocks,       \* the size of the disk
          MaxVersion,   \* bound on the guest's writes
          MaxCuts,      \* bound on failed calls and crashes
          NoVersion

VARIABLES live,    \* the version of the disk
          cached,  \* the snapshots of the disk in .snapshots
          cl,      \* the files of each client and where it is in PullDisk
          cuts

rpVars == <<live, cached, cl, cuts>>

IdleClient == [pc |-> "request", part |-> <<>>, ver |-> NoVersion, dest |-> <<>>,
               exp |-> NoVersion, resuming |-> FALSE]

RpInit ==
  /\ live = 1
  /\ cached = {}
  /\ cl = [c \in Pullers |-> IdleClient]
  /\ cuts = 0

Client(c, r) == cl' = [cl EXCEPT ![c] = r]
AtStart(r) == [r EXCEPT !.pc = "request", !.exp = NoVersion, !.resuming = FALSE]

GuestWrites ==
  /\ live < MaxVersion
  /\ live' = live + 1
  /\ UNCHANGED <<cached, cl, cuts>>
-----------------------------------------------------------------------------
(* The server *)

\* openSnapshot without a version: the capture replaces the older snapshots,
\* readers keep the file they opened.
Captured == {live}
Digest(s) == CHOOSE v \in s : TRUE

\* handlePullDisk with a version: the snapshot of that name and the rest of it,
\* if there are both.
Served(r) == r.ver \in cached /\ Len(r.part) < Blocks

\* PullDisk up to the answer.  A resumed transfer asks for the rest of the
\* version it has; without it, or without a rest, it starts over.
Request(c) ==
  /\ cl[c].pc = "request"
  /\ LET r == cl[c]
         resume == r.part # <<>> /\ r.ver # NoVersion
     IN \/ /\ resume /\ Served(r)        \* 206
           /\ Client(c, [r EXCEPT !.pc = "version", !.exp = r.ver, !.resuming = TRUE])
           /\ UNCHANGED cached
        \/ /\ resume /\ ~Served(r)       \* 404, 416
           /\ Client(c, [r EXCEPT !.ver = NoVersion])
           /\ UNCHANGED cached
        \/ /\ ~resume                     \* 200
           /\ cached' = Captured
           /\ Client(c, [r EXCEPT !.pc = "version", !.exp = Digest(Captured)])
  /\ UNCHANGED <<live, cuts>>
-----------------------------------------------------------------------------
(* The client *)

WriteVersion(c) ==
  /\ cl[c].pc = "version"
  /\ Client(c, [cl[c] EXCEPT !.ver = cl[c].exp, !.pc = "open"])
  /\ UNCHANGED <<live, cached, cuts>>

\* O_APPEND or O_TRUNC
Opened(r) == IF r.resuming THEN r.part ELSE <<>>

OpenPart(c) ==
  /\ cl[c].pc = "open"
  /\ Client(c, [cl[c] EXCEPT !.part = Opened(cl[c]), !.pc = "copy"])
  /\ UNCHANGED <<live, cached, cuts>>

CopyBlock(c) ==
  /\ cl[c].pc = "copy"
  /\ LET part == Append(cl[c].part, cl[c].exp)
     IN Client(c, [cl[c] EXCEPT !.part = part,
                                !.pc = IF Len(part) = Blocks THEN "hash" ELSE "copy"])
  /\ UNCHANGED <<live, cached, cuts>>

\* Mutant: the size is compared, not the digest.
Complete_Size(part, exp) == Len(part) = Blocks

\* The digest of the whole file
Complete(part, exp) == part = [i \in 1..Blocks |-> exp]

Rejected(r) == [AtStart(r) EXCEPT !.ver = NoVersion]

CheckPart(c) ==
  /\ cl[c].pc = "hash"
  /\ Client(c, IF Complete(cl[c].part, cl[c].exp) THEN [cl[c] EXCEPT !.pc = "rename"]
               ELSE Rejected(cl[c]))
  /\ UNCHANGED <<live, cached, cuts>>

RenamePart(c) ==
  /\ cl[c].pc = "rename"
  /\ Client(c, [cl[c] EXCEPT !.dest = cl[c].part, !.part = <<>>, !.pc = "clean"])
  /\ UNCHANGED <<live, cached, cuts>>

RemoveVersion(c) ==
  /\ cl[c].pc = "clean"
  /\ Client(c, [AtStart(cl[c]) EXCEPT !.ver = NoVersion])
  /\ UNCHANGED <<live, cached, cuts>>

\* What may be left of a file that was not synced
Leftovers(part) == {SubSeq(part, 1, n) : n \in 0..Len(part)}

\* A call fails or the process dies; what was not synced may be lost.
Cut(c) ==
  /\ cuts < MaxCuts
  /\ cuts' = cuts + 1
  /\ \E p \in IF cl[c].pc = "copy" THEN Leftovers(cl[c].part) ELSE {cl[c].part} :
       Client(c, [AtStart(cl[c]) EXCEPT !.part = p])
  /\ UNCHANGED <<live, cached>>

PullStep(c) == Request(c) \/ WriteVersion(c) \/ OpenPart(c) \/ CopyBlock(c)
                 \/ CheckPart(c) \/ RenamePart(c) \/ RemoveVersion(c)
-----------------------------------------------------------------------------
RpNext == GuestWrites \/ \E c \in Pullers : PullStep(c) \/ Cut(c)

\* The reconciler of each replica pulls again and again.
RpFairness == \A c \in Pullers : WF_rpVars(PullStep(c))
RpSpec == RpInit /\ [][RpNext]_rpVars /\ RpFairness

RpTypeOK ==
  /\ live \in 1..MaxVersion
  /\ cached \subseteq 1..MaxVersion
  /\ \A c \in Pullers : /\ Len(cl[c].part) <= Blocks
                        /\ cl[c].ver \in (1..MaxVersion) \union {NoVersion}

\* What is renamed into place is one complete snapshot, whatever mixture of
\* versions and interrupted transfers the .part file went through.
DestIntact ==
  \A c \in Pullers : cl[c].dest # <<>> => \E v \in 1..live : cl[c].dest = [i \in 1..Blocks |-> v]

\* Once the guest stops writing every replica gets its last version: captures
\* by other clients, evicted snapshots and a .part that does not match its
\* version never stop a replica for good.
ReplicaCatchesUp ==
  \A c \in Pullers : <>[](cl[c].dest = [i \in 1..Blocks |-> MaxVersion]) \/ <>[](live < MaxVersion)
=============================================================================
