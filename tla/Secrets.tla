-------------------------------- MODULE Secrets --------------------------------
(* internal/secret: a secret, and the numbered versions of a secret.  A      *)
(* request reads what it needs, and writes its record with registry.Put:     *)
(* between the two other requests do the same.                               *)

EXTENDS Naturals, FiniteSetsExt

CONSTANTS
  Writers,    \* requests in progress
  Uids,       \* uids of versions, each used once
  MaxScOps,   \* requests that are started
  Vacant

VARIABLES
  secret,     \* the record of the secret: its generation and its content
  versions,   \* the version records under their uids
  scJob,
  puts,       \* answered Puts since the secret was created
  before,     \* pairs of versions: the first was answered before the second was asked for
  scOps

\* What is stored of a secret and of a version of it
SecretRecords == [gen : Nat, data : Nat]
VersionRecords == [number : Nat, answered : BOOLEAN]

\* Vacant is told apart from records and uids.
ASSUME ScAssumption == Vacant \notin SecretRecords \cup VersionRecords \cup Uids

scvars == <<secret, versions, scJob, puts, before, scOps>>

ScIdle == [pc |-> "idle", op |-> "none", uid |-> Vacant, read |-> Vacant, number |-> 0, after |-> {}]

ScInit ==
  /\ secret = Vacant
  /\ versions = [u \in Uids |-> Vacant]
  /\ scJob = [c \in Writers |-> ScIdle]
  /\ puts = 0
  /\ before = {}
  /\ scOps = 0

ScJob(c, j) == scJob' = [scJob EXCEPT ![c] = j]

ScBegin(c) ==
  /\ scJob[c].pc = "idle"
  /\ scOps < MaxScOps
  /\ scOps' = scOps + 1

\* Put: the record that is there gives the revision and the generation.
Put(c) ==
  /\ ScBegin(c)
  /\ ScJob(c, [ScIdle EXCEPT !.pc = "swap", !.op = "put", !.read = secret, !.number = scOps + 1])
  /\ UNCHANGED <<secret, versions, puts, before>>

\* registry.Put with the revision that was read, or none for a new record
SecretSwaps(now, read) == now = read

StorePut(c) ==
  /\ scJob[c].op = "put" /\ scJob[c].pc = "swap"
  /\ LET j == scJob[c] IN
       IF SecretSwaps(secret, j.read)
       THEN /\ secret' = [gen |-> IF j.read = Vacant THEN 1 ELSE j.read.gen + 1, data |-> j.number]
            /\ puts' = IF secret = Vacant THEN 1 ELSE puts + 1
       ELSE UNCHANGED <<secret, puts>>
  /\ ScJob(c, ScIdle)
  /\ UNCHANGED <<versions, before, scOps>>

DeleteSecret(c) ==
  /\ ScBegin(c)
  /\ secret' = Vacant
  /\ puts' = 0
  /\ UNCHANGED <<versions, scJob, before>>

Present == {u \in Uids : versions[u] # Vacant}

\* Mutant: the versions are counted.
nextVersion_Count(us) == Cardinality(us) + 1

\* One more than the highest version recorded
nextVersion(us) == Max({versions[u].number : u \in us} \cup {0}) + 1

\* The versions that were answered, and are there
Answered == {u \in Present : versions[u].answered}

AddVersion(c, u) ==
  /\ ScBegin(c)
  /\ \A d \in Writers : scJob[d].uid # u
  /\ versions[u] = Vacant
  /\ ScJob(c, [ScIdle EXCEPT !.pc = "swap", !.op = "version", !.uid = u,
                         !.number = nextVersion(Present), !.after = Answered])
  /\ UNCHANGED <<secret, versions, puts, before>>

StoreVersion(c) ==
  /\ scJob[c].op = "version" /\ scJob[c].pc = "swap"
  /\ versions' = [versions EXCEPT ![scJob[c].uid] = [number |-> scJob[c].number, answered |-> FALSE]]
  /\ before' = before \cup (scJob[c].after \X {scJob[c].uid})
  /\ ScJob(c, [scJob[c] EXCEPT !.pc = "done"])
  /\ UNCHANGED <<secret, puts, scOps>>

AnswerVersion(c) ==
  /\ scJob[c].op = "version" /\ scJob[c].pc = "done"
  /\ versions' = IF versions[scJob[c].uid] = Vacant THEN versions
                 ELSE [versions EXCEPT ![scJob[c].uid].answered = TRUE]
  /\ ScJob(c, ScIdle)
  /\ UNCHANGED <<secret, puts, before, scOps>>

DeleteVersion(c, u) ==
  /\ ScBegin(c)
  /\ versions[u] # Vacant
  /\ versions' = [versions EXCEPT ![u] = Vacant]
  /\ before' = {p \in before : u \notin {p[1], p[2]}}
  /\ scJob' = [d \in Writers |-> [scJob[d] EXCEPT !.after = @ \ {u}]]
  /\ UNCHANGED <<secret, puts>>

ScNext ==
  \E c \in Writers :
    \/ Put(c) \/ StorePut(c) \/ DeleteSecret(c)
    \/ \E u \in Uids : AddVersion(c, u) \/ DeleteVersion(c, u)
    \/ StoreVersion(c) \/ AnswerVersion(c)

ScSpec == ScInit /\ [][ScNext]_scvars

-----------------------------------------------------------------------------

\* Put: no answered Put of a secret is lost in another one; each counts in the
\* generation.
EachCounted == secret # Vacant => secret.gen = puts

\* AddVersion: a version that was asked for after another was answered has the
\* higher number, as long as both are there, whatever was deleted meanwhile.
VersionsFollow == \A p \in before : versions[p[1]].number < versions[p[2]].number

\* Put and AddVersion: every update counts, and versions follow each other.
SecretCounts == EachCounted /\ VersionsFollow

\* AddVersion "assigning the next sequential version number": no two versions
\* of a secret have the same number.
\* It does not hold (README, Properties that do not hold).
VersionsApart == \A u, v \in Present : u # v => versions[u].number # versions[v].number

==============================================================================
