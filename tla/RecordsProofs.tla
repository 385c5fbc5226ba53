--------------------------- MODULE RecordsProofs ----------------------------
(***************************************************************************)
(* What must be kept as it was written: the numbered versions of a secret, *)
(* the acknowledged updates of a record of the registry, the replicas of a *)
(* disk.  Each part is proved for every value of its own constants and     *)
(* says nothing of the others.                                             *)
(***************************************************************************)
EXTENDS Secrets, Registry, Replication, WellFoundedInduction, TLAPS


-----------------------------------------------------------------------------
(* SecretCounts of Secrets, for any number of requests in progress, uids   *)
(* and operations.                                                         *)
(*                                                                         *)
(* A version is numbered from what the request read and stored later: the  *)
(* invariant says that a uid belongs to one request, and that the number   *)
(* a request has taken is above those of the versions that were answered   *)
(* before it came in.                                                      *)

\* The fields of a request.
ScJobFields == {"pc", "op", "uid", "read", "number", "after"}

\* What a request about a secret carries.
ScJobOK(j) ==
  /\ DOMAIN j = ScJobFields
  /\ j.number \in Nat
  /\ j.op = "put" => j.read \in SecretRecords \cup {Vacant}
  /\ IF j.op = "version" THEN j.uid \in Uids ELSE j.uid = Vacant

\* The types the argument is about.
ScTyped ==
  /\ secret \in SecretRecords \cup {Vacant}
  /\ versions \in [Uids -> VersionRecords \cup {Vacant}]
  /\ before \subseteq Uids \X Uids
  /\ scOps \in Nat
  /\ DOMAIN scJob = Writers /\ \A c \in Writers : ScJobOK(scJob[c])

\* Numbers are bounded by the requests there were, so that there is a highest.
NumberInv ==
  /\ \A u \in Uids : versions[u] # Vacant => versions[u].number <= scOps
  /\ \A c \in Writers : scJob[c].number <= scOps

\* Request c has numbered a version and not yet stored it.
Numbered(c) == scJob[c].op = "version" /\ scJob[c].pc = "swap"

\* A uid is used by one request; what that is to store is not there yet, and has a
\* higher number than the versions that were answered before it came in.
UidInv ==
  /\ \A c, d \in Writers : scJob[c].uid = scJob[d].uid /\ scJob[c].uid # Vacant => c = d
  /\ \A c \in Writers : Numbered(c) =>
       /\ versions[scJob[c].uid] = Vacant
       /\ \A u \in scJob[c].after :
            u \in Uids /\ versions[u] # Vacant /\ versions[u].number < scJob[c].number

\* The versions that are known to follow each other are there, and do.
FollowInv ==
  \A p \in before : /\ versions[p[1]] # Vacant /\ versions[p[2]] # Vacant
                    /\ versions[p[1]].number < versions[p[2]].number

\* The inductive invariant.
SecretInv == ScTyped /\ NumberInv /\ UidInv /\ FollowInv /\ EachCounted

-----------------------------------------------------------------------------

\* A set of naturals that is bounded has a maximum.
LEMMA MaxIn ==
  ASSUME NEW s, s \subseteq Nat, s # {}, NEW b \in Nat, \A x \in s : x <= b
  PROVE  Max(s) \in s /\ \A x \in s : x <= Max(s)
<1> DEFINE R == OpToRel(<, Nat)
           t == {b - x : x \in s}
<1>1. IsWellFoundedOn(R, Nat)
  BY NatLessThanWellFounded
<1>2. \A x, y \in Nat : y < x => <<y, x>> \in R
  BY DEF OpToRel
<1>3. t \subseteq Nat /\ t # {}
  <2>1. \A x \in s : b - x \in Nat
    OBVIOUS
  <2>2. PICK x \in s : TRUE
    OBVIOUS
  <2>3. b - x \in t
    OBVIOUS
  <2>4. QED
    BY <2>1, <2>3
<1> HIDE DEF R
<1>4. \E x \in t : \A y \in t : ~(<<y, x>> \in R)
  <2> HIDE DEF t
  <2>1. QED
    BY ONLY <1>1, <1>3, WFMin, Zenon
<1>5. PICK x \in t : \A y \in t : ~(<<y, x>> \in R)
  BY <1>4
<1>6. PICK m \in s : x = b - m
  OBVIOUS
<1>7. \A y \in s : m >= y
  <2> TAKE y \in s
  <2>1. b - y \in t /\ b - y \in Nat /\ x \in Nat
    BY <1>3
  <2> HIDE DEF t
  <2>2. ~(b - y < x)
    BY <1>2, <1>5, <2>1
  <2>3. m \in Nat /\ y \in Nat
    OBVIOUS
  <2>4. QED
    BY <1>6, <2>2, <2>3
<1>8. Max(s) \in s /\ \A y \in s : Max(s) >= y
  BY <1>7 DEF Max
<1>9. \A y \in s : y <= Max(s)
  <2> TAKE y \in s
  <2>1. Max(s) \in Nat /\ y \in Nat /\ Max(s) >= y
    BY <1>8
  <2>2. QED
    BY <2>1
<1>10. QED
  BY <1>8, <1>9

\* A step of one request leaves the others.
LEMMA OneScJob ==
  ASSUME ScTyped, NEW c \in Writers, NEW j, ScJobOK(j), ScJob(c, j)
  PROVE  /\ DOMAIN scJob' = Writers /\ \A d \in Writers : ScJobOK(scJob'[d])
         /\ scJob'[c] = j /\ \A d \in Writers : d # c => scJob'[d] = scJob[d]
  BY ScAssumption DEF ScAssumption, ScTyped, ScJob

\* A step that changes no version, of a request that is to store none.
LEMMA VersionsQuiet ==
  ASSUME SecretInv, NEW c \in Writers, NEW j, ScJobOK(j), ScJob(c, j), j.op # "version",
         UNCHANGED <<versions, before>>, scOps' \in {scOps, scOps + 1}, j.number <= scOps',
         secret' \in SecretRecords \cup {Vacant}, EachCounted'
  PROVE  SecretInv'
<1> USE ScAssumption DEF ScAssumption
<1>1. /\ DOMAIN scJob' = Writers /\ \A d \in Writers : ScJobOK(scJob'[d])
      /\ scJob'[c] = j /\ \A d \in Writers : d # c => scJob'[d] = scJob[d]
  BY OneScJob DEF SecretInv
<1>2. ScTyped'
  <2>1. \A d \in Writers : ScJobOK(scJob[d])'
    BY <1>1 DEF ScJobOK
  <2>2. QED
    BY <1>1, <2>1 DEF SecretInv, ScTyped
<1>3. NumberInv'
  <2>1. \A u \in Uids : versions[u] # Vacant => versions[u].number \in Nat
    BY DEF SecretInv, ScTyped, VersionRecords
  <2>2. \A d \in Writers : scJob[d].number \in Nat
    BY DEF SecretInv, ScTyped, ScJobOK
  <2>3. QED
    BY <1>1, <2>1, <2>2 DEF SecretInv, ScTyped, NumberInv
<1>4. UidInv'
  <2>1. j.uid = Vacant
    BY DEF ScJobOK
  <2>2. QED
    BY <1>1, <2>1 DEF SecretInv, UidInv, Numbered
<1>5. FollowInv'
  BY DEF SecretInv, FollowInv
<1>6. QED
  BY <1>2, <1>3, <1>4, <1>5 DEF SecretInv

\* Requests at rest.
LEMMA ScIdleOK == /\ ScJobOK(ScIdle) /\ ScIdle.op = "none" /\ ScIdle.uid = Vacant
                  /\ ScIdle.number = 0
  BY ScAssumption DEF ScAssumption, ScIdle, ScJobOK, ScJobFields

\* Put reads the record.
LEMMA PutStep ==
  ASSUME SecretInv, NEW c \in Writers, Put(c)
  PROVE  SecretInv'
<1> USE ScAssumption DEF ScAssumption
<1> DEFINE j == [ScIdle EXCEPT !.pc = "swap", !.op = "put", !.read = secret, !.number = scOps + 1]
<1>1. ScJobOK(j) /\ j.op = "put" /\ j.number = scOps + 1
  BY DEF ScIdle, ScJobOK, ScJobFields, SecretInv, ScTyped
<1>2. ScJob(c, j) /\ UNCHANGED <<secret, versions, puts, before>> /\ scOps' = scOps + 1
  BY DEF Put, ScBegin
<1> HIDE DEF j
<1>3. EachCounted' /\ secret' \in SecretRecords \cup {Vacant} /\ scOps \in Nat
  BY <1>2 DEF SecretInv, EachCounted, ScTyped
<1>4. j.number <= scOps'
  BY <1>1, <1>2, <1>3
<1>5. QED
  BY <1>1, <1>2, <1>3, <1>4, VersionsQuiet

\* It writes it, if it is still what was read.
LEMMA StorePutStep ==
  ASSUME SecretInv, NEW c \in Writers, StorePut(c)
  PROVE  SecretInv'
<1> USE ScAssumption DEF ScAssumption
<1> DEFINE j == scJob[c]
<1>1. /\ j.op = "put" /\ j.number \in Nat /\ j.read \in SecretRecords \cup {Vacant}
      /\ scOps \in Nat /\ secret \in SecretRecords \cup {Vacant}
  BY DEF SecretInv, ScTyped, ScJobOK, StorePut
<1>2. ScJob(c, ScIdle) /\ UNCHANGED <<versions, before, scOps>>
  BY DEF StorePut
<1>3. secret' \in SecretRecords \cup {Vacant} /\ EachCounted'
  <2>1. CASE ~SecretSwaps(secret, j.read)
    BY <1>1, <2>1 DEF StorePut, SecretInv, EachCounted
  <2>2. CASE SecretSwaps(secret, j.read) /\ secret = Vacant
    <3>1. secret' = [gen |-> 1, data |-> j.number] /\ puts' = 1
      BY <2>2 DEF StorePut, SecretSwaps
    <3>2. QED
      BY <1>1, <3>1 DEF EachCounted, SecretRecords
  <2>3. CASE SecretSwaps(secret, j.read) /\ secret # Vacant
    <3>1. secret' = [gen |-> secret.gen + 1, data |-> j.number] /\ puts' = puts + 1
      BY <2>3 DEF StorePut, SecretSwaps
    <3>2. secret.gen \in Nat /\ secret.gen = puts
      BY <1>1, <2>3 DEF SecretInv, EachCounted, SecretRecords
    <3>3. QED
      BY <1>1, <3>1, <3>2 DEF EachCounted, SecretRecords
  <2>4. QED
    BY <2>1, <2>2, <2>3
<1>4. ScIdle.number <= scOps' /\ scOps' \in {scOps, scOps + 1} /\ UNCHANGED <<versions, before>>
  BY <1>1, <1>2, ScIdleOK
<1>5. QED
  BY <1>2, <1>3, <1>4, ScIdleOK, VersionsQuiet

\* The secret is deleted.
LEMMA DeleteSecretStep ==
  ASSUME SecretInv, NEW c \in Writers, DeleteSecret(c)
  PROVE  SecretInv'
<1> USE ScAssumption DEF ScAssumption
<1>1. /\ secret' = Vacant /\ puts' = 0 /\ UNCHANGED <<versions, scJob, before>>
      /\ scOps' = scOps + 1 /\ scOps \in Nat
  BY DEF DeleteSecret, ScBegin, SecretInv, ScTyped
<1>2. ScTyped'
  BY <1>1 DEF SecretInv, ScTyped, ScJobOK
<1>3. NumberInv'
  <2>1. \A u \in Uids : versions[u] # Vacant => versions[u].number \in Nat
    BY DEF SecretInv, ScTyped, VersionRecords
  <2>2. \A d \in Writers : scJob[d].number \in Nat
    BY DEF SecretInv, ScTyped, ScJobOK
  <2>3. QED
    BY <1>1, <2>1, <2>2 DEF SecretInv, NumberInv
<1>4. UidInv' /\ FollowInv' /\ EachCounted'
  BY <1>1 DEF SecretInv, UidInv, Numbered, FollowInv, EachCounted
<1>5. QED
  BY <1>2, <1>3, <1>4 DEF SecretInv

\* The number AddVersion takes is above those that are there, and at most one
\* above the requests so far.
LEMMA NextVersion ==
  ASSUME SecretInv
  PROVE  /\ nextVersion(Present) \in Nat /\ nextVersion(Present) <= scOps + 1
         /\ \A u \in Present : versions[u].number < nextVersion(Present)
<1> USE ScAssumption DEF ScAssumption
<1> DEFINE s == {versions[u].number : u \in Present} \cup {0}
<1>1. \A u \in Present : versions[u].number \in Nat /\ versions[u].number <= scOps
  BY DEF SecretInv, ScTyped, NumberInv, Present, VersionRecords
<1>2. scOps \in Nat
  BY DEF SecretInv, ScTyped
<1>3. s \subseteq Nat /\ s # {} /\ \A x \in s : x <= scOps
  BY <1>1, <1>2
<1>4. \A u \in Present : versions[u].number \in s
  OBVIOUS
<1>5. nextVersion(Present) = Max(s) + 1
  BY DEF nextVersion
<1> HIDE DEF s
<1>6. Max(s) \in s /\ \A x \in s : x <= Max(s)
  BY <1>2, <1>3, MaxIn
<1>7. Max(s) \in Nat /\ Max(s) <= scOps
  BY <1>3, <1>6
<1>8. \A u \in Present : versions[u].number <= Max(s)
  BY <1>4, <1>6
<1>9. QED
  BY <1>1, <1>2, <1>5, <1>7, <1>8

\* AddVersion numbers a version.
LEMMA AddVersionStep ==
  ASSUME SecretInv, NEW c \in Writers, NEW u \in Uids, AddVersion(c, u)
  PROVE  SecretInv'
<1> USE ScAssumption DEF ScAssumption
<1> DEFINE j == [ScIdle EXCEPT !.pc = "swap", !.op = "version", !.uid = u,
                               !.number = nextVersion(Present), !.after = Answered]
<1>1. /\ nextVersion(Present) \in Nat /\ nextVersion(Present) <= scOps + 1
      /\ \A v \in Present : versions[v].number < nextVersion(Present)
  BY NextVersion
<1>2. /\ ScJobOK(j) /\ j.op = "version" /\ j.uid = u /\ j.number = nextVersion(Present)
      /\ j.after = Answered
  BY <1>1 DEF ScIdle, ScJobOK, ScJobFields
<1>3. /\ ScJob(c, j) /\ UNCHANGED <<secret, versions, puts, before>> /\ scOps' = scOps + 1
      /\ \A d \in Writers : scJob[d].uid # u
      /\ versions[u] = Vacant
  BY DEF AddVersion, ScBegin
<1> HIDE DEF j
<1>4. /\ DOMAIN scJob' = Writers /\ \A d \in Writers : ScJobOK(scJob'[d])
      /\ scJob'[c] = j /\ \A d \in Writers : d # c => scJob'[d] = scJob[d]
  BY <1>2, <1>3, OneScJob DEF SecretInv
<1>5. ScTyped'
  <2>1. \A d \in Writers : ScJobOK(scJob[d])'
    BY <1>4 DEF ScJobOK
  <2>2. QED
    BY <1>3, <1>4, <2>1 DEF SecretInv, ScTyped
<1>6. NumberInv'
  <2>1. \A v \in Uids : versions[v] # Vacant => versions[v].number \in Nat
    BY DEF SecretInv, ScTyped, VersionRecords
  <2>2. \A d \in Writers : scJob[d].number \in Nat
    BY DEF SecretInv, ScTyped, ScJobOK
  <2>3. QED
    BY <1>1, <1>2, <1>3, <1>4, <2>1, <2>2 DEF SecretInv, ScTyped, NumberInv
<1>7. UidInv'
  <2>1. \A v \in Answered : v \in Uids /\ versions[v] # Vacant /\ versions[v].number < j.number
    BY <1>1, <1>2 DEF Answered, Present
  <2>2. ASSUME NEW d \in Writers, Numbered(d)'
        PROVE  /\ versions'[scJob'[d].uid] = Vacant
               /\ \A v \in scJob'[d].after :
                    v \in Uids /\ versions'[v] # Vacant /\ versions'[v].number < scJob'[d].number
    <3>1. CASE d = c
      BY <1>2, <1>3, <1>4, <2>1, <3>1
    <3>2. CASE d # c
      BY <1>3, <1>4, <2>2, <3>2 DEF SecretInv, UidInv, Numbered
    <3>3. QED
      BY <3>1, <3>2
  <2>3. \A d, e \in Writers : scJob'[d].uid = scJob'[e].uid /\ scJob'[d].uid # Vacant => d = e
    <3>1. \A d \in Writers : d # c => scJob'[d].uid = scJob[d].uid /\ scJob[d].uid # u
      BY <1>3, <1>4
    <3>2. scJob'[c].uid = u
      BY <1>2, <1>4
    <3>3. \A d, e \in Writers : scJob[d].uid = scJob[e].uid /\ scJob[d].uid # Vacant => d = e
      BY DEF SecretInv, UidInv
    <3>4. QED
      BY ONLY <3>1, <3>2, <3>3
  <2>4. QED
    BY <2>2, <2>3 DEF UidInv
<1>8. FollowInv' /\ EachCounted'
  BY <1>3 DEF SecretInv, FollowInv, EachCounted
<1>9. QED
  BY <1>5, <1>6, <1>7, <1>8 DEF SecretInv

\* It stores the version.
LEMMA StoreVersionStep ==
  ASSUME SecretInv, NEW c \in Writers, StoreVersion(c)
  PROVE  SecretInv'
<1> USE ScAssumption DEF ScAssumption
<1> DEFINE u == scJob[c].uid
           j == [scJob[c] EXCEPT !.pc = "done"]
           r == [number |-> scJob[c].number, answered |-> FALSE]
<1>1. /\ ScJobOK(scJob[c]) /\ Numbered(c) /\ u \in Uids /\ scJob[c].number \in Nat
      /\ scJob[c].number <= scOps /\ versions[u] = Vacant
  BY DEF SecretInv, ScTyped, ScJobOK, StoreVersion, Numbered, NumberInv, UidInv
<1>2. /\ ScJobOK(j) /\ j.pc = "done" /\ j.uid = u /\ j.number = scJob[c].number
  BY <1>1 DEF ScJobOK, ScJobFields, Numbered
<1>3. r \in VersionRecords /\ r.number = scJob[c].number /\ r # Vacant
  <2>1. r \in VersionRecords /\ r.number = scJob[c].number
    BY <1>1 DEF VersionRecords
  <2> HIDE DEF r
  <2>2. QED
    BY <2>1
<1>4. /\ ScJob(c, j) /\ UNCHANGED <<secret, puts, scOps>>
      /\ versions' = [versions EXCEPT ![u] = r]
      /\ before' = before \cup (scJob[c].after \X {u})
  BY DEF StoreVersion
<1> HIDE DEF j, r
<1>5. /\ DOMAIN scJob' = Writers /\ \A d \in Writers : ScJobOK(scJob'[d])
      /\ scJob'[c] = j /\ \A d \in Writers : d # c => scJob'[d] = scJob[d]
  BY <1>2, <1>4, OneScJob DEF SecretInv
<1>6. versions'[u] = r /\ \A v \in Uids : v # u => versions'[v] = versions[v]
  BY <1>1, <1>4 DEF SecretInv, ScTyped
<1>7. \A v \in scJob[c].after : v \in Uids /\ v # u /\ versions[v] # Vacant /\ versions[v].number < r.number
  BY <1>1, <1>3 DEF SecretInv, UidInv
<1>8. ScTyped'
  <2>1. \A d \in Writers : ScJobOK(scJob[d])'
    BY <1>5 DEF ScJobOK
  <2>2. versions' \in [Uids -> VersionRecords \cup {Vacant}]
    BY <1>3, <1>4 DEF SecretInv, ScTyped
  <2>3. before' \subseteq Uids \X Uids
    BY <1>1, <1>4, <1>7 DEF SecretInv, ScTyped
  <2>4. QED
    BY <1>4, <1>5, <2>1, <2>2, <2>3 DEF SecretInv, ScTyped
<1>9. NumberInv'
  <2>1. \A v \in Uids : versions'[v] # Vacant => versions'[v].number <= scOps'
    BY <1>1, <1>3, <1>4, <1>6 DEF SecretInv, NumberInv
  <2>2. \A d \in Writers : scJob'[d].number <= scOps'
    BY <1>1, <1>2, <1>4, <1>5 DEF SecretInv, NumberInv
  <2>3. QED
    BY <2>1, <2>2 DEF NumberInv
<1>10. UidInv'
  <2>1. ASSUME NEW d \in Writers, Numbered(d)'
        PROVE  /\ versions'[scJob'[d].uid] = Vacant
               /\ \A v \in scJob'[d].after :
                    v \in Uids /\ versions'[v] # Vacant /\ versions'[v].number < scJob'[d].number
    <3>1. d # c /\ Numbered(d) /\ scJob'[d] = scJob[d]
      BY <1>2, <1>5, <2>1 DEF Numbered
    <3>2. scJob[d].uid \in Uids
      BY <3>1 DEF SecretInv, ScTyped, ScJobOK, Numbered
    <3>3. scJob[d].uid # u
      BY <1>1, <3>1, <3>2 DEF SecretInv, UidInv
    <3>4. \A v \in scJob[d].after : v \in Uids /\ v # u
      BY <1>1, <3>1 DEF SecretInv, UidInv
    <3>5. QED
      BY <1>6, <3>1, <3>2, <3>3, <3>4 DEF SecretInv, UidInv
  <2>2. \A d, e \in Writers : scJob'[d].uid = scJob'[e].uid /\ scJob'[d].uid # Vacant => d = e
    BY <1>2, <1>5 DEF SecretInv, UidInv
  <2>3. QED
    BY <2>1, <2>2 DEF UidInv
<1>11. FollowInv'
  <2> SUFFICES ASSUME NEW p \in before'
               PROVE  /\ versions'[p[1]] # Vacant /\ versions'[p[2]] # Vacant
                      /\ versions'[p[1]].number < versions'[p[2]].number
    BY DEF FollowInv
  <2>1. CASE p \in before
    <3>1. p[1] \in Uids /\ p[2] \in Uids
      BY <2>1 DEF SecretInv, ScTyped
    <3>2. versions[p[1]] # Vacant /\ versions[p[2]] # Vacant /\ versions[p[1]].number < versions[p[2]].number
      BY <2>1 DEF SecretInv, FollowInv
    <3>3. QED
      BY <1>1, <1>6, <3>1, <3>2
  <2>2. CASE p \in scJob[c].after \X {u}
    <3>1. p[1] \in scJob[c].after /\ p[2] = u
      BY <2>2
    <3>2. QED
      BY <1>3, <1>6, <1>7, <3>1
  <2>3. QED
    BY <1>4, <2>1, <2>2
<1>12. EachCounted'
  BY <1>4 DEF SecretInv, EachCounted
<1>13. QED
  BY <1>8, <1>9, <1>10, <1>11, <1>12 DEF SecretInv

\* The answer to AddVersion.
LEMMA AnswerVersionStep ==
  ASSUME SecretInv, NEW c \in Writers, AnswerVersion(c)
  PROVE  SecretInv'
<1> USE ScAssumption DEF ScAssumption
<1> DEFINE u == scJob[c].uid
<1>1. u \in Uids
  BY DEF SecretInv, ScTyped, ScJobOK, AnswerVersion
<1>2. /\ ScJob(c, ScIdle) /\ UNCHANGED <<secret, puts, before, scOps>>
      /\ versions' = IF versions[u] = Vacant THEN versions ELSE [versions EXCEPT ![u].answered = TRUE]
  BY DEF AnswerVersion
<1>3. /\ DOMAIN scJob' = Writers /\ \A d \in Writers : ScJobOK(scJob'[d])
      /\ scJob'[c] = ScIdle /\ \A d \in Writers : d # c => scJob'[d] = scJob[d]
  BY <1>2, ScIdleOK, OneScJob DEF SecretInv
<1>4. /\ versions' \in [Uids -> VersionRecords \cup {Vacant}]
      /\ \A v \in Uids : /\ versions'[v] = Vacant <=> versions[v] = Vacant
                         /\ versions[v] # Vacant => versions'[v].number = versions[v].number
  <2>1. versions \in [Uids -> VersionRecords \cup {Vacant}]
    BY DEF SecretInv, ScTyped
  <2>2. CASE versions[u] = Vacant
    BY <1>2, <2>1, <2>2
  <2>3. CASE versions[u] # Vacant
    <3> DEFINE r == [versions[u] EXCEPT !.answered = TRUE]
    <3>1. r \in VersionRecords /\ r.number = versions[u].number /\ r # Vacant
      BY <1>1, <2>1, <2>3 DEF VersionRecords
    <3>2. versions' = [versions EXCEPT ![u] = r]
      BY <1>2, <2>3
    <3> HIDE DEF r
    <3>3. QED
      BY <1>1, <2>1, <2>3, <3>1, <3>2
  <2>4. QED
    BY <2>2, <2>3
<1>5. ScTyped'
  <2>1. \A d \in Writers : ScJobOK(scJob[d])'
    BY <1>3 DEF ScJobOK
  <2>2. QED
    BY <1>2, <1>3, <1>4, <2>1 DEF SecretInv, ScTyped
<1>6. NumberInv'
  BY <1>2, <1>3, <1>4, ScIdleOK DEF SecretInv, ScTyped, NumberInv
<1>7. UidInv'
  <2>1. \A d \in Writers : Numbered(d)' => Numbered(d) /\ scJob'[d] = scJob[d] /\ scJob[d].uid \in Uids
    BY <1>3, ScIdleOK DEF Numbered, SecretInv, ScTyped, ScJobOK
  <2>2. \A d, e \in Writers : scJob'[d].uid = scJob'[e].uid /\ scJob'[d].uid # Vacant => d = e
    BY <1>3, ScIdleOK DEF SecretInv, UidInv
  <2>3. QED
    BY <1>4, <2>1, <2>2 DEF SecretInv, UidInv
<1>8. FollowInv'
  BY <1>2, <1>4 DEF SecretInv, ScTyped, FollowInv
<1>9. EachCounted'
  BY <1>2 DEF SecretInv, EachCounted
<1>10. QED
  BY <1>5, <1>6, <1>7, <1>8, <1>9 DEF SecretInv

\* A version is deleted.
LEMMA DeleteVersionStep ==
  ASSUME SecretInv, NEW c \in Writers, NEW u \in Uids, DeleteVersion(c, u)
  PROVE  SecretInv'
<1> USE ScAssumption DEF ScAssumption
<1>1. /\ UNCHANGED <<secret, puts>> /\ scOps' = scOps + 1 /\ scOps \in Nat
      /\ versions' = [versions EXCEPT ![u] = Vacant]
      /\ before' = {p \in before : u \notin {p[1], p[2]}}
      /\ DOMAIN scJob' = Writers
  BY DEF DeleteVersion, ScBegin, SecretInv, ScTyped
<1>2. versions'[u] = Vacant /\ \A v \in Uids : v # u => versions'[v] = versions[v]
  BY <1>1 DEF SecretInv, ScTyped
<1>3. ASSUME NEW d \in Writers
      PROVE  /\ ScJobOK(scJob'[d]) /\ scJob'[d].uid = scJob[d].uid /\ scJob'[d].number = scJob[d].number
             /\ Numbered(d)' => Numbered(d)
             /\ scJob'[d].after = scJob[d].after \ {u}
  <2>1. ScJobOK(scJob[d])
    BY DEF SecretInv, ScTyped
  <2>2. scJob'[d] = [scJob[d] EXCEPT !.after = scJob[d].after \ {u}]
    BY DEF DeleteVersion
  <2>3. QED
    BY <2>1, <2>2 DEF ScJobOK, ScJobFields, Numbered
<1>4. ScTyped'
  <2>1. \A d \in Writers : ScJobOK(scJob[d])'
    BY <1>3 DEF ScJobOK
  <2>2. QED
    BY <1>1, <2>1 DEF SecretInv, ScTyped
<1>5. NumberInv'
  <2>1. \A v \in Uids : versions[v] # Vacant => versions[v].number \in Nat
    BY DEF SecretInv, ScTyped, VersionRecords
  <2>2. \A d \in Writers : scJob[d].number \in Nat
    BY DEF SecretInv, ScTyped, ScJobOK
  <2>3. QED
    BY <1>1, <1>2, <1>3, <2>1, <2>2 DEF SecretInv, NumberInv
<1>6. UidInv'
  <2>1. \A d \in Writers : Numbered(d) => scJob[d].uid \in Uids
    BY DEF Numbered, SecretInv, ScTyped, ScJobOK
  <2>2. \A d, e \in Writers : scJob'[d].uid = scJob'[e].uid /\ scJob'[d].uid # Vacant => d = e
    BY <1>3 DEF SecretInv, UidInv
  <2>3. ASSUME NEW d \in Writers, Numbered(d)'
        PROVE  /\ versions'[scJob'[d].uid] = Vacant
               /\ \A v \in scJob'[d].after :
                    v \in Uids /\ versions'[v] # Vacant /\ versions'[v].number < scJob'[d].number
    <3>1. Numbered(d)
      BY <1>3, <2>3
    <3>2. QED
      BY <1>2, <1>3, <2>1, <3>1 DEF SecretInv, UidInv
  <2>4. QED
    BY <2>2, <2>3 DEF UidInv
<1>7. FollowInv'
  BY <1>1, <1>2 DEF SecretInv, ScTyped, FollowInv
<1>8. EachCounted'
  BY <1>1 DEF SecretInv, EachCounted
<1>9. QED
  BY <1>4, <1>5, <1>6, <1>7, <1>8 DEF SecretInv

\* The invariant holds before the first request.
LEMMA SecretInit == ScInit => SecretInv
<1> USE ScAssumption DEF ScAssumption
<1> SUFFICES ASSUME ScInit PROVE SecretInv
  OBVIOUS
<1>1. \A c \in Writers : scJob[c] = ScIdle
  BY DEF ScInit
<1>2. ScTyped
  BY <1>1, ScIdleOK DEF ScInit, ScTyped
<1>3. NumberInv /\ UidInv /\ FollowInv /\ EachCounted
  BY <1>1, ScIdleOK DEF ScInit, NumberInv, UidInv, Numbered, FollowInv, EachCounted
<1>4. QED
  BY <1>2, <1>3 DEF SecretInv

\* Every request keeps it.
LEMMA SecretStep == SecretInv /\ [ScNext]_scvars => SecretInv'
<1> USE ScAssumption DEF ScAssumption
<1> SUFFICES ASSUME SecretInv, [ScNext]_scvars PROVE SecretInv'
  OBVIOUS
<1>1. CASE UNCHANGED scvars
  BY <1>1 DEF scvars, SecretInv, ScTyped, ScJobOK, NumberInv, UidInv, Numbered, FollowInv, EachCounted
<1>2. ASSUME NEW c \in Writers, Put(c) \/ StorePut(c) \/ DeleteSecret(c)
      PROVE  SecretInv'
  BY <1>2, PutStep, StorePutStep, DeleteSecretStep
<1>3. ASSUME NEW c \in Writers, NEW u \in Uids, AddVersion(c, u) \/ DeleteVersion(c, u)
      PROVE  SecretInv'
  BY <1>3, AddVersionStep, DeleteVersionStep
<1>4. ASSUME NEW c \in Writers, StoreVersion(c) \/ AnswerVersion(c)
      PROVE  SecretInv'
  BY <1>4, StoreVersionStep, AnswerVersionStep
<1>5. QED
  BY <1>1, <1>2, <1>3, <1>4 DEF ScNext

\* No answered Put of a secret is lost in another, and a version that was asked for
\* after another was answered has the higher number, whatever is deleted in between
\* (secret.Put, AddVersion).
THEOREM SecretsCount == ScSpec => []SecretCounts
<1> USE ScAssumption DEF ScAssumption
<1>1. SecretInv => SecretCounts
  BY DEF SecretInv, FollowInv, SecretCounts, VersionsFollow
<1>2. QED
  BY <1>1, SecretInit, SecretStep, PTL DEF ScSpec

-----------------------------------------------------------------------------
(* No acknowledged update of a record is lost, for any number of callers,  *)
(* operations and timeouts.                                                *)

Contents == SUBSET (1 .. MaxOps)

Jobs == [pc : {"idle", "get", "swap", "delete", "swapped", "answered"},
         op : {"none", "new", "update", "put", "delete"},
         id : 0 .. MaxOps,
         held : Contents \cup {None}, old : Contents \cup {None}, new : Contents \cup {None}]

Requests == [op : {"new", "update", "put", "delete"},
             old : Contents \cup {None}, new : Contents \cup {None}]

RgTypeOK ==
  /\ row \in Contents \cup {None}
  /\ job \in [Callers -> Jobs]
  /\ late \in SUBSET Requests
  /\ ops \in 0 .. MaxOps

\* Where the update u is safe: it is in the record, or went away with one.
Safe(u) == u \in gone \/ (row # None /\ u \in row)

\* A write that is under way keeps what it replaces: its new content contains
\* the content it expects to find.
Grows(o) == o.op # "delete" => o.new \in Contents /\ (o.old # None => o.old \subseteq o.new)

\* A caller that is about to swap, or has swapped, brings its own update along.
JobOK(c) ==
  /\ job[c].pc = "delete" => job[c].op = "delete"
  /\ job[c].pc = "swap" => job[c].op # "delete" /\ job[c].id \in job[c].new
  /\ job[c].pc \in {"swap", "delete"} => Grows(job[c]) /\ job[c].op # "none"
  /\ job[c].pc = "get" => job[c].op \in {"update", "put"} /\ job[c].id \in 1 .. MaxOps
  /\ job[c].pc = "swapped" => Safe(job[c].id)

RgInv ==
  /\ RgTypeOK
  /\ \A c \in Callers : JobOK(c)
  /\ \A o \in late : Grows(o)
  /\ AckedKept

-----------------------------------------------------------------------------

\* The invariant holds when no caller has called yet.
LEMMA RgInitInv == RgInit => RgInv
BY NoneAssumption, MaxOpsAssumption DEF RgInit, RgInv, RgTypeOK, JobOK, Grows, AckedKept, Idle, Jobs, Requests, Contents

\* What a request does to the record leaves every safe update safe.
LEMMA ExecutedKeeps ==
  ASSUME RgInv, NEW o, Grows(o), Executed(o)
  PROVE  /\ row' \in Contents \cup {None}
         /\ \A u : Safe(u) => Safe(u)'
<1> USE NoneAssumption, MaxOpsAssumption
<1>1. CASE o.op = "delete"
  BY <1>1 DEF Executed, Safe, RgInv, RgTypeOK
<1>2. CASE o.op # "delete" /\ Swaps(o)
  <2>1. row' = o.new /\ o.new \in Contents /\ o.new # None /\ gone' = gone
    BY <1>2 DEF Executed, Grows, Contents
  <2>2. row = None \/ row \subseteq o.new
    BY <1>2 DEF Swaps, PostgresSwaps, EtcdSwaps, Grows
  <2> QED
    BY <2>1, <2>2 DEF Safe
<1>3. CASE o.op # "delete" /\ ~Swaps(o)
  BY <1>3 DEF Executed, Safe, RgInv, RgTypeOK
<1> QED
  BY <1>1, <1>2, <1>3
\* A step of caller c that loses no safe update leaves the other callers in order.
LEMMA OthersOK ==
  ASSUME RgInv, NEW c \in Callers, NEW j \in Jobs, Job(c, j), \A u : Safe(u) => Safe(u)'
  PROVE  /\ job' \in [Callers -> Jobs]
         /\ job'[c] = j
         /\ \A d \in Callers \ {c} : JobOK(d)'
<1> USE NoneAssumption, MaxOpsAssumption
<1>1. job' \in [Callers -> Jobs] /\ job'[c] = j /\ \A d \in Callers \ {c} : job'[d] = job[d]
  BY DEF RgInv, RgTypeOK, Job
<1>2. ASSUME NEW d \in Callers \ {c}
      PROVE  JobOK(d)'
  BY <1>1, <1>2 DEF RgInv, JobOK, Grows
<1> QED
  BY <1>1, <1>2

\* The record that a caller is left with, field by field
LEMMA FinishedFields ==
  ASSUME NEW c \in Callers, job[c] \in Jobs
  PROVE  /\ Finished(c) \in Jobs
         /\ Finished(c).pc = "idle"
<1>1. Finished(c).pc = "idle"
  BY DEF Finished, Jobs
<1>2. 0 \in 0 .. MaxOps /\ job[c].held \in Contents \cup {None}
  BY MaxOpsAssumption DEF Jobs
<1>3. Finished(c) \in Jobs
  BY <1>2, Zenon DEF Finished, Jobs
<1> QED
  BY <1>1, <1>3

\* A call that begins brings an update nobody has, and keeps the invariant.
LEMMA BeginKeeps ==
  ASSUME RgInv, NEW c \in Callers, NEW op, NEW pc, Begin(c, op, pc),
         <<op, pc>> \in {<<"new", "swap">>, <<"update", "get">>, <<"put", "get">>, <<"delete", "delete">>}
  PROVE  RgInv'
<1> USE NoneAssumption, MaxOpsAssumption
<1> DEFINE j == [pc |-> pc, op |-> op, id |-> ops + 1, held |-> job[c].held, old |-> None,
                 new |-> {ops + 1}]
<1>1. ops + 1 \in 1 .. MaxOps /\ {ops + 1} \in Contents
  BY DEF Begin, RgInv, RgTypeOK, Contents
<1>2. /\ j \in Jobs
      /\ j.pc = pc /\ j.op = op /\ j.id = ops + 1 /\ j.old = None /\ j.new = {ops + 1}
  BY <1>1 DEF RgInv, RgTypeOK, Jobs
<1>3. Job(c, j) /\ ops' = ops + 1 /\ UNCHANGED <<row, late, acked, gone>>
  BY DEF Begin
<1> HIDE DEF j
<1>4. \A u : Safe(u) => Safe(u)'
  BY <1>3 DEF Safe
<1>5. job' \in [Callers -> Jobs] /\ job'[c] = j /\ \A d \in Callers \ {c} : JobOK(d)'
  BY <1>2, <1>3, <1>4, OthersOK
<1>6. JobOK(c)'
  BY <1>1, <1>2, <1>5 DEF JobOK, Grows
<1>7. RgTypeOK'
  BY <1>1, <1>3, <1>5 DEF RgInv, RgTypeOK
<1> QED
  BY <1>3, <1>5, <1>6, <1>7 DEF RgInv, AckedKept, Grows

\* Every step of the registry keeps the invariant.
LEMMA RgNextInv == RgInv /\ [RgNext]_rgvars => RgInv'
<1> USE NoneAssumption, MaxOpsAssumption
<1> SUFFICES ASSUME RgInv, [RgNext]_rgvars
             PROVE  RgInv'
  OBVIOUS
<1>1. ASSUME NEW c \in Callers, PutNew(c) \/ TryUpdate(c) \/ PutHeld(c) \/ Delete(c)
      PROVE  RgInv'
  BY <1>1, BeginKeeps DEF PutNew, TryUpdate, PutHeld, Delete
<1>2. ASSUME NEW c \in Callers, GetHeld(c)
      PROVE  RgInv'
  <2> DEFINE j == [job[c] EXCEPT !.held = row]
  <2>1. j \in Jobs /\ j.pc = "idle"
    BY <1>2 DEF GetHeld, RgInv, RgTypeOK, Jobs
  <2>2. Job(c, j) /\ UNCHANGED <<row, late, acked, gone, ops>>
    BY <1>2 DEF GetHeld
  <2> HIDE DEF j
  <2>3. \A u : Safe(u) => Safe(u)'
    BY <2>2 DEF Safe
  <2>4. job' \in [Callers -> Jobs] /\ job'[c] = j /\ \A d \in Callers \ {c} : JobOK(d)'
    BY <2>1, <2>2, <2>3, OthersOK
  <2>5. JobOK(c)'
    BY <2>1, <2>4 DEF JobOK
  <2> QED
    BY <2>2, <2>4, <2>5 DEF RgInv, RgTypeOK, AckedKept, Grows
<1>3. ASSUME NEW c \in Callers, Got(c)
      PROVE  RgInv'
  <2>0. /\ job[c] \in Jobs
        /\ UNCHANGED <<row, late, acked, gone, ops>>
        /\ \A u : Safe(u) => Safe(u)'
    BY <1>3 DEF Got, RgInv, RgTypeOK, Safe
  <2>1. CASE row = None \/ Stale(c)
    <3>1. Job(c, Finished(c))
      BY <1>3, <2>1 DEF Got
    <3>2. job' \in [Callers -> Jobs] /\ job'[c] = Finished(c) /\ \A d \in Callers \ {c} : JobOK(d)'
      BY <2>0, <3>1, FinishedFields, OthersOK
    <3>3. JobOK(c)'
      BY <2>0, <3>2, FinishedFields DEF JobOK
    <3> QED
      BY <2>0, <3>2, <3>3 DEF RgInv, RgTypeOK, AckedKept, Grows
  <2>2. CASE row # None /\ ~Stale(c)
    <3> DEFINE n == (IF job[c].op = "put" THEN job[c].held ELSE row) \cup {job[c].id}
               j == [job[c] EXCEPT !.pc = "swap", !.old = row, !.new = n]
    <3>1. Job(c, j) /\ job[c].pc = "get"
      BY <1>3, <2>2 DEF Got
    <3>2. job[c].op \in {"update", "put"} /\ job[c].id \in 1 .. MaxOps
      BY <3>1 DEF RgInv, JobOK
    <3>3. n = row \cup {job[c].id} /\ n \in Contents /\ row \subseteq n
      BY <2>2, <3>2 DEF Stale, RgInv, RgTypeOK, Contents
    <3>4. /\ j \in Jobs
          /\ j.pc = "swap" /\ j.op = job[c].op /\ j.id = job[c].id /\ j.old = row /\ j.new = n
      BY <2>0, <2>2, <3>3 DEF RgInv, RgTypeOK, Jobs
    <3> HIDE DEF n, j
    <3>5. job' \in [Callers -> Jobs] /\ job'[c] = j /\ \A d \in Callers \ {c} : JobOK(d)'
      BY <2>0, <3>1, <3>4, OthersOK
    <3>6. JobOK(c)'
      BY <3>2, <3>3, <3>4, <3>5 DEF JobOK, Grows
    <3> QED
      BY <2>0, <3>5, <3>6 DEF RgInv, RgTypeOK, AckedKept, Grows
  <2> QED
    BY <2>1, <2>2
<1>4. ASSUME NEW c \in Callers, Execute(c)
      PROVE  RgInv'
  <2> DEFINE p == IF job[c].op # "delete" /\ Swaps(job[c]) THEN "swapped" ELSE "answered"
             j == [job[c] EXCEPT !.pc = p]
  <2>1. Executed(job[c]) /\ Job(c, j) /\ UNCHANGED <<late, acked, ops>> /\ job[c].pc \in {"swap", "delete"}
    BY <1>4 DEF Execute
  <2>2. Grows(job[c]) /\ job[c] \in Jobs
    BY <2>1 DEF RgInv, RgTypeOK, JobOK
  <2>3. row' \in Contents \cup {None} /\ \A u : Safe(u) => Safe(u)'
    BY <2>1, <2>2, ExecutedKeeps
  <2>4. j \in Jobs /\ j.pc = p /\ j.id = job[c].id
    BY <2>2 DEF Jobs
  <2>5. p = "swapped" => Safe(job[c].id)'
    <3>1. SUFFICES ASSUME job[c].op # "delete", Swaps(job[c])
                   PROVE  Safe(job[c].id)'
      OBVIOUS
    <3>2. job[c].id \in job[c].new /\ row' = job[c].new /\ job[c].new \in Contents
      BY <2>1, <2>2, <3>1 DEF Executed, RgInv, JobOK, Grows
    <3>3. row' # None
      BY <3>2 DEF Contents
    <3> QED
      BY <2>1, <3>2, <3>3 DEF Safe, Job
  <2>6. p \in {"swapped", "answered"}
    OBVIOUS
  <2> HIDE DEF p, j
  <2>7. job' \in [Callers -> Jobs] /\ job'[c] = j /\ \A d \in Callers \ {c} : JobOK(d)'
    BY <2>1, <2>3, <2>4, OthersOK
  <2>8. JobOK(c)'
    BY <2>4, <2>5, <2>6, <2>7 DEF JobOK, Safe
  <2>9. AckedKept'
    BY <2>1, <2>3 DEF RgInv, AckedKept, Safe
  <2> QED
    BY <2>1, <2>3, <2>7, <2>8, <2>9 DEF RgInv, RgTypeOK, Grows
<1>5. ASSUME NEW c \in Callers, Answer(c)
      PROVE  RgInv'
  <2> DEFINE h == IF job[c].pc = "swapped" /\ job[c].op \in {"new", "put"} THEN job[c].new
                  ELSE job[c].held
             j == [Finished(c) EXCEPT !.held = h]
  <2>1. job[c] \in Jobs /\ UNCHANGED <<row, late, gone, ops>>
    BY <1>5 DEF Answer, RgInv, RgTypeOK
  <2>2. j \in Jobs /\ j.pc = "idle"
    BY <2>1, FinishedFields DEF Jobs
  <2>3. Job(c, j)
    BY <1>5, <2>1 DEF Answer, Finished, Job, Jobs
  <2> HIDE DEF h, j
  <2>4. \A u : Safe(u) => Safe(u)'
    BY <2>1 DEF Safe
  <2>5. job' \in [Callers -> Jobs] /\ job'[c] = j /\ \A d \in Callers \ {c} : JobOK(d)'
    BY <2>2, <2>3, <2>4, OthersOK
  <2>6. JobOK(c)'
    BY <2>2, <2>5 DEF JobOK
  <2>7. AckedKept'
    BY <1>5, <2>1 DEF Answer, RgInv, JobOK, AckedKept, Safe
  <2> QED
    BY <2>1, <2>5, <2>6, <2>7 DEF RgInv, RgTypeOK, Grows
<1>6. ASSUME NEW c \in Callers, Timeout(c)
      PROVE  RgInv'
  <2>1. job[c] \in Jobs /\ Job(c, Finished(c)) /\ UNCHANGED <<row, acked, gone, ops>>
    BY <1>6 DEF Timeout, RgInv, RgTypeOK
  <2>2. \A u : Safe(u) => Safe(u)'
    BY <2>1 DEF Safe
  <2>3. job' \in [Callers -> Jobs] /\ job'[c] = Finished(c) /\ \A d \in Callers \ {c} : JobOK(d)'
    BY <2>1, <2>2, FinishedFields, OthersOK
  <2>4. JobOK(c)'
    BY <2>1, <2>3, FinishedFields DEF JobOK
  <2>5. late' \in SUBSET Requests /\ \A o \in late' : Grows(o)
    <3> DEFINE r == [op |-> job[c].op, old |-> job[c].old, new |-> job[c].new]
    <3>1. CASE job[c].pc \in {"swap", "delete"}
      <4>1. Grows(job[c]) /\ job[c].op # "none"
        BY <3>1 DEF RgInv, JobOK
      <4>2. r \in Requests /\ Grows(r)
        BY <2>1, <4>1 DEF Jobs, Requests, Grows
      <4>3. late' = late \cup {r}
        BY <1>6, <3>1 DEF Timeout
      <4> QED
        BY <4>2, <4>3 DEF RgInv, RgTypeOK
    <3>2. CASE job[c].pc \notin {"swap", "delete"}
      BY <1>6, <3>2 DEF Timeout, RgInv, RgTypeOK
    <3> QED
      BY <3>1, <3>2
  <2> QED
    BY <2>1, <2>3, <2>4, <2>5 DEF RgInv, RgTypeOK, AckedKept, Grows
<1>7. ASSUME NEW o \in late, LateExecute(o)
      PROVE  RgInv'
  <2>1. row' \in Contents \cup {None} /\ \A u : Safe(u) => Safe(u)'
    <3>1. CASE Executed(o)
      BY <3>1, ExecutedKeeps DEF RgInv
    <3>2. CASE UNCHANGED <<row, gone>>
      BY <3>2 DEF Safe, RgInv, RgTypeOK
    <3> QED
      BY <1>7, <3>1, <3>2 DEF LateExecute
  <2>2. late' \subseteq late /\ UNCHANGED <<job, acked, ops>>
    BY <1>7 DEF LateExecute
  <2>3. \A c \in Callers : JobOK(c)'
    BY <2>1, <2>2 DEF RgInv, JobOK, Grows
  <2> QED
    BY <2>1, <2>2, <2>3 DEF RgInv, RgTypeOK, AckedKept, Safe, Grows
<1>8. CASE UNCHANGED rgvars
  BY <1>8 DEF rgvars, RgInv, RgTypeOK, JobOK, AckedKept, Safe, Grows
<1> QED
  BY <1>1, <1>2, <1>3, <1>4, <1>5, <1>6, <1>7, <1>8 DEF RgNext

\* Put and TryUpdate: an update that was answered with success stays in the
\* record until a Delete takes the record away.
THEOREM NoUpdateLost == RgSpec => []AckedKept
<1> USE NoneAssumption, MaxOpsAssumption
<1>1. RgInv => AckedKept
  BY DEF RgInv
<1> QED
  BY <1>1, RgInitInv, RgNextInv, PTL DEF RgSpec

-----------------------------------------------------------------------------
(* What a client renames into place is one complete snapshot, for every    *)
(* number of clients, blocks, versions and interruptions.                  *)
(*                                                                         *)
(* The .part file may hold any mixture of versions: the invariant says     *)
(* nothing of it.  It follows the version a client expects, which a        *)
(* server has captured, up to the check of the digest, which ties the file *)
(* to that version.                                                        *)

ClientStates == [pc : {"request", "version", "open", "copy", "hash", "rename", "clean"},
                 part : Seq(Nat), ver : Nat \union {NoVersion}, dest : Seq(Nat),
                 exp : Nat \union {NoVersion}, resuming : BOOLEAN]

Whole(blocks) == \E v \in 1..live : blocks = [i \in 1..Blocks |-> v]

\* A client: the version it expects was captured, and a file that passed the
\* check is that version.
ClientOK(c) ==
  /\ cl[c].pc \notin {"request", "clean"} => cl[c].exp \in 1..live
  /\ cl[c].pc = "rename" => Whole(cl[c].part)
  /\ cl[c].dest # <<>> => Whole(cl[c].dest)

RpInv ==
  /\ live \in Nat
  /\ live >= 1
  /\ cached \subseteq 1..live
  /\ cl \in [Pullers -> ClientStates]
  /\ \A c \in Pullers : ClientOK(c)

\* The invariant holds when nothing was pulled yet.
LEMMA RpInitInv == RpInit => RpInv
  BY DEF RpInit, RpInv, IdleClient, ClientStates, ClientOK

\* A step of one client leaves the others alone.
LEMMA OneClient ==
  ASSUME RpInv, NEW c \in Pullers, NEW r \in ClientStates, Client(c, r),
         UNCHANGED live, cached' \subseteq 1..live,
         r.pc \notin {"request", "clean"} => r.exp \in 1..live,
         r.pc = "rename" => Whole(r.part),
         r.dest # <<>> => Whole(r.dest)
  PROVE  RpInv'
<1>1. cl' \in [Pullers -> ClientStates]
  BY DEF RpInv, Client
<1>2. ASSUME NEW d \in Pullers PROVE ClientOK(d)'
  <2>1. CASE d = c
    <3>1. cl'[d] = r
      BY <2>1 DEF RpInv, Client
    <3> QED BY <3>1 DEF ClientOK, Whole
  <2>2. CASE d # c
    <3>1. cl'[d] = cl[d]
      BY <2>2 DEF RpInv, Client
    <3> QED BY <3>1 DEF RpInv, ClientOK, Whole
  <2> QED BY <2>1, <2>2
<1> QED BY <1>1, <1>2 DEF RpInv

\* A step of the transfer, action by action.
LEMMA RpNextInv == RpInv /\ [RpNext]_rpVars => RpInv'
<1> SUFFICES ASSUME RpInv, [RpNext]_rpVars PROVE RpInv'
  OBVIOUS
<1>1. CASE UNCHANGED rpVars
  BY <1>1 DEF rpVars, RpInv, ClientOK, Whole
<1>2. CASE GuestWrites
  <2>1. 1..live \subseteq 1..live' /\ live' \in Nat /\ live' >= 1
    BY <1>2 DEF GuestWrites, RpInv
  <2>2. \A blocks : Whole(blocks) => Whole(blocks)'
    BY <2>1 DEF Whole
  <2>3. ASSUME NEW c \in Pullers PROVE ClientOK(c)'
    <3>1. ClientOK(c) /\ cl' = cl
      BY <1>2 DEF RpInv, GuestWrites
    <3> QED BY <2>1, <2>2, <3>1 DEF ClientOK
  <2> QED BY <1>2, <2>1, <2>3 DEF GuestWrites, RpInv
<1>3. ASSUME NEW c \in Pullers, PullStep(c) \/ Cut(c) PROVE RpInv'
  <2> DEFINE r == cl[c]
  <2>0. r \in ClientStates /\ ClientOK(c) /\ cached \subseteq 1..live /\ live \in Nat
    BY DEF RpInv
  <2>1. CASE Request(c)
    <3>1. CASE /\ r.ver # NoVersion /\ Served(r)
               /\ Client(c, [r EXCEPT !.pc = "version", !.exp = r.ver, !.resuming = TRUE])
               /\ UNCHANGED <<cached, live>>
      BY <2>0, <3>1, OneClient DEF Served, ClientStates, ClientOK
    <3>2. CASE /\ Client(c, [r EXCEPT !.ver = NoVersion])
               /\ UNCHANGED <<cached, live>> /\ r.pc = "request"
      BY <2>0, <3>2, OneClient DEF ClientStates, ClientOK
    <3>3. CASE /\ cached' = Captured
               /\ Client(c, [r EXCEPT !.pc = "version", !.exp = Digest(Captured)])
               /\ UNCHANGED live
      <4>1. Digest(Captured) = live
        BY DEF Digest, Captured
      <4>2. cached' \subseteq 1..live /\ live \in 1..live
        BY <3>3 DEF Captured, RpInv
      <4> QED BY <2>0, <3>3, <4>1, <4>2, OneClient DEF ClientStates, ClientOK
    <3> QED BY <2>1, <3>1, <3>2, <3>3 DEF Request
  <2>2. CASE WriteVersion(c)
    BY <2>0, <2>2, OneClient DEF WriteVersion, ClientStates, ClientOK
  <2>3. CASE OpenPart(c)
    <3> DEFINE part == Opened(r)
    <3>1. part \in Seq(Nat)
      BY <2>0 DEF Opened, ClientStates
    <3> HIDE DEF part
    <3>2. Client(c, [r EXCEPT !.part = part, !.pc = "copy"]) /\ UNCHANGED <<live, cached>>
      BY <2>3 DEF OpenPart, part
    <3> QED BY <2>0, <2>3, <3>1, <3>2, OneClient DEF OpenPart, ClientStates, ClientOK
  <2>4. CASE CopyBlock(c)
    <3> DEFINE part == Append(r.part, r.exp)
               to == IF Len(part) = Blocks THEN "hash" ELSE "copy"
    <3>1. part \in Seq(Nat) /\ to \in {"hash", "copy"} /\ r.exp \in 1..live
      BY <2>0, <2>4 DEF CopyBlock, ClientStates, ClientOK
    <3> HIDE DEF part, to
    <3>2. Client(c, [r EXCEPT !.part = part, !.pc = to]) /\ UNCHANGED <<live, cached>>
      BY <2>4 DEF CopyBlock, part, to
    <3> QED BY <2>0, <3>1, <3>2, OneClient DEF ClientStates, ClientOK
  <2>5. CASE CheckPart(c)
    <3>1. CASE Complete(r.part, r.exp)
      <4>1. Whole(r.part)
        BY <2>0, <2>5, <3>1 DEF CheckPart, Complete, Whole, ClientOK
      <4> QED BY <2>0, <2>5, <3>1, <4>1, OneClient DEF CheckPart, ClientStates, ClientOK
    <3>2. CASE ~Complete(r.part, r.exp)
      BY <2>0, <2>5, <3>2, OneClient DEF CheckPart, Rejected, AtStart, ClientStates, ClientOK
    <3> QED BY <3>1, <3>2
  <2>6. CASE RenamePart(c)
    <3> DEFINE n == [r EXCEPT !.dest = r.part, !.part = <<>>, !.pc = "clean"]
    <3>1. n \in ClientStates
      <4>1. <<>> \in Seq(Nat) /\ r.part \in Seq(Nat)
        BY <2>0 DEF ClientStates
      <4> QED BY <2>0, <4>1, Zenon DEF ClientStates
    <3>2. n.pc = "clean" /\ n.dest = r.part
      BY <2>0 DEF ClientStates
    <3>3. Client(c, n) /\ UNCHANGED <<live, cached>> /\ Whole(r.part)
      BY <2>0, <2>6 DEF RenamePart, ClientOK
    <3> HIDE DEF n
    <3> QED BY <2>0, <3>1, <3>2, <3>3, OneClient
  <2>7. CASE RemoveVersion(c)
    BY <2>0, <2>7, OneClient DEF RemoveVersion, AtStart, ClientStates, ClientOK
  <2>8. CASE Cut(c)
    <3>1. PICK p \in IF r.pc = "copy" THEN Leftovers(r.part) ELSE {r.part} :
             Client(c, [AtStart(r) EXCEPT !.part = p])
      BY <2>8 DEF Cut
    <3>2. p \in Seq(Nat)
      <4>1. r.part \in Seq(Nat)
        BY <2>0 DEF ClientStates
      <4>2. ASSUME NEW l \in 0..Len(r.part) PROVE SubSeq(r.part, 1, l) \in Seq(Nat)
        BY <4>1
      <4> QED BY <3>1, <4>1, <4>2 DEF Leftovers
    <3> DEFINE n == [AtStart(r) EXCEPT !.part = p]
    <3>3. n \in ClientStates
      BY <2>0, <3>2 DEF AtStart, ClientStates
    <3>4. n.pc = "request" /\ n.dest = r.dest
      BY <2>0 DEF AtStart, ClientStates
    <3>5. Client(c, n) /\ UNCHANGED <<live, cached>>
      BY <2>8, <3>1 DEF Cut
    <3> HIDE DEF n
    <3> QED BY <2>0, <3>3, <3>4, <3>5, OneClient DEF ClientOK
  <2> QED BY <1>3, <2>1, <2>2, <2>3, <2>4, <2>5, <2>6, <2>7, <2>8 DEF PullStep
<1> QED BY <1>1, <1>2, <1>3 DEF RpNext

\* Whatever is captured, evicted, cut and resumed, PullDisk renames only a
\* complete snapshot over the replica's file.
THEOREM OnlySnapshotsLand == RpSpec => []DestIntact
<1>1. RpInv => DestIntact
  BY DEF RpInv, ClientOK, Whole, DestIntact
<1> QED BY RpInitInv, RpNextInv, <1>1, PTL DEF RpSpec
=============================================================================
