------------------------------- MODULE Accounts -------------------------------
(* Users and access tokens of infra-idp: internal/identity and               *)
(* internal/accesstoken behind their handlers.  Requests run concurrently,   *)
(* at one provider or at several; between the reads and the write of a       *)
(* request the records may change.                                           *)

EXTENDS Naturals

CONSTANTS
  Requests,      \* requests in progress
  Tokens,        \* uids of access tokens
  MaxAcOps,      \* requests that are started
  MaxAcFaults,   \* reads that fail
  Absent

VARIABLES
  user,      \* the record of the user, Absent when there is none
  token,     \* the record under each token uid
  acJob,
  out,       \* the user is known to be out: the last answer disabled or deleted it
  pass,      \* the password of the last answered change, Absent if not known
  given,     \* the plaintext last given out for each token uid, Absent if not known
  acOps, acFaults

\* What is stored of a user and of a token: the hash is the number of the request
\* that set it.
UserRecords == [off : BOOLEAN, hash : Nat, gen : Nat]
TokenRecords == [hash : Nat, gen : Nat]

\* Absent is told apart from records and from what requests carry.
ASSUME AcAssumption == Absent \notin Nat \cup UserRecords \cup TokenRecords

acvars == <<user, token, acJob, out, pass, given, acOps, acFaults>>

AcIdle == [pc |-> "idle", op |-> "none", id |-> 0, arg |-> Absent, off |-> FALSE, read |-> Absent,
         out |-> FALSE, keepsOut |-> FALSE, keepsPass |-> FALSE, answer |-> "none"]

AcInit ==
  /\ user = Absent
  /\ token = [t \in Tokens |-> Absent]
  /\ acJob = [c \in Requests |-> AcIdle]
  /\ out = FALSE
  /\ pass = Absent
  /\ given = [t \in Tokens |-> Absent]
  /\ acOps = 0
  /\ acFaults = 0

AcJob(c, j) == acJob' = [acJob EXCEPT ![c] = j]

\* A request starts with what it reads; its number is the password it sets or
\* the token it would generate.
Began(c, op, pc) == [AcIdle EXCEPT !.pc = pc, !.op = op, !.id = acOps + 1, !.out = out]

AcBegin(c) ==
  /\ acJob[c].pc = "idle"
  /\ acOps < MaxAcOps
  /\ acOps' = acOps + 1

\* identity.Put: arg is the password, Absent when it is empty; an update that
\* enables the account ends what is known of its being out, one with a password
\* what is known of that, in the answers on their way too.
PutUser(c, off, withPass) ==
  /\ AcBegin(c)
  /\ user = Absent => withPass
  /\ acJob' = [d \in Requests |->
               IF d = c THEN [Began(c, "user", "swap") EXCEPT
                                !.arg = IF withPass THEN acOps + 1 ELSE Absent, !.off = off, !.read = user]
               ELSE [acJob[d] EXCEPT !.out = @ /\ off, !.keepsOut = @ /\ off,
                                   !.keepsPass = @ /\ ~withPass]]
  /\ out' = (out /\ off)
  /\ pass' = IF withPass THEN Absent ELSE pass
  /\ UNCHANGED <<user, token, given, acFaults>>

\* registry.Put with the revision that was read, or none for a new record
UserSwaps(now, read) == now = read

\* The new record: the hash of the password, or the one there was
UserRecord(j) ==
  [off |-> j.off, hash |-> IF j.arg # Absent THEN j.arg ELSE j.read.hash,
   gen |-> IF j.read = Absent THEN 1 ELSE j.read.gen + 1]

SwapUser(c) ==
  /\ acJob[c].op = "user" /\ acJob[c].pc = "swap"
  /\ IF UserSwaps(user, acJob[c].read)
     THEN /\ user' = UserRecord(acJob[c])
          /\ AcJob(c, [acJob[c] EXCEPT !.pc = "done", !.keepsOut = acJob[c].off,
                                       !.keepsPass = acJob[c].arg # Absent])
     ELSE UNCHANGED user /\ AcJob(c, AcIdle)
  /\ UNCHANGED <<token, out, pass, given, acOps, acFaults>>

\* The answer to a Put
AnswerUser(c) ==
  /\ acJob[c].op = "user" /\ acJob[c].pc = "done"
  /\ out' = (out \/ acJob[c].keepsOut)
  /\ pass' = IF acJob[c].keepsPass THEN acJob[c].arg ELSE pass
  /\ AcJob(c, AcIdle)
  /\ UNCHANGED <<user, token, given, acOps, acFaults>>

\* A Put that found no record may still create the account again.
Recreating == \E d \in Requests : acJob[d].op = "user" /\ acJob[d].pc = "swap" /\ acJob[d].read = Absent

DeleteUser(c) ==
  /\ AcBegin(c)
  /\ user # Absent
  /\ user' = Absent
  /\ out' = ~Recreating
  /\ pass' = Absent
  /\ acJob' = [d \in Requests |-> [acJob[d] EXCEPT !.keepsPass = FALSE, !.keepsOut = @ /\ ~Recreating,
                                            !.out = @ /\ ~Recreating]]
  /\ UNCHANGED <<token, given, acFaults>>

\* accesstoken.Put: whatever its Get fails with counts as no record.
PutToken(c, t) ==
  /\ AcBegin(c)
  /\ \E fails \in BOOLEAN :
       /\ fails => acFaults < MaxAcFaults
       /\ acFaults' = IF fails THEN acFaults + 1 ELSE acFaults
       /\ AcJob(c, [Began(c, "token", "swap") EXCEPT !.arg = t,
                    !.read = IF fails THEN Absent ELSE token[t]])
  /\ UNCHANGED <<user, token, out, pass, given>>

\* Mutant: a new record replaces the one that is there.
TokenSwaps_New(now, read) == now = read \/ read = Absent

TokenSwaps(now, read) == now = read

SwapToken(c) ==
  /\ acJob[c].op = "token" /\ acJob[c].pc = "swap"
  /\ LET j == acJob[c] IN
       IF TokenSwaps(token[j.arg], j.read)
       THEN /\ token' = [token EXCEPT ![j.arg] =
                 IF j.read = Absent THEN [hash |-> j.id, gen |-> 1] ELSE [j.read EXCEPT !.gen = @ + 1]]
            /\ AcJob(c, IF j.read = Absent THEN [j EXCEPT !.pc = "done"] ELSE AcIdle)
       ELSE UNCHANGED token /\ AcJob(c, AcIdle)
  /\ UNCHANGED <<user, out, pass, given, acOps, acFaults>>

\* The answer that carries the plaintext, unless the record is deleted by then
AnswerToken(c) ==
  /\ acJob[c].op = "token" /\ acJob[c].pc = "done"
  /\ given' = [given EXCEPT ![acJob[c].arg] = IF acJob[c].off THEN @ ELSE acJob[c].id]
  /\ AcJob(c, AcIdle)
  /\ UNCHANGED <<user, token, out, pass, acOps, acFaults>>

DeleteToken(c, t) ==
  /\ AcBegin(c)
  /\ token[t] # Absent
  /\ token' = [token EXCEPT ![t] = Absent]
  /\ given' = [given EXCEPT ![t] = Absent]
  /\ acJob' = [d \in Requests |-> IF acJob[d].op = "token" /\ acJob[d].arg = t /\ acJob[d].pc = "done"
                               THEN [acJob[d] EXCEPT !.off = TRUE] ELSE acJob[d]]
  /\ UNCHANGED <<user, out, pass, acFaults>>

\* Introspect of a token that was given out: the list of the tokens, then the owner
Introspect(c, t) ==
  /\ AcBegin(c)
  /\ given[t] # Absent
  /\ AcJob(c, [Began(c, "introspect", IF token[t] # Absent /\ token[t].hash = given[t]
                                    THEN "owner" ELSE "done")
               EXCEPT !.answer = "refused"])
  /\ UNCHANGED <<user, token, out, pass, given, acFaults>>

\* The account exists and is not disabled.
Admitted(u) == u # Absent /\ ~u.off

Owner(c) ==
  /\ acJob[c].op = "introspect" /\ acJob[c].pc = "owner"
  /\ AcJob(c, [acJob[c] EXCEPT !.pc = "done", !.answer = IF Admitted(user) THEN "active" ELSE "refused"])
  /\ UNCHANGED <<user, token, out, pass, given, acOps, acFaults>>

\* login with the known password: one list of the users decides
Authenticate(c) ==
  /\ AcBegin(c)
  /\ pass # Absent
  /\ AcJob(c, [Began(c, "login", "done") EXCEPT
               !.answer = IF Admitted(user) /\ user.hash = pass THEN "active" ELSE "refused"])
  /\ UNCHANGED <<user, token, out, pass, given, acFaults>>

AnswerCheck(c) ==
  /\ acJob[c].op \in {"introspect", "login"} /\ acJob[c].pc = "done"
  /\ AcJob(c, AcIdle)
  /\ UNCHANGED <<user, token, out, pass, given, acOps, acFaults>>

AcNext ==
  \E c \in Requests :
    \/ \E off, withPass \in BOOLEAN : PutUser(c, off, withPass)
    \/ SwapUser(c) \/ AnswerUser(c) \/ DeleteUser(c)
    \/ \E t \in Tokens : PutToken(c, t) \/ DeleteToken(c, t) \/ Introspect(c, t)
    \/ SwapToken(c) \/ AnswerToken(c) \/ Owner(c) \/ Authenticate(c) \/ AnswerCheck(c)

AcSpec == AcInit /\ [][AcNext]_acvars

-----------------------------------------------------------------------------

\* Introspect and Authenticate: once an admin was told that the account is
\* disabled or deleted, and until somebody asks to enable it, no request that
\* comes in is told that it is active.
OutAtOnce == \A c \in Requests : acJob[c].pc = "done" /\ acJob[c].answer = "active" => ~acJob[c].out

\* identity.Put: the password of an answered change stays the password of the
\* account, whatever updates without a password run beside it.
PasswordKept == pass # Absent /\ user # Absent => user.hash = pass

\* accesstoken.Put: a token that was given out stays the token of its record
\* until that is deleted; an update whose read failed does not generate another.
TokenKept == \A t \in Tokens : given[t] # Absent => token[t] # Absent /\ token[t].hash = given[t]


\* What was accepted of an account holds: it is out at once when it is disabled, its
\* last password is in force, and its token is the one that was given.
AccountHolds == OutAtOnce /\ PasswordKept /\ TokenKept
==============================================================================
