---------------------------- MODULE AccountsProofs ----------------------------
(***************************************************************************)
(* AccountHolds of Accounts, for every number of requests in progress, of  *)
(* tokens and of failed reads.                                             *)
(*                                                                         *)
(* A Put writes only over the bytes it read, so what it may undo is what   *)
(* was stored when it read.  The invariant follows this from the read to   *)
(* the write: once somebody knows that the account is out, or what its     *)
(* password is, every Put that could still write has either read something *)
(* that is no longer stored, or leaves that alone.  Stored records are     *)
(* told apart by password and generation, which is why HashInv and ReadInv *)
(* are needed.                                                             *)
(***************************************************************************)
EXTENDS Accounts, TLAPS

\* The fields of a request.
JobFields == {"pc", "op", "id", "arg", "off", "read", "out", "keepsOut", "keepsPass", "answer"}

\* A Put of a user that has read and not yet written.
Swapping(c) == acJob[c].op = "user" /\ acJob[c].pc = "swap"

\* What a request carries.
JobOK(j) ==
  /\ DOMAIN j = JobFields
  /\ j.op = "user" => /\ j.arg \in Nat \cup {Absent}
                      /\ j.read \in UserRecords \cup {Absent}
                      /\ j.read = Absent => j.arg # Absent
                      /\ j.off \in BOOLEAN
  /\ j.op = "token" => /\ j.arg \in Tokens /\ j.id \in Nat
                       /\ j.read \in TokenRecords \cup {Absent}
  /\ j.op # "user" => ~j.keepsOut /\ ~j.keepsPass

\* The types the argument is about.
AcTyped ==
  /\ user \in UserRecords \cup {Absent}
  /\ token \in [Tokens -> TokenRecords \cup {Absent}]
  /\ given \in [Tokens -> Nat \cup {Absent}]
  /\ acOps \in Nat
  /\ DOMAIN acJob = Requests /\ \A c \in Requests : JobOK(acJob[c])

\* Passwords are numbered by the requests that bring them: what a Put is about
\* to set is in no record that is stored or was read.
HashInv ==
  /\ user # Absent => user.hash <= acOps
  /\ \A c \in Requests : Swapping(c) =>
       /\ acJob[c].read # Absent => acJob[c].read.hash <= acOps
       /\ acJob[c].arg # Absent =>
            /\ acJob[c].arg <= acOps
            /\ user # Absent => user.hash # acJob[c].arg
            /\ \A d \in Requests : Swapping(d) =>
                 /\ acJob[d].read # Absent => acJob[d].read.hash # acJob[c].arg
                 /\ d # c => acJob[d].arg # acJob[c].arg

\* With the same password, what was read is not newer than what is stored.
ReadInv ==
  \A c \in Requests :
    Swapping(c) /\ acJob[c].read # Absent /\ user # Absent /\ acJob[c].read.hash = user.hash =>
      acJob[c].read.gen <= user.gen

\* The account is known to be out: to somebody who was answered, to a request
\* that came in after that, or to an answer on its way.
KnownOut ==
  \/ out
  \/ \E c \in Requests : \/ acJob[c].op \in {"introspect", "login"} /\ acJob[c].out
                         \/ acJob[c].keepsOut

\* An account that is known to be out is, and no Put under way can change that.
OutInv ==
  /\ KnownOut => ~Admitted(user) /\ \A c \in Requests : Swapping(c) /\ acJob[c].read = user =>
                                                         acJob[c].off
  /\ \A c \in Requests : acJob[c].answer = "active" =>
       acJob[c].op \in {"introspect", "login"} /\ ~acJob[c].out

\* The password of the account is p, and no Put under way can change it.
SetTo(p) ==
  /\ user # Absent /\ user.hash = p
  /\ \A c \in Requests : Swapping(c) /\ acJob[c].arg # Absent => acJob[c].read # user

\* A password that somebody was told of, or is about to be, is that of the account.
PassInv ==
  /\ pass # Absent => SetTo(pass)
  /\ \A c \in Requests : acJob[c].keepsPass => SetTo(acJob[c].arg)

\* A token that was given out, or is about to be, is that of its record.
TokenInv ==
  /\ TokenKept
  /\ \A c \in Requests : acJob[c].op = "token" /\ acJob[c].pc = "done" /\ ~acJob[c].off =>
       /\ token[acJob[c].arg] # Absent
       /\ token[acJob[c].arg].hash = acJob[c].id

\* The inductive invariant.
AccountInv == AcTyped /\ HashInv /\ ReadInv /\ OutInv /\ PassInv /\ TokenInv

-----------------------------------------------------------------------------

USE AcAssumption DEF AcAssumption

\* The requests that look at an account.
Checks == {"introspect", "login"}

\* Request d is, after the step, no more than it was for the account.
Quiet(d) ==
  LET j == acJob[d]
      k == acJob'[d]
  IN  /\ Swapping(d)' => Swapping(d) /\ k.read = j.read /\ k.arg = j.arg /\ k.off = j.off
      /\ k.keepsOut => j.keepsOut
      /\ k.keepsPass => j.keepsPass /\ k.arg = j.arg
      /\ k.op \in Checks /\ k.out => KnownOut
      /\ k.answer = "active" => k.op \in Checks /\ ~k.out

\* A step that changes neither the account nor what is known of it.
UserQuiet ==
  /\ UNCHANGED <<user, out, pass>> /\ acOps' \in {acOps, acOps + 1}
  /\ \A d \in Requests : Quiet(d)

\* Such a step keeps what is said of the account.
LEMMA QuietKeepsUser ==
  ASSUME AccountInv, UserQuiet
  PROVE  HashInv' /\ ReadInv' /\ OutInv' /\ PassInv'
<1> USE DEF UserQuiet, Quiet, AccountInv, AcTyped
<1>1. HashInv'
  BY DEF HashInv, UserRecords, JobOK, Swapping
<1>2. ReadInv'
  BY DEF ReadInv, Swapping
<1>3. OutInv'
  <2>1. KnownOut' => KnownOut
    BY DEF KnownOut, Checks
  <2>2. Admitted(user)' = Admitted(user)
    BY DEF Admitted
  <2>3. QED
    BY <2>1, <2>2 DEF OutInv, Checks, Swapping
<1>4. PassInv'
  <2>1. \A p : SetTo(p) => SetTo(p)'
    BY DEF SetTo, Swapping
  <2>2. QED
    BY <2>1 DEF PassInv
<1>5. QED
  BY <1>1, <1>2, <1>3, <1>4

\* Request d has created a token and the answer with it is to be sent.
Giving(d) == acJob[d].op = "token" /\ acJob[d].pc = "done" /\ ~acJob[d].off

\* A step that leaves the tokens and the answers with them alone.
TokenQuiet ==
  /\ UNCHANGED <<token, given>>
  /\ \A d \in Requests : Giving(d)' =>
       Giving(d) /\ acJob'[d].arg = acJob[d].arg /\ acJob'[d].id = acJob[d].id

\* Such a step keeps what is said of the tokens.
LEMMA QuietKeepsTokens ==
  ASSUME AccountInv, TokenQuiet
  PROVE  TokenInv'
  BY DEF TokenQuiet, Giving, AccountInv, TokenInv, TokenKept

\* A step of one request leaves the others.
LEMMA OneJob ==
  ASSUME AcTyped, NEW c \in Requests, NEW j, JobOK(j), AcJob(c, j)
  PROVE  /\ DOMAIN acJob' = Requests /\ \A d \in Requests : JobOK(acJob'[d])
         /\ acJob'[c] = j /\ \A d \in Requests : d # c => acJob'[d] = acJob[d]
  BY DEF AcTyped, AcJob

\* A request that does not change the account.
LEMMA OneQuiet ==
  ASSUME AccountInv, NEW c \in Requests, NEW j, JobOK(j), AcJob(c, j),
         UNCHANGED <<user, out, pass>>, acOps' \in {acOps, acOps + 1},
         j.op # "user", ~j.keepsOut, ~j.keepsPass,
         j.op \in Checks /\ j.out => KnownOut,
         j.answer = "active" => j.op \in Checks /\ ~j.out
  PROVE  UserQuiet
<1>1. acJob'[c] = j /\ \A d \in Requests : d # c => acJob'[d] = acJob[d]
  BY OneJob DEF AccountInv
<1>2. Quiet(c)
  BY <1>1 DEF Quiet, Swapping
<1>3. ASSUME NEW d \in Requests, d # c PROVE Quiet(d)
  <2>1. acJob'[d] = acJob[d]
    BY <1>1, <1>3
  <2>2. acJob[d].op \in Checks /\ acJob[d].out => KnownOut
    BY DEF KnownOut, Checks
  <2>3. acJob[d].answer = "active" => acJob[d].op \in Checks /\ ~acJob[d].out
    BY DEF AccountInv, OutInv, Checks
  <2>4. QED
    BY <2>1, <2>2, <2>3 DEF Quiet, Swapping
<1>4. QED
  BY <1>2, <1>3 DEF UserQuiet

\* Requests at rest.
LEMMA IdleOK == JobOK(AcIdle) /\ AcIdle.op = "none" /\ AcIdle.answer = "none"
                /\ ~AcIdle.keepsOut /\ ~AcIdle.keepsPass
  BY DEF AcIdle, JobOK, JobFields

\* A request that is over, and changed nothing.
LEMMA GoesIdle ==
  ASSUME AccountInv, NEW c \in Requests, AcJob(c, AcIdle), UNCHANGED <<user, out, pass, acOps>>
  PROVE  UserQuiet
<1>1. acOps' \in {acOps, acOps + 1} /\ UNCHANGED <<user, out, pass>>
  OBVIOUS
<1>2. QED
  BY <1>1, IdleOK, OneQuiet DEF Checks

\* A request that has no token to give.
LEMMA OneGivesNothing ==
  ASSUME AccountInv, NEW c \in Requests, NEW j, JobOK(j), AcJob(c, j), UNCHANGED <<token, given>>,
         j.op # "token" \/ j.pc # "done"
  PROVE  TokenQuiet
<1>1. acJob'[c] = j /\ \A d \in Requests : d # c => acJob'[d] = acJob[d]
  BY OneJob DEF AccountInv
<1>2. QED
  BY <1>1 DEF TokenQuiet, Giving

\* What requests carry has its type after a step of one of them.
LEMMA OneTyped ==
  ASSUME AcTyped, NEW c \in Requests, NEW j, JobOK(j), AcJob(c, j),
         user' \in UserRecords \cup {Absent}, acOps' \in {acOps, acOps + 1},
         token' \in [Tokens -> TokenRecords \cup {Absent}],
         given' \in [Tokens -> Nat \cup {Absent}]
  PROVE  AcTyped'
<1>1. DOMAIN acJob' = Requests /\ \A d \in Requests : JobOK(acJob'[d])
  BY OneJob
<1>2. \A d \in Requests : JobOK(acJob[d])'
  BY <1>1 DEF JobOK
<1>3. QED
  BY <1>1, <1>2 DEF AcTyped

\* A step of one request that changes nothing but that request.
LEMMA QuietStep ==
  ASSUME AccountInv, NEW c \in Requests, NEW j, JobOK(j), AcJob(c, j),
         UNCHANGED <<user, token, out, pass, given>>, acOps' \in {acOps, acOps + 1},
         j.op # "user", ~j.keepsOut, ~j.keepsPass, j.op # "token" \/ j.pc # "done",
         j.op \in Checks /\ j.out => KnownOut,
         j.answer = "active" => j.op \in Checks /\ ~j.out
  PROVE  AccountInv'
<1>1. UserQuiet
  BY OneQuiet
<1>2. TokenQuiet
  BY OneGivesNothing
<1>3. AcTyped'
  BY OneTyped DEF AccountInv, AcTyped
<1>4. QED
  BY <1>1, <1>2, <1>3, QuietKeepsUser, QuietKeepsTokens DEF AccountInv

\* A request that is over and leaves no trace.
LEMMA IdleStep ==
  ASSUME AccountInv, NEW c \in Requests, AcJob(c, AcIdle),
         UNCHANGED <<user, token, out, pass, given, acOps>>
  PROVE  AccountInv'
<1>1. acOps' \in {acOps, acOps + 1} /\ UNCHANGED <<user, token, out, pass, given>>
  OBVIOUS
<1>2. QED
  BY <1>1, IdleOK, QuietStep DEF Checks

-----------------------------------------------------------------------------
(* Requests that look at an account, and requests about tokens *)

\* Introspect finds the token, or not.
LEMMA IntrospectStep ==
  ASSUME AccountInv, NEW c \in Requests, NEW t \in Tokens, Introspect(c, t)
  PROVE  AccountInv'
<1> DEFINE j == [Began(c, "introspect", IF token[t] # Absent /\ token[t].hash = given[t]
                                        THEN "owner" ELSE "done") EXCEPT !.answer = "refused"]
<1>1. /\ JobOK(j) /\ j.op = "introspect" /\ ~j.keepsOut /\ ~j.keepsPass
      /\ j.answer = "refused" /\ j.out = out
  BY DEF Began, AcIdle, JobOK, JobFields
<1>2. /\ AcJob(c, j) /\ UNCHANGED <<user, token, out, pass, given>>
      /\ acOps' \in {acOps, acOps + 1}
  BY DEF Introspect, AcBegin
<1> HIDE DEF j
<1>3. j.out => KnownOut
  BY <1>1 DEF KnownOut
<1>4. QED
  BY <1>1, <1>2, <1>3, QuietStep

\* Introspect looks at the owner of the token.
LEMMA OwnerStep ==
  ASSUME AccountInv, NEW c \in Requests, Owner(c)
  PROVE  AccountInv'
<1> DEFINE j == [acJob[c] EXCEPT !.pc = "done",
                                 !.answer = IF Admitted(user) THEN "active" ELSE "refused"]
<1>1. /\ DOMAIN acJob[c] = JobFields /\ acJob[c].op = "introspect"
      /\ ~acJob[c].keepsOut /\ ~acJob[c].keepsPass
  BY DEF AccountInv, AcTyped, JobOK, Owner
<1>2. /\ DOMAIN j = JobFields /\ j.op = "introspect" /\ j.out = acJob[c].out
      /\ j.keepsOut = acJob[c].keepsOut /\ j.keepsPass = acJob[c].keepsPass
      /\ j.answer = "active" => Admitted(user)
  BY <1>1 DEF JobFields
<1>3. /\ AcJob(c, j) /\ UNCHANGED <<user, token, out, pass, given>>
      /\ acOps' \in {acOps, acOps + 1}
  BY DEF Owner
<1> HIDE DEF j
<1>4. JobOK(j) /\ ~j.keepsOut /\ ~j.keepsPass
  BY <1>1, <1>2 DEF JobOK
<1>5. j.out => KnownOut
  BY <1>1, <1>2 DEF KnownOut
<1>6. j.answer = "active" => ~j.out
  BY <1>2, <1>5 DEF AccountInv, OutInv
<1>7. QED
  BY <1>2, <1>3, <1>4, <1>5, <1>6, QuietStep DEF Checks

\* A login with the password.
LEMMA AuthenticateStep ==
  ASSUME AccountInv, NEW c \in Requests, Authenticate(c)
  PROVE  AccountInv'
<1> DEFINE j == [Began(c, "login", "done") EXCEPT
                   !.answer = IF Admitted(user) /\ user.hash = pass THEN "active" ELSE "refused"]
<1>1. /\ JobOK(j) /\ j.op = "login" /\ ~j.keepsOut /\ ~j.keepsPass /\ j.out = out
      /\ j.answer = "active" => Admitted(user)
  BY DEF Began, AcIdle, JobOK, JobFields
<1>2. /\ AcJob(c, j) /\ UNCHANGED <<user, token, out, pass, given>>
      /\ acOps' \in {acOps, acOps + 1}
  BY DEF Authenticate, AcBegin
<1> HIDE DEF j
<1>3. j.out => KnownOut
  BY <1>1 DEF KnownOut
<1>4. j.answer = "active" => ~j.out
  BY <1>1, <1>3 DEF AccountInv, OutInv
<1>5. QED
  BY <1>1, <1>2, <1>3, <1>4, QuietStep DEF Checks

\* accesstoken.Put reads the record, or fails to.
LEMMA PutTokenStep ==
  ASSUME AccountInv, NEW c \in Requests, NEW t \in Tokens, PutToken(c, t)
  PROVE  AccountInv'
<1>1. PICK fails \in BOOLEAN :
        AcJob(c, [Began(c, "token", "swap") EXCEPT !.arg = t,
                    !.read = IF fails THEN Absent ELSE token[t]])
  BY DEF PutToken
<1> DEFINE j == [Began(c, "token", "swap") EXCEPT !.arg = t,
                   !.read = IF fails THEN Absent ELSE token[t]]
<1>2. /\ JobOK(j) /\ j.op = "token" /\ j.pc = "swap" /\ ~j.keepsOut /\ ~j.keepsPass
      /\ j.answer = "none"
  BY DEF AccountInv, AcTyped, Began, AcIdle, JobOK, JobFields
<1>3. /\ AcJob(c, j) /\ UNCHANGED <<user, token, out, pass, given>>
      /\ acOps' \in {acOps, acOps + 1}
  BY <1>1 DEF PutToken, AcBegin
<1> HIDE DEF j
<1>4. QED
  BY <1>2, <1>3, QuietStep DEF Checks

\* accesstoken.Put writes: a new record and an answer with the token, an update
\* that keeps the token, or nothing.
LEMMA SwapTokenStep ==
  ASSUME AccountInv, NEW c \in Requests, SwapToken(c)
  PROVE  AccountInv'
<1> DEFINE j == acJob[c]
           t == j.arg
<1>1. /\ JobOK(j) /\ j.op = "token" /\ j.pc = "swap" /\ t \in Tokens /\ j.id \in Nat
      /\ j.read \in TokenRecords \cup {Absent} /\ ~j.keepsOut /\ ~j.keepsPass
      /\ DOMAIN j = JobFields
  BY DEF AccountInv, AcTyped, JobOK, SwapToken
<1>2. UNCHANGED <<user, out, pass, given>> /\ acOps' \in {acOps, acOps + 1}
  BY DEF SwapToken
<1>3. j.answer # "active"
  BY <1>1 DEF AccountInv, OutInv
<1>4. CASE ~TokenSwaps(token[t], j.read)
  <2>1. AcJob(c, AcIdle) /\ UNCHANGED <<user, token, out, pass, given, acOps>>
    BY <1>4 DEF SwapToken
  <2>2. QED
    BY <2>1, IdleStep
<1>5. CASE TokenSwaps(token[t], j.read) /\ j.read = Absent
  <2> DEFINE k == [j EXCEPT !.pc = "done"]
             r == [hash |-> j.id, gen |-> 1]
  <2>1. AcJob(c, k) /\ token' = [token EXCEPT ![t] = r]
    BY <1>5 DEF SwapToken
  <2>2. /\ JobOK(k) /\ k.op = "token" /\ ~k.keepsOut /\ ~k.keepsPass /\ k.answer # "active"
        /\ k.arg = t /\ k.id = j.id
    BY <1>1, <1>3 DEF JobOK, JobFields
  <2>3. r \in TokenRecords /\ r.hash = j.id
    BY <1>1 DEF TokenRecords
  <2> HIDE DEF k, r
  <2>4. token[t] = Absent
    BY <1>5 DEF TokenSwaps
  <2>5. UserQuiet
    BY <1>2, <2>1, <2>2, OneQuiet DEF Checks
  <2>6. AcTyped'
    <3>1. token' \in [Tokens -> TokenRecords \cup {Absent}]
      BY <2>1, <2>3 DEF AccountInv, AcTyped
    <3>2. QED
      BY <1>2, <2>1, <2>2, <3>1, OneTyped DEF AccountInv, AcTyped
  <2>7. TokenInv'
    <3>1. acJob'[c] = k /\ \A d \in Requests : d # c => acJob'[d] = acJob[d]
      BY <2>1, <2>2, OneJob DEF AccountInv
    <3>2. token'[t] = r /\ \A s \in Tokens : s # t => token'[s] = token[s]
      BY <1>1, <2>1 DEF AccountInv, AcTyped
    <3>3. r # Absent
      BY <2>3
    <3>4. given[t] = Absent /\ \A d \in Requests : Giving(d) => acJob[d].arg # t
      BY <1>1, <2>4 DEF AccountInv, TokenInv, TokenKept, Giving
    <3>5. TokenKept'
      BY <1>2, <3>2, <3>4 DEF AccountInv, TokenInv, TokenKept
    <3>6. ASSUME NEW d \in Requests, Giving(d)'
          PROVE  token'[acJob'[d].arg] # Absent /\ token'[acJob'[d].arg].hash = acJob'[d].id
      <4>1. CASE d = c
        BY <2>2, <2>3, <3>1, <3>2, <3>3, <4>1
      <4>2. CASE d # c
        <5>1. Giving(d) /\ acJob'[d] = acJob[d]
          BY <3>1, <3>6, <4>2 DEF Giving
        <5>2. acJob[d].arg \in Tokens /\ acJob[d].arg # t
          BY <3>4, <5>1 DEF AccountInv, AcTyped, JobOK, Giving
        <5>3. QED
          BY <3>2, <5>1, <5>2 DEF AccountInv, TokenInv, Giving
      <4>3. QED
        BY <4>1, <4>2
    <3>7. QED
      BY <3>5, <3>6 DEF TokenInv, Giving
  <2>8. QED
    BY <2>5, <2>6, <2>7, QuietKeepsUser DEF AccountInv
<1>6. CASE TokenSwaps(token[t], j.read) /\ j.read # Absent
  <2> DEFINE r == [j.read EXCEPT !.gen = @ + 1]
  <2>1. AcJob(c, AcIdle) /\ token' = [token EXCEPT ![t] = r]
    BY <1>6 DEF SwapToken
  <2>2. token[t] = j.read
    BY <1>6 DEF TokenSwaps
  <2>3. r \in TokenRecords /\ r.hash = token[t].hash
    BY <1>1, <1>6, <2>2 DEF TokenRecords
  <2> HIDE DEF r
  <2>4. r # Absent
    BY <2>3
  <2>5. UserQuiet
    BY <1>2, <2>1, IdleOK, OneQuiet DEF Checks
  <2>6. AcTyped'
    <3>1. token' \in [Tokens -> TokenRecords \cup {Absent}]
      BY <2>1, <2>3 DEF AccountInv, AcTyped
    <3>2. QED
      BY <1>2, <2>1, IdleOK, <3>1, OneTyped DEF AccountInv, AcTyped
  <2>7. TokenInv'
    <3>1. acJob'[c] = AcIdle /\ \A d \in Requests : d # c => acJob'[d] = acJob[d]
      BY <2>1, IdleOK, OneJob DEF AccountInv
    <3>2. token'[t] = r /\ \A s \in Tokens : s # t => token'[s] = token[s]
      BY <1>1, <2>1 DEF AccountInv, AcTyped
    <3>3. \A s \in Tokens : token[s] # Absent => token'[s] # Absent /\ token'[s].hash = token[s].hash
      BY <2>3, <2>4, <3>2
    <3>4. \A d \in Requests : Giving(d)' => Giving(d) /\ acJob'[d] = acJob[d] /\ acJob[d].arg \in Tokens
      BY <3>1, IdleOK DEF Giving, AccountInv, AcTyped, JobOK
    <3>5. TokenKept'
      BY <1>2, <3>3 DEF AccountInv, TokenInv, TokenKept
    <3>6. QED
      BY <3>3, <3>4, <3>5 DEF AccountInv, TokenInv, Giving
  <2>8. QED
    BY <2>5, <2>6, <2>7, QuietKeepsUser DEF AccountInv
<1>7. QED
  BY <1>4, <1>5, <1>6

\* The answer with the token.
LEMMA AnswerTokenStep ==
  ASSUME AccountInv, NEW c \in Requests, AnswerToken(c)
  PROVE  AccountInv'
<1> DEFINE j == acJob[c]
           t == j.arg
<1>1. j.op = "token" /\ j.pc = "done" /\ t \in Tokens /\ j.id \in Nat
  BY DEF AccountInv, AcTyped, JobOK, AnswerToken
<1>2. /\ AcJob(c, AcIdle) /\ UNCHANGED <<user, token, out, pass, acOps>>
      /\ given' = [given EXCEPT ![t] = IF j.off THEN given[t] ELSE j.id]
  BY <1>1 DEF AnswerToken
<1>3. UserQuiet
  BY <1>2, IdleOK, OneQuiet DEF Checks
<1>4. given' \in [Tokens -> Nat \cup {Absent}]
  BY <1>1, <1>2 DEF AccountInv, AcTyped
<1>5. AcTyped'
  BY <1>2, <1>4, IdleOK, OneTyped DEF AccountInv, AcTyped
<1>6. TokenInv'
  <2>1. acJob'[c] = AcIdle /\ \A d \in Requests : d # c => acJob'[d] = acJob[d]
    BY <1>2, IdleOK, OneJob DEF AccountInv
  <2>2. \A d \in Requests : Giving(d)' => Giving(d) /\ acJob'[d] = acJob[d]
    BY <2>1, IdleOK DEF Giving
  <2>3. given'[t] = (IF j.off THEN given[t] ELSE j.id) /\ \A s \in Tokens : s # t => given'[s] = given[s]
    BY <1>1, <1>2 DEF AccountInv, AcTyped
  <2>4. ~j.off => token[t] # Absent /\ token[t].hash = j.id
    BY <1>1 DEF AccountInv, TokenInv
  <2>5. TokenKept'
    BY <1>2, <2>3, <2>4 DEF AccountInv, TokenInv, TokenKept
  <2>6. QED
    BY <1>2, <2>2, <2>5 DEF AccountInv, TokenInv, Giving
<1>7. QED
  BY <1>3, <1>5, <1>6, QuietKeepsUser DEF AccountInv

\* A token goes, and with it what was given out of it.
LEMMA DeleteTokenStep ==
  ASSUME AccountInv, NEW c \in Requests, NEW t \in Tokens, DeleteToken(c, t)
  PROVE  AccountInv'
<1> DEFINE Told(d) == acJob[d].op = "token" /\ acJob[d].arg = t /\ acJob[d].pc = "done"
<1>1. /\ DOMAIN acJob' = Requests
      /\ \A d \in Requests : acJob'[d] = IF Told(d) THEN [acJob[d] EXCEPT !.off = TRUE] ELSE acJob[d]
  BY DEF DeleteToken
<1>2. /\ UNCHANGED <<user, out, pass>> /\ acOps' = acOps + 1
      /\ token' = [token EXCEPT ![t] = Absent] /\ given' = [given EXCEPT ![t] = Absent]
  BY DEF DeleteToken, AcBegin
<1>3. ASSUME NEW d \in Requests
      PROVE  /\ JobOK(acJob'[d]) /\ Quiet(d)
             /\ Giving(d)' => Giving(d) /\ acJob'[d] = acJob[d] /\ acJob[d].arg \in Tokens \ {t}
  <2>1. JobOK(acJob[d])
    BY DEF AccountInv, AcTyped
  <2>2. acJob[d].op \in Checks /\ acJob[d].out => KnownOut
    BY DEF KnownOut, Checks
  <2>3. acJob[d].answer = "active" => acJob[d].op \in Checks /\ ~acJob[d].out
    BY DEF AccountInv, OutInv, Checks
  <2>4. CASE ~Told(d)
    <3>1. acJob'[d] = acJob[d]
      BY <1>1, <2>4
    <3>2. QED
      BY <2>1, <2>2, <2>3, <2>4, <3>1 DEF Quiet, Swapping, Giving, JobOK
  <2>5. CASE Told(d)
    <3> DEFINE k == [acJob[d] EXCEPT !.off = TRUE]
    <3>1. /\ DOMAIN k = JobFields /\ k.off /\ k.op = "token" /\ k.arg = acJob[d].arg
          /\ k.id = acJob[d].id /\ k.read = acJob[d].read /\ k.keepsOut = acJob[d].keepsOut
          /\ k.keepsPass = acJob[d].keepsPass /\ k.answer = acJob[d].answer
      BY <2>1, <2>5 DEF JobOK, JobFields
    <3>2. acJob'[d] = k
      BY <1>1, <2>5
    <3> HIDE DEF k
    <3>3. QED
      BY <2>1, <2>3, <2>5, <3>1, <3>2 DEF Quiet, Swapping, Giving, JobOK, Checks
  <2>6. QED
    BY <2>4, <2>5
<1>4. UserQuiet
  BY <1>2, <1>3 DEF UserQuiet
<1>5. AcTyped'
  <2>1. \A d \in Requests : JobOK(acJob[d])'
    BY <1>3 DEF JobOK
  <2>2. QED
    BY <1>1, <1>2, <2>1 DEF AccountInv, AcTyped
<1>6. TokenInv'
  <2>1. \A s \in Tokens : s # t => token'[s] = token[s] /\ given'[s] = given[s]
    BY <1>2 DEF AccountInv, AcTyped
  <2>2. given'[t] = Absent
    BY <1>2 DEF AccountInv, AcTyped
  <2>3. TokenKept'
    BY <2>1, <2>2 DEF AccountInv, TokenInv, TokenKept
  <2>4. QED
    BY <1>3, <2>1, <2>3 DEF AccountInv, TokenInv, Giving
<1>7. QED
  BY <1>4, <1>5, <1>6, QuietKeepsUser DEF AccountInv

-----------------------------------------------------------------------------
(* Requests about the account *)

\* The answer to a Put.
LEMMA AnswerUserStep ==
  ASSUME AccountInv, NEW c \in Requests, AnswerUser(c)
  PROVE  AccountInv'
<1>1. AcJob(c, AcIdle) /\ UNCHANGED <<user, token, given, acOps>>
  BY DEF AnswerUser
<1>2. acJob'[c] = AcIdle /\ \A d \in Requests : d # c => acJob'[d] = acJob[d]
  BY <1>1, IdleOK, OneJob DEF AccountInv
<1>3. AcTyped'
  BY <1>1, IdleOK, OneTyped DEF AccountInv, AcTyped
<1>4. TokenQuiet
  BY <1>1, IdleOK, OneGivesNothing
<1>5. \A d \in Requests : Swapping(d)' => Swapping(d) /\ acJob'[d] = acJob[d]
  BY <1>2, IdleOK DEF Swapping
<1>6. HashInv' /\ ReadInv'
  BY <1>1, <1>5 DEF AccountInv, HashInv, ReadInv
<1>7. OutInv'
  <2>1. KnownOut' => KnownOut
    BY <1>2, IdleOK DEF KnownOut, AnswerUser
  <2>2. Admitted(user)' = Admitted(user)
    BY <1>1 DEF Admitted
  <2>3. QED
    BY <1>1, <1>2, <1>5, <2>1, <2>2, IdleOK DEF AccountInv, OutInv
<1>8. PassInv'
  <2>1. \A p : SetTo(p) => SetTo(p)'
    BY <1>1, <1>5 DEF SetTo
  <2>2. pass' # Absent => SetTo(pass')
    BY DEF AnswerUser, AccountInv, PassInv
  <2>3. \A d \in Requests : acJob'[d].keepsPass => SetTo(acJob'[d].arg)
    BY <1>2, IdleOK DEF AccountInv, PassInv
  <2>4. QED
    BY <2>1, <2>2, <2>3 DEF PassInv
<1>9. QED
  BY <1>3, <1>4, <1>6, <1>7, <1>8, QuietKeepsTokens DEF AccountInv

\* What a Put that finds what it read writes: a record with its own password, or
\* with the one there was and the next generation.
LEMMA UserWritten ==
  ASSUME AccountInv, NEW c \in Requests, Swapping(c), user = acJob[c].read,
         user' = UserRecord(acJob[c])
  PROVE  /\ user' \in UserRecords /\ user'.off = acJob[c].off
         /\ acJob[c].arg # Absent => user'.hash = acJob[c].arg
         /\ acJob[c].arg = Absent =>
              user # Absent /\ user'.hash = user.hash /\ user'.gen = user.gen + 1
<1>1. /\ acJob[c].arg \in Nat \cup {Absent} /\ acJob[c].read \in UserRecords \cup {Absent}
      /\ acJob[c].read = Absent => acJob[c].arg # Absent
      /\ acJob[c].off \in BOOLEAN
  BY DEF AccountInv, AcTyped, JobOK, Swapping
<1>2. CASE acJob[c].read = Absent
  BY <1>1, <1>2 DEF UserRecord, UserRecords
<1>3. CASE acJob[c].read # Absent
  <2>1. user \in UserRecords /\ user.hash \in Nat /\ user.gen \in Nat
    BY <1>1, <1>3 DEF UserRecords
  <2>2. user' = [off |-> acJob[c].off, hash |-> IF acJob[c].arg # Absent THEN acJob[c].arg ELSE user.hash,
                 gen |-> user.gen + 1]
    BY <1>3 DEF UserRecord
  <2>3. QED
    BY <1>1, <1>3, <2>1, <2>2 DEF UserRecords
<1>4. QED
  BY <1>2, <1>3

\* It is nothing that another Put has read: these do not write any more.
LEMMA OthersOutdated ==
  ASSUME AccountInv, NEW c \in Requests, Swapping(c), user = acJob[c].read,
         user' = UserRecord(acJob[c])
  PROVE  \A d \in Requests \ {c} : Swapping(d) =>
           /\ acJob[d].read # user'
           /\ acJob[d].arg # Absent => acJob[d].arg # user'.hash
           /\ acJob[d].read # Absent /\ acJob[d].read.hash = user'.hash =>
                acJob[d].read.gen <= user'.gen
<1> SUFFICES ASSUME NEW d \in Requests \ {c}, Swapping(d)
             PROVE  /\ acJob[d].read # user'
                    /\ acJob[d].arg # Absent => acJob[d].arg # user'.hash
                    /\ acJob[d].read # Absent /\ acJob[d].read.hash = user'.hash =>
                         acJob[d].read.gen <= user'.gen
  OBVIOUS
<1>1. /\ user' \in UserRecords
      /\ acJob[c].arg # Absent => user'.hash = acJob[c].arg
      /\ acJob[c].arg = Absent =>
           user # Absent /\ user'.hash = user.hash /\ user'.gen = user.gen + 1
  BY UserWritten
<1>2. acJob[d].read \in UserRecords \cup {Absent} /\ user \in UserRecords \cup {Absent}
  BY DEF AccountInv, AcTyped, JobOK, Swapping
<1>3. CASE acJob[c].arg # Absent
  <2>1. acJob[d].read # Absent => acJob[d].read.hash # user'.hash
    BY <1>1, <1>3 DEF AccountInv, HashInv
  <2>2. acJob[d].arg # Absent => acJob[d].arg # user'.hash
    BY <1>1, <1>3 DEF AccountInv, HashInv
  <2>3. QED
    BY <1>1, <2>1, <2>2
<1>4. CASE acJob[c].arg = Absent
  <2>1. acJob[d].read # Absent /\ acJob[d].read.hash = user'.hash => acJob[d].read.gen <= user.gen
    BY <1>1, <1>4 DEF AccountInv, ReadInv
  <2>2. acJob[d].arg # Absent => acJob[d].arg # user'.hash
    BY <1>1, <1>4 DEF AccountInv, HashInv
  <2>3. user.gen \in Nat /\ user'.gen = user.gen + 1
    BY <1>1, <1>2, <1>4 DEF UserRecords
  <2>4. acJob[d].read # Absent => acJob[d].read.gen \in Nat
    BY <1>2 DEF UserRecords
  <2>5. QED
    BY <1>1, <2>1, <2>2, <2>3, <2>4
<1>5. QED
  BY <1>3, <1>4

\* identity.Put writes, or finds that somebody else did.
LEMMA SwapUserStep ==
  ASSUME AccountInv, NEW c \in Requests, SwapUser(c)
  PROVE  AccountInv'
<1> DEFINE j == acJob[c]
<1>1. Swapping(c) /\ UNCHANGED <<token, out, pass, given, acOps>>
  BY DEF SwapUser, Swapping
<1>2. CASE ~UserSwaps(user, j.read)
  <2>1. AcJob(c, AcIdle) /\ UNCHANGED <<user, token, out, pass, given, acOps>>
    BY <1>2 DEF SwapUser
  <2>2. QED
    BY <2>1, IdleStep
<1>3. CASE UserSwaps(user, j.read)
  <2> DEFINE k == [j EXCEPT !.pc = "done", !.keepsOut = j.off, !.keepsPass = j.arg # Absent]
  <2>1. user = j.read /\ user' = UserRecord(j) /\ AcJob(c, k)
    BY <1>3 DEF SwapUser, UserSwaps
  <2>2. JobOK(j) /\ j.op = "user" /\ j.off \in BOOLEAN /\ j.answer # "active" /\ j.arg \in Nat \cup {Absent}
    BY <1>1 DEF AccountInv, AcTyped, OutInv, JobOK, Swapping
  <2>3. /\ JobOK(k) /\ k.op = "user" /\ k.pc = "done" /\ k.keepsOut = j.off /\ k.arg = j.arg
        /\ k.keepsPass = (j.arg # Absent) /\ k.answer # "active"
    BY <2>2 DEF JobOK, JobFields
  <2> HIDE DEF k
  <2>4. acJob'[c] = k /\ \A d \in Requests : d # c => acJob'[d] = acJob[d]
    BY <2>1, <2>3, OneJob DEF AccountInv
  <2>5. /\ user' \in UserRecords /\ user' # Absent /\ user'.off = j.off
        /\ j.arg # Absent => user'.hash = j.arg
        /\ j.arg = Absent => user # Absent /\ user'.hash = user.hash
    BY <1>1, <2>1, UserWritten
  <2>6. \A d \in Requests : Swapping(d)' => d # c /\ Swapping(d) /\ acJob'[d] = acJob[d]
    BY <2>3, <2>4 DEF Swapping
  <2>7. \A d \in Requests : Swapping(d)' =>
          /\ acJob[d].read # user'
          /\ acJob[d].arg # Absent => acJob[d].arg # user'.hash
          /\ acJob[d].read # Absent /\ acJob[d].read.hash = user'.hash =>
               acJob[d].read.gen <= user'.gen
    BY <1>1, <2>1, <2>6, OthersOutdated
  <2>8. AcTyped'
    BY <1>1, <2>1, <2>3, <2>5, OneTyped DEF AccountInv, AcTyped
  <2>9. TokenQuiet
    BY <1>1, <2>1, <2>3, OneGivesNothing
  <2>10. HashInv'
    <3>1. user'.hash <= acOps
      BY <1>1, <2>5 DEF AccountInv, HashInv
    <3>2. QED
      BY <1>1, <2>6, <2>7, <3>1 DEF AccountInv, HashInv
  <2>11. ReadInv'
    BY <2>6, <2>7 DEF ReadInv
  <2>12. OutInv'
    <3>1. \A d \in Requests : Swapping(d)' => acJob'[d].read # user'
      BY <2>6, <2>7
    <3>2. KnownOut' => j.off
      <4>1. KnownOut' => j.off \/ KnownOut
        BY <1>1, <2>3, <2>4 DEF KnownOut
      <4>2. KnownOut => j.off
        BY <1>1, <2>1 DEF AccountInv, OutInv
      <4>3. QED
        BY <4>1, <4>2
    <3>3. j.off => ~Admitted(user')
      BY <2>5 DEF Admitted
    <3>4. Admitted(user)' = Admitted(user')
      BY DEF Admitted
    <3>5. \A d \in Requests : acJob'[d].answer = "active" =>
            acJob'[d].op \in {"introspect", "login"} /\ ~acJob'[d].out
      BY <2>3, <2>4 DEF AccountInv, OutInv
    <3>6. QED
      BY <3>1, <3>2, <3>3, <3>4, <3>5 DEF OutInv
  <2>13. PassInv'
    <3>1. \A d \in Requests : Swapping(d)' => acJob'[d].read # user'
      BY <2>6, <2>7
    <3>2. \A p : user'.hash = p => SetTo(p)'
      BY <2>5, <3>1 DEF SetTo
    <3>3. j.arg # Absent => \A p : ~SetTo(p)
      BY <1>1, <2>1 DEF SetTo
    <3>4. \A p : SetTo(p) => user'.hash = p
      BY <2>5, <3>3 DEF SetTo
    <3>5. pass' # Absent => user'.hash = pass'
      BY <1>1, <3>4 DEF AccountInv, PassInv
    <3>6. \A d \in Requests : acJob'[d].keepsPass => user'.hash = acJob'[d].arg
      BY <2>3, <2>4, <2>5, <3>4 DEF AccountInv, PassInv
    <3>7. QED
      BY <3>2, <3>5, <3>6 DEF PassInv
  <2>14. QED
    BY <2>8, <2>9, <2>10, <2>11, <2>12, <2>13, QuietKeepsTokens DEF AccountInv
<1>4. QED
  BY <1>2, <1>3

\* Request d is, after the step, as it was but for what it knows of the account,
\* which is no more than before; and, if so, more is true.
Less(d, known, set) ==
  LET j == acJob[d]
      k == acJob'[d]
  IN  /\ DOMAIN k = JobFields
      /\ k.pc = j.pc /\ k.op = j.op /\ k.id = j.id /\ k.arg = j.arg /\ k.off = j.off
      /\ k.read = j.read /\ k.answer = j.answer
      /\ (k.out => j.out /\ known) /\ (k.keepsOut => j.keepsOut /\ known)
      /\ (k.keepsPass => j.keepsPass /\ set)

\* identity.Put reads.
LEMMA PutUserStep ==
  ASSUME AccountInv, NEW c \in Requests, NEW off \in BOOLEAN, NEW withPass \in BOOLEAN,
         PutUser(c, off, withPass)
  PROVE  AccountInv'
<1> DEFINE n == [Began(c, "user", "swap") EXCEPT
                   !.arg = IF withPass THEN acOps + 1 ELSE Absent, !.off = off, !.read = user]
<1>1. /\ UNCHANGED <<user, token, given>> /\ acOps' = acOps + 1 /\ acOps \in Nat
      /\ user = Absent => withPass
      /\ out' = (out /\ off) /\ (pass' # Absent => pass' = pass /\ ~withPass)
      /\ user \in UserRecords \cup {Absent}
  BY DEF PutUser, AcBegin, AccountInv, AcTyped
<1>2. DOMAIN acJob' = Requests /\ acJob'[c] = n
  BY DEF PutUser
<1>3. /\ DOMAIN n = JobFields /\ n.op = "user" /\ n.pc = "swap" /\ n.off = off /\ n.read = user
      /\ n.arg = (IF withPass THEN acOps + 1 ELSE Absent) /\ n.answer = "none"
      /\ ~n.keepsOut /\ ~n.keepsPass
  BY DEF Began, AcIdle, JobFields
<1> HIDE DEF n
<1>4. ASSUME NEW d \in Requests, d # c
      PROVE  Less(d, off, ~withPass)
  <2>1. DOMAIN acJob[d] = JobFields
    BY DEF AccountInv, AcTyped, JobOK
  <2>2. acJob'[d] = [acJob[d] EXCEPT !.out = acJob[d].out /\ off,
                                     !.keepsOut = acJob[d].keepsOut /\ off,
                                     !.keepsPass = acJob[d].keepsPass /\ ~withPass]
    BY <1>4 DEF PutUser
  <2>3. QED
    BY <2>1, <2>2 DEF Less, JobFields
<1>5. AcTyped'
  <2>1. JobOK(n)
    BY <1>1, <1>3 DEF JobOK
  <2>2. \A d \in Requests : d # c => JobOK(acJob'[d])
    BY <1>4 DEF Less, JobOK, AccountInv, AcTyped
  <2>3. \A d \in Requests : JobOK(acJob[d])'
    BY <1>2, <2>1, <2>2 DEF JobOK
  <2>4. QED
    BY <1>1, <1>2, <2>3 DEF AccountInv, AcTyped
<1>6. TokenInv'
  <2>1. TokenQuiet
    BY <1>1, <1>2, <1>3, <1>4 DEF TokenQuiet, Giving, Less
  <2>2. QED
    BY <2>1, QuietKeepsTokens
<1>7. \A d \in Requests : d # c =>
        (Swapping(d)' => Swapping(d)) /\ acJob'[d].read = acJob[d].read
        /\ acJob'[d].arg = acJob[d].arg /\ acJob'[d].off = acJob[d].off
  BY <1>4 DEF Less, Swapping
<1>8. HashInv'
  <2> DEFINE Old(h) == h # acOps + 1 /\ h <= acOps'
  <2>1. user # Absent => Old(user.hash)
    BY <1>1 DEF AccountInv, HashInv, UserRecords
  <2>2. \A d \in Requests : Swapping(d) =>
          /\ acJob[d].read # Absent => Old(acJob[d].read.hash)
          /\ acJob[d].arg # Absent => Old(acJob[d].arg)
    <3> TAKE d \in Requests
    <3> HAVE Swapping(d)
    <3>1. acJob[d].read \in UserRecords \cup {Absent} /\ acJob[d].arg \in Nat \cup {Absent}
      BY DEF AccountInv, AcTyped, JobOK, Swapping
    <3>2. /\ acJob[d].read # Absent => acJob[d].read.hash \in Nat /\ acJob[d].read.hash <= acOps
          /\ acJob[d].arg # Absent => acJob[d].arg \in Nat /\ acJob[d].arg <= acOps
      BY <3>1 DEF AccountInv, HashInv, UserRecords
    <3>3. QED
      BY <1>1, <3>2
  <2>3. acOps + 1 <= acOps'
    BY <1>1
  <2> HIDE DEF Old
  <2>4. ASSUME NEW d \in Requests, Swapping(d)'
        PROVE  /\ acJob'[d].read # Absent => Old(acJob'[d].read.hash)
               /\ acJob'[d].arg # Absent => IF d = c THEN acJob'[d].arg = acOps + 1
                                                     ELSE Old(acJob'[d].arg)
    BY <1>2, <1>3, <1>7, <2>1, <2>2, <2>4
  <2>5. ASSUME NEW d \in Requests, Swapping(d)', acJob'[d].arg # Absent
        PROVE  /\ acJob'[d].arg <= acOps'
               /\ user' # Absent => user'.hash # acJob'[d].arg
               /\ \A e \in Requests : Swapping(e)' =>
                    /\ acJob'[e].read # Absent => acJob'[e].read.hash # acJob'[d].arg
                    /\ e # d => acJob'[e].arg # acJob'[d].arg
    <3>1. CASE d = c
      <4>1. acJob'[d].arg = acOps + 1
        BY <2>4, <2>5, <3>1
      <4>2. acOps + 1 # Absent
        BY <1>1
      <4>3. QED
        BY <1>1, <2>1, <2>3, <2>4, <3>1, <4>1, <4>2 DEF Old
    <3>2. CASE d # c
      <4>1. Swapping(d) /\ acJob[d].arg # Absent /\ acJob'[d].arg = acJob[d].arg
        BY <1>7, <2>5, <3>2
      <4>2. acJob[d].arg # acOps + 1 /\ acJob[d].arg <= acOps'
        BY <2>2, <4>1 DEF Old
      <4>3. user # Absent => user.hash # acJob[d].arg
        BY <4>1 DEF AccountInv, HashInv
      <4>4. ASSUME NEW e \in Requests, Swapping(e)'
            PROVE  /\ acJob'[e].read # Absent => acJob'[e].read.hash # acJob[d].arg
                   /\ e # d => acJob'[e].arg # acJob[d].arg
        <5>1. CASE e = c
          BY <1>2, <1>3, <4>1, <4>2, <4>3, <5>1
        <5>2. CASE e # c
          <6>1. Swapping(e) /\ acJob'[e].read = acJob[e].read /\ acJob'[e].arg = acJob[e].arg
            BY <1>7, <4>4, <5>2
          <6>2. QED
            BY <4>1, <6>1 DEF AccountInv, HashInv
        <5>3. QED
          BY <5>1, <5>2
      <4>5. QED
        BY <1>1, <4>1, <4>2, <4>3, <4>4
    <3>3. QED
      BY <3>1, <3>2
  <2>6. QED
    BY <1>1, <2>1, <2>4, <2>5 DEF HashInv, Old
<1>9. ReadInv'
  <2>1. user # Absent => user.gen \in Nat
    BY <1>1 DEF UserRecords
  <2>2. ASSUME NEW d \in Requests, Swapping(d)', acJob'[d].read # Absent, user' # Absent,
               acJob'[d].read.hash = user'.hash
        PROVE  acJob'[d].read.gen <= user'.gen
    <3>1. CASE d = c
      BY <1>1, <1>2, <1>3, <2>1, <2>2, <3>1
    <3>2. CASE d # c
      BY <1>1, <1>7, <2>2, <3>2 DEF AccountInv, ReadInv
    <3>3. QED
      BY <3>1, <3>2
  <2>3. QED
    BY <2>2 DEF ReadInv
<1>10. OutInv'
  <2>1. KnownOut' => KnownOut /\ off
    BY <1>1, <1>2, <1>3, <1>4 DEF KnownOut, Less
  <2>2. Admitted(user)' = Admitted(user)
    BY <1>1 DEF Admitted
  <2>3. \A d \in Requests : acJob'[d].answer = "active" =>
          acJob'[d].op \in {"introspect", "login"} /\ ~acJob'[d].out
    BY <1>2, <1>3, <1>4 DEF AccountInv, OutInv, Less
  <2>4. ASSUME KnownOut', NEW d \in Requests, Swapping(d)', acJob'[d].read = user'
        PROVE  acJob'[d].off
    <3>1. CASE d = c
      BY <1>2, <1>3, <2>1, <2>4, <3>1
    <3>2. CASE d # c
      BY <1>1, <1>7, <2>1, <2>4, <3>2 DEF AccountInv, OutInv
    <3>3. QED
      BY <3>1, <3>2
  <2>5. QED
    BY <2>1, <2>2, <2>3, <2>4 DEF AccountInv, OutInv
<1>11. PassInv'
  <2>1. ~withPass => \A p : SetTo(p) => SetTo(p)'
    BY <1>1, <1>2, <1>3, <1>7 DEF SetTo
  <2>2. pass' # Absent => SetTo(pass') /\ ~withPass
    BY <1>1 DEF AccountInv, PassInv
  <2>3. \A d \in Requests : acJob'[d].keepsPass => SetTo(acJob'[d].arg) /\ ~withPass
    BY <1>2, <1>3, <1>4 DEF AccountInv, PassInv, Less
  <2>4. QED
    BY <2>1, <2>2, <2>3 DEF PassInv
<1>12. QED
  BY <1>5, <1>6, <1>8, <1>9, <1>10, <1>11 DEF AccountInv

\* The account is deleted.
LEMMA DeleteUserStep ==
  ASSUME AccountInv, NEW c \in Requests, DeleteUser(c)
  PROVE  AccountInv'
<1>1. /\ UNCHANGED <<token, given>> /\ acOps' = acOps + 1 /\ acOps \in Nat
      /\ user' = Absent /\ out' = ~Recreating /\ pass' = Absent
  BY DEF DeleteUser, AcBegin, AccountInv, AcTyped
<1>2. DOMAIN acJob' = Requests
  BY DEF DeleteUser
<1>3. ASSUME NEW d \in Requests
      PROVE  Less(d, ~Recreating, FALSE)
  <2>1. DOMAIN acJob[d] = JobFields
    BY DEF AccountInv, AcTyped, JobOK
  <2>2. acJob'[d] = [acJob[d] EXCEPT !.keepsPass = FALSE,
                                     !.keepsOut = acJob[d].keepsOut /\ ~Recreating,
                                     !.out = acJob[d].out /\ ~Recreating]
    BY DEF DeleteUser
  <2>3. QED
    BY <2>1, <2>2 DEF Less, JobFields
<1>4. AcTyped'
  <2>1. \A d \in Requests : JobOK(acJob'[d])
    BY <1>3 DEF Less, JobOK, AccountInv, AcTyped
  <2>2. \A d \in Requests : JobOK(acJob[d])'
    BY <2>1 DEF JobOK
  <2>3. QED
    BY <1>1, <1>2, <2>2 DEF AccountInv, AcTyped
<1>5. TokenInv'
  <2>1. TokenQuiet
    BY <1>1, <1>3 DEF TokenQuiet, Giving, Less
  <2>2. QED
    BY <2>1, QuietKeepsTokens
<1>6. \A d \in Requests :
        (Swapping(d)' => Swapping(d)) /\ acJob'[d].read = acJob[d].read
        /\ acJob'[d].arg = acJob[d].arg /\ acJob'[d].off = acJob[d].off
  BY <1>3 DEF Less, Swapping
<1>7. HashInv'
  <2>1. ASSUME NEW d \in Requests, Swapping(d)
        PROVE  /\ acJob[d].read # Absent => acJob[d].read.hash <= acOps'
               /\ acJob[d].arg # Absent => acJob[d].arg <= acOps'
    <3>1. acJob[d].read \in UserRecords \cup {Absent} /\ acJob[d].arg \in Nat \cup {Absent}
      BY <2>1 DEF AccountInv, AcTyped, JobOK, Swapping
    <3>2. /\ acJob[d].read # Absent => acJob[d].read.hash \in Nat /\ acJob[d].read.hash <= acOps
          /\ acJob[d].arg # Absent => acJob[d].arg \in Nat /\ acJob[d].arg <= acOps
      BY <2>1, <3>1 DEF AccountInv, HashInv, UserRecords
    <3>3. QED
      BY <1>1, <3>2
  <2>2. QED
    BY <1>1, <1>6, <2>1 DEF AccountInv, HashInv
<1>8. ReadInv'
  BY <1>1 DEF ReadInv
<1>9. OutInv'
  <2>1. KnownOut' => ~Recreating
    BY <1>1, <1>3 DEF KnownOut, Less
  <2>2. ~Admitted(user)'
    BY <1>1 DEF Admitted
  <2>3. \A d \in Requests : Swapping(d)' /\ acJob'[d].read = user' => Recreating
    BY <1>1, <1>6 DEF Recreating, Swapping
  <2>4. \A d \in Requests : acJob'[d].answer = "active" =>
          acJob'[d].op \in {"introspect", "login"} /\ ~acJob'[d].out
    BY <1>3 DEF AccountInv, OutInv, Less
  <2>5. QED
    BY <2>1, <2>2, <2>3, <2>4 DEF OutInv
<1>10. PassInv'
  BY <1>1, <1>3 DEF PassInv, Less
<1>11. QED
  BY <1>4, <1>5, <1>7, <1>8, <1>9, <1>10 DEF AccountInv

-----------------------------------------------------------------------------

\* The invariant holds before the first request.
LEMMA AccountInit == AcInit => AccountInv
<1> SUFFICES ASSUME AcInit PROVE AccountInv
  OBVIOUS
<1>1. \A c \in Requests : acJob[c] = AcIdle
  BY DEF AcInit
<1>2. AcTyped
  BY <1>1, IdleOK DEF AcInit, AcTyped
<1>3. HashInv /\ ReadInv
  BY <1>1, IdleOK DEF AcInit, HashInv, ReadInv, Swapping
<1>4. OutInv /\ PassInv
  BY <1>1, IdleOK DEF AcInit, OutInv, PassInv, KnownOut
<1>5. TokenInv
  BY <1>1, IdleOK DEF AcInit, TokenInv, TokenKept
<1>6. QED
  BY <1>2, <1>3, <1>4, <1>5 DEF AccountInv

\* Every request keeps it.
LEMMA AccountStep == AccountInv /\ [AcNext]_acvars => AccountInv'
<1> SUFFICES ASSUME AccountInv, [AcNext]_acvars PROVE AccountInv'
  OBVIOUS
<1>1. CASE UNCHANGED acvars
  <2>1. UserQuiet
    BY <1>1 DEF acvars, UserQuiet, Quiet, Swapping, AccountInv, OutInv, KnownOut, Checks
  <2>2. TokenQuiet
    BY <1>1 DEF acvars, TokenQuiet, Giving
  <2>3. AcTyped'
    BY <1>1 DEF acvars, AccountInv, AcTyped, JobOK
  <2>4. QED
    BY <2>1, <2>2, <2>3, QuietKeepsUser, QuietKeepsTokens DEF AccountInv
<1>2. ASSUME NEW c \in Requests, NEW off \in BOOLEAN, NEW withPass \in BOOLEAN,
             PutUser(c, off, withPass)
      PROVE  AccountInv'
  BY <1>2, PutUserStep
<1>3. ASSUME NEW c \in Requests, SwapUser(c) \/ AnswerUser(c) \/ DeleteUser(c)
      PROVE  AccountInv'
  BY <1>3, SwapUserStep, AnswerUserStep, DeleteUserStep
<1>4. ASSUME NEW c \in Requests, NEW t \in Tokens,
             PutToken(c, t) \/ DeleteToken(c, t) \/ Introspect(c, t)
      PROVE  AccountInv'
  BY <1>4, PutTokenStep, DeleteTokenStep, IntrospectStep
<1>5. ASSUME NEW c \in Requests, SwapToken(c) \/ AnswerToken(c) \/ Owner(c) \/ Authenticate(c)
      PROVE  AccountInv'
  BY <1>5, SwapTokenStep, AnswerTokenStep, OwnerStep, AuthenticateStep
<1>6. ASSUME NEW c \in Requests, AnswerCheck(c)
      PROVE  AccountInv'
  BY <1>6, IdleStep DEF AnswerCheck
<1>7. QED
  BY <1>1, <1>2, <1>3, <1>4, <1>5, <1>6 DEF AcNext

\* What was accepted of an account holds, whatever requests run beside each other:
\* it is out as soon as it is disabled, its last password is in force, and its
\* token is the one that was given (identity.Put, accesstoken.Put, Introspect).
THEOREM AccountsHold == AcSpec => []AccountHolds
<1>1. AccountInv => AccountHolds
  BY DEF AccountInv, OutInv, PassInv, SetTo, TokenInv, AccountHolds, OutAtOnce, PasswordKept
<1>2. QED
  BY <1>1, AccountInit, AccountStep, PTL DEF AcSpec
==============================================================================
