------------------------------- MODULE Sessions -------------------------------
(***************************************************************************)
(* How an account logs in (app/services/application/auth.go and            *)
(* app/services/access/auth): the password, a second factor where one is   *)
(* enrolled, a new password where the old one has expired.  Each answer    *)
(* that asks for more is a challenge: a token in the cache that the next   *)
(* call brings back.                                                       *)
(*                                                                         *)
(* One account of one tenant, TOTP enabled and passwords of limited age.   *)
(* The platform's accounts go through the same steps on their own tables.  *)
(* Left out: the counter of an address, which only refuses logins, the     *)
(* login log, and the password that old sign-on accounts were made with.   *)
(*                                                                         *)
(* Any statement of the database may fail, and is answered as the code     *)
(* does: the request ends, or a failure is counted, or, where Enabled and  *)
(* CheckMaxAge cannot read, nothing is due.  The cache does as it is told. *)
(***************************************************************************)
EXTENDS Integers, Sequences, FiniteSets

CONSTANTS
  Workers,          \* each serves one request after another
  Passwords,
  InitialPassword,  \* what a reset sets
  HistoryLimit,     \* security.password.history_limit
  MaxFailures,      \* security.account_lockout.max_failures
  RecoveryCodes,    \* security.mfa.recovery_codes
  MaxRequests, MaxDrawn  \* bounds: requests served, secrets and sets of codes drawn

\* As the configuration is read: a limit may be 0.
SessionsAssumption ==
  /\ InitialPassword \in Passwords
  /\ HistoryLimit \in Nat /\ MaxFailures \in Nat /\ RecoveryCodes \in Nat
  /\ MaxRequests \in Nat /\ MaxDrawn \in Nat

VARIABLES
  password, status,        \* of the row of the account
  history, expired,        \* its password history, and whether the newest row is too old
  secret, codes,           \* of its row of user_mfa,
  enrolled,                \* and whether it is enabled: the draw its codes are from, or 0
  failures, perpetual,     \* the counter of failed logins, -1 if there is none, and
                           \* whether it has no expiry
  locked,                  \* the lock the counter leads to
  challenges,              \* in the cache: challenges by the request that was given them
  call,                    \* what the workers do
  requests, drawn,         \* how many requests there were, and draws
  spent, spentAgain,       \* recovery codes, and challenges, used up once and twice
  excused,                 \* those that two requests held at a time, or a late one put back
  confirmed,               \* secrets a code was given for
  crossed,                 \* rows of the history, and secrets, written by a request that
                           \* had read them before another wrote them; and the counter
  slips                    \* what was owed by those who were let in

Draws == 1..MaxDrawn
\* A code of the secret n is <<n, 0>>; <<n, i>> is a recovery code of the n-th draw.
NoCode == <<0, 0>>
AllCodes == {NoCode} \union (Draws \X (0..RecoveryCodes))
Numbers == 1..MaxRequests
\* The challenge given to the request t, among codes.
Challenge(t) == <<t, -1>>
Nothing == [step |-> "idle", flow |-> "none", by |-> 0, bring |-> 0, old |-> InitialPassword,
            new |-> InitialPassword, code |-> NoCode, keep |-> {}, read |-> 0,
            factor |-> 0, age |-> 0, settled |-> {}]

accountVars == <<password, status, history, expired>>
mfaVars == <<secret, codes, enrolled, drawn, confirmed>>
enabled == enrolled # 0
counterVars == <<failures, perpetual, locked>>
ghosts == <<spent, spentAgain, excused, slips>>
vars == <<accountVars, mfaVars, counterVars, challenges, call, requests, ghosts, crossed>>

Steps == {"idle", "compare", "seed", "factor", "age", "success", "unlock", "add", "count",
          "lock", "prepare", "consume", "forget", "commit", "disable", "reuse", "old",
          "write", "draw", "verify", "enable"}
Flows == {"none", "login", "mfa", "change", "profile", "reset", "setup", "confirm", "disable"}
Challenges == [kind : {"mfa", "change"}, factor : 0..MaxDrawn, age : Nat,
               settled : SUBSET {"factor", "age"}]

TypeOK ==
  /\ password \in Passwords /\ status \in {1, 2} /\ history \in Seq(Passwords)
  /\ expired \in BOOLEAN /\ enrolled \in 0..MaxDrawn /\ secret \in 0..MaxDrawn
  /\ codes \subseteq AllCodes /\ drawn \in 0..MaxDrawn /\ confirmed \subseteq Draws
  /\ failures \in -1..MaxFailures /\ perpetual \in BOOLEAN /\ locked \in BOOLEAN
  /\ DOMAIN challenges \subseteq Numbers /\ \A t \in DOMAIN challenges : challenges[t] \in Challenges
  /\ requests \in 0..MaxRequests
  /\ \A w \in Workers : call[w].step \in Steps /\ call[w].flow \in Flows

\* An account as it was made, with or without a row in the history (the accounts
\* that were seeded have none), its second factor off or enrolled.
Init ==
  /\ password \in Passwords /\ status = 1
  /\ history \in {<<>>, <<password>>} /\ expired \in {FALSE, history # <<>>}
  /\ enrolled \in {0, 1} /\ secret = enrolled
  /\ codes = IF enabled THEN {1} \X (1..RecoveryCodes) ELSE {}
  /\ drawn = secret /\ confirmed = IF enabled THEN {1} ELSE {}
  /\ failures = -1 /\ perpetual = FALSE /\ locked = FALSE
  /\ challenges = <<>> /\ requests = 0
  /\ call = [w \in Workers |-> Nothing]
  /\ spent = {} /\ spentAgain = {} /\ excused = {} /\ crossed = {} /\ slips = {}

-----------------------------------------------------------------------------

Begin(w, request) ==
  /\ call[w].step = "idle" /\ requests < MaxRequests
  /\ requests' = requests + 1
  /\ call' = [call EXCEPT ![w] = [request EXCEPT !.by = requests']]

GoTo(w, step) == call' = [call EXCEPT ![w].step = step]
End(w) == call' = [call EXCEPT ![w] = Nothing]

\* A step that reads and moves on.
Move(w, step) ==
  /\ GoTo(w, step)
  /\ UNCHANGED <<accountVars, mfaVars, counterVars, challenges, requests, ghosts, crossed>>
Refused(w) ==
  /\ End(w)
  /\ UNCHANGED <<accountVars, mfaVars, counterVars, challenges, requests, ghosts, crossed>>

\* The statement that comes next fails, and the request with it.
Fails(w) ==
  /\ call[w].step \in {"compare", "seed", "commit", "disable", "reuse", "old", "write", "draw",
                       "verify", "enable"}
  /\ Refused(w)
\* The read that would have asked for x fails, and the request goes on without it.
PassOver(w, x, step) ==
  /\ call' = [call EXCEPT ![w].step = step, ![w].settled = @ \union {x}]
  /\ UNCHANGED <<accountVars, mfaVars, counterVars, challenges, requests, ghosts, crossed>>

\* What is used up once more.
Spend(things) ==
  /\ spent' = spent \union things
  /\ spentAgain' = spentAgain \union (spent \intersect things)

\* IssueChallenge and IssuePasswordChangeChallenge.
IssueChallenge(w, kind) ==
  /\ challenges' = [t \in DOMAIN challenges \union {call[w].by} |->
       IF t = call[w].by
       THEN [kind |-> kind, factor |-> call[w].factor, age |-> call[w].age, settled |-> call[w].settled]
       ELSE challenges[t]]
  /\ End(w)
  /\ UNCHANGED <<accountVars, mfaVars, counterVars, requests, ghosts, crossed>>

\* issueLoginTokens.  Owed is what was due when the password was compared, has been
\* due ever since, and is not settled: given, or passed over where its read failed.
Owed(w) ==
  {x \in {"factor", "age"} \ call[w].settled :
     \/ x = "factor" /\ call[w].factor # 0 /\ enrolled = call[w].factor
     \/ x = "age" /\ call[w].age # 0 /\ Len(history) = call[w].age}
IssueLoginTokens(w, passed) ==
  /\ slips' = slips \union (Owed(w) \ passed)
  /\ End(w)
  /\ UNCHANGED <<accountVars, mfaVars, challenges, requests, spent, spentAgain, excused, crossed>>

-----------------------------------------------------------------------------
(* The counter of failures.  RecordLoginFailure adds the counter with an     *)
(* expiry if there is none, increments it and may lock the account.          *)

Add(w) ==
  /\ call[w].step = "add" /\ GoTo(w, "count")
  /\ failures' = IF failures = -1 THEN 0 ELSE failures
  /\ UNCHANGED <<accountVars, mfaVars, perpetual, locked, challenges, requests, ghosts, crossed>>

\* Increment makes a counter where there is none, and gives it no expiry.
Count(w) ==
  /\ call[w].step = "count"
  /\ LET n == IF failures = -1 THEN 1 ELSE failures + 1 IN
     /\ failures' = IF n > MaxFailures THEN MaxFailures ELSE n
     /\ IF n >= MaxFailures THEN GoTo(w, "lock") ELSE End(w)
  /\ perpetual' = (perpetual \/ failures = -1)
  /\ UNCHANGED <<accountVars, mfaVars, locked, challenges, requests, ghosts, crossed>>

Lock(w) ==
  /\ call[w].step = "lock" /\ locked' = TRUE /\ End(w)
  /\ UNCHANGED <<accountVars, mfaVars, failures, perpetual, challenges, requests, ghosts, crossed>>

\* The counter goes, by a success or in time; whoever has just added to it will
\* count on what is no longer there.
Uncounted ==
  /\ failures' = -1 /\ perpetual' = FALSE
  /\ crossed' = crossed \union (IF \E u \in Workers : call[u].step = "count"
                                THEN {<<"counter", 0>>} ELSE {})

\* RecordLoginSuccess.
Success(w) ==
  /\ call[w].step = "success" /\ GoTo(w, "unlock") /\ Uncounted
  /\ UNCHANGED <<accountVars, mfaVars, locked, challenges, requests, ghosts>>

\* After a second factor the age of the password is still to be looked at.
Unlock(w) ==
  /\ call[w].step = "unlock" /\ locked' = FALSE
  /\ UNCHANGED <<failures, perpetual>>
  /\ \/ call[w].flow = "mfa" /\ GoTo(w, "age")
        /\ UNCHANGED <<accountVars, mfaVars, challenges, requests, ghosts, crossed>>
     \/ call[w].flow # "mfa" /\ IssueLoginTokens(w, {})

Lapse ==
  \/ failures # -1 /\ ~perpetual /\ Uncounted
     /\ UNCHANGED <<accountVars, mfaVars, locked, challenges, call, requests, ghosts>>
  \/ locked /\ locked' = FALSE
     /\ UNCHANGED <<accountVars, mfaVars, failures, perpetual, challenges, call, requests, ghosts, crossed>>
  \/ \E t \in DOMAIN challenges :
       /\ challenges' = [u \in DOMAIN challenges \ {t} |-> challenges[u]]
       /\ UNCHANGED <<accountVars, mfaVars, counterVars, call, requests, ghosts, crossed>>
  \/ expired' = TRUE /\ ~expired /\ history # <<>>
     /\ UNCHANGED <<password, status, history, mfaVars, counterVars, challenges, call, requests, ghosts, crossed>>

-----------------------------------------------------------------------------
(* Login. *)

\* CheckLoginLockout.  A locked account is refused, with no effect but a log row.
Login(w, p) ==
  /\ ~locked
  /\ Begin(w, [Nothing EXCEPT !.flow = "login", !.step = "compare", !.old = p])
  /\ UNCHANGED <<accountVars, mfaVars, counterVars, challenges, ghosts, crossed>>

\* The row of the account, and whether the history has any.  A row that cannot be
\* read counts as a wrong password.
Compare(w) ==
  /\ call[w].step = "compare"
  /\ \/ Move(w, "add")
     \/ call[w].old = password /\ history # <<>> /\ status = 2 /\ Refused(w)
     \/ /\ call[w].old = password /\ (history # <<>> => status = 1)
        /\ call' = [call EXCEPT
             ![w].step = IF history = <<>> THEN "seed" ELSE "factor",
             ![w].read = status,
             ![w].factor = enrolled,
             ![w].age = IF expired THEN Len(history) ELSE 0]
        /\ UNCHANGED <<accountVars, mfaVars, counterVars, challenges, requests, ghosts, crossed>>

\* SeedIfMissing dates the password by the row of the account, which may be old.
Seed(w) ==
  /\ call[w].step = "seed"
  /\ history' = Append(history, call[w].old) /\ expired' \in BOOLEAN
  /\ crossed' = crossed \union (IF history # <<>> THEN {<<"history", Len(history) + 1>>} ELSE {})
  /\ (IF call[w].read = 2 THEN End(w) ELSE GoTo(w, "factor"))
  /\ UNCHANGED <<password, status, mfaVars, counterVars, challenges, requests, ghosts>>

\* MFAService.Enabled says no where it cannot read the row.  Variant: the age of the
\* password is looked at first.
FactorAfterAge(w) == call[w].step = "factor" /\ (enabled /\ ~expired)
FactorDue(w) == call[w].step = "factor" /\ enabled
Factor(w) ==
  \/ FactorDue(w) /\ IssueChallenge(w, "mfa")
  \/ FactorDue(w) /\ PassOver(w, "factor", "age")
  \/ call[w].step = "factor" /\ ~FactorDue(w) /\ Move(w, "age")

\* passwordChangeChallengeIfExpired.  Without a history, or where CheckMaxAge cannot
\* read it, no password is too old.
ChangeDue == expired /\ history # <<>>
Age(w) ==
  /\ call[w].step = "age"
  /\ \/ ChangeDue /\ IssueChallenge(w, "change")
     \/ ChangeDue /\ call[w].flow = "login" /\ PassOver(w, "age", "success")
     \/ ~ChangeDue /\ call[w].flow = "login" /\ Move(w, "success")
     \/ /\ call[w].flow = "mfa"
        /\ IssueLoginTokens(w, IF ChangeDue THEN {"age"} ELSE {}) /\ UNCHANGED counterVars

-----------------------------------------------------------------------------
(* CompleteMFALogin and DisableSensitive. *)

\* ChallengeUserID and the row of the account: one that was disabled is refused.
CompleteMFALogin(w, t, c) ==
  /\ t \in DOMAIN challenges /\ challenges[t].kind = "mfa" /\ status = 1
  /\ Begin(w, [Nothing EXCEPT !.flow = "mfa", !.step = "prepare", !.bring = t, !.code = c,
                      !.factor = challenges[t].factor, !.age = challenges[t].age, !.settled = challenges[t].settled])
  /\ UNCHANGED <<accountVars, mfaVars, counterVars, challenges, ghosts, crossed>>

\* The evidence the guard asks for is another module's (SensitiveOperations).
DisableSensitive(w, c) ==
  /\ Begin(w, [Nothing EXCEPT !.flow = "disable", !.step = "prepare", !.code = c])
  /\ UNCHANGED <<accountVars, mfaVars, counterVars, challenges, ghosts, crossed>>

\* prepareMFAVerification reads the row, and keeps the codes that will remain.  It
\* fails for another code, without a factor, and where the row cannot be read.
\* Variant: a recovery code is not taken from them.
RemainingAll(w) == codes
Remaining(w) == codes \ {call[w].code}
PrepareVerify(w) ==
  /\ call[w].step = "prepare"
  /\ LET next == IF call[w].flow = "mfa" THEN "consume" ELSE "commit" IN
     \/ /\ enabled /\ call[w].code = <<secret, 0>> /\ Move(w, next)
     \/ /\ enabled /\ call[w].code \in codes
        /\ call' = [call EXCEPT ![w].step = next, ![w].keep = Remaining(w)]
        /\ UNCHANGED <<accountVars, mfaVars, counterVars, challenges, requests, ghosts, crossed>>
     \/ IF call[w].flow = "mfa" THEN Move(w, "add") ELSE Refused(w)

\* ConsumeChallenge, and ConsumePasswordChangeChallenge: Get, then Forget.
Consume(w) ==
  /\ call[w].step = "consume"
  /\ \/ call[w].bring \notin DOMAIN challenges /\ Refused(w)
     \/ /\ call[w].bring \in DOMAIN challenges /\ GoTo(w, "forget")
        /\ excused' = excused \union {Challenge(call[w].bring) :
             u \in {u \in Workers : call[u].step = "forget" /\ call[u].bring = call[w].bring}}
        /\ UNCHANGED <<accountVars, mfaVars, counterVars, challenges, requests, spent, spentAgain, slips, crossed>>

\* Variant: the challenge stays in the cache until it lapses.
ForgottenNot(w) == challenges
Forgotten(w) == [t \in DOMAIN challenges \ {call[w].bring} |-> challenges[t]]
Forget(w) ==
  /\ call[w].step = "forget" /\ challenges' = Forgotten(w)
  /\ Spend({Challenge(call[w].bring)})
  /\ GoTo(w, IF call[w].flow = "mfa" THEN "commit" ELSE "write")
  /\ UNCHANGED <<accountVars, mfaVars, counterVars, requests, excused, slips, crossed>>

\* What PrepareVerify returned: markUsed, or updateRecoveryCodes with the codes that
\* remained of those that were read.
Commit(w) ==
  /\ call[w].step = "commit"
  /\ call' = [call EXCEPT ![w].step = IF call[w].flow = "mfa" THEN "success" ELSE "disable",
                          ![w].settled = @ \union {"factor"}]
  /\ IF call[w].code[2] = 0
     THEN UNCHANGED <<codes, spent, spentAgain, excused>>
     ELSE /\ codes' = call[w].keep
          /\ Spend({call[w].code})
          /\ excused' = excused \union ((call[w].keep \union {call[w].code}) \ codes)
  /\ UNCHANGED <<accountVars, enrolled, secret, drawn, confirmed, counterVars, challenges>>
  /\ UNCHANGED <<requests, slips, crossed>>

Disable(w) ==
  /\ call[w].step = "disable"
  /\ enrolled' = 0 /\ codes' = (IF enabled THEN {} ELSE codes) /\ End(w)
  /\ UNCHANGED <<accountVars, secret, drawn, confirmed, counterVars, challenges>>
  /\ UNCHANGED <<requests, ghosts, crossed>>

-----------------------------------------------------------------------------
(* Enrolment. *)

\* ValidateMFASetupAllowed refuses whoever is enrolled, as Enabled has it: where that
\* cannot read the row, an enrolled account sets up anew.
Setup(w) ==
  /\ Begin(w, [Nothing EXCEPT !.flow = "setup", !.step = "draw"])
  /\ UNCHANGED <<accountVars, mfaVars, counterVars, challenges, ghosts, crossed>>

DrawSecret(w) ==
  /\ call[w].step = "draw" /\ drawn < MaxDrawn
  /\ drawn' = drawn + 1 /\ secret' = drawn' /\ enrolled' = 0 /\ codes' = {} /\ End(w)
  /\ crossed' = crossed \union (IF \E u \in Workers : call[u].step = "enable"
                                THEN {<<"secret", drawn'>>} ELSE {})
  /\ UNCHANGED <<accountVars, confirmed, counterVars, challenges, requests, ghosts>>

\* Confirm asks for a code of the secret and does not ask whether it is enabled.
Confirm(w, c) ==
  /\ Begin(w, [Nothing EXCEPT !.flow = "confirm", !.step = "verify", !.code = c])
  /\ UNCHANGED <<accountVars, mfaVars, counterVars, challenges, ghosts, crossed>>

Verifies(w) == secret # 0 /\ call[w].code = <<secret, 0>>
VerifySecret(w) ==
  /\ call[w].step = "verify"
  /\ \/ ~Verifies(w) /\ Refused(w)
     \/ Verifies(w) /\ GoTo(w, "enable") /\ confirmed' = confirmed \union {secret}
        /\ UNCHANGED <<accountVars, enrolled, secret, codes, drawn, counterVars, challenges, requests, ghosts, crossed>>

Enable(w) ==
  /\ call[w].step = "enable" /\ drawn < MaxDrawn
  /\ drawn' = drawn + 1 /\ enrolled' = drawn' /\ codes' = {drawn'} \X (1..RecoveryCodes) /\ End(w)
  /\ UNCHANGED <<accountVars, secret, confirmed, counterVars, challenges, requests, ghosts, crossed>>

-----------------------------------------------------------------------------
(* New passwords. *)

CompletePasswordChange(w, t, p, q) ==
  /\ t \in DOMAIN challenges /\ challenges[t].kind = "change" /\ status = 1
  /\ Begin(w, [Nothing EXCEPT !.flow = "change", !.step = "reuse", !.bring = t, !.old = p,
                      !.new = q, !.factor = challenges[t].factor, !.age = challenges[t].age,
                      !.settled = challenges[t].settled])
  /\ UNCHANGED <<accountVars, mfaVars, counterVars, challenges, ghosts, crossed>>

UpdateProfile(w, p, q) ==
  /\ Begin(w, [Nothing EXCEPT !.flow = "profile", !.step = "reuse", !.old = p, !.new = q])
  /\ UNCHANGED <<accountVars, mfaVars, counterVars, challenges, ghosts, crossed>>

ResetPassword(w) ==
  /\ Begin(w, [Nothing EXCEPT !.flow = "reset", !.step = "reuse"])
  /\ UNCHANGED <<accountVars, mfaVars, counterVars, challenges, ghosts, crossed>>

\* ValidateReuse.  Variant: it looks at the oldest rows.
RecentOldest == {history[i] : i \in {i \in DOMAIN history : i <= HistoryLimit}}
Recent == {history[i] : i \in {i \in DOMAIN history : i + HistoryLimit > Len(history)}}
ValidateReuse(w) ==
  /\ call[w].step = "reuse"
  /\ \/ call[w].new \in Recent /\ Refused(w)
     \/ /\ call[w].new \notin Recent
        /\ call' = [call EXCEPT ![w].step = IF call[w].flow = "reset" THEN "write" ELSE "old",
                                ![w].read = Len(history)]
        /\ UNCHANGED <<accountVars, mfaVars, counterVars, challenges, requests, ghosts, crossed>>

\* appendPasswordUpdate: the row again, for the old password.
CompareOld(w) ==
  /\ call[w].step = "old"
  /\ \/ call[w].old # password /\ Refused(w)
     \/ call[w].old = password /\ Move(w, IF call[w].flow = "change" THEN "consume" ELSE "write")

\* One transaction: the password, and its row in the history.
\* Variant: there is no row for a reset.
RecordedNotReset(w) == IF call[w].flow = "reset" THEN history ELSE Append(history, call[w].new)
Recorded(w) == Append(history, call[w].new)
WritePassword(w) ==
  /\ call[w].step = "write"
  /\ password' = call[w].new /\ history' = Recorded(w) /\ expired' = FALSE
  /\ crossed' = crossed \union (IF call[w].read # Len(history)
                                THEN {<<"history", Len(history) + 1>>} ELSE {})
  /\ IF call[w].flow = "change"
     THEN call' = [call EXCEPT ![w].step = "success", ![w].settled = @ \union {"age"}]
     ELSE End(w)
  /\ UNCHANGED <<status, mfaVars, counterVars, challenges, requests, ghosts>>

\* UpdateUser, of an operator.
UpdateUser ==
  /\ status' = 3 - status
  /\ UNCHANGED <<password, history, expired, mfaVars, counterVars, challenges, call, requests, ghosts, crossed>>

-----------------------------------------------------------------------------

\* Codes an authenticator and a list may show.  Another one fares as these do where the row
\* cannot be read, and to Confirm a recovery code is another one.
Shown == {<<secret, 0>>} \union {c \in AllCodes : c[1] \in 1..drawn /\ c[2] > 0}

Start(w) ==
  \/ \E p \in Passwords : Login(w, p)
  \/ \E t \in DOMAIN challenges, c \in Shown : CompleteMFALogin(w, t, c)
  \/ \E c \in Shown : DisableSensitive(w, c)
  \/ Confirm(w, <<secret, 0>>)
  \/ Setup(w)
  \/ \E p, q \in Passwords :
       UpdateProfile(w, p, q) \/ \E t \in DOMAIN challenges : CompletePasswordChange(w, t, p, q)
  \/ ResetPassword(w)

Continue(w) ==
  \/ Compare(w) \/ Seed(w) \/ Factor(w) \/ Age(w) \/ Success(w) \/ Unlock(w)
  \/ Add(w) \/ Count(w) \/ Lock(w)
  \/ PrepareVerify(w) \/ Consume(w) \/ Forget(w) \/ Commit(w) \/ Disable(w)
  \/ DrawSecret(w) \/ VerifySecret(w) \/ Enable(w)
  \/ ValidateReuse(w) \/ CompareOld(w) \/ WritePassword(w)
  \/ Fails(w)

Next == (\E w \in Workers : Start(w) \/ Continue(w)) \/ Lapse \/ UpdateUser

Spec == Init /\ [][Next]_vars

-----------------------------------------------------------------------------
(* What holds. *)

\* Whoever is let in has given the second factor that was enrolled when the password
\* was compared, and changed the password that had expired by then: through two
\* challenges, whatever was enrolled, disabled or changed meanwhile.  But for one whose
\* read failed in this very login: then it is not asked for (auth.go:772-778,
\* password_history.go:120-124).
AdmittedInFull == slips = {}

\* A recovery code and a challenge are good for one request, unless two hold them at
\* a time or one writes back codes it had read before another used one up; and a
\* factor that is enabled is one its owner gave a code of, unless it was set up
\* again while being confirmed.
FactorsAreSpentOnce ==
  /\ spentAgain \subseteq excused
  /\ enabled => secret \in confirmed \/ <<"secret", secret>> \in crossed

\* The newest row of the history is the password, and none of the rows that count
\* has it, unless its writer read the history before another wrote it; and failures
\* are counted for good only if the counter went between its two steps.
RecordsAreKept ==
  /\ history # <<>> /\ <<"history", Len(history)>> \notin crossed => history[Len(history)] = password
  /\ \A j \in DOMAIN history : <<"history", j>> \notin crossed =>
       \A i \in 1..(j - 1) : i + HistoryLimit >= j => history[i] # history[j]
  /\ perpetual => <<"counter", 0>> \in crossed
=============================================================================
