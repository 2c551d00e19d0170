--------------------- MODULE SensitiveOperationsProofs ---------------------
(***************************************************************************)
(* Why evidence buys one change and is not lost, why signing on can be     *)
(* repeated, and why who logs in has given what was asked.                 *)
(*                                                                         *)
(* A token is spent under its lock.  The lock lasts at least as long as    *)
(* the token (LocksLast), so that a call that finds it free while the      *)
(* token is valid finds nobody at work for the token (LocksExclude); what  *)
(* the call then forgets only its own restoring brings back, and a call    *)
(* that restores has made nothing (SpendingInv).  An approval is spent by  *)
(* an UPDATE that repeats what it asks of the row, so that of two calls    *)
(* only one finds it approved (ApprovalInv).  A token that is gone and the *)
(* approval that is used each keep a call that answers for them, wherever  *)
(* that call stops (TokensAccounted, UsedForACall).                        *)
(*                                                                         *)
(* The steps are those of one call, which leave the others alone           *)
(* (OthersStay), and those that grant evidence (GrantStep).                *)
(*                                                                         *)
(* The second part is about signing on (SignOnInv), the third about logins *)
(* and passwords (LoginInv): each has the state of its own that            *)
(* MCAdministration gives it, and an invariant of its own.                 *)
(***************************************************************************)
EXTENDS MCAdministration, Integers, Sequences, FiniteSetTheorems, TLAPS

InLock == {"check", "forget", "load", "consume", "commit", "mutate", "remove",
           "restore", "release"}
\* Where a call has not come as far as its change.
Before == {"idle", "prepare", "lock", "check", "forget", "load", "consume", "commit"}

\* Where a call of a form can be, and what it has done by then.
CallFits(c) ==
  /\ stage[c] # "idle" => token[c] \in Tokens /\ approval[c] \in Approvals
  /\ stage[c] = "idle" => token[c] = None
  /\ stage[c] \in {"load", "consume"} => form[c] \in ByApproval
  /\ stage[c] = "commit" => form[c] = "unapproved"
  /\ stage[c] \in {"mutate", "remove", "restore"} => form[c] \in {"guard", "reauth"}
  /\ stage[c] \in Before \union {"mutate"} => effect[c] = "none"
  /\ stage[c] = "remove" => effect[c] = "part"
  /\ stage[c] = "restore" =>
       effect[c] # "all" /\ (form[c] = "guard" => effect[c] = "none")
  /\ form[c] \in {"transaction", "unapproved"} => effect[c] # "part"
CallsFit == \A c \in Calls : CallFits(c)

\* A call's token has been issued; the lock it holds outlasts the token; and no
\* other call holds it.
TokensIssued == \A c \in Calls : stage[c] # "idle" => owner[token[c]] # None
LocksLast ==
  \A c \in Calls : stage[c] \in InLock => expires[token[c]] <= lockedUntil[token[c]]
LocksExclude ==
  \A c, d \in Calls :
    c # d /\ token[c] = token[d] => ~(stage[c] \in InLock /\ stage[d] \in InLock)
LockInv == TokensIssued /\ LocksLast /\ LocksExclude

\* A token that is being spent, or was, is gone; and no other call that holds the
\* lock goes by a token that was spent.
Gone(c) == stage[c] \in Spending \/ Spent(c)
TokensGone == \A c \in Calls : Gone(c) => token[c] \notin cached
SpentAlone ==
  \A c \in Calls : Spent(c) =>
    /\ stage[c] \notin Before \union {"restore"}
    /\ \A d \in Calls : d # c /\ token[d] = token[c] => stage[d] \notin InLock
TokensSpentOnce ==
  \A c, d \in Calls : c # d /\ Spent(c) /\ Spent(d) => token[c] # token[d]
SpendingInv == TokensGone /\ SpentAlone /\ TokensSpentOnce

-----------------------------------------------------------------------------
LEMMA InitTypes == Init => TypeOK
BY EvidenceAssumption
   DEF Init, TypeOK, Answers, Changes, Forms, Stages, Effects, Snapshots, Times

LEMMA GrantTypes ==
  ASSUME TypeOK,
         \/ \E t \in Tokens, r \in Requests : IssueReAuthToken(t, r[1], r[2])
         \/ \E a \in Approvals, r \in Requests : CreateApproval(a, r[1], r[2])
         \/ \E a \in Approvals, u \in Users : ApproveApproval(a, u)
         \/ PatchPolicy \/ Tick
  PROVE  TypeOK'
<1> USE EvidenceAssumption DEF TypeOK, Times, Answers
<1>0. now + TokenTtl \in Times /\ now + ApprovalTtl \in Times
  BY EvidenceAssumption DEF TypeOK, Times
<1>1. ASSUME NEW t \in Tokens, NEW r \in Requests, IssueReAuthToken(t, r[1], r[2])
      PROVE  TypeOK'
  <2>1. r[1] \in Users /\ r[2] \in Changes
    BY EvidenceAssumption
  <2> QED BY <1>0, <1>1, <2>1 DEF IssueReAuthToken, tenantVars, approvalVars, inputVars, Times
<1>2. ASSUME NEW a \in Approvals, NEW r \in Requests, CreateApproval(a, r[1], r[2])
      PROVE  TypeOK'
  <2>1. r[1] \in Users /\ r[2] \in Changes /\ Snapshot \in Snapshots
    BY EvidenceAssumption DEF Snapshot, Snapshots
  <2> QED BY <1>0, <1>2, <2>1 DEF CreateApproval, tenantVars, tokenVars, inputVars, Times
<1>3. ASSUME NEW a \in Approvals, NEW u \in Users, ApproveApproval(a, u)
      PROVE  TypeOK'
  BY <1>3 DEF ApproveApproval, tenantVars, tokenVars, inputVars
<1>4. CASE PatchPolicy \/ Tick
  BY <1>4 DEF PatchPolicy, Tick, evidenceVars, tenantVars, tokenVars, approvalVars, inputVars
<1> QED BY <1>1, <1>2, <1>3, <1>4

LEMMA CallTypes ==
  ASSUME TypeOK, NEW c \in Calls, CallStep(c), stage[c] # "idle" => token[c] \in Tokens
  PROVE  TypeOK'
<1> USE DEF TypeOK, GoTo, tenantVars, tokenVars, approvalVars, inputVars, evidenceVars
<1>1. ASSUME NEW r \in Requests, NEW t \in Tokens, NEW a \in Approvals,
             Begin(c, r[1], r[2], t, a)
      PROVE  TypeOK'
  <2>1. r[1] \in Users /\ r[2] \in Changes
    BY EvidenceAssumption
  <2>2. FormOf(r[2]) \in Forms
    BY DEF FormOf, Forms
  <2> QED BY <1>1, <2>1, <2>2 DEF Begin, Stages
<1>2. CASE Prepare(c)
  BY <1>2 DEF Prepare, Stages, Snapshot, Snapshots, Answers
<1>3. CASE TakeLock(c)
  <2>1. CASE stage' = [stage EXCEPT ![c] = "done"] /\ UNCHANGED lockedUntil
    BY <1>3, <2>1 DEF TakeLock, Stages
  <2>2. CASE /\ Valid(c) /\ stage' = [stage EXCEPT ![c] = "check"]
             /\ lockedUntil' = [lockedUntil EXCEPT ![token[c]] = LockUntil(token[c])]
    <3>1. token[c] \in Tokens
      BY <2>2 DEF Valid
    <3>2. LockUntil(token[c]) \in Times
      BY <3>1, EvidenceAssumption DEF LockUntil, LongerOf, Times
    <3> QED BY <1>3, <2>2, <3>1, <3>2 DEF TakeLock, Stages
  <2> QED BY <1>3, <2>1, <2>2 DEF TakeLock
<1>4. CASE Check(c)
  BY <1>4 DEF Check, Stages
<1>5. CASE Forget(c)
  BY <1>5 DEF Forget, Stages
<1>6. CASE LoadApproval(c)
  BY <1>6 DEF LoadApproval, Refused, Stages
<1>7. CASE Consume(c)
  BY <1>7 DEF Consume, MarkUsed, Stages
<1>8. CASE CommitExport(c)
  BY <1>8 DEF CommitExport, MarkUsed, Stages, Effects
<1>9. CASE DropDatabase(c)
  BY <1>9 DEF DropDatabase, Stages, Effects
<1>10. CASE Remove(c)
  BY <1>10 DEF Remove, Stages, Effects
<1>11. CASE MutateFails(c)
  BY <1>11 DEF MutateFails, Failed, Stages, Effects
<1>12. CASE RestoreReAuthToken(c)
  BY <1>12 DEF RestoreReAuthToken, Stages
<1>13. CASE ReleaseLock(c) \/ Crash(c)
  BY <1>13, EvidenceAssumption DEF ReleaseLock, Crash, Stages, Times
<1> QED BY <1>1, <1>2, <1>3, <1>4, <1>5, <1>6, <1>7, <1>8, <1>9, <1>10, <1>11, <1>12,
           <1>13 DEF CallStep

\* What a step of one call leaves alone: the others.
LEMMA OthersStay ==
  ASSUME TypeOK, NEW c \in Calls, CallStep(c), NEW d \in Calls, d # c
  PROVE  /\ stage'[d] = stage[d] /\ actor'[d] = actor[d] /\ change'[d] = change[d]
         /\ token'[d] = token[d] /\ approval'[d] = approval[d] /\ form'[d] = form[d]
         /\ plan'[d] = plan[d] /\ effect'[d] = effect[d]
<1> USE DEF TypeOK, GoTo, inputVars
<1>1. ASSUME NEW r \in Requests, NEW t \in Tokens, NEW a \in Approvals,
             Begin(c, r[1], r[2], t, a)
      PROVE  /\ stage'[d] = stage[d] /\ actor'[d] = actor[d] /\ change'[d] = change[d]
             /\ token'[d] = token[d] /\ approval'[d] = approval[d] /\ form'[d] = form[d]
             /\ plan'[d] = plan[d] /\ effect'[d] = effect[d]
  BY <1>1 DEF Begin
<1>2. CASE Prepare(c) \/ TakeLock(c) \/ Check(c) \/ Forget(c)
  BY <1>2 DEF Prepare, TakeLock, Check, Forget
<1>3. CASE LoadApproval(c) \/ Consume(c) \/ CommitExport(c)
  BY <1>3 DEF LoadApproval, Consume, CommitExport
<1>4. CASE DropDatabase(c) \/ Remove(c) \/ MutateFails(c)
  BY <1>4 DEF DropDatabase, Remove, MutateFails
<1>5. CASE RestoreReAuthToken(c) \/ ReleaseLock(c) \/ Crash(c)
  BY <1>5 DEF RestoreReAuthToken, ReleaseLock, Crash
<1> QED BY <1>1, <1>2, <1>3, <1>4, <1>5 DEF CallStep

LEMMA CallKeepsFitting ==
  ASSUME TypeOK, CallsFit, NEW c \in Calls, CallStep(c)
  PROVE  CallFits(c)'
<1> USE DEF TypeOK, GoTo, inputVars, ByApproval
<1>1. CallFits(c)
  BY DEF CallsFit
<1>2. ASSUME NEW r \in Requests, NEW t \in Tokens, NEW a \in Approvals,
             Begin(c, r[1], r[2], t, a)
      PROVE  CallFits(c)'
  BY <1>1, <1>2 DEF Begin, FormOf, CallFits, Before
<1>3. CASE Prepare(c) \/ TakeLock(c) \/ Check(c) \/ Forget(c)
  BY <1>1, <1>3 DEF Prepare, TakeLock, Check, Forget, CallFits, Before, Forms
<1>4. CASE LoadApproval(c)
  BY <1>1, <1>4 DEF LoadApproval, Refused, CallFits, Before
<1>5. CASE Consume(c)
  BY <1>1, <1>5 DEF Consume, CallFits, Before
<1>6. CASE CommitExport(c)
  BY <1>1, <1>6 DEF CommitExport, CallFits, Before
<1>7. CASE DropDatabase(c) \/ Remove(c)
  BY <1>1, <1>7 DEF DropDatabase, Remove, CallFits, Before
<1>8. CASE MutateFails(c)
  BY <1>1, <1>8 DEF MutateFails, Failed, CallFits, Before
<1>9. CASE RestoreReAuthToken(c) \/ ReleaseLock(c) \/ Crash(c)
  BY <1>1, <1>9 DEF RestoreReAuthToken, ReleaseLock, Crash, CallFits, Before
<1> QED BY <1>2, <1>3, <1>4, <1>5, <1>6, <1>7, <1>8, <1>9 DEF CallStep

LEMMA CallsKeepFitting ==
  ASSUME TypeOK, CallsFit, NEW c \in Calls, CallStep(c)
  PROVE  CallsFit'
<1>1. ASSUME NEW d \in Calls, d # c PROVE CallFits(d)'
  BY <1>1, OthersStay DEF CallsFit, CallFits, Before
<1> QED BY <1>1, CallKeepsFitting DEF CallsFit

LEMMA GrantLocks ==
  ASSUME TypeOK, CallsFit, LockInv, UNCHANGED <<stage, token, lockedUntil>>,
         \A t \in Tokens : owner[t] # None => owner'[t] = owner[t] /\ expires'[t] = expires[t]
  PROVE  LockInv'
<1>1. \A c \in Calls : stage[c] # "idle" => token[c] \in Tokens
  BY DEF CallsFit, CallFits
<1>2. TokensIssued'
  BY <1>1 DEF LockInv, TokensIssued
<1>3. LocksLast'
  BY <1>1 DEF LockInv, TokensIssued, LocksLast, InLock
<1>4. LocksExclude'
  BY DEF LockInv, LocksExclude
<1> QED BY <1>2, <1>3, <1>4 DEF LockInv

\* A call that had the lock has it still, or gives it up and the lock stays.
LEMMA SameLock ==
  ASSUME TypeOK, LockInv, NEW c \in Calls, CallStep(c),
         stage[c] \in InLock \/ stage'[c] \notin InLock, stage[c] # "idle",
         UNCHANGED <<token, owner, expires, lockedUntil>>
  PROVE  LockInv'
<1>1. \A d \in Calls : stage'[d] \in InLock => stage[d] \in InLock
  BY OthersStay
<1>2. TokensIssued'
  BY OthersStay DEF LockInv, TokensIssued
<1>3. LocksLast'
  BY <1>1 DEF LockInv, LocksLast
<1>4. LocksExclude'
  BY <1>1 DEF LockInv, LocksExclude
<1> QED BY <1>2, <1>3, <1>4 DEF LockInv

LEMMA CallLocks ==
  ASSUME TypeOK, CallsFit, LockInv, NEW c \in Calls, CallStep(c)
  PROVE  LockInv'
<1> USE DEF GoTo, inputVars, tokenVars, evidenceVars
<1>1. stage[c] # "idle" => token[c] \in Tokens
  BY DEF CallsFit, CallFits
<1>3. ASSUME NEW r \in Requests, NEW t \in Tokens, NEW a \in Approvals,
             Begin(c, r[1], r[2], t, a)
      PROVE  LockInv'
  <2>1. stage'[c] \notin InLock /\ token'[c] = t /\ owner[t] # None
        /\ UNCHANGED <<owner, expires, lockedUntil>>
    BY <1>3 DEF Begin, InLock, TypeOK
  <2>2. TokensIssued'
    BY <2>1, OthersStay DEF LockInv, TokensIssued
  <2>3. LocksLast'
    BY <2>1, OthersStay DEF LockInv, LocksLast
  <2>4. LocksExclude'
    BY <2>1, OthersStay DEF LockInv, LocksExclude
  <2> QED BY <2>2, <2>3, <2>4 DEF LockInv
<1>4. CASE Prepare(c)
  BY <1>4, SameLock DEF Prepare, InLock, TypeOK
<1>5. CASE TakeLock(c)
  <2>1. CASE stage' = [stage EXCEPT ![c] = "done"] /\ UNCHANGED lockedUntil
    BY <1>5, <2>1, SameLock DEF TakeLock, InLock, TypeOK
  <2>2. CASE /\ Valid(c) /\ LockFree(token[c]) /\ stage' = [stage EXCEPT ![c] = "check"]
             /\ lockedUntil' = [lockedUntil EXCEPT ![token[c]] = LockUntil(token[c])]
    <3> DEFINE t == token[c]
    <3>1. /\ t \in Tokens /\ UNCHANGED <<token, owner, expires>>
          /\ now < expires[t] /\ lockedUntil[t] <= now /\ stage[c] = "lock"
          /\ now \in Nat /\ expires[t] \in Nat /\ lockedUntil[t] \in Nat
      BY <1>1, <1>5, <2>2 DEF TakeLock, Valid, LockFree, TypeOK, Times
    <3>2. \A d \in Calls : d # c /\ token[d] = t => stage[d] \notin InLock
      BY <3>1 DEF LockInv, LocksLast
    <3>3. expires[t] <= LockUntil(t)
      BY <3>1, EvidenceAssumption DEF LockUntil, LongerOf
    <3>4. TokensIssued'
      BY <3>1, OthersStay DEF LockInv, TokensIssued
    <3>5. LocksLast'
      <4>1. lockedUntil'[t] = LockUntil(t)
        BY <2>2, <3>1 DEF TypeOK
      <4>2. ASSUME NEW d \in Calls, token[d] # t, stage[d] \in InLock
            PROVE  lockedUntil'[token[d]] = lockedUntil[token[d]]
        BY <2>2, <4>2 DEF TypeOK, InLock, CallsFit, CallFits
      <4> QED BY <3>1, <3>2, <3>3, <4>1, <4>2, OthersStay DEF LockInv, LocksLast
    <3>6. LocksExclude'
      BY <3>1, <3>2, OthersStay DEF LockInv, LocksExclude
    <3> QED BY <3>4, <3>5, <3>6 DEF LockInv
  <2> QED BY <1>5, <2>1, <2>2 DEF TakeLock
<1>6. CASE Check(c) \/ Forget(c) \/ LoadApproval(c) \/ Consume(c) \/ CommitExport(c)
  <2>1. stage[c] \in InLock /\ stage[c] # "idle" /\ UNCHANGED <<token, owner, expires, lockedUntil>>
    BY <1>6 DEF Check, Forget, LoadApproval, Consume, CommitExport, InLock
  <2> QED BY <2>1, SameLock
<1>7. CASE DropDatabase(c) \/ Remove(c) \/ MutateFails(c) \/ RestoreReAuthToken(c)
  <2>1. stage[c] \in InLock /\ stage[c] # "idle" /\ UNCHANGED <<token, owner, expires, lockedUntil>>
    BY <1>7 DEF DropDatabase, Remove, MutateFails, RestoreReAuthToken, InLock
  <2> QED BY <2>1, SameLock
<1>8. CASE ReleaseLock(c)
  <2>1. /\ stage[c] = "release" /\ stage'[c] = "done" /\ UNCHANGED <<token, owner, expires>>
        /\ token[c] \in Tokens
    BY <1>1, <1>8 DEF ReleaseLock, TypeOK
  <2>2. \A d \in Calls : d # c /\ token[d] = token[c] => stage[d] \notin InLock
    BY <2>1 DEF LockInv, LocksExclude, InLock
  <2>3. \A t \in Tokens : t # token[c] => lockedUntil'[t] = lockedUntil[t]
    BY <1>8 DEF ReleaseLock, TypeOK
  <2>4. TokensIssued'
    BY <2>1, OthersStay DEF LockInv, TokensIssued
  <2>5. LocksLast'
    BY <2>1, <2>2, <2>3, OthersStay DEF LockInv, LocksLast, InLock, CallsFit, CallFits
  <2>6. LocksExclude'
    BY <2>1, OthersStay DEF LockInv, LocksExclude, InLock
  <2> QED BY <2>4, <2>5, <2>6 DEF LockInv
<1>9. CASE Crash(c)
  BY <1>9, SameLock DEF Crash, InLock, TypeOK
<1> QED BY <1>3, <1>4, <1>5, <1>6, <1>7, <1>8, <1>9 DEF CallStep

\* What a step of a call does to its token.
TokenMoves(c) ==
  /\ stage[c] # "idle" => token'[c] = token[c]
  /\ Spent(c)' => stage'[c] \notin Before \union {"restore"}
  /\ Spent(c)' => Spent(c) \/ stage[c] \in {"consume", "commit", "mutate", "remove"}
  /\ stage'[c] \in InLock =>
       stage[c] \in InLock \/ (stage[c] = "lock" /\ token[c] \in cached)
  /\ stage'[c] \in Spending =>
       stage[c] \in Spending \/ (stage[c] = "forget" /\ token[c] \notin cached')
  /\ \A t \in cached' : t \notin cached =>
       t = token[c] /\ stage[c] = "restore" /\ stage'[c] = "release" /\ ~Spent(c)'

LEMMA TokensMove ==
  ASSUME TypeOK, CallsFit, NEW c \in Calls, CallStep(c)
  PROVE  TokenMoves(c)
<1> USE DEF TypeOK, GoTo, inputVars, tokenVars, evidenceVars, TokenMoves, Spent, Before, InLock, Spending
<1>1. CallFits(c)
  BY DEF CallsFit
<1>2. ASSUME NEW r \in Requests, NEW t \in Tokens, NEW a \in Approvals,
             Begin(c, r[1], r[2], t, a)
      PROVE  TokenMoves(c)
  BY <1>1, <1>2 DEF Begin, CallFits
<1>3. CASE Prepare(c)
  BY <1>1, <1>3 DEF Prepare, CallFits
<1>4. CASE TakeLock(c)
  BY <1>1, <1>4 DEF TakeLock, CallFits, Valid
<1>5. CASE Check(c)
  BY <1>1, <1>5 DEF Check, CallFits
<1>6. CASE Forget(c)
  BY <1>1, <1>6 DEF Forget, CallFits
<1>7. CASE LoadApproval(c)
  BY <1>1, <1>7 DEF LoadApproval, Refused, CallFits
<1>8. CASE Consume(c)
  BY <1>1, <1>8 DEF Consume, CallFits
<1>9. CASE CommitExport(c)
  BY <1>1, <1>9 DEF CommitExport, CallFits
<1>10. CASE DropDatabase(c) \/ Remove(c)
  BY <1>1, <1>10 DEF DropDatabase, Remove, CallFits
<1>11. CASE MutateFails(c)
  BY <1>1, <1>11 DEF MutateFails, Failed, CallFits
<1>12. CASE RestoreReAuthToken(c)
  BY <1>1, <1>12 DEF RestoreReAuthToken, CallFits
<1>13. CASE ReleaseLock(c) \/ Crash(c)
  BY <1>1, <1>13 DEF ReleaseLock, Crash, CallFits
<1> QED BY <1>2, <1>3, <1>4, <1>5, <1>6, <1>7, <1>8, <1>9, <1>10, <1>11, <1>12, <1>13 DEF CallStep

LEMMA CallSpending ==
  ASSUME TypeOK, CallsFit, LockInv, SpendingInv, NEW c \in Calls, CallStep(c)
  PROVE  SpendingInv'
<1>1. TokenMoves(c)
  BY TokensMove
<1>2. \A d \in Calls : d # c =>
        /\ Spent(d)' <=> Spent(d)
        /\ stage'[d] = stage[d] /\ token'[d] = token[d]
  BY OthersStay DEF Spent
<1>3. Spent(c)' => stage[c] # "idle" /\ token'[c] = token[c]
  BY <1>1 DEF TokenMoves, SpendingInv, SpentAlone, Before
<1>4. TokensGone'
  <2>1. ASSUME Gone(c)' PROVE token'[c] \notin cached'
    <3>1. stage[c] # "idle" /\ token'[c] = token[c]
      BY <1>1, <1>3, <2>1 DEF TokenMoves, Gone, Spending
    <3>2. token[c] \notin cached \/ token[c] \notin cached'
      BY <1>1, <2>1 DEF TokenMoves, Gone, Spending, SpendingInv, TokensGone
    <3> QED BY <1>1, <2>1, <3>1, <3>2 DEF TokenMoves, Gone, Spending
  <2>2. ASSUME NEW d \in Calls, d # c, Gone(d)' PROVE token'[d] \notin cached'
    <3>1. Gone(d) /\ token'[d] = token[d] /\ token[d] \notin cached
      BY <1>2, <2>2 DEF Gone, SpendingInv, TokensGone
    <3>2. ~(stage[c] = "restore" /\ token[c] = token[d])
      BY <2>2, <3>1 DEF Gone, SpendingInv, SpentAlone, LockInv, LocksExclude, InLock, Spending
    <3> QED BY <1>1, <3>1, <3>2 DEF TokenMoves
  <2> QED BY <2>1, <2>2 DEF TokensGone
<1>5. SpentAlone'
  <2>1. ASSUME Spent(c)', NEW d \in Calls, d # c, token'[d] = token'[c]
        PROVE  stage'[d] \notin InLock
    BY <1>1, <1>2, <1>3, <2>1
       DEF TokenMoves, SpendingInv, SpentAlone, LockInv, LocksExclude, InLock
  <2>2. ASSUME NEW d \in Calls, d # c, Spent(d)', token'[c] = token'[d]
        PROVE  stage'[c] \notin InLock
    BY <1>1, <1>2, <2>2 DEF TokenMoves, SpendingInv, SpentAlone, TokensGone, Gone, InLock
  <2>3. ASSUME NEW d \in Calls, d # c, Spent(d)', NEW e \in Calls \ {c, d},
               token'[e] = token'[d]
        PROVE  stage'[e] \notin InLock
    BY <1>2, <2>3 DEF SpendingInv, SpentAlone
  <2>4. \A d \in Calls : Spent(d)' => stage'[d] \notin Before \union {"restore"}
    BY <1>1, <1>2 DEF TokenMoves, SpendingInv, SpentAlone
  <2> QED BY <2>1, <2>2, <2>3, <2>4 DEF SpentAlone
<1>6. TokensSpentOnce'
  <2>1. ASSUME NEW d \in Calls, d # c, Spent(c)', Spent(d)' PROVE token'[c] # token'[d]
    BY <1>1, <1>2, <1>3, <2>1 DEF TokenMoves, SpendingInv, SpentAlone, TokensSpentOnce, InLock
  <2> QED BY <1>2, <2>1 DEF TokensSpentOnce, SpendingInv
<1> QED BY <1>4, <1>5, <1>6 DEF SpendingInv
\* The steps that give evidence, change the policy or let time pass.
GrantStep ==
  \/ \E t \in Tokens, r \in Requests : IssueReAuthToken(t, r[1], r[2])
  \/ \E a \in Approvals, r \in Requests : CreateApproval(a, r[1], r[2])
  \/ \E a \in Approvals, u \in Users : ApproveApproval(a, u)
  \/ PatchPolicy \/ Tick

LEMMA GrantLeavesCalls ==
  ASSUME GrantStep
  PROVE  /\ UNCHANGED <<stage, inputVars, plan, effect, lockedUntil>>
         /\ cached \subseteq cached'
         /\ \A t \in Tokens : t \in cached' \ cached => owner[t] = None
<1>1. ASSUME NEW t \in Tokens, NEW r \in Requests, IssueReAuthToken(t, r[1], r[2])
      PROVE  /\ UNCHANGED <<stage, inputVars, plan, effect, lockedUntil>>
             /\ cached \subseteq cached'
             /\ \A x \in Tokens : x \in cached' \ cached => owner[x] = None
  BY <1>1 DEF IssueReAuthToken
<1>2. CASE \E a \in Approvals, r \in Requests : CreateApproval(a, r[1], r[2])
  BY <1>2 DEF CreateApproval, tokenVars
<1>3. CASE \E a \in Approvals, u \in Users : ApproveApproval(a, u)
  BY <1>3 DEF ApproveApproval, tokenVars
<1>4. CASE PatchPolicy \/ Tick
  BY <1>4 DEF PatchPolicy, Tick, evidenceVars, tokenVars
<1> QED BY <1>1, <1>2, <1>3, <1>4 DEF GrantStep

LEMMA GrantKeepsTokens ==
  ASSUME TypeOK, GrantStep, NEW t \in Tokens, owner[t] # None
  PROVE  owner'[t] = owner[t] /\ expires'[t] = expires[t]
<1>1. ASSUME NEW x \in Tokens, NEW r \in Requests, IssueReAuthToken(x, r[1], r[2])
      PROVE  owner'[t] = owner[t] /\ expires'[t] = expires[t]
  BY <1>1 DEF IssueReAuthToken, TypeOK
<1>2. CASE \E a \in Approvals, r \in Requests : CreateApproval(a, r[1], r[2])
  BY <1>2 DEF CreateApproval, tokenVars
<1>3. CASE \E a \in Approvals, u \in Users : ApproveApproval(a, u)
  BY <1>3 DEF ApproveApproval, tokenVars
<1>4. CASE PatchPolicy \/ Tick
  BY <1>4 DEF PatchPolicy, Tick, evidenceVars, tokenVars
<1> QED BY <1>1, <1>2, <1>3, <1>4 DEF GrantStep

LEMMA GrantKeepsFitting ==
  ASSUME CallsFit, GrantStep
  PROVE  CallsFit'
BY GrantLeavesCalls DEF CallsFit, CallFits, inputVars, Before

LEMMA GrantSpending ==
  ASSUME TypeOK, CallsFit, LockInv, SpendingInv, GrantStep
  PROVE  SpendingInv'
<1>1. UNCHANGED <<stage, token, form, effect>>
  BY GrantLeavesCalls DEF inputVars
<1>2. \A c \in Calls : Gone(c) => stage[c] # "idle" /\ token[c] \in Tokens /\ owner[token[c]] # None
  BY DEF Gone, Spending, SpendingInv, SpentAlone, Before, LockInv, TokensIssued, CallsFit, CallFits
<1>3. \A c \in Calls : (Spent(c)' <=> Spent(c)) /\ (Gone(c)' <=> Gone(c))
  BY <1>1 DEF Spent, Gone
<1>4. TokensGone'
  BY <1>1, <1>2, <1>3, GrantLeavesCalls DEF SpendingInv, TokensGone
<1>5. SpentAlone' /\ TokensSpentOnce'
  BY <1>1, <1>3 DEF SpendingInv, SpentAlone, TokensSpentOnce
<1> QED BY <1>4, <1>5 DEF SpendingInv

\* What a call made its change for was approved for it, by another; what was used
\* was used for a call.
SpentAsApproved ==
  \A c \in Calls : form[c] \in ByApproval /\ Spent(c) =>
    /\ approval[c] \in Approvals
    /\ state[approval[c]] = "used" /\ requester[approval[c]] = actor[c]
    /\ bound[approval[c]] = change[c] /\ before[approval[c]] = plan[c]
ApprovalsSpentOnce ==
  \A c, d \in Calls : c # d /\ Spent(c) /\ Spent(d) =>
    (form[c] \in ByApproval /\ form[d] \in ByApproval => approval[c] # approval[d])
ApprovedByAnother ==
  \A a \in Approvals : state[a] \in {"approved", "used"} =>
    approver[a] # None /\ approver[a] # requester[a]
UsedFor(a, c) ==
  /\ approval[c] = a /\ form[c] \in ByApproval
  /\ stage[c] \in {"mutate", "remove", "crashed"} \/ effect[c] # "none"
UsedForACall == \A a \in Approvals : state[a] = "used" => \E c \in Calls : UsedFor(a, c)
ApprovalInv == SpentAsApproved /\ ApprovalsSpentOnce /\ ApprovedByAnother /\ UsedForACall

\* What a step of a call does to its approval.
Marks(c) ==
  /\ stage[c] = "consume" /\ form[c] \in ByApproval /\ Consumable(c, approval[c])
  /\ state' = [state EXCEPT ![approval[c]] = "used"]
  /\ stage'[c] = "mutate" \/ effect'[c] # "none"
  /\ UNCHANGED <<inputVars, plan>>
ApprovalMoves(c) ==
  /\ UNCHANGED <<requester, approver, bound, before>>
  /\ Marks(c) \/ state' = state
  /\ stage[c] \notin {"idle", "prepare"} => UNCHANGED <<inputVars, plan>>
  /\ form'[c] \in ByApproval /\ Spent(c)' => Spent(c) \/ Marks(c)
  /\ stage[c] # "idle" => UNCHANGED inputVars
  /\ stage[c] \in {"mutate", "remove", "crashed"} =>
       stage'[c] \in {"mutate", "remove", "crashed"} \/ effect'[c] # "none"
  /\ effect[c] # "none" => effect'[c] # "none"

LEMMA ApprovalsMove ==
  ASSUME TypeOK, CallsFit, NEW c \in Calls, CallStep(c)
  PROVE  ApprovalMoves(c)
<1> USE DEF TypeOK, GoTo, inputVars, tokenVars, approvalVars, evidenceVars, ApprovalMoves, Spent,
            ByApproval
<1>1. CallFits(c)
  BY DEF CallsFit
<1>2. ASSUME NEW r \in Requests, NEW t \in Tokens, NEW a \in Approvals,
             Begin(c, r[1], r[2], t, a)
      PROVE  ApprovalMoves(c)
  BY <1>1, <1>2 DEF Begin, CallFits, Before
<1>3. CASE Prepare(c)
  BY <1>1, <1>3 DEF Prepare, CallFits, Before
<1>4. CASE TakeLock(c)
  BY <1>1, <1>4 DEF TakeLock, CallFits, Before
<1>5. CASE Check(c)
  BY <1>1, <1>5 DEF Check, CallFits, Before
<1>6. CASE Forget(c)
  BY <1>1, <1>6 DEF Forget, CallFits, Before
<1>7. CASE LoadApproval(c)
  BY <1>1, <1>7 DEF LoadApproval, Refused, CallFits, Before
<1>8. CASE Consume(c)
  BY <1>1, <1>8 DEF Consume, MarkUsed, Marks, CallFits, Before
<1>9. CASE CommitExport(c)
  BY <1>1, <1>9 DEF CommitExport, MarkUsed, Marks, CallFits, Before
<1>10. CASE DropDatabase(c) \/ Remove(c)
  BY <1>1, <1>10 DEF DropDatabase, Remove, CallFits
<1>11. CASE MutateFails(c)
  BY <1>1, <1>11 DEF MutateFails, Failed, CallFits
<1>12. CASE RestoreReAuthToken(c)
  BY <1>1, <1>12 DEF RestoreReAuthToken, CallFits
<1>13. CASE ReleaseLock(c) \/ Crash(c)
  BY <1>1, <1>13 DEF ReleaseLock, Crash, CallFits
<1> QED BY <1>2, <1>3, <1>4, <1>5, <1>6, <1>7, <1>8, <1>9, <1>10, <1>11, <1>12, <1>13 DEF CallStep

LEMMA CallApprovals ==
  ASSUME TypeOK, CallsFit, SpendingInv, ApprovalInv, NEW c \in Calls, CallStep(c)
  PROVE  ApprovalInv'
<1>1. ApprovalMoves(c)
  BY ApprovalsMove
<1>2. \A d \in Calls : d # c =>
        /\ Spent(d)' <=> Spent(d)
        /\ stage'[d] = stage[d] /\ approval'[d] = approval[d] /\ form'[d] = form[d]
        /\ actor'[d] = actor[d] /\ change'[d] = change[d] /\ plan'[d] = plan[d]
        /\ effect'[d] = effect[d]
  BY OthersStay DEF Spent
<1>3. CallFits(c)
  BY DEF CallsFit
<1>4. Marks(c) => /\ approval[c] \in Approvals /\ state[approval[c]] = "approved"
                  /\ Binds(c, approval[c]) /\ state'[approval[c]] = "used"
                  /\ \A a \in Approvals : a # approval[c] => state'[a] = state[a]
  BY <1>3 DEF Marks, Consumable, CallFits, TypeOK
<1>5. \A a \in Approvals : state[a] = "used" => state'[a] = "used"
  BY <1>1, <1>4 DEF ApprovalMoves
<1>6. Spent(c) => stage[c] \notin {"idle", "prepare"}
  BY DEF SpendingInv, SpentAlone, Before
<1>7. SpentAsApproved'
  <2>1. ASSUME form'[c] \in ByApproval, Spent(c)'
        PROVE  /\ approval'[c] \in Approvals
               /\ state'[approval'[c]] = "used" /\ requester'[approval'[c]] = actor'[c]
               /\ bound'[approval'[c]] = change'[c] /\ before'[approval'[c]] = plan'[c]
    <3>1. CASE Spent(c)
      BY <1>1, <1>5, <1>6, <2>1, <3>1 DEF ApprovalMoves, ApprovalInv, SpentAsApproved, inputVars
    <3>2. CASE Marks(c)
      BY <1>1, <1>4, <3>2 DEF ApprovalMoves, Marks, Binds, inputVars
    <3> QED BY <1>1, <2>1, <3>1, <3>2 DEF ApprovalMoves
  <2>2. ASSUME NEW d \in Calls, d # c, form'[d] \in ByApproval, Spent(d)'
        PROVE  /\ approval'[d] \in Approvals
               /\ state'[approval'[d]] = "used" /\ requester'[approval'[d]] = actor'[d]
               /\ bound'[approval'[d]] = change'[d] /\ before'[approval'[d]] = plan'[d]
    BY <1>1, <1>2, <1>5, <2>2 DEF ApprovalMoves, ApprovalInv, SpentAsApproved
  <2> QED BY <2>1, <2>2 DEF SpentAsApproved
<1>8. ApprovalsSpentOnce'
  <2>1. ASSUME NEW d \in Calls, d # c, Spent(c)', Spent(d)',
               form'[c] \in ByApproval, form'[d] \in ByApproval
        PROVE  approval'[c] # approval'[d]
    <3>1. CASE Spent(c)
      BY <1>1, <1>2, <1>6, <2>1, <3>1 DEF ApprovalMoves, ApprovalInv, ApprovalsSpentOnce, inputVars
    <3>2. CASE Marks(c)
      <4>1. state[approval[d]] = "used"
        BY <1>2, <2>1 DEF ApprovalInv, SpentAsApproved
      <4>2. approval'[c] = approval[c] /\ state[approval[c]] = "approved"
        BY <1>4, <3>2 DEF Marks, inputVars
      <4> QED BY <1>2, <2>1, <4>1, <4>2
    <3> QED BY <1>1, <2>1, <3>1, <3>2 DEF ApprovalMoves
  <2> QED BY <1>2, <2>1 DEF ApprovalsSpentOnce, ApprovalInv
<1>9. ApprovedByAnother'
  BY <1>1, <1>4 DEF ApprovalMoves, ApprovalInv, ApprovedByAnother
<1>10. UsedForACall'
  <2>1. ASSUME NEW a \in Approvals, state[a] = "used"
        PROVE  \E d \in Calls : UsedFor(a, d)'
    <3>1. PICK d \in Calls : UsedFor(a, d)
      BY <2>1 DEF ApprovalInv, UsedForACall
    <3>2. CASE d = c
      <4>1. stage[c] # "idle"
        BY <1>3, <3>1, <3>2 DEF UsedFor, CallFits, Before
      <4> QED BY <1>1, <3>1, <3>2, <4>1 DEF UsedFor, ApprovalMoves, inputVars
    <3>3. CASE d # c
      BY <1>2, <3>1, <3>3 DEF UsedFor
    <3> QED BY <3>2, <3>3
  <2>2. ASSUME NEW a \in Approvals, Marks(c), a = approval[c] PROVE UsedFor(a, c)'
    BY <2>2 DEF Marks, UsedFor, inputVars
  <2>3. ASSUME NEW a \in Approvals, state'[a] = "used", state[a] # "used"
        PROVE  Marks(c) /\ a = approval[c]
    BY <1>1, <1>4, <2>3 DEF ApprovalMoves
  <2>4. ASSUME NEW a \in Approvals, state'[a] = "used"
        PROVE  \E d \in Calls : UsedFor(a, d)'
    BY <2>1, <2>2, <2>3, <2>4
  <2> QED BY <2>4 DEF UsedForACall
<1> QED BY <1>7, <1>8, <1>9, <1>10 DEF ApprovalInv

\* A grant leaves an approval that was used alone, and is approved by another.
LEMMA GrantApprovals ==
  ASSUME TypeOK, ApprovalInv, GrantStep
  PROVE  ApprovalInv'
<1>1. UNCHANGED <<stage, actor, change, approval, form, plan, effect>>
  BY GrantLeavesCalls DEF inputVars
<1>2. /\ \A a \in Approvals : state'[a] = "used" <=> state[a] = "used"
      /\ \A a \in Approvals : state[a] = "used" =>
           requester'[a] = requester[a] /\ bound'[a] = bound[a] /\ before'[a] = before[a]
      /\ ApprovedByAnother'
  <2>1. CASE \E t \in Tokens, r \in Requests : IssueReAuthToken(t, r[1], r[2])
    BY <2>1 DEF IssueReAuthToken, approvalVars, ApprovalInv, ApprovedByAnother
  <2>2. ASSUME NEW x \in Approvals, NEW r \in Requests, CreateApproval(x, r[1], r[2])
        PROVE  /\ \A a \in Approvals : state'[a] = "used" <=> state[a] = "used"
               /\ \A a \in Approvals : state[a] = "used" =>
                    requester'[a] = requester[a] /\ bound'[a] = bound[a] /\ before'[a] = before[a]
               /\ ApprovedByAnother'
    BY <2>2 DEF CreateApproval, ApprovalInv, ApprovedByAnother, TypeOK
  <2>3. ASSUME NEW x \in Approvals, NEW u \in Users, ApproveApproval(x, u)
        PROVE  /\ \A a \in Approvals : state'[a] = "used" <=> state[a] = "used"
               /\ \A a \in Approvals : state[a] = "used" =>
                    requester'[a] = requester[a] /\ bound'[a] = bound[a] /\ before'[a] = before[a]
               /\ ApprovedByAnother'
    BY <2>3, EvidenceAssumption DEF ApproveApproval, ApprovalInv, ApprovedByAnother, TypeOK
  <2>4. CASE PatchPolicy \/ Tick
    BY <2>4 DEF PatchPolicy, Tick, evidenceVars, approvalVars, ApprovalInv, ApprovedByAnother
  <2> QED BY <2>1, <2>2, <2>3, <2>4 DEF GrantStep
<1>3. \A c \in Calls : Spent(c)' <=> Spent(c)
  BY <1>1 DEF Spent
<1>4. SpentAsApproved'
  BY <1>1, <1>2, <1>3 DEF ApprovalInv, SpentAsApproved
<1>5. ApprovalsSpentOnce'
  BY <1>1, <1>3 DEF ApprovalInv, ApprovalsSpentOnce
<1>6. UsedForACall'
  BY <1>1, <1>2 DEF ApprovalInv, UsedForACall, UsedFor
<1> QED BY <1>2, <1>4, <1>5, <1>6 DEF ApprovalInv

\* A token that is gone before its time has a call to answer for it.
AnswersFor(c, t) ==
  token[c] = t /\ (Holds(c) \/ effect[c] # "none" \/ form[c] = "transaction")
TokensAccounted ==
  \A t \in Tokens : owner[t] # None /\ t \notin cached /\ now < expires[t] =>
    \E c \in Calls : AnswersFor(c, t)

LEMMA CallAccounts ==
  ASSUME TypeOK, CallsFit, SpendingInv, ApprovalInv, NEW c \in Calls, CallStep(c)
  PROVE  /\ UNCHANGED <<now, owner, expires>>
         /\ \A t \in Tokens : t \notin cached' /\ now < expires[t] =>
              /\ t \in cached => AnswersFor(c, t)'
              /\ AnswersFor(c, t) => AnswersFor(c, t)'
<1> USE EvidenceAssumption DEF TypeOK, GoTo, inputVars, tokenVars, approvalVars, evidenceVars,
            AnswersFor, Holds, Spending
<1> DEFINE Answered == /\ UNCHANGED <<now, owner, expires>>
                       /\ \A t \in Tokens : t \notin cached' /\ now < expires[t] =>
                            /\ t \in cached => AnswersFor(c, t)'
                            /\ AnswersFor(c, t) => AnswersFor(c, t)'
<1>1. CallFits(c)
  BY DEF CallsFit
<1>2. ASSUME NEW r \in Requests, NEW t \in Tokens, NEW a \in Approvals,
             Begin(c, r[1], r[2], t, a)
      PROVE  Answered
  BY <1>1, <1>2 DEF Begin, CallFits, Before
<1>3. CASE Prepare(c)
  BY <1>1, <1>3 DEF Prepare, CallFits, Before
<1>4. CASE TakeLock(c)
  BY <1>1, <1>4 DEF TakeLock, CallFits, Before
<1>5. CASE Check(c)
  BY <1>1, <1>5 DEF Check, CallFits, Before
<1>6. CASE Forget(c)
  BY <1>1, <1>6 DEF Forget, CallFits, Before
<1>7. CASE LoadApproval(c)
  BY <1>1, <1>7 DEF LoadApproval, Refused, CallFits, ByApproval
<1>8. CASE Consume(c)
  BY <1>1, <1>8 DEF Consume, CallFits
<1>9. CASE CommitExport(c)
  BY <1>1, <1>9 DEF CommitExport, CallFits
<1>10. CASE DropDatabase(c) \/ Remove(c)
  BY <1>1, <1>10 DEF DropDatabase, Remove, CallFits
<1>11. CASE MutateFails(c)
  BY <1>1, <1>11 DEF MutateFails, Failed, CallFits
<1>12. CASE RestoreReAuthToken(c)
  BY <1>1, <1>12 DEF RestoreReAuthToken, CallFits
<1>13. CASE ReleaseLock(c) \/ Crash(c)
  BY <1>1, <1>13 DEF ReleaseLock, Crash, CallFits
<1> QED BY <1>2, <1>3, <1>4, <1>5, <1>6, <1>7, <1>8, <1>9, <1>10, <1>11, <1>12, <1>13 DEF CallStep

LEMMA CallKeepsAccounted ==
  ASSUME TypeOK, CallsFit, SpendingInv, ApprovalInv, TokensAccounted, NEW c \in Calls, CallStep(c)
  PROVE  TokensAccounted'
<1> SUFFICES ASSUME NEW t \in Tokens, owner'[t] # None, t \notin cached', now' < expires'[t]
             PROVE  \E d \in Calls : AnswersFor(d, t)'
  BY DEF TokensAccounted
<1>1. owner[t] # None /\ now < expires[t]
  BY CallAccounts
<1>2. CASE t \in cached
  BY <1>1, <1>2, CallAccounts
<1>3. CASE t \notin cached
  <2>1. PICK d \in Calls : AnswersFor(d, t)
    BY <1>1, <1>3 DEF TokensAccounted
  <2>2. CASE d = c
    BY <1>1, <2>1, <2>2, CallAccounts
  <2>3. CASE d # c
    <3>1. AnswersFor(d, t)'
      BY <2>1, <2>3, OthersStay DEF AnswersFor, Holds
    <3> QED BY <3>1
  <2> QED BY <2>2, <2>3
<1> QED BY <1>2, <1>3

LEMMA GrantKeepsAccounted ==
  ASSUME TypeOK, TokensAccounted, GrantStep
  PROVE  TokensAccounted'
<1> SUFFICES ASSUME NEW t \in Tokens, owner'[t] # None, t \notin cached', now' < expires'[t]
             PROVE  \E d \in Calls : AnswersFor(d, t)'
  BY DEF TokensAccounted
<1>1. now <= now' /\ now \in Nat /\ now' \in Nat
  <2>1. CASE Tick
    BY <2>1, EvidenceAssumption DEF Tick, TypeOK
  <2>2. CASE ~Tick
    BY <2>2 DEF GrantStep, IssueReAuthToken, CreateApproval, ApproveApproval, PatchPolicy, TypeOK
  <2> QED BY <2>1, <2>2
<1>2. owner[t] # None
  <2>1. CASE \E x \in Tokens, r \in Requests : IssueReAuthToken(x, r[1], r[2])
    BY <2>1 DEF IssueReAuthToken, TypeOK
  <2>2. CASE ~ \E x \in Tokens, r \in Requests : IssueReAuthToken(x, r[1], r[2])
    BY <2>2 DEF GrantStep, CreateApproval, ApproveApproval, PatchPolicy, Tick, evidenceVars, tokenVars
  <2> QED BY <2>1, <2>2
<1>3. now < expires[t] /\ t \notin cached
  BY <1>1, <1>2, GrantKeepsTokens, GrantLeavesCalls, EvidenceAssumption DEF TypeOK, Times
<1>4. PICK d \in Calls : AnswersFor(d, t)
  BY <1>2, <1>3 DEF TokensAccounted
<1>5. AnswersFor(d, t)'
  BY <1>4, GrantLeavesCalls DEF AnswersFor, Holds, inputVars
<1> QED BY <1>5

-----------------------------------------------------------------------------
\* The inductive invariant.
IInv == TypeOK /\ CallsFit /\ LockInv /\ SpendingInv /\ ApprovalInv /\ TokensAccounted

LEMMA Initially == Init => IInv
<1> SUFFICES ASSUME Init PROVE IInv
  OBVIOUS
<1>1. TypeOK
  BY InitTypes
<1>2. CallsFit
  BY DEF Init, CallsFit, CallFits, Before
<1>3. LockInv
  BY DEF Init, LockInv, TokensIssued, LocksLast, LocksExclude, InLock
<1>4. \A c \in Calls : ~Spent(c) /\ ~Gone(c)
  BY DEF Init, Spent, Gone, Spending
<1>5. SpendingInv
  BY <1>4 DEF SpendingInv, TokensGone, SpentAlone, TokensSpentOnce
<1>6. ApprovalInv
  BY <1>4 DEF Init, ApprovalInv, SpentAsApproved, ApprovalsSpentOnce, ApprovedByAnother, UsedForACall
<1>7. TokensAccounted
  BY DEF Init, TokensAccounted
<1> QED BY <1>1, <1>2, <1>3, <1>5, <1>6, <1>7 DEF IInv

LEMMA StillThere == ASSUME IInv, UNCHANGED vars PROVE IInv'
<1> USE DEF IInv, vars, tenantVars, tokenVars, approvalVars, inputVars
<1>1. TypeOK'
  BY DEF TypeOK
<1>2. CallsFit'
  BY DEF CallsFit, CallFits
<1>3. LockInv'
  BY DEF LockInv, TokensIssued, LocksLast, LocksExclude
<1>4. SpendingInv'
  BY DEF SpendingInv, TokensGone, SpentAlone, TokensSpentOnce, Gone, Spent
<1>5. ApprovalInv'
  BY DEF ApprovalInv, SpentAsApproved, ApprovalsSpentOnce, ApprovedByAnother, UsedForACall,
         UsedFor, Spent
<1>6. TokensAccounted'
  BY DEF TokensAccounted, AnswersFor, Holds
<1> QED BY <1>1, <1>2, <1>3, <1>4, <1>5, <1>6

LEMMA StepKeeps == IInv /\ [Next]_vars => IInv'
<1> SUFFICES ASSUME IInv, [Next]_vars PROVE IInv'
  OBVIOUS
<1> USE DEF IInv
<1>1. CASE UNCHANGED vars
  BY <1>1, StillThere
<1>2. CASE GrantStep
  <2>1. TypeOK'
    BY <1>2, GrantTypes DEF GrantStep
  <2>2. LockInv'
    BY <1>2, GrantLocks, GrantLeavesCalls, GrantKeepsTokens DEF inputVars
  <2> QED BY <1>2, <2>1, <2>2, GrantKeepsFitting, GrantSpending, GrantApprovals, GrantKeepsAccounted
<1>3. ASSUME NEW c \in Calls, CallStep(c) PROVE IInv'
  <2>1. TypeOK'
    BY <1>3, CallTypes DEF CallsFit, CallFits
  <2> QED BY <1>3, <2>1, CallsKeepFitting, CallLocks, CallSpending, CallApprovals,
             CallKeepsAccounted
<1> QED BY <1>1, <1>2, <1>3 DEF Next, GrantStep

\* The invariant holds in every state that can be reached.
THEOREM Kept == Spec => []IInv
BY Initially, StepKeeps, PTL DEF Spec

\* A piece of evidence pays for one change and for the one it was given for,
\* however many calls hold it, however long they take between looking at it and
\* spending it, and wherever they die (withLockedReAuthToken,
\* consumePermissionApprovalBinding).
THEOREM EvidencePays == Spec => []EvidenceBuysItsChange
<1>1. IInv => EvidenceBuysItsChange
  <2> SUFFICES ASSUME IInv PROVE EvidenceBuysItsChange
    OBVIOUS
  <2>1. EvidenceSpentOnce
    BY DEF IInv, SpendingInv, TokensSpentOnce, ApprovalInv, ApprovalsSpentOnce, EvidenceSpentOnce
  <2>2. ASSUME NEW c \in Calls, form[c] \in ByApproval, effect[c] \in {"part", "all"}
        PROVE  Spent(c)
    BY <2>2 DEF Spent, ByApproval, IInv, CallsFit, CallFits
  <2>3. ChangedAsApproved
    BY <2>2 DEF IInv, ApprovalInv, SpentAsApproved, ApprovedByAnother, ChangedAsApproved
  <2> QED BY <2>1, <2>3 DEF EvidenceBuysItsChange
<1> QED BY <1>1, Kept, PTL

\* No evidence is lost without a cause: a token gone before its time, or an
\* approval used up, has a call that made, began or tried its change, holds it or
\* died with it (restoreReAuthToken).
THEOREM NothingLost == Spec => []EvidenceNotLost
<1>1. IInv => EvidenceNotLost
  <2> SUFFICES ASSUME IInv PROVE EvidenceNotLost
    OBVIOUS
  <2>1. \A t \in Tokens : owner[t] # None /\ t \notin cached /\ now < expires[t] =>
          \E c \in Calls : token[c] = t
            /\ (Holds(c) \/ effect[c] # "none" \/ form[c] = "transaction")
    BY DEF IInv, TokensAccounted, AnswersFor
  <2>2. \A a \in Approvals : state[a] = "used" =>
          \E c \in Calls : approval[c] = a /\ form[c] \in ByApproval
            /\ (Holds(c) \/ effect[c] # "none")
    BY DEF IInv, ApprovalInv, UsedForACall, UsedFor, Holds, Spending
  <2> QED BY <2>1, <2>2 DEF EvidenceNotLost
<1> QED BY <1>1, Kept, PTL

-----------------------------------------------------------------------------
(***************************************************************************)
(* Single sign-on                                                          *)
(***************************************************************************)

\* A callback at one of these legs has the lock of its transaction, and past the first it
\* has found the transaction in the cache.
Locked == S!Working \ {"forget"}
Loaded == S!Working \ {"load"}

SignOnTypes ==
  /\ left \in [Tokens -> Nat] /\ callbackLock \in [Tokens -> Nat]
  /\ awaiting \subseteq Tokens /\ late \subseteq Tokens
  /\ code \in [Tokens -> {"none", "unused", "spent", "lost"}]
  /\ leg \in [Calls -> S!Stages] /\ of \in [Calls -> Tokens \union {None}]
  /\ account \in [Calls -> Names \union {None}] /\ held \in [Calls -> Nat]
  /\ accounts \subseteq Names /\ binding \in Names \union {None} /\ doubled \in BOOLEAN
  /\ verified \subseteq Tokens /\ logins \in [Tokens -> 0..2]

\* A callback is of a transaction that was created, and one that has used it up, or found
\* it used up, finds it gone.
CallbackFits(c) ==
  /\ leg[c] \in S!Working => of[c] \in Tokens /\ code[of[c]] # "none"
  /\ leg[c] \in {"grant", "forget"} => of[c] \notin awaiting
  /\ leg[c] = "create" => account[c] \in Names
CodesFit == \A t \in Tokens : code[t] = "none" => t \notin awaiting /\ logins[t] = 0

\* While no callback of a transaction outlasts its lock, whoever holds the lock is alone
\* with it; one callback at a time is past the cache, and none after a login.
LockOutlasts(c) == leg[c] \in Locked => held[c] > 0 /\ held[c] <= callbackLock[of[c]]
InTime(c) == leg[c] \in S!Working /\ of[c] \notin late
LoginsFit ==
  /\ \A c \in Calls : InTime(c) /\ leg[c] \in Loaded => logins[of[c]] = 0
  /\ \A t \in Tokens \ late : logins[t] > 0 => t \notin awaiting /\ logins[t] = 1
Alone ==
  /\ LoginsFit
  /\ \A c \in Calls : InTime(c) => LockOutlasts(c) /\ held[c] > 0
  /\ \A c, d \in Calls : c # d /\ InTime(c) /\ InTime(d) /\ of[c] = of[d] =>
       ~(leg[c] \in Locked /\ leg[d] \in Locked) /\ ~(leg[c] \in Loaded /\ leg[d] \in Loaded)

\* Claims are kept, or about to be.
Remembered ==
  \A t \in awaiting : code[t] = "spent" =>
    t \in verified \/ \E c \in Calls : of[c] = t /\ leg[c] = "store"

\* Unless an account was made while another call had found none, the person has the one
\* named after the subject, or none, and whoever looks for a name has found none.
FirstName ==
  SubjectFits /\ ~doubled =>
    /\ accounts \subseteq {1}
    /\ \A c \in Calls : /\ leg[c] = "name" => accounts = {}
                        /\ leg[c] = "create" => account[c] = 1

SignOnInv ==
  /\ SignOnTypes /\ CodesFit /\ Alone /\ Remembered /\ FirstName
  /\ \A c \in Calls : CallbackFits(c)

LEMMA SignOnNumbers ==
  /\ None \notin Tokens /\ 1 \in Names /\ Names \subseteq Nat \ {0}
  /\ LockTtl \in Nat /\ LockTtl > 0 /\ Lifetime \in Nat /\ Lifetime > 0
BY SignOnAssumption DEF S!SignOnAssumption

LEMMA SignOnFirst == S!Init => SignOnInv
<1> SUFFICES ASSUME S!Init PROVE SignOnInv
  OBVIOUS
<1>1. left \in [Tokens -> Nat] /\ callbackLock \in [Tokens -> Nat] /\ logins \in [Tokens -> 0..2]
  BY DEF S!Init
<1>2. leg \in [Calls -> S!Stages] /\ of \in [Calls -> Tokens \union {None}]
  BY DEF S!Init, S!Stages
<1>3. account \in [Calls -> Names \union {None}] /\ held \in [Calls -> Nat]
  BY DEF S!Init
<1>4. code \in [Tokens -> {"none", "unused", "spent", "lost"}]
  BY DEF S!Init
<1>5. /\ awaiting \subseteq Tokens /\ late \subseteq Tokens /\ verified \subseteq Tokens
      /\ accounts \subseteq Names /\ binding \in Names \union {None} /\ doubled \in BOOLEAN
  BY DEF S!Init
<1>6. SignOnTypes
  BY <1>1, <1>2, <1>3, <1>4, <1>5 DEF SignOnTypes
<1>7. CodesFit /\ Remembered /\ FirstName
  BY DEF S!Init, CodesFit, Remembered, FirstName
<1>8. \A c \in Calls : leg[c] = "idle"
  BY DEF S!Init
<1>9. Alone
  BY <1>8 DEF S!Init, Alone, LoginsFit, InTime, S!Working
<1>10. \A c \in Calls : CallbackFits(c)
  BY <1>8 DEF CallbackFits, S!Working
<1> QED BY <1>6, <1>7, <1>9, <1>10 DEF SignOnInv

\* What a step of a callback leaves alone, and what it has to be for the others to be as
\* alone as they were: it goes on, or ends, and gives the lock up only if it has it.
SameCallback(d) ==
  leg'[d] = leg[d] /\ of'[d] = of[d] /\ account'[d] = account[d] /\ held'[d] = held[d]
GoesOn(c) ==
  /\ \A d \in Calls \ {c} : SameCallback(d)
  /\ leg'[c] \in S!Working => leg[c] \in S!Working /\ of'[c] = of[c] /\ held'[c] = held[c]
  /\ leg'[c] \in Locked => leg[c] \in Locked
  /\ leg'[c] \in Loaded => leg[c] \in Loaded
GivesLockUp(c) ==
  /\ leg[c] \in Locked /\ leg'[c] \notin Locked
  /\ \A t \in Tokens \ {of[c]} : callbackLock'[t] = callbackLock[t]

LEMMA AloneStill ==
  ASSUME SignOnInv, NEW c \in Calls, GoesOn(c),
         callbackLock' = callbackLock \/ GivesLockUp(c),
         logins' = logins \/ LoginsFit', awaiting' \subseteq awaiting, late' = late
  PROVE  Alone'
<1>1. \A d \in Calls : leg[d] \in S!Working => of[d] \in Tokens
  BY DEF SignOnInv, CallbackFits
<1>2. \A d \in Calls : InTime(d)' => /\ InTime(d) /\ of'[d] = of[d] /\ held'[d] = held[d]
                                     /\ leg'[d] \in Locked => leg[d] \in Locked
                                     /\ leg'[d] \in Loaded => leg[d] \in Loaded
  BY DEF InTime, GoesOn, SameCallback
<1>3. \A d \in Calls : InTime(d)' => LockOutlasts(d)' /\ held'[d] > 0
  <2> SUFFICES ASSUME NEW d \in Calls, InTime(d)' PROVE LockOutlasts(d)' /\ held'[d] > 0
    OBVIOUS
  <2>1. InTime(d) /\ LockOutlasts(d) /\ held[d] > 0
    BY <1>2 DEF SignOnInv, Alone
  <2>2. CASE callbackLock' = callbackLock
    BY <1>2, <2>1, <2>2 DEF LockOutlasts
  <2>3. CASE GivesLockUp(c) /\ d = c
    BY <1>2, <2>1, <2>3 DEF LockOutlasts, GivesLockUp
  <2>4. CASE GivesLockUp(c) /\ d # c
    <3>1. leg[d] \in Locked => of[d] # of[c]
      BY <2>1, <2>4 DEF SignOnInv, Alone, InTime, Locked, GivesLockUp
    <3>2. leg[d] \in Locked => callbackLock'[of[d]] = callbackLock[of[d]]
      BY <1>1, <2>1, <2>4, <3>1 DEF GivesLockUp, Locked
    <3> QED BY <1>2, <2>1, <3>2 DEF LockOutlasts
  <2> QED BY <2>2, <2>3, <2>4
<1>4. LoginsFit'
  BY <1>2 DEF SignOnInv, Alone, LoginsFit
<1>5. \A d, e \in Calls : d # e /\ InTime(d)' /\ InTime(e)' /\ of'[d] = of'[e] =>
        ~(leg'[d] \in Locked /\ leg'[e] \in Locked) /\ ~(leg'[d] \in Loaded /\ leg'[e] \in Loaded)
  BY <1>2 DEF SignOnInv, Alone
<1> QED BY <1>3, <1>4, <1>5 DEF Alone

\* A callback that moves on in the middle of a login.
Middle == {"claims", "exchange", "find", "by name", "name", "create", "bind", "insert", "update",
           "consume"}
MovesOn(c, s) ==
  /\ leg[c] \in Middle /\ s \in Middle /\ leg' = [leg EXCEPT ![c] = s]
  /\ UNCHANGED <<left, awaiting, verified, callbackLock, code, of, held, logins, late>>

LEMMA Moved ==
  ASSUME SignOnInv, NEW c \in Calls, NEW s, MovesOn(c, s), account' \in [Calls -> Names \union {None}],
         \A d \in Calls \ {c} : account'[d] = account[d], s = "create" => account'[c] \in Names,
         accounts' \subseteq Names, binding' \in Names \union {None}, doubled' \in BOOLEAN,
         FirstName'
  PROVE  SignOnInv'
<1>1. leg' \in [Calls -> S!Stages]
  BY DEF SignOnInv, SignOnTypes, MovesOn, Middle, S!Stages, S!Working
<1>2. SignOnTypes'
  BY <1>1 DEF SignOnInv, SignOnTypes, MovesOn
<1>3. leg'[c] = s /\ \A d \in Calls \ {c} : leg'[d] = leg[d]
  BY DEF SignOnInv, SignOnTypes, MovesOn
<1>4. GoesOn(c)
  BY <1>3 DEF GoesOn, SameCallback, MovesOn, Middle, Locked, Loaded, S!Working
<1>5. Alone'
  BY <1>4, AloneStill DEF MovesOn
<1>6. CodesFit'
  BY DEF SignOnInv, CodesFit, MovesOn
<1>7. \A d \in Calls : leg[d] = "store" => leg'[d] = "store"
  BY <1>3 DEF MovesOn, Middle
<1>8. Remembered'
  BY <1>7 DEF SignOnInv, Remembered, MovesOn
<1>9. \A d \in Calls : CallbackFits(d)'
  <2> SUFFICES ASSUME NEW d \in Calls PROVE CallbackFits(d)'
    OBVIOUS
  <2>1. of'[d] = of[d] /\ code' = code /\ awaiting' = awaiting
    BY DEF MovesOn
  <2>2. CASE d = c
    BY <1>3, <2>1, <2>2 DEF SignOnInv, CallbackFits, MovesOn, Middle, S!Working
  <2>3. CASE d # c
    BY <1>3, <2>1, <2>3 DEF SignOnInv, CallbackFits
  <2> QED BY <2>2, <2>3
<1> QED BY <1>2, <1>5, <1>6, <1>8, <1>9 DEF SignOnInv

\* A callback that ends early: refused, or its process died.  One that was about to keep the
\* claims has lost them.
Abandons(c) ==
  /\ S!End(c)
  /\ \/ callbackLock' = callbackLock
     \/ leg[c] \in Locked /\ callbackLock' = [callbackLock EXCEPT ![of[c]] = 0]
  /\ \/ leg[c] # "store" /\ code' = code
     \/ of[c] \in Tokens /\ code[of[c]] # "none" /\ code' = [code EXCEPT ![of[c]] = "lost"]
  /\ UNCHANGED <<left, awaiting, verified, accounts, binding, doubled, logins, late>>

LEMMA Abandoned ==
  ASSUME SignOnInv, NEW c \in Calls, Abandons(c)
  PROVE  SignOnInv'
<1> USE DEF S!End, S!GoTo
<1>1. leg' \in [Calls -> S!Stages] /\ of' \in [Calls -> Tokens \union {None}]
  BY DEF SignOnInv, SignOnTypes, Abandons, S!Stages
<1>2. account' \in [Calls -> Names \union {None}] /\ held' \in [Calls -> Nat]
  BY DEF SignOnInv, SignOnTypes, Abandons
<1>3. callbackLock' \in [Tokens -> Nat]
  BY DEF SignOnInv, SignOnTypes, Abandons
<1>4. code' \in [Tokens -> {"none", "unused", "spent", "lost"}]
  BY DEF SignOnInv, SignOnTypes, Abandons
<1>5. SignOnTypes'
  BY <1>1, <1>2, <1>3, <1>4 DEF SignOnInv, SignOnTypes, Abandons
<1>6. leg'[c] = "idle" /\ \A d \in Calls \ {c} : SameCallback(d)
  BY DEF SignOnInv, SignOnTypes, Abandons, SameCallback
<1>7. GoesOn(c)
  BY <1>6 DEF GoesOn, Locked, Loaded, S!Working
<1>8. callbackLock' = callbackLock \/ GivesLockUp(c)
  BY <1>6 DEF Abandons, GivesLockUp, SignOnInv, SignOnTypes, Locked, S!Working
<1>9. Alone'
  BY <1>7, <1>8, AloneStill DEF Abandons
<1>10. \A t \in Tokens : /\ code'[t] = "none" => code[t] = "none"
                         /\ code[t] = "none" => code'[t] = "none"
  BY DEF Abandons, SignOnInv, SignOnTypes
<1>11. CodesFit'
  BY <1>10 DEF SignOnInv, CodesFit, Abandons
<1>12. Remembered'
  <2> SUFFICES ASSUME NEW t \in awaiting, code'[t] = "spent", t \notin verified
               PROVE  \E d \in Calls : of'[d] = t /\ leg'[d] = "store"
    BY DEF Remembered, Abandons
  <2>1. code[t] = "spent" /\ t \in Tokens /\ ~(leg[c] = "store" /\ of[c] = t)
    BY DEF Abandons, SignOnInv, SignOnTypes
  <2>2. PICK d \in Calls : of[d] = t /\ leg[d] = "store"
    BY <2>1 DEF SignOnInv, Remembered
  <2> QED BY <1>6, <2>1, <2>2 DEF SameCallback
<1>13. FirstName'
  BY <1>6 DEF SignOnInv, FirstName, SameCallback, Abandons
<1>14. \A d \in Calls : CallbackFits(d)'
  <2> SUFFICES ASSUME NEW d \in Calls, leg'[d] \in S!Working PROVE CallbackFits(d)'
    <3>1. ASSUME NEW d \in Calls, leg'[d] \notin S!Working PROVE CallbackFits(d)'
      BY <3>1 DEF CallbackFits, S!Working
    <3> QED BY <3>1
  <2>1. d # c /\ SameCallback(d)
    BY <1>6 DEF S!Working
  <2>2. /\ of[d] \in Tokens /\ code[of[d]] # "none"
        /\ leg[d] \in {"grant", "forget"} => of[d] \notin awaiting
        /\ leg[d] = "create" => account[d] \in Names
    BY <2>1 DEF SignOnInv, CallbackFits, SameCallback
  <2> QED BY <1>10, <2>1, <2>2 DEF CallbackFits, SameCallback, Abandons
<1> QED BY <1>5, <1>9, <1>11, <1>12, <1>13, <1>14 DEF SignOnInv

LEMMA CallRefused ==
  \A c \in Calls :
    SignOnInv /\ leg[c] \in Locked \ {"store"} /\ S!Refuses(c) => SignOnInv'
<1> SUFFICES ASSUME SignOnInv, NEW c \in Calls, leg[c] \in Locked \ {"store"}, S!Refuses(c)
             PROVE  SignOnInv'
  OBVIOUS
<1>1. Abandons(c)
  BY DEF Abandons, S!Refuses, S!Refuse, S!Unlocked, S!KeptOnRefusal, S!accountVars
<1> QED BY <1>1, Abandoned

LEMMA CallMoves ==
  ASSUME SignOnInv, NEW c \in Calls, NEW s, leg[c] \in Middle, s \in Middle \ {"create"}, S!Move(c, s),
         s = "name" => (SubjectFits /\ ~doubled => accounts = {})
  PROVE  SignOnInv'
<1>1. MovesOn(c, s) /\ UNCHANGED <<account, accounts, binding, doubled>>
  BY DEF MovesOn, S!Move, S!GoTo, S!cacheVars, S!accountVars
<1>2. leg'[c] = s /\ \A d \in Calls \ {c} : leg'[d] = leg[d]
  BY <1>1 DEF SignOnInv, SignOnTypes, MovesOn
<1>3. FirstName'
  BY <1>1, <1>2 DEF SignOnInv, FirstName
<1>4. account' \in [Calls -> Names \union {None}] /\ \A d \in Calls \ {c} : account'[d] = account[d]
  BY <1>1 DEF SignOnInv, SignOnTypes
<1>5. accounts' \subseteq Names /\ binding' \in Names \union {None} /\ doubled' \in BOOLEAN
  BY <1>1 DEF SignOnInv, SignOnTypes
<1> QED BY <1>1, <1>3, <1>4, <1>5, Moved

LEMMA CallChooses ==
  ASSUME SignOnInv, NEW c \in Calls, NEW s, leg[c] \in Middle, s \in Middle \ {"name"},
         NEW n \in Names, S!Choose(c, n, s),
         s = "create" => (SubjectFits /\ ~doubled => n = 1)
  PROVE  SignOnInv'
<1>1. MovesOn(c, s) /\ UNCHANGED <<accounts, binding, doubled>> /\ account' = [account EXCEPT ![c] = n]
  BY DEF MovesOn, S!Choose, S!GoTo, S!cacheVars, S!accountVars
<1>2. leg'[c] = s /\ \A d \in Calls \ {c} : leg'[d] = leg[d]
  BY <1>1 DEF SignOnInv, SignOnTypes, MovesOn
<1>3. /\ account' \in [Calls -> Names \union {None}]
      /\ account'[c] = n /\ \A d \in Calls \ {c} : account'[d] = account[d]
  BY <1>1 DEF SignOnInv, SignOnTypes
<1>4. FirstName'
  BY <1>1, <1>2, <1>3 DEF SignOnInv, FirstName
<1>5. accounts' \subseteq Names /\ binding' \in Names \union {None} /\ doubled' \in BOOLEAN
  BY <1>1 DEF SignOnInv, SignOnTypes
<1> QED BY <1>1, <1>3, <1>4, <1>5, Moved

LEMMA CreateKept ==
  ASSUME SignOnInv, NEW t \in Tokens, S!Create(t)
  PROVE  SignOnInv'
<1>1. /\ code[t] = "none" /\ code' = [code EXCEPT ![t] = "unused"]
      /\ awaiting' = awaiting \union {t} /\ left' = [left EXCEPT ![t] = Lifetime]
      /\ UNCHANGED <<verified, callbackLock, accounts, binding, doubled, leg, of, account, held,
                     logins, late>>
  BY DEF S!Create, S!accountVars, S!callVars
<1>2. SignOnTypes'
  <2>1. left' \in [Tokens -> Nat]
    BY <1>1, SignOnNumbers DEF SignOnInv, SignOnTypes
  <2>2. code' \in [Tokens -> {"none", "unused", "spent", "lost"}]
    BY <1>1 DEF SignOnInv, SignOnTypes
  <2> QED BY <1>1, <2>1, <2>2 DEF SignOnInv, SignOnTypes
<1>3. code'[t] = "unused" /\ \A u \in Tokens \ {t} : code'[u] = code[u]
  BY <1>1 DEF SignOnInv, SignOnTypes
<1>4. CodesFit' /\ Remembered'
  BY <1>1, <1>3 DEF SignOnInv, SignOnTypes, CodesFit, Remembered
<1>5. \A c \in Calls : leg[c] \in S!Working => of[c] \in Tokens \ {t}
  BY <1>1 DEF SignOnInv, CallbackFits
<1>6. \A c \in Calls : CallbackFits(c)'
  BY <1>1, <1>3, <1>5 DEF SignOnInv, CallbackFits, S!Working
<1>7. logins[t] = 0
  BY <1>1 DEF SignOnInv, CodesFit
<1>8. Alone'
  BY <1>1, <1>7 DEF SignOnInv, Alone, LoginsFit, InTime, LockOutlasts
<1>9. FirstName'
  BY <1>1 DEF SignOnInv, FirstName
<1> QED BY <1>2, <1>4, <1>6, <1>8, <1>9 DEF SignOnInv

LEMMA TakeLockKept ==
  ASSUME SignOnInv, NEW c \in Calls, NEW t \in Tokens, S!TakeLock(c, t)
  PROVE  SignOnInv'
<1>1. /\ leg[c] = "idle" /\ code[t] # "none" /\ callbackLock[t] = 0
      /\ of' = [of EXCEPT ![c] = t] /\ leg' = [leg EXCEPT ![c] = "load"]
      /\ callbackLock' = [callbackLock EXCEPT ![t] = LockTtl] /\ held' = [held EXCEPT ![c] = LockTtl]
      /\ UNCHANGED <<left, awaiting, verified, code, accounts, binding, doubled, account, logins, late>>
  BY DEF S!TakeLock, S!LockFree, S!GoTo, S!accountVars
<1>2. SignOnTypes'
  <2>1. callbackLock' \in [Tokens -> Nat] /\ held' \in [Calls -> Nat]
    BY <1>1, SignOnNumbers DEF SignOnInv, SignOnTypes
  <2>2. of' \in [Calls -> Tokens \union {None}] /\ leg' \in [Calls -> S!Stages]
    BY <1>1 DEF SignOnInv, SignOnTypes, S!Stages, S!Working
  <2> QED BY <1>1, <2>1, <2>2 DEF SignOnInv, SignOnTypes
<1>3. leg'[c] = "load" /\ of'[c] = t /\ held'[c] = LockTtl /\ callbackLock'[t] = LockTtl
  BY <1>1 DEF SignOnInv, SignOnTypes
<1>4. \A d \in Calls \ {c} : SameCallback(d)
  BY <1>1 DEF SignOnInv, SignOnTypes, SameCallback
<1>5. \A u \in Tokens \ {t} : callbackLock'[u] = callbackLock[u]
  BY <1>1 DEF SignOnInv, SignOnTypes
<1>6. \A d \in Calls \ {c} : InTime(d)' => InTime(d)
  BY <1>1, <1>4 DEF InTime, SameCallback
<1>7. \A d \in Calls \ {c} : InTime(d) /\ leg[d] \in Locked => of[d] \in Tokens \ {t}
  <2> SUFFICES ASSUME NEW d \in Calls \ {c}, InTime(d), leg[d] \in Locked PROVE of[d] \in Tokens \ {t}
    OBVIOUS
  <2>1. of[d] \in Tokens /\ held[d] \in Nat /\ held[d] > 0 /\ held[d] <= callbackLock[of[d]]
    BY DEF SignOnInv, CallbackFits, Alone, LockOutlasts, InTime, SignOnTypes
  <2> QED BY <1>1, <2>1
<1>8. \A d \in Calls : InTime(d)' => LockOutlasts(d)' /\ held'[d] > 0
  <2> SUFFICES ASSUME NEW d \in Calls, InTime(d)' PROVE LockOutlasts(d)' /\ held'[d] > 0
    OBVIOUS
  <2>1. CASE d = c
    BY <1>3, <2>1, SignOnNumbers DEF LockOutlasts
  <2>2. CASE d # c
    BY <1>4, <1>5, <1>6, <1>7, <2>2 DEF SignOnInv, Alone, LockOutlasts, SameCallback
  <2> QED BY <2>1, <2>2
<1>9. LoginsFit'
  BY <1>1, <1>3, <1>4, <1>6 DEF SignOnInv, Alone, LoginsFit, SameCallback, Loaded
<1>10. \A d, e \in Calls : d # e /\ InTime(d)' /\ InTime(e)' /\ of'[d] = of'[e] =>
        ~(leg'[d] \in Locked /\ leg'[e] \in Locked) /\ ~(leg'[d] \in Loaded /\ leg'[e] \in Loaded)
  <2> SUFFICES ASSUME NEW d \in Calls, NEW e \in Calls, d # e, InTime(d)', InTime(e)', of'[d] = of'[e]
               PROVE  /\ ~(leg'[d] \in Locked /\ leg'[e] \in Locked)
                      /\ ~(leg'[d] \in Loaded /\ leg'[e] \in Loaded)
    OBVIOUS
  <2>1. CASE d # c /\ e # c
    BY <1>4, <1>6, <2>1 DEF SignOnInv, Alone, SameCallback
  <2>2. CASE d = c
    BY <1>3, <1>4, <1>6, <1>7, <2>2 DEF SameCallback, Loaded
  <2>3. CASE e = c
    BY <1>3, <1>4, <1>6, <1>7, <2>3 DEF SameCallback, Loaded
  <2> QED BY <2>1, <2>2, <2>3
<1>11. Alone'
  BY <1>8, <1>9, <1>10 DEF Alone
<1>12. CodesFit' /\ FirstName'
  BY <1>1, <1>3, <1>4 DEF SignOnInv, CodesFit, FirstName, SameCallback
<1>13. Remembered'
  BY <1>1, <1>4 DEF SignOnInv, Remembered, SameCallback
<1>14. \A d \in Calls : CallbackFits(d)'
  <2> SUFFICES ASSUME NEW d \in Calls PROVE CallbackFits(d)'
    OBVIOUS
  <2>1. CASE d = c
    BY <1>1, <1>3, <2>1 DEF CallbackFits
  <2>2. CASE d # c
    BY <1>1, <1>4, <2>2 DEF SignOnInv, CallbackFits, SameCallback
  <2> QED BY <2>1, <2>2
<1> QED BY <1>2, <1>11, <1>12, <1>13, <1>14 DEF SignOnInv

LEMMA LoadKept ==
  ASSUME SignOnInv, NEW c \in Calls, S!Load(c)
  PROVE  SignOnInv'
<1>1. leg[c] = "load"
  BY DEF S!Load
<1>2. CASE S!Refuses(c)
  BY <1>1, <1>2, CallRefused DEF Locked, S!Working
<1>3. CASE of[c] \in awaiting /\ S!Move(c, "claims")
  <2>1. /\ leg' = [leg EXCEPT ![c] = "claims"]
        /\ UNCHANGED <<left, awaiting, verified, callbackLock, code, accounts, binding, doubled, of,
                       account, held, logins, late>>
    BY <1>3 DEF S!Move, S!GoTo, S!cacheVars, S!accountVars
  <2>2. SignOnTypes'
    BY <2>1 DEF SignOnInv, SignOnTypes, S!Stages, S!Working
  <2>3. leg'[c] = "claims" /\ \A d \in Calls \ {c} : leg'[d] = leg[d]
    BY <2>1 DEF SignOnInv, SignOnTypes
  <2>4. CodesFit' /\ FirstName'
    BY <2>1, <2>3 DEF SignOnInv, CodesFit, FirstName
  <2>5. Remembered'
    BY <1>1, <2>1, <2>3 DEF SignOnInv, Remembered
  <2>6. \A d \in Calls : CallbackFits(d)'
    <3> SUFFICES ASSUME NEW d \in Calls PROVE CallbackFits(d)'
      OBVIOUS
    <3>1. CASE d = c
      BY <1>1, <2>1, <2>3, <3>1 DEF SignOnInv, CallbackFits, S!Working
    <3>2. CASE d # c
      BY <2>1, <2>3, <3>2 DEF SignOnInv, CallbackFits
    <3> QED BY <3>1, <3>2
  <2>7. \A d \in Calls : /\ InTime(d)' => InTime(d)
                         /\ leg'[d] \in Locked => leg[d] \in Locked
                         /\ d # c /\ leg'[d] \in Loaded => leg[d] \in Loaded
    BY <1>1, <2>1, <2>3 DEF InTime, Locked, S!Working
  <2>8. of[c] \in Tokens /\ logins[of[c]] \in 0..2
    BY <1>1 DEF SignOnInv, CallbackFits, S!Working, SignOnTypes
  <2>9. of[c] \notin late => logins[of[c]] = 0
    BY <1>3, <2>8 DEF SignOnInv, Alone, LoginsFit
  <2>10. LoginsFit'
    BY <2>1, <2>7, <2>9 DEF SignOnInv, Alone, LoginsFit, InTime
  <2>11. \A d \in Calls \ {c} : InTime(c)' /\ InTime(d)' /\ of[d] = of[c] => leg[d] \notin Loaded
    <3> SUFFICES ASSUME NEW d \in Calls \ {c}, InTime(c)', InTime(d)', of[d] = of[c], leg[d] \in Loaded
                 PROVE  FALSE
      OBVIOUS
    <3>1. InTime(c) /\ InTime(d) /\ leg[c] \in Locked
      BY <1>1, <2>7 DEF Locked, S!Working
    <3>2. leg[d] \notin Locked
      BY <3>1 DEF SignOnInv, Alone
    <3>3. leg[d] = "forget"
      BY <3>1, <3>2 DEF InTime, Locked
    <3> QED BY <1>3, <3>3 DEF SignOnInv, CallbackFits
  <2>12. \A d, e \in Calls : d # e /\ InTime(d)' /\ InTime(e)' /\ of'[d] = of'[e] =>
           ~(leg'[d] \in Locked /\ leg'[e] \in Locked) /\ ~(leg'[d] \in Loaded /\ leg'[e] \in Loaded)
    <3> SUFFICES ASSUME NEW d \in Calls, NEW e \in Calls, d # e, InTime(d)', InTime(e)', of[d] = of[e]
                 PROVE  /\ ~(leg'[d] \in Locked /\ leg'[e] \in Locked)
                        /\ ~(leg'[d] \in Loaded /\ leg'[e] \in Loaded)
      BY <2>1
    <3>1. ~(leg'[d] \in Locked /\ leg'[e] \in Locked)
      BY <2>7 DEF SignOnInv, Alone
    <3>2. CASE d # c /\ e # c
      BY <2>7, <3>1, <3>2 DEF SignOnInv, Alone
    <3>3. CASE d = c \/ e = c
      BY <2>3, <2>11, <3>1, <3>3
    <3> QED BY <3>2, <3>3
  <2>13. \A d \in Calls : InTime(d)' => LockOutlasts(d)' /\ held'[d] > 0
    BY <2>1, <2>7 DEF SignOnInv, Alone, LockOutlasts
  <2>14. Alone'
    BY <2>10, <2>12, <2>13 DEF Alone
  <2> QED BY <2>2, <2>4, <2>5, <2>6, <2>14 DEF SignOnInv
<1> QED BY <1>2, <1>3 DEF S!Load

LEMMA LoadVerifiedKept ==
  ASSUME SignOnInv, NEW c \in Calls, S!LoadVerified(c)
  PROVE  SignOnInv'
<1>1. leg[c] = "claims" /\ leg[c] \in Middle /\ leg[c] \in Locked \ {"store"}
  BY DEF S!LoadVerified, Middle, Locked, S!Working
<1>2. CASE S!Refuses(c)
  BY <1>1, <1>2, CallRefused
<1>3. CASE S!Move(c, "find")
  BY <1>1, <1>3, CallMoves DEF Middle
<1>4. CASE S!Move(c, "exchange")
  BY <1>1, <1>4, CallMoves DEF Middle
<1> QED BY <1>2, <1>3, <1>4 DEF S!LoadVerified

LEMMA ExchangeKept ==
  ASSUME SignOnInv, NEW c \in Calls, S!Exchange(c)
  PROVE  SignOnInv'
<1>1. leg[c] = "exchange" /\ leg[c] \in Locked \ {"store"} /\ of[c] \in Tokens
  BY DEF S!Exchange, Locked, S!Working, SignOnInv, CallbackFits
<1>2. CASE S!Refuses(c)
  BY <1>1, <1>2, CallRefused
<1>3. CASE code[of[c]] = "unused" /\ code' = [code EXCEPT ![of[c]] = "lost"] /\ S!Refuse(c)
  <2>1. Abandons(c)
    BY <1>1, <1>3 DEF Abandons, S!Refuse, S!Unlocked, S!KeptOnRefusal, S!accountVars
  <2> QED BY <2>1, Abandoned
<1>4. CASE /\ code[of[c]] = "unused"
           /\ code' = [code EXCEPT ![of[c]] = "spent"] /\ S!GoTo(c, "store")
           /\ UNCHANGED <<S!cacheVars, S!accountVars, of, account, held, logins, late>>
  <2>1. /\ leg' = [leg EXCEPT ![c] = "store"] /\ code' = [code EXCEPT ![of[c]] = "spent"]
        /\ UNCHANGED <<left, awaiting, verified, callbackLock, accounts, binding, doubled, of,
                       account, held, logins, late>>
    BY <1>4 DEF S!GoTo, S!cacheVars, S!accountVars
  <2>2. SignOnTypes'
    <3>1. code' \in [Tokens -> {"none", "unused", "spent", "lost"}]
      BY <2>1 DEF SignOnInv, SignOnTypes
    <3>2. leg' \in [Calls -> S!Stages]
      BY <2>1 DEF SignOnInv, SignOnTypes, S!Stages, S!Working
    <3> QED BY <2>1, <3>1, <3>2 DEF SignOnInv, SignOnTypes
  <2>3. leg'[c] = "store" /\ \A d \in Calls \ {c} : leg'[d] = leg[d]
    BY <2>1 DEF SignOnInv, SignOnTypes
  <2>4. code'[of[c]] = "spent" /\ \A t \in Tokens \ {of[c]} : code'[t] = code[t]
    BY <1>1, <2>1 DEF SignOnInv, SignOnTypes
  <2>5. CodesFit' /\ FirstName'
    BY <2>1, <2>3, <2>4 DEF SignOnInv, CodesFit, FirstName
  <2>6. Remembered'
    <3> SUFFICES ASSUME NEW t \in awaiting, code'[t] = "spent", t \notin verified
                 PROVE  \E d \in Calls : of[d] = t /\ leg'[d] = "store"
      BY <2>1 DEF Remembered
    <3>1. CASE t = of[c]
      BY <2>3, <3>1
    <3>2. CASE t # of[c]
      <4>1. code[t] = "spent"
        BY <2>4, <3>2 DEF SignOnInv, SignOnTypes
      <4>2. PICK d \in Calls : of[d] = t /\ leg[d] = "store"
        BY <4>1 DEF SignOnInv, Remembered
      <4> QED BY <2>3, <3>2, <4>2
    <3> QED BY <3>1, <3>2
  <2>7. \A d \in Calls : CallbackFits(d)'
    <3> SUFFICES ASSUME NEW d \in Calls PROVE CallbackFits(d)'
      OBVIOUS
    <3>1. \A t \in Tokens : code[t] # "none" => code'[t] # "none"
      BY <2>4
    <3>2. CASE d = c
      BY <1>1, <2>1, <2>3, <2>4, <3>2 DEF CallbackFits
    <3>3. CASE d # c
      BY <2>1, <2>3, <3>1, <3>3 DEF SignOnInv, CallbackFits
    <3> QED BY <3>2, <3>3
  <2>8. GoesOn(c)
    BY <1>1, <2>1, <2>3 DEF GoesOn, SameCallback, Locked, Loaded, S!Working
  <2>9. Alone'
    BY <2>1, <2>8, AloneStill
  <2> QED BY <2>2, <2>5, <2>6, <2>7, <2>9 DEF SignOnInv
<1> QED BY <1>2, <1>3, <1>4 DEF S!Exchange

LEMMA StoreVerifiedKept ==
  ASSUME SignOnInv, NEW c \in Calls, S!StoreVerified(c)
  PROVE  SignOnInv'
<1>1. leg[c] = "store" /\ leg[c] \in Locked /\ of[c] \in Tokens /\ code[of[c]] # "none"
  BY DEF S!StoreVerified, Locked, S!Working, SignOnInv, CallbackFits
<1>2. CASE code' = [code EXCEPT ![of[c]] = "lost"] /\ S!Refuse(c)
  <2>1. Abandons(c)
    BY <1>1, <1>2 DEF Abandons, S!Refuse, S!Unlocked, S!KeptOnRefusal, S!accountVars
  <2> QED BY <2>1, Abandoned
<1>3. CASE /\ verified' = verified \union {of[c]} /\ S!GoTo(c, "find")
           /\ UNCHANGED <<left, awaiting, callbackLock, code, S!accountVars, of, account, held>>
           /\ UNCHANGED <<logins, late>>
  <2>1. /\ leg' = [leg EXCEPT ![c] = "find"] /\ verified' = verified \union {of[c]}
        /\ UNCHANGED <<left, awaiting, code, callbackLock, accounts, binding, doubled, of,
                       account, held, logins, late>>
    BY <1>3 DEF S!GoTo, S!accountVars
  <2>2. SignOnTypes'
    BY <1>1, <2>1 DEF SignOnInv, SignOnTypes, S!Stages, S!Working
  <2>3. leg'[c] = "find" /\ \A d \in Calls \ {c} : leg'[d] = leg[d]
    BY <2>1 DEF SignOnInv, SignOnTypes
  <2>4. CodesFit' /\ FirstName'
    BY <2>1, <2>3 DEF SignOnInv, CodesFit, FirstName
  <2>5. Remembered'
    <3> SUFFICES ASSUME NEW t \in awaiting, code[t] = "spent", t \notin verified, t # of[c]
                 PROVE  \E d \in Calls : of[d] = t /\ leg'[d] = "store"
      BY <2>1 DEF Remembered
    <3>1. PICK d \in Calls : of[d] = t /\ leg[d] = "store"
      BY DEF SignOnInv, Remembered
    <3> QED BY <2>3, <3>1
  <2>6. \A d \in Calls : CallbackFits(d)'
    <3> SUFFICES ASSUME NEW d \in Calls PROVE CallbackFits(d)'
      OBVIOUS
    <3>1. CASE d = c
      BY <1>1, <2>1, <2>3, <3>1 DEF CallbackFits
    <3>2. CASE d # c
      BY <2>1, <2>3, <3>2 DEF SignOnInv, CallbackFits
    <3> QED BY <3>1, <3>2
  <2>7. GoesOn(c)
    BY <1>1, <2>1, <2>3 DEF GoesOn, SameCallback, Locked, Loaded, S!Working
  <2>8. Alone'
    BY <2>1, <2>7, AloneStill
  <2> QED BY <2>2, <2>4, <2>5, <2>6, <2>8 DEF SignOnInv
<1> QED BY <1>2, <1>3 DEF S!StoreVerified

LEMMA ConsumeKept ==
  ASSUME SignOnInv, NEW c \in Calls, S!Consume(c)
  PROVE  SignOnInv'
<1>1. leg[c] = "consume" /\ leg[c] \in Locked \ {"store"} /\ of[c] \in Tokens /\ code[of[c]] # "none"
  BY DEF S!Consume, Locked, S!Working, SignOnInv, CallbackFits
<1>2. CASE S!Refuses(c)
  BY <1>1, <1>2, CallRefused
<1>3. CASE /\ awaiting' = awaiting \ {of[c]} /\ S!GoTo(c, "grant")
           /\ UNCHANGED <<left, verified, callbackLock, code, S!accountVars, of, account, held>>
           /\ UNCHANGED <<logins, late>>
  <2>1. /\ leg' = [leg EXCEPT ![c] = "grant"] /\ awaiting' = awaiting \ {of[c]}
        /\ UNCHANGED <<left, verified, code, callbackLock, accounts, binding, doubled, of,
                       account, held, logins, late>>
    BY <1>3 DEF S!GoTo, S!accountVars
  <2>2. SignOnTypes'
    BY <1>1, <2>1 DEF SignOnInv, SignOnTypes, S!Stages, S!Working
  <2>3. leg'[c] = "grant" /\ \A d \in Calls \ {c} : leg'[d] = leg[d]
    BY <2>1 DEF SignOnInv, SignOnTypes
  <2>4. CodesFit' /\ FirstName'
    BY <2>1, <2>3 DEF SignOnInv, CodesFit, FirstName
  <2>5. Remembered'
    <3> SUFFICES ASSUME NEW t \in awaiting, code[t] = "spent", t \notin verified
                 PROVE  \E d \in Calls : of[d] = t /\ leg'[d] = "store"
      BY <2>1 DEF Remembered
    <3>1. PICK d \in Calls : of[d] = t /\ leg[d] = "store"
      BY DEF SignOnInv, Remembered
    <3> QED BY <1>1, <2>3, <3>1
  <2>6. \A d \in Calls : CallbackFits(d)'
    <3> SUFFICES ASSUME NEW d \in Calls PROVE CallbackFits(d)'
      OBVIOUS
    <3>1. CASE d = c
      BY <1>1, <2>1, <2>3, <3>1 DEF CallbackFits
    <3>2. CASE d # c
      BY <2>1, <2>3, <3>2 DEF SignOnInv, CallbackFits
    <3> QED BY <3>1, <3>2
  <2>7. GoesOn(c)
    BY <1>1, <2>1, <2>3 DEF GoesOn, SameCallback, Locked, Loaded, S!Working
  <2>8. Alone'
    BY <2>1, <2>7, AloneStill
  <2> QED BY <2>2, <2>4, <2>5, <2>6, <2>8 DEF SignOnInv
<1> QED BY <1>2, <1>3 DEF S!Consume

LEMMA ReleaseKept ==
  ASSUME SignOnInv, NEW c \in Calls, S!Release(c)
  PROVE  SignOnInv'
<1>1. leg[c] = "grant" /\ leg[c] \in Locked /\ of[c] \in Tokens
  BY DEF S!Release, Locked, S!Working, SignOnInv, CallbackFits
<1>2. /\ leg' = [leg EXCEPT ![c] = "forget"] /\ callbackLock' = [callbackLock EXCEPT ![of[c]] = 0]
      /\ UNCHANGED <<left, awaiting, verified, code, accounts, binding, doubled, of,
                     account, held, logins, late>>
  BY DEF S!Release, S!GoTo, S!accountVars, S!Unlocked
<1>3. SignOnTypes'
  <2>1. leg' \in [Calls -> S!Stages]
    BY <1>2 DEF SignOnInv, SignOnTypes, S!Stages, S!Working
  <2>2. callbackLock' \in [Tokens -> Nat]
    BY <1>2 DEF SignOnInv, SignOnTypes
  <2> QED BY <1>2, <2>1, <2>2 DEF SignOnInv, SignOnTypes
<1>4. leg'[c] = "forget" /\ \A d \in Calls \ {c} : leg'[d] = leg[d]
  BY <1>2 DEF SignOnInv, SignOnTypes
<1>5. CodesFit' /\ FirstName'
  BY <1>2, <1>4 DEF SignOnInv, CodesFit, FirstName
<1>6. Remembered'
  BY <1>1, <1>2, <1>4 DEF SignOnInv, Remembered
<1>7. \A d \in Calls : CallbackFits(d)'
  <2> SUFFICES ASSUME NEW d \in Calls PROVE CallbackFits(d)'
    OBVIOUS
  <2>1. CASE d = c
    BY <1>1, <1>2, <1>4, <2>1 DEF SignOnInv, CallbackFits, S!Working
  <2>2. CASE d # c
    BY <1>2, <1>4, <2>2 DEF SignOnInv, CallbackFits
  <2> QED BY <2>1, <2>2
<1>8. GoesOn(c) /\ GivesLockUp(c)
  BY <1>1, <1>2, <1>4
  DEF GoesOn, GivesLockUp, SameCallback, Locked, Loaded, S!Working, SignOnInv, SignOnTypes
<1>9. Alone'
  BY <1>2, <1>8, AloneStill
<1> QED BY <1>3, <1>5, <1>6, <1>7, <1>9 DEF SignOnInv

LEMMA ForgetVerifiedKept ==
  ASSUME SignOnInv, NEW c \in Calls, S!ForgetVerified(c)
  PROVE  SignOnInv'
<1>1. /\ leg[c] = "forget" /\ leg[c] \in Loaded \ Locked /\ of[c] \in Tokens
      /\ of[c] \notin awaiting /\ logins[of[c]] \in 0..2 /\ code[of[c]] # "none"
  BY DEF S!ForgetVerified, Locked, Loaded, S!Working, SignOnInv, CallbackFits, SignOnTypes
<1>2. /\ verified' = verified \ {of[c]}
      /\ logins' = [logins EXCEPT ![of[c]] = IF @ < 2 THEN @ + 1 ELSE @]
      /\ leg' = [leg EXCEPT ![c] = "idle"] /\ of' = [of EXCEPT ![c] = None]
      /\ account' = [account EXCEPT ![c] = None] /\ held' = [held EXCEPT ![c] = 0]
      /\ UNCHANGED <<left, awaiting, callbackLock, code, accounts, binding, doubled, late>>
  BY DEF S!ForgetVerified, S!End, S!GoTo, S!accountVars
<1>3. SignOnTypes'
  <2>1. leg' \in [Calls -> S!Stages] /\ of' \in [Calls -> Tokens \union {None}]
    BY <1>2 DEF SignOnInv, SignOnTypes, S!Stages
  <2>2. account' \in [Calls -> Names \union {None}] /\ held' \in [Calls -> Nat]
    BY <1>2 DEF SignOnInv, SignOnTypes
  <2>3. logins' \in [Tokens -> 0..2]
    BY <1>1, <1>2 DEF SignOnInv, SignOnTypes
  <2> QED BY <1>2, <2>1, <2>2, <2>3 DEF SignOnInv, SignOnTypes
<1>4. leg'[c] = "idle" /\ \A d \in Calls \ {c} : SameCallback(d)
  BY <1>2 DEF SignOnInv, SignOnTypes, SameCallback
<1>5. /\ \A t \in Tokens \ {of[c]} : logins'[t] = logins[t]
      /\ logins'[of[c]] = IF logins[of[c]] < 2 THEN logins[of[c]] + 1 ELSE logins[of[c]]
  BY <1>1, <1>2 DEF SignOnInv, SignOnTypes
<1>6. CodesFit' /\ FirstName'
  BY <1>1, <1>2, <1>4, <1>5 DEF SignOnInv, CodesFit, FirstName, SameCallback
<1>7. Remembered'
  <2> SUFFICES ASSUME NEW t \in awaiting, code[t] = "spent", t \notin verified'
               PROVE  \E d \in Calls : of'[d] = t /\ leg'[d] = "store"
    BY <1>2 DEF Remembered
  <2>1. t \notin verified
    BY <1>1, <1>2
  <2>2. PICK d \in Calls : of[d] = t /\ leg[d] = "store"
    BY <2>1 DEF SignOnInv, Remembered
  <2> QED BY <1>1, <1>4, <2>2 DEF SameCallback
<1>8. \A d \in Calls : CallbackFits(d)'
  <2> SUFFICES ASSUME NEW d \in Calls PROVE CallbackFits(d)'
    OBVIOUS
  <2>1. CASE d = c
    BY <1>4, <2>1 DEF CallbackFits, S!Working
  <2>2. CASE d # c
    BY <1>2, <1>4, <2>2 DEF SignOnInv, CallbackFits, SameCallback
  <2> QED BY <2>1, <2>2
<1>9. GoesOn(c)
  BY <1>4 DEF GoesOn, Locked, Loaded, S!Working
<1>10. LoginsFit'
  <2>1. ASSUME NEW d \in Calls, InTime(d)' PROVE d # c /\ InTime(d) /\ SameCallback(d)
    <3>1. d # c
      BY <1>4, <2>1 DEF InTime, S!Working
    <3> QED BY <1>2, <1>4, <2>1, <3>1 DEF InTime, SameCallback
  <2>2. ASSUME NEW d \in Calls, InTime(d)', leg'[d] \in Loaded PROVE logins'[of'[d]] = 0
    <3>1. d # c /\ InTime(d) /\ leg[d] \in Loaded /\ of'[d] = of[d] /\ of[d] \in Tokens
      BY <2>1, <2>2 DEF SameCallback, SignOnInv, CallbackFits, InTime
    <3>2. of[d] # of[c]
      BY <1>1, <3>1 DEF SignOnInv, Alone, InTime, Loaded
    <3> QED BY <1>5, <3>1, <3>2 DEF SignOnInv, Alone, LoginsFit
  <2>3. of[c] \notin late => logins[of[c]] = 0
    BY <1>1 DEF SignOnInv, Alone, LoginsFit, InTime, Loaded
  <2>4. \A t \in Tokens \ late : logins'[t] > 0 => t \notin awaiting /\ logins'[t] = 1
    <3> SUFFICES ASSUME NEW t \in Tokens \ late, logins'[t] > 0 PROVE t \notin awaiting /\ logins'[t] = 1
      OBVIOUS
    <3>1. CASE t = of[c]
      BY <1>1, <1>5, <2>3, <3>1
    <3>2. CASE t # of[c]
      BY <1>5, <3>2 DEF SignOnInv, Alone, LoginsFit
    <3> QED BY <3>1, <3>2
  <2> QED BY <1>2, <2>2, <2>4 DEF LoginsFit
<1>11. Alone'
  BY <1>2, <1>9, <1>10, AloneStill
<1> QED BY <1>3, <1>6, <1>7, <1>8, <1>11 DEF SignOnInv

LEMMA FindUserKept ==
  ASSUME SignOnInv, NEW c \in Calls,
         S!BoundUser(c) \/ S!FindByName(c) \/ S!FindByNameFails(c) \/ S!AutoCreateUsername(c)
  PROVE  SignOnInv'
<1>1. /\ leg[c] \in Middle /\ leg[c] \in Locked \ {"store"}
      /\ SignOnTypes /\ FirstName
  BY DEF S!BoundUser, S!FindByName, S!FindByNameFails, S!AutoCreateUsername, Middle, Locked, S!Working,
         SignOnInv
<1>2. CASE S!Refuses(c)
  BY <1>1, <1>2, CallRefused
<1>3. CASE S!BoundUser(c) /\ ~S!Refuses(c)
  <2>1. CASE binding # None /\ S!Choose(c, binding, "bind")
    <3>1. binding \in Names
      BY <1>1, <2>1 DEF SignOnTypes
    <3> QED BY <1>1, <2>1, <3>1, CallChooses DEF Middle
  <2>2. CASE S!Move(c, "by name")
    BY <1>1, <2>2, CallMoves DEF Middle
  <2> QED BY <1>3, <2>1, <2>2 DEF S!BoundUser
<1>4. CASE S!FindByName(c) /\ ~S!Refuses(c)
  <2>1. CASE S!NamedAfterSubject /\ S!Choose(c, 1, "bind")
    BY <1>1, <2>1, SignOnNumbers, CallChooses DEF Middle
  <2>2. CASE ~S!NamedAfterSubject /\ S!Move(c, "name")
    <3>1. SubjectFits /\ ~doubled => accounts = {}
      BY <1>1, <2>2 DEF FirstName, S!NamedAfterSubject
    <3> QED BY <1>1, <2>2, <3>1, CallMoves DEF Middle
  <2> QED BY <1>4, <2>1, <2>2 DEF S!FindByName
<1>5. CASE S!FindByNameFails(c)
  <2>1. /\ leg' = [leg EXCEPT ![c] = "name"] /\ doubled' = TRUE
        /\ UNCHANGED <<left, awaiting, verified, callbackLock, code, accounts, binding, of,
                       account, held, logins, late>>
    BY <1>5 DEF S!FindByNameFails, S!GoTo, S!cacheVars
  <2>2. MovesOn(c, "name")
    BY <1>1, <2>1 DEF MovesOn, Middle
  <2>3. FirstName'
    BY <2>1 DEF FirstName
  <2> QED BY <1>1, <2>1, <2>2, <2>3, Moved DEF SignOnTypes
<1>6. CASE S!AutoCreateUsername(c) /\ ~S!Refuses(c)
  <2>1. leg[c] = "name"
    BY <1>6 DEF S!AutoCreateUsername
  <2>2. PICK n \in Names \ accounts :
          (\A k \in Names \ accounts : n <= k) /\ S!Choose(c, n, "create")
    BY <1>6 DEF S!AutoCreateUsername
  <2>3. SubjectFits /\ ~doubled => n = 1
    <3> SUFFICES ASSUME SubjectFits, ~doubled PROVE n = 1
      OBVIOUS
    <3>1. accounts = {}
      BY <1>1, <2>1 DEF FirstName
    <3>2. n <= 1 /\ n \in Nat \ {0}
      BY <2>2, <3>1, SignOnNumbers
    <3> QED BY <3>2
  <2> QED BY <1>1, <2>2, <2>3, CallChooses DEF Middle
<1> QED BY <1>2, <1>3, <1>4, <1>5, <1>6

LEMMA CreateUserKept ==
  ASSUME SignOnInv, NEW c \in Calls, S!CreateUser(c)
  PROVE  SignOnInv'
<1>1. /\ leg[c] = "create" /\ leg[c] \in Middle /\ leg[c] \in Locked \ {"store"} /\ account[c] \in Names
      /\ SignOnTypes /\ FirstName
  BY DEF S!CreateUser, Middle, Locked, S!Working, SignOnInv, CallbackFits
<1>2. CASE S!Refuses(c)
  BY <1>1, <1>2, CallRefused
<1>3. CASE ~S!Refuses(c)
  <2>1. /\ accounts' = accounts \union {account[c]}
        /\ doubled' = (doubled \/ \E d \in Calls \ {c} : leg[d] = "name")
        /\ leg' = [leg EXCEPT ![c] = "bind"]
        /\ UNCHANGED <<left, awaiting, verified, callbackLock, code, binding, of, account, held,
                       logins, late>>
    BY <1>3 DEF S!CreateUser, S!GoTo, S!cacheVars
  <2>2. MovesOn(c, "bind")
    BY <1>1, <2>1 DEF MovesOn, Middle
  <2>3. leg'[c] = "bind" /\ \A d \in Calls \ {c} : leg'[d] = leg[d]
    BY <1>1, <2>1 DEF SignOnTypes
  <2>4. FirstName'
    <3> SUFFICES ASSUME SubjectFits, ~doubled' PROVE FirstName'
      BY DEF FirstName
    <3>1. ~doubled /\ account[c] = 1 /\ accounts \subseteq {1}
      BY <1>1, <2>1 DEF FirstName, SignOnTypes
    <3>2. \A d \in Calls : leg'[d] # "name"
      BY <2>1, <2>3
    <3>3. \A d \in Calls : leg'[d] = "create" => account'[d] = 1
      BY <1>1, <2>1, <2>3, <3>1 DEF FirstName
    <3> QED BY <2>1, <3>1, <3>2, <3>3 DEF FirstName
  <2>5. doubled' \in BOOLEAN
    BY <2>1
  <2> QED BY <1>1, <2>1, <2>2, <2>4, <2>5, Moved DEF SignOnTypes
<1> QED BY <1>2, <1>3

LEMMA BindingKept ==
  ASSUME SignOnInv, NEW c \in Calls, S!ReadBinding(c) \/ S!WriteBinding(c)
  PROVE  SignOnInv'
<1>1. /\ leg[c] \in Middle /\ leg[c] \in Locked \ {"store"}
      /\ SignOnTypes /\ FirstName
  BY DEF S!ReadBinding, S!WriteBinding, Middle, Locked, S!Working, SignOnInv
<1>2. CASE S!Refuses(c)
  BY <1>1, <1>2, CallRefused
<1>3. CASE S!ReadBinding(c) /\ ~S!Refuses(c)
  BY <1>1, <1>3, CallMoves DEF S!ReadBinding, Middle
<1>4. CASE S!WriteBinding(c) /\ ~S!Refuses(c)
  <2>1. /\ binding' = account[c] \/ binding' = binding
        /\ leg' = [leg EXCEPT ![c] = "consume"]
        /\ UNCHANGED <<left, awaiting, verified, callbackLock, code, accounts, doubled, of, account,
                       held, logins, late>>
    BY <1>4 DEF S!WriteBinding, S!GoTo, S!cacheVars
  <2>2. MovesOn(c, "consume")
    BY <1>1, <2>1 DEF MovesOn, Middle
  <2>3. leg'[c] = "consume" /\ \A d \in Calls \ {c} : leg'[d] = leg[d]
    BY <1>1, <2>1 DEF SignOnTypes
  <2>4. FirstName'
    BY <1>1, <2>1, <2>3 DEF FirstName
  <2>5. binding' \in Names \union {None}
    BY <1>1, <2>1 DEF SignOnTypes
  <2> QED BY <1>1, <2>1, <2>2, <2>4, <2>5, Moved DEF SignOnTypes
<1> QED BY <1>2, <1>3, <1>4

LEMMA DeleteBindingKept ==
  ASSUME SignOnInv, S!DeleteBinding
  PROVE  SignOnInv'
<1>1. /\ binding' = None
      /\ UNCHANGED <<left, awaiting, verified, callbackLock, code, accounts, doubled, leg, of, account,
                     held, logins, late>>
  BY DEF S!DeleteBinding, S!cacheVars, S!callVars
<1>2. SignOnTypes' /\ CodesFit' /\ Remembered' /\ FirstName'
  BY <1>1 DEF SignOnInv, SignOnTypes, CodesFit, Remembered, FirstName
<1>3. Alone'
  BY <1>1 DEF SignOnInv, Alone, LoginsFit, LockOutlasts, InTime
<1>4. \A c \in Calls : CallbackFits(c)'
  BY <1>1 DEF SignOnInv, CallbackFits
<1> QED BY <1>2, <1>3, <1>4 DEF SignOnInv

LEMMA CrashKept ==
  ASSUME SignOnInv, NEW c \in Calls, S!Crash(c)
  PROVE  SignOnInv'
<1>1. of[c] \in Tokens /\ code[of[c]] # "none"
  BY DEF S!Crash, SignOnInv, CallbackFits
<1>2. Abandons(c)
  BY <1>1 DEF Abandons, S!Crash, S!cacheVars, S!accountVars
<1> QED BY <1>2, Abandoned

LEMMA TickKept ==
  ASSUME SignOnInv, S!Tick
  PROVE  SignOnInv'
<1> DEFINE Ended == {t \in Tokens : left'[t] = 0}
<1>1. /\ left' = [x \in DOMAIN left |-> IF left[x] = 0 THEN 0 ELSE left[x] - 1]
      /\ callbackLock' =
           [x \in DOMAIN callbackLock |-> IF callbackLock[x] = 0 THEN 0 ELSE callbackLock[x] - 1]
      /\ held' = [x \in DOMAIN held |-> IF held[x] = 0 THEN 0 ELSE held[x] - 1]
      /\ awaiting' = awaiting \ Ended /\ verified' = verified \ Ended
      /\ late' = late \union {of[c] : c \in {c \in Calls : leg[c] \in S!Working /\ held'[c] = 0}}
      /\ UNCHANGED <<code, accounts, binding, doubled, leg, of, account, logins>>
  BY DEF S!Tick, S!accountVars
<1> HIDE DEF Ended
<1>2. /\ DOMAIN left = Tokens /\ DOMAIN callbackLock = Tokens /\ DOMAIN held = Calls
      /\ \A t \in Tokens : left[t] \in Nat /\ callbackLock[t] \in Nat
      /\ \A c \in Calls : held[c] \in Nat
  BY DEF SignOnInv, SignOnTypes
<1>3. left' \in [Tokens -> Nat]
  BY <1>1, <1>2
<1>4. callbackLock' \in [Tokens -> Nat]
  BY <1>1, <1>2
<1>5. held' \in [Calls -> Nat]
  BY <1>1, <1>2
<1>6. late' \subseteq Tokens
  <2>1. \A c \in Calls : leg[c] \in S!Working => of[c] \in Tokens
    BY DEF SignOnInv, CallbackFits
  <2> QED BY <1>1, <2>1 DEF SignOnInv, SignOnTypes
<1>7. SignOnTypes'
  BY <1>1, <1>3, <1>4, <1>5, <1>6 DEF SignOnInv, SignOnTypes
<1>8. CodesFit' /\ Remembered' /\ FirstName' /\ \A c \in Calls : CallbackFits(c)'
  BY <1>1 DEF SignOnInv, CodesFit, Remembered, FirstName, CallbackFits
<1>9. \A c \in Calls : InTime(c)' => InTime(c) /\ held'[c] # 0
  BY <1>1 DEF InTime
<1>10. \A c \in Calls : InTime(c)' => LockOutlasts(c)' /\ held'[c] > 0
  <2> SUFFICES ASSUME NEW c \in Calls, InTime(c)' PROVE LockOutlasts(c)' /\ held'[c] > 0
    OBVIOUS
  <2>1. held'[c] > 0
    BY <1>5, <1>9
  <2>2. ASSUME leg[c] \in Locked PROVE held'[c] <= callbackLock'[of[c]]
    <3>1. held[c] <= callbackLock[of[c]] /\ of[c] \in Tokens
      BY <1>9, <2>2 DEF SignOnInv, Alone, LockOutlasts, CallbackFits, InTime
    <3> QED BY <1>1, <1>2, <3>1
  <2> QED BY <1>1, <2>1, <2>2 DEF LockOutlasts
<1>11. LoginsFit'
  BY <1>1, <1>9 DEF SignOnInv, Alone, LoginsFit
<1>12. \A c, d \in Calls : c # d /\ InTime(c)' /\ InTime(d)' /\ of'[c] = of'[d] =>
        ~(leg'[c] \in Locked /\ leg'[d] \in Locked) /\ ~(leg'[c] \in Loaded /\ leg'[d] \in Loaded)
  BY <1>1, <1>9 DEF SignOnInv, Alone
<1>13. Alone'
  BY <1>10, <1>11, <1>12 DEF Alone
<1> QED BY <1>7, <1>8, <1>13 DEF SignOnInv

LEMMA SignOnStep ==
  ASSUME SignOnInv, S!Next
  PROVE  SignOnInv'
<1>1. CASE \E t \in Tokens : S!Create(t)
  BY <1>1, CreateKept
<1>2. CASE \E c \in Calls, t \in Tokens : S!TakeLock(c, t)
  BY <1>2, TakeLockKept
<1>3. ASSUME NEW c \in Calls, S!CallStep(c) PROVE SignOnInv'
  BY <1>3, LoadKept, LoadVerifiedKept, ExchangeKept, StoreVerifiedKept, ConsumeKept, ReleaseKept,
     ForgetVerifiedKept, FindUserKept, CreateUserKept, BindingKept DEF S!CallStep
<1>4. ASSUME NEW c \in Calls, S!Crash(c) PROVE SignOnInv'
  BY <1>4, CrashKept
<1>5. CASE S!DeleteBinding
  BY <1>5, DeleteBindingKept
<1>6. CASE S!Tick
  BY <1>6, TickKept
<1> QED BY <1>1, <1>2, <1>3, <1>4, <1>5, <1>6 DEF S!Next

LEMMA SignOnStutters ==
  ASSUME SignOnInv, UNCHANGED S!vars
  PROVE  SignOnInv'
<1>1. UNCHANGED <<left, awaiting, verified, callbackLock, code, accounts, binding, doubled, leg, of,
                  account, held, logins, late>>
  BY DEF S!vars, S!cacheVars, S!accountVars, S!callVars
<1>2. SignOnTypes' /\ CodesFit' /\ Remembered' /\ FirstName'
  BY <1>1 DEF SignOnInv, SignOnTypes, CodesFit, Remembered, FirstName
<1>3. Alone'
  BY <1>1 DEF SignOnInv, Alone, LoginsFit, LockOutlasts, InTime
<1>4. \A c \in Calls : CallbackFits(c)'
  BY <1>1 DEF SignOnInv, CallbackFits
<1> QED BY <1>2, <1>3, <1>4 DEF SignOnInv

LEMMA SignOnToSpeakOf == SignOnInv => S!SignOnIsRepeatable
<1> SUFFICES ASSUME SignOnInv PROVE S!SignOnIsRepeatable
  OBVIOUS
<1>1. S!OneLoginPerTransaction
  BY DEF SignOnInv, SignOnTypes, Alone, LoginsFit, S!OneLoginPerTransaction
<1>2. S!SpentCodeIsRemembered
  BY DEF SignOnInv, Remembered, S!SpentCodeIsRemembered
<1>3. S!OneAccountPerSubject
  <2> SUFFICES ASSUME SubjectFits, ~doubled PROVE ~(S!Cardinality(accounts) > 1)
    BY DEF S!OneAccountPerSubject
  <2>1. S!Cardinality(accounts) = Cardinality(accounts)
    BY DEF S!Cardinality, Cardinality
  <2>2. accounts \subseteq {1}
    BY DEF SignOnInv, FirstName
  <2>3. IsFiniteSet({1}) /\ Cardinality({1}) = 1
    BY FS_Singleton
  <2>4. Cardinality(accounts) <= 1 /\ Cardinality(accounts) \in Nat
    BY <2>2, <2>3, FS_Subset, FS_CardinalityType
  <2> QED BY <2>1, <2>4
<1> QED BY <1>1, <1>2, <1>3 DEF S!SignOnIsRepeatable, S!CallbackIsRepeatable

\* A sign-on may fail, be repeated and be lost half way: a transaction signs somebody on once
\* while its callbacks do not outlast their locks, what its code was exchanged for stays at
\* hand, and there is one account unless two callbacks or a failed query crossed.
THEOREM SignOnRepeatable == S!Spec => []SignOnIsRepeatable
<1>1. S!Init => SignOnInv
  BY SignOnFirst
<1>2. SignOnInv /\ [S!Next]_(S!vars) => SignOnInv'
  BY SignOnStep, SignOnStutters
<1>3. SignOnInv => SignOnIsRepeatable
  BY SignOnToSpeakOf DEF SignOnIsRepeatable
<1> QED BY <1>1, <1>2, <1>3, PTL DEF S!Spec

(***************************************************************************)
(* Logins, factors and passwords                                           *)
(***************************************************************************)

Work == [step : L!Steps, flow : L!Flows, by : Nat, bring : Nat, old : Passwords, new : Passwords,
         code : Nat \X Nat, keep : SUBSET (Nat \X Nat), read : Nat,
         factor : Nat, age : Nat, settled : SUBSET {"factor", "age"}]
Asked == [kind : {"mfa", "change"}, factor : Nat, age : Nat, settled : SUBSET {"factor", "age"}]
LoginTypes ==
  /\ password \in Passwords /\ standing \in {1, 2} /\ history \in Seq(Passwords)
  /\ expired \in BOOLEAN /\ failures \in Int /\ failures >= -1
  /\ drawn \in Nat /\ enrolled \in 0..drawn /\ secret \in 0..drawn /\ codes \subseteq Nat \X Nat
  /\ DOMAIN challenges \subseteq Nat /\ \A t \in DOMAIN challenges : challenges[t] \in Asked
  /\ requests \in Nat /\ work \in [Calls -> Work]
Busy(w) == work[w].step # "idle"

\* While nothing was written, what is to be written first is the password; a new password
\* differs from the rows that counted when it was compared with them; and a counter that
\* went between its two steps is known to have.
NewPassword(w) ==
  \/ work[w].step \in {"old", "write"}
  \/ work[w].step \in {"consume", "forget"} /\ work[w].flow # "mfa"
RecordsFit(w) ==
  /\ work[w].step = "seed" /\ history = <<>> => work[w].old = password
  /\ NewPassword(w) =>
       /\ work[w].read <= Len(history)
       /\ \A i \in 1..work[w].read : i + HistoryLimit > work[w].read => history[i] # work[w].new
  /\ work[w].step = "count" /\ failures = -1 => <<"counter", 0>> \in crossed
RecordsInv == L!RecordsAreKept /\ \A w \in Calls : RecordsFit(w)

\* A request is known by its number until it is answered, and a challenge by that of the
\* request it was given to; whoever is about to forget a challenge that is spent, or that
\* another is about to forget, is excused; and codes that remain are not spent.
SpendFit(w) ==
  Busy(w) =>
    /\ work[w].by \in 1..requests /\ work[w].by \notin DOMAIN challenges
    /\ L!Challenge(work[w].by) \notin spent /\ work[w].bring <= requests
    /\ work[w].step = "forget" /\ L!Challenge(work[w].bring) \in spent
         => L!Challenge(work[w].bring) \in excused
    /\ work[w].code \notin work[w].keep /\ work[w].code[1] <= drawn
    /\ work[w].step = "enable" => secret \in confirmed \/ <<"secret", secret>> \in crossed
SpendApart(u, w) ==
  Busy(u) /\ Busy(w) =>
    /\ work[u].by # work[w].bring
    /\ u # w => work[u].by # work[w].by
    /\ u # w /\ work[u].step = "forget" /\ work[w].step = "forget" /\ work[u].bring = work[w].bring
         => L!Challenge(work[w].bring) \in excused
SpendInv ==
  /\ L!FactorsAreSpentOnce
  /\ \A w \in Calls : SpendFit(w)
  /\ \A u, w \in Calls : SpendApart(u, w)
  /\ spent \intersect codes \subseteq excused
  /\ \A n, i \in Nat : <<n, i>> \in spent => n <= drawn
  /\ \A t \in DOMAIN challenges : t <= requests /\ L!Challenge(t) \notin spent
  /\ \A t \in Nat : L!Challenge(t) \in spent => t <= requests

\* The factor that was enrolled was given, or passed over where its read failed, or is
\* enrolled no more; the password that had expired was changed or passed over, or is about
\* to be found expired.
FactorGiven(r) == "factor" \in r.settled \/ r.factor = 0 \/ enrolled # r.factor
AgeMinded(r) == "age" \in r.settled \/ r.age = 0 \/ Len(history) # r.age
DuesFit(r) ==
  /\ r.factor <= drawn /\ r.age <= Len(history)
  /\ r.age # 0 /\ r.age = Len(history) => expired
AdmitFit(w) ==
  /\ DuesFit(work[w])
  /\ work[w].step \in {"age", "success", "unlock"} \/ work[w].flow = "change" => FactorGiven(work[w])
  /\ work[w].step \in {"success", "unlock"} /\ work[w].flow # "mfa" => AgeMinded(work[w])
  /\ work[w].step = "compare" => work[w].flow = "login"
AdmitInv ==
  /\ slips = {}
  /\ \A w \in Calls : AdmitFit(w)
  /\ \A t \in DOMAIN challenges :
       /\ DuesFit(challenges[t])
       /\ challenges[t].kind = "change" => FactorGiven(challenges[t])

LoginInv == LoginTypes /\ RecordsInv /\ SpendInv /\ AdmitInv

LEMMA LoginNumbers ==
  /\ InitialPassword \in Passwords /\ HistoryLimit \in Nat /\ MaxFailures \in Nat
  /\ RecoveryCodes \in Nat /\ MaxDrawn \in Nat
BY SessionsAssumption DEF L!SessionsAssumption

LEMMA NothingIdle ==
  /\ L!Nothing \in Work /\ L!Nothing.step = "idle" /\ L!Nothing.flow = "none"
  /\ L!Nothing.bring = 0 /\ L!Nothing.keep = {} /\ L!Nothing.factor = 0 /\ L!Nothing.age = 0
  /\ L!Nothing.settled = {} /\ L!Nothing.code = <<0, 0>> /\ L!Nothing.read = 0
BY LoginNumbers DEF L!Nothing, Work, L!Steps, L!Flows, L!NoCode

LEMMA LoginFirst == L!Init => LoginInv
<1> SUFFICES ASSUME L!Init PROVE LoginInv
  OBVIOUS
<1>1. work \in [Calls -> Work] /\ \A w \in Calls : work[w] = L!Nothing
  BY NothingIdle DEF L!Init
<1>2. /\ enrolled \in {0, 1} /\ drawn \in {0, 1} /\ secret = enrolled /\ drawn = enrolled
      /\ challenges = <<>> /\ DOMAIN challenges = {} /\ requests = 0 /\ failures = -1
      /\ perpetual = FALSE /\ spent = {} /\ spentAgain = {} /\ excused = {} /\ slips = {}
  BY DEF L!Init
<1>3. password \in Passwords /\ history \in {<<>>, <<password>>} /\ expired \in BOOLEAN
  BY DEF L!Init
<1>4. codes \subseteq Nat \X Nat
  <2>1. codes = {} \/ codes = {1} \X (1..RecoveryCodes)
    BY DEF L!Init
  <2>2. {1} \X (1..RecoveryCodes) \subseteq Nat \X Nat
    BY LoginNumbers
  <2> QED BY <2>1, <2>2
<1>5. history \in Seq(Passwords) /\ Len(history) \in {0, 1} /\ (Len(history) = 1 => history[1] = password)
  <2>1. CASE history = <<>>
    BY <2>1
  <2>2. CASE history = <<password>>
    <3>1. <<password>> \in Seq(Passwords) /\ Len(<<password>>) = 1 /\ <<password>>[1] = password
      BY <1>3
    <3> QED BY <2>2, <3>1
  <2> QED BY <1>3, <2>1, <2>2
<1>6. LoginTypes
  <2>1. /\ drawn \in Nat /\ enrolled \in 0..drawn /\ secret \in 0..drawn
        /\ failures \in Int /\ failures >= -1 /\ requests \in Nat
    BY <1>2
  <2>2. standing \in {1, 2}
    BY DEF L!Init
  <2>3. DOMAIN challenges \subseteq Nat /\ \A t \in DOMAIN challenges : challenges[t] \in Asked
    BY <1>2
  <2> QED BY <1>1, <1>3, <1>4, <1>5, <2>1, <2>2, <2>3 DEF LoginTypes
<1>7. RecordsInv
  <2>1. L!RecordsAreKept
    <3>1. DOMAIN history = 1..Len(history)
      BY <1>5
    <3>2. history # <<>> => history[Len(history)] = password
      BY <1>3, <1>5
    <3>3. \A j \in DOMAIN history : 1..(j - 1) = {}
      BY <1>5, <3>1
    <3> QED BY <1>2, <3>2, <3>3 DEF L!RecordsAreKept
  <2>2. \A w \in Calls : RecordsFit(w)
    <3>1. \A w \in Calls : work[w].step = "idle"
      BY <1>1, NothingIdle
    <3> QED BY <3>1 DEF RecordsFit, NewPassword
  <2> QED BY <2>1, <2>2 DEF RecordsInv
<1>8. SpendInv
  <2>1. L!FactorsAreSpentOnce
    BY <1>2 DEF L!FactorsAreSpentOnce, L!enabled, L!Init
  <2>2. \A w \in Calls : ~Busy(w)
    BY <1>1, NothingIdle DEF Busy
  <2> QED BY <1>2, <2>1, <2>2 DEF SpendInv, SpendFit, SpendApart
<1>9. AdmitInv
  BY <1>1, <1>2, <1>5, NothingIdle DEF AdmitInv, AdmitFit, DuesFit
<1> QED BY <1>6, <1>7, <1>8, <1>9 DEF LoginInv

\* What a step of one request leaves alone.
OthersAt(w) == \A u \in Calls \ {w} : work'[u] = work[u]

LEMMA RecordsStill ==
  ASSUME RecordsInv, NEW w \in Calls, OthersAt(w), UNCHANGED <<password, history, failures, perpetual>>,
         crossed \subseteq crossed', RecordsFit(w)'
  PROVE  RecordsInv'
<1>1. L!RecordsAreKept'
  BY DEF RecordsInv, L!RecordsAreKept
<1>2. \A u \in Calls \ {w} : RecordsFit(u)'
  BY DEF RecordsInv, RecordsFit, NewPassword, OthersAt
<1> QED BY <1>1, <1>2 DEF RecordsInv

\* The same request, which neither comes to spend nor to enable anything.
SpendsNot(w) ==
  Busy(w)' =>
    /\ Busy(w)
    /\ work'[w].by = work[w].by /\ work'[w].bring = work[w].bring /\ work'[w].code = work[w].code
    /\ work'[w].code \notin work'[w].keep
    /\ work'[w].step # "forget"
    /\ work'[w].step = "enable" => secret \in confirmed'

LEMMA SpendStill ==
  ASSUME SpendInv, NEW w \in Calls, OthersAt(w), SpendsNot(w),
         UNCHANGED <<secret, enrolled, drawn, codes, spent, spentAgain, requests>>,
         DOMAIN challenges' \subseteq DOMAIN challenges,
         confirmed \subseteq confirmed', excused \subseteq excused', crossed \subseteq crossed'
  PROVE  SpendInv'
<1>1. L!FactorsAreSpentOnce'
  BY DEF SpendInv, L!FactorsAreSpentOnce, L!enabled
<1>2. \A u \in Calls : SpendFit(u)'
  <2> SUFFICES ASSUME NEW u \in Calls, Busy(u)' PROVE SpendFit(u)'
    BY DEF SpendFit
  <2>1. Busy(u) /\ SpendFit(u)
    BY DEF SpendInv, SpendsNot, OthersAt, Busy
  <2>2. CASE u = w
    BY <2>1, <2>2 DEF SpendFit, SpendsNot
  <2>3. CASE u # w
    BY <2>1, <2>3 DEF SpendFit, OthersAt
  <2> QED BY <2>2, <2>3
<1>3. \A u, v \in Calls : SpendApart(u, v)'
  <2> SUFFICES ASSUME NEW u \in Calls, NEW v \in Calls, Busy(u)', Busy(v)' PROVE SpendApart(u, v)'
    BY DEF SpendApart
  <2>1. Busy(u) /\ Busy(v) /\ SpendApart(u, v)
    BY DEF SpendInv, SpendsNot, OthersAt, Busy
  <2>2. /\ work'[u].by = work[u].by /\ work'[v].by = work[v].by
        /\ work'[u].bring = work[u].bring /\ work'[v].bring = work[v].bring
        /\ work'[u].step = "forget" => work[u].step = "forget"
        /\ work'[v].step = "forget" => work[v].step = "forget"
    BY DEF SpendsNot, OthersAt
  <2> QED BY <2>1, <2>2 DEF SpendApart
<1>4. /\ spent' \intersect codes' \subseteq excused'
      /\ \A n, i \in Nat : <<n, i>> \in spent' => n <= drawn'
      /\ \A t \in Nat : L!Challenge(t) \in spent' => t <= requests'
  BY DEF SpendInv
<1>5. \A t \in DOMAIN challenges' : t <= requests' /\ L!Challenge(t) \notin spent'
  BY DEF SpendInv
<1> QED BY <1>1, <1>2, <1>3, <1>4, <1>5 DEF SpendInv

ChallengeFits(t) == DuesFit(challenges[t]) /\ (challenges[t].kind = "change" => FactorGiven(challenges[t]))
\* Secrets are only drawn, and passwords only added.
LoginGrows ==
  /\ drawn' >= drawn /\ (enrolled' = enrolled \/ enrolled' = 0 \/ enrolled' > drawn)
  /\ \/ history' = history /\ (expired => expired')
     \/ Len(history') > Len(history)

LEMMA DuesStay ==
  ASSUME LoginTypes, LoginTypes', LoginGrows, NEW r, r.factor \in Nat, r.age \in Nat, DuesFit(r)
  PROVE  /\ r.factor <= drawn' /\ r.age <= Len(history') /\ (r.age # 0 /\ r.age = Len(history') => expired')
         /\ FactorGiven(r) => ("factor" \in r.settled \/ r.factor = 0 \/ enrolled' # r.factor)
         /\ AgeMinded(r) => ("age" \in r.settled \/ r.age = 0 \/ Len(history') # r.age)
<1>1. Len(history) \in Nat /\ Len(history') \in Nat /\ drawn \in Nat /\ drawn' \in Nat
  BY DEF LoginTypes
<1>2. r.factor <= drawn' /\ r.age <= Len(history') /\ (r.age # 0 /\ r.age = Len(history') => expired')
  BY <1>1 DEF LoginGrows, DuesFit
<1>3. FactorGiven(r) => ("factor" \in r.settled \/ r.factor = 0 \/ enrolled' # r.factor)
  BY <1>1 DEF LoginGrows, DuesFit, FactorGiven
<1>4. AgeMinded(r) => ("age" \in r.settled \/ r.age = 0 \/ Len(history') # r.age)
  BY <1>1 DEF LoginGrows, DuesFit, AgeMinded
<1> QED BY <1>2, <1>3, <1>4

LEMMA AdmitStill ==
  ASSUME LoginTypes, LoginTypes', AdmitInv, NEW w \in Calls, OthersAt(w), LoginGrows,
         slips' = slips, AdmitFit(w)',
         \A t \in DOMAIN challenges' :
           \/ t \in DOMAIN challenges /\ challenges'[t] = challenges[t]
           \/ ChallengeFits(t)'
  PROVE  AdmitInv'
<1>1. \A u \in Calls \ {w} : AdmitFit(u)'
  <2> SUFFICES ASSUME NEW u \in Calls \ {w} PROVE AdmitFit(u)'
    OBVIOUS
  <2>1. work[u].factor \in Nat /\ work[u].age \in Nat /\ AdmitFit(u) /\ work'[u] = work[u]
    BY DEF LoginTypes, Work, AdmitInv, OthersAt
  <2> DEFINE r == work[u]
  <2>2. /\ r.factor <= drawn' /\ r.age <= Len(history') /\ (r.age # 0 /\ r.age = Len(history') => expired')
        /\ FactorGiven(r) => ("factor" \in r.settled \/ r.factor = 0 \/ enrolled' # r.factor)
        /\ AgeMinded(r) => ("age" \in r.settled \/ r.age = 0 \/ Len(history') # r.age)
    BY <2>1, DuesStay DEF AdmitFit
  <2> QED BY <2>1, <2>2 DEF AdmitFit, DuesFit, FactorGiven, AgeMinded
<1>2. \A t \in DOMAIN challenges' : ChallengeFits(t)'
  <2> SUFFICES ASSUME NEW t \in DOMAIN challenges', t \in DOMAIN challenges, challenges'[t] = challenges[t]
               PROVE  ChallengeFits(t)'
    OBVIOUS
  <2> DEFINE r == challenges[t]
  <2>1. r.factor \in Nat /\ r.age \in Nat /\ DuesFit(r) /\ (r.kind = "change" => FactorGiven(r))
    BY DEF LoginTypes, Asked, AdmitInv
  <2>2. /\ r.factor <= drawn' /\ r.age <= Len(history') /\ (r.age # 0 /\ r.age = Len(history') => expired')
        /\ FactorGiven(r) => ("factor" \in r.settled \/ r.factor = 0 \/ enrolled' # r.factor)
    BY <2>1, DuesStay
  <2> QED BY <2>1, <2>2 DEF ChallengeFits, DuesFit, FactorGiven
<1> QED BY <1>1, <1>2 DEF AdmitInv, ChallengeFits

\* What a request has become, and what it is about.
LEMMA WorkSet ==
  ASSUME LoginTypes, NEW w \in Calls, NEW r \in Work, work' = [work EXCEPT ![w] = r]
  PROVE  work' \in [Calls -> Work] /\ work'[w] = r /\ OthersAt(w)
BY DEF LoginTypes, OthersAt

LEMMA GoneTo ==
  ASSUME LoginTypes, NEW w \in Calls, NEW s \in L!Steps, L!GoTo(w, s)
  PROVE  /\ work' \in [Calls -> Work] /\ OthersAt(w) /\ work'[w].step = s
         /\ work'[w] = [work[w] EXCEPT !.step = s]
         /\ work'[w].flow = work[w].flow /\ work'[w].by = work[w].by /\ work'[w].bring = work[w].bring
         /\ work'[w].old = work[w].old /\ work'[w].new = work[w].new /\ work'[w].code = work[w].code
         /\ work'[w].keep = work[w].keep /\ work'[w].read = work[w].read
         /\ work'[w].factor = work[w].factor /\ work'[w].age = work[w].age
         /\ work'[w].settled = work[w].settled
<1> DEFINE r == [work[w] EXCEPT !.step = s]
<1>1. work[w] \in Work
  BY DEF LoginTypes
<1>2. /\ r \in Work /\ r.step = s
      /\ r.flow = work[w].flow /\ r.by = work[w].by /\ r.bring = work[w].bring
      /\ r.old = work[w].old /\ r.new = work[w].new /\ r.code = work[w].code
      /\ r.keep = work[w].keep /\ r.read = work[w].read
      /\ r.factor = work[w].factor /\ r.age = work[w].age /\ r.settled = work[w].settled
  BY <1>1 DEF Work
<1>3. work' = [work EXCEPT ![w] = r]
  BY DEF L!GoTo
<1> HIDE DEF r
<1>4. work' \in [Calls -> Work] /\ work'[w] = r /\ OthersAt(w)
  BY <1>2, <1>3, WorkSet
<1> QED BY <1>2, <1>4 DEF r

LEMMA WorkDone ==
  ASSUME LoginTypes, NEW w \in Calls, L!End(w)
  PROVE  work' \in [Calls -> Work] /\ OthersAt(w) /\ work'[w] = L!Nothing
BY NothingIdle, WorkSet DEF L!End

\* A request that is over, whatever it left.
LEMMA GoneFits ==
  ASSUME LoginTypes', NEW w \in Calls, work'[w] = L!Nothing
  PROVE  /\ ~Busy(w)' /\ RecordsFit(w)' /\ SpendsNot(w) /\ AdmitFit(w)'
<1>1. work'[w].step = "idle" /\ work'[w].flow = "none" /\ work'[w].factor = 0 /\ work'[w].age = 0
  BY NothingIdle
<1>2. ~Busy(w)' /\ SpendsNot(w)
  BY <1>1 DEF Busy, SpendsNot
<1>3. RecordsFit(w)'
  BY <1>1 DEF RecordsFit, NewPassword
<1>4. Len(history') >= 0 /\ drawn' >= 0
  BY DEF LoginTypes
<1>5. AdmitFit(w)'
  BY <1>1, <1>4 DEF AdmitFit, DuesFit
<1> QED BY <1>2, <1>3, <1>5

RowsSame == UNCHANGED <<password, standing, history, expired, secret, codes, enrolled, drawn, confirmed>>
RestSame == UNCHANGED <<failures, perpetual, lockout, challenges, requests, spent, spentAgain, excused,
                        slips, crossed>>

\* A step that changes nothing but the request.
LEMMA Walked ==
  ASSUME LoginInv, NEW w \in Calls, RowsSame, RestSame, work' \in [Calls -> Work], OthersAt(w),
         RecordsFit(w)', SpendsNot(w), AdmitFit(w)'
  PROVE  LoginInv'
<1>1. LoginTypes'
  BY DEF LoginInv, LoginTypes, RowsSame, RestSame
<1>2. RecordsInv'
  BY RecordsStill DEF LoginInv, RowsSame, RestSame
<1>3. SpendInv'
  BY SpendStill DEF LoginInv, RowsSame, RestSame
<1>4. LoginGrows
  BY DEF LoginGrows, RowsSame, LoginInv, LoginTypes
<1>5. AdmitInv'
  BY <1>1, <1>4, AdmitStill DEF LoginInv, RestSame
<1> QED BY <1>1, <1>2, <1>3, <1>5 DEF LoginInv

LEMMA TurnedAway ==
  ASSUME LoginInv, NEW w \in Calls, L!Refused(w)
  PROVE  LoginInv'
<1>1. RowsSame /\ RestSame /\ L!End(w)
  BY DEF L!Refused, RowsSame, RestSame, L!accountVars, L!mfaVars, L!counterVars, L!ghosts
<1>2. work' \in [Calls -> Work] /\ OthersAt(w) /\ work'[w] = L!Nothing
  BY <1>1, WorkDone DEF LoginInv
<1>3. LoginTypes'
  BY <1>1, <1>2 DEF LoginInv, LoginTypes, RowsSame, RestSame
<1> QED BY <1>1, <1>2, <1>3, GoneFits, Walked

\* A request that goes on to a step of which no more is asked than of where it was.
LEMMA MovedOn ==
  ASSUME LoginInv, NEW w \in Calls, NEW s \in L!Steps \ {"idle", "compare", "seed", "count", "forget", "enable"},
         L!Move(w, s), Busy(w),
         s \in {"old", "write"} \/ (s = "consume" /\ work[w].flow # "mfa") => NewPassword(w),
         s \in {"age", "success", "unlock"} => FactorGiven(work[w]),
         s \in {"success", "unlock"} /\ work[w].flow # "mfa" => AgeMinded(work[w])
  PROVE  LoginInv'
<1>1. RowsSame /\ RestSame /\ L!GoTo(w, s)
  BY DEF L!Move, RowsSame, RestSame, L!accountVars, L!mfaVars, L!counterVars, L!ghosts
<1>2. /\ work' \in [Calls -> Work] /\ OthersAt(w) /\ work'[w].step = s
      /\ work'[w].flow = work[w].flow /\ work'[w].by = work[w].by /\ work'[w].bring = work[w].bring
      /\ work'[w].old = work[w].old /\ work'[w].new = work[w].new /\ work'[w].code = work[w].code
      /\ work'[w].keep = work[w].keep /\ work'[w].read = work[w].read
      /\ work'[w].factor = work[w].factor /\ work'[w].age = work[w].age
      /\ work'[w].settled = work[w].settled
  BY <1>1, GoneTo DEF LoginInv
<1>3. NewPassword(w)' => NewPassword(w)
  BY <1>2 DEF NewPassword
<1>4. RecordsFit(w)
  BY DEF LoginInv, RecordsInv
<1>5. RecordsFit(w)'
  BY <1>1, <1>2, <1>3, <1>4 DEF RecordsFit, RowsSame
<1>6. SpendsNot(w)
  BY <1>2 DEF SpendsNot, LoginInv, SpendInv, SpendFit
<1>7. AdmitFit(w)
  BY DEF LoginInv, AdmitInv
<1>8. AdmitFit(w)'
  BY <1>1, <1>2, <1>7 DEF AdmitFit, DuesFit, FactorGiven, AgeMinded, RowsSame
<1> QED BY <1>1, <1>2, <1>5, <1>6, <1>8, Walked

\* A new request, with what the challenge it brings says of it.
LEMMA Begun ==
  ASSUME LoginInv, NEW w \in Calls, NEW r \in Work, L!Begin(w, r), RowsSame,
         UNCHANGED <<failures, perpetual, lockout, challenges, spent, spentAgain, excused, slips, crossed>>,
         r.step \in {"compare", "prepare", "draw", "verify", "reuse"},
         r.bring = 0 \/ r.bring \in DOMAIN challenges, r.keep = {}, r.code[1] <= drawn,
         r.step = "compare" => r.flow = "login", DuesFit(r), r.flow = "change" => FactorGiven(r)
  PROVE  LoginInv'
<1> DEFINE q == [r EXCEPT !.by = requests + 1]
<1>1. work[w].step = "idle" /\ requests' = requests + 1 /\ work' = [work EXCEPT ![w] = q]
  BY DEF L!Begin
<1>2. requests \in Nat
  BY DEF LoginInv, LoginTypes
<1>3. /\ q \in Work /\ q.step = r.step /\ q.flow = r.flow /\ q.by = requests + 1 /\ q.bring = r.bring
      /\ q.code = r.code /\ q.keep = r.keep /\ q.factor = r.factor /\ q.age = r.age
      /\ q.settled = r.settled
  BY <1>2 DEF Work
<1> HIDE DEF q
<1>4. work' \in [Calls -> Work] /\ work'[w] = q /\ OthersAt(w)
  BY <1>1, <1>3, WorkSet DEF LoginInv
<1>5. LoginTypes'
  BY <1>1, <1>2, <1>4 DEF LoginInv, LoginTypes, RowsSame
<1>6. RecordsInv'
  <2>1. RecordsFit(w)'
    BY <1>3, <1>4 DEF RecordsFit, NewPassword
  <2> QED BY <1>4, <2>1, RecordsStill DEF LoginInv, RowsSame
<1>7. AdmitInv'
  <2>1. AdmitFit(w)'
    BY <1>3, <1>4 DEF AdmitFit, DuesFit, FactorGiven, RowsSame
  <2>2. LoginGrows
    BY DEF LoginGrows, RowsSame, LoginInv, LoginTypes
  <2> QED BY <1>4, <1>5, <2>1, <2>2, AdmitStill DEF LoginInv
<1>8. SpendInv'
  <2>1. L!FactorsAreSpentOnce'
    BY DEF LoginInv, SpendInv, L!FactorsAreSpentOnce, L!enabled, RowsSame
  <2>2. \A u \in Calls \ {w} : Busy(u)' => Busy(u) /\ work'[u] = work[u] /\ work[u].by \in 1..requests
                                           /\ work[u].by \in Nat /\ work[u].bring \in Nat
    BY <1>4 DEF OthersAt, Busy, LoginInv, SpendInv, SpendFit, LoginTypes, Work
  <2>3. \A u \in Calls \ {w} : SpendFit(u)'
    BY <1>1, <1>2, <2>2 DEF LoginInv, SpendInv, SpendFit, RowsSame
  <2>4. r.bring \in 0..requests /\ r.code[1] <= drawn
    <3>1. r.bring \in Nat
      BY DEF Work
    <3> QED BY <1>2, <3>1 DEF LoginInv, SpendInv
  <2>5. L!Challenge(requests + 1) \notin spent /\ requests + 1 \notin DOMAIN challenges
    BY <1>2 DEF LoginInv, SpendInv
  <2>6. SpendFit(w)'
    BY <1>1, <1>2, <1>3, <1>4, <2>4, <2>5 DEF SpendFit, RowsSame
  <2>7. \A u, v \in Calls : SpendApart(u, v)'
    <3> SUFFICES ASSUME NEW u \in Calls, NEW v \in Calls, Busy(u)', Busy(v)' PROVE SpendApart(u, v)'
      BY DEF SpendApart
    <3>1. CASE u # w /\ v # w
      BY <2>2, <3>1 DEF LoginInv, SpendInv, SpendApart
    <3>2. CASE u = w /\ v = w
      BY <1>2, <1>3, <1>4, <2>4, <3>2 DEF SpendApart
    <3>3. CASE u = w /\ v # w
      <4>1. work[v].bring <= requests
        BY <2>2, <3>3 DEF LoginInv, SpendInv, SpendFit
      <4> QED BY <1>2, <1>3, <1>4, <2>2, <3>3, <4>1 DEF SpendApart
    <3>4. CASE u # w /\ v = w
      <4>1. work[u].by \notin DOMAIN challenges /\ work[u].by # 0
        BY <2>2, <3>4 DEF LoginInv, SpendInv, SpendFit
      <4> QED BY <1>2, <1>3, <1>4, <2>2, <3>4, <4>1 DEF SpendApart
    <3> QED BY <3>1, <3>2, <3>3, <3>4
  <2>8. spent' \intersect codes' \subseteq excused' /\ \A n, i \in Nat : <<n, i>> \in spent' => n <= drawn'
    BY DEF LoginInv, SpendInv, RowsSame
  <2>9. /\ \A t \in DOMAIN challenges' : t <= requests' /\ L!Challenge(t) \notin spent'
        /\ \A t \in Nat : L!Challenge(t) \in spent' => t <= requests'
    BY <1>1, <1>2 DEF LoginInv, LoginTypes, SpendInv
  <2> QED BY <2>1, <2>3, <2>6, <2>7, <2>8, <2>9 DEF SpendInv
<1> QED BY <1>5, <1>6, <1>7, <1>8 DEF LoginInv

LEMMA Challenged ==
  ASSUME LoginInv, NEW w \in Calls, Busy(w), NEW k \in {"mfa", "change"}, L!IssueChallenge(w, k),
         k = "change" => FactorGiven(work[w])
  PROVE  LoginInv'
<1>0. PICK n \in Nat : n = work[w].by
  BY DEF LoginInv, LoginTypes, Work
<1> DEFINE r == [kind |-> k, factor |-> work[w].factor, age |-> work[w].age, settled |-> work[w].settled]
<1>1. /\ challenges' = [t \in DOMAIN challenges \union {n} |-> IF t = n THEN r ELSE challenges[t]]
      /\ L!End(w) /\ RowsSame
      /\ UNCHANGED <<failures, perpetual, lockout, requests, spent, spentAgain, excused, slips, crossed>>
  BY <1>0 DEF L!IssueChallenge, RowsSame, L!accountVars, L!mfaVars, L!counterVars, L!ghosts
<1>2. work[w] \in Work /\ n \in 1..requests /\ L!Challenge(n) \notin spent /\ requests \in Nat
  BY <1>0 DEF LoginInv, LoginTypes, SpendInv, SpendFit
<1>3. r \in Asked /\ r.kind = k /\ r.factor = work[w].factor /\ r.age = work[w].age
      /\ r.settled = work[w].settled
  BY <1>2 DEF Work, Asked
<1> HIDE DEF r
<1>4. /\ DOMAIN challenges' = DOMAIN challenges \union {n} /\ challenges'[n] = r
      /\ \A t \in DOMAIN challenges \ {n} : challenges'[t] = challenges[t]
  BY <1>1
<1>5. work' \in [Calls -> Work] /\ OthersAt(w) /\ work'[w] = L!Nothing
  BY <1>1, WorkDone DEF LoginInv
<1>6. LoginTypes'
  BY <1>1, <1>2, <1>3, <1>4, <1>5 DEF LoginInv, LoginTypes, RowsSame
<1>7. ~Busy(w)' /\ RecordsFit(w)' /\ AdmitFit(w)'
  BY <1>5, <1>6, GoneFits
<1>8. RecordsInv'
  BY <1>1, <1>5, <1>7, RecordsStill DEF LoginInv, RowsSame
<1>9. AdmitInv'
  <2>1. LoginGrows
    BY <1>1 DEF LoginGrows, RowsSame, LoginInv, LoginTypes
  <2>2. DuesFit(work[w])
    BY DEF LoginInv, AdmitInv, AdmitFit
  <2>3. ChallengeFits(n)'
    BY <1>1, <1>3, <1>4, <2>2 DEF ChallengeFits, DuesFit, FactorGiven, RowsSame
  <2>4. \A t \in DOMAIN challenges' :
           \/ t \in DOMAIN challenges /\ challenges'[t] = challenges[t]
           \/ ChallengeFits(t)'
    BY <1>4, <2>3
  <2> QED BY <1>1, <1>5, <1>6, <1>7, <2>1, <2>4, AdmitStill DEF LoginInv
<1>10. SpendInv'
  <2>1. L!FactorsAreSpentOnce'
    BY <1>1 DEF LoginInv, SpendInv, L!FactorsAreSpentOnce, L!enabled, RowsSame
  <2>2. \A u \in Calls : Busy(u)' => u # w /\ Busy(u) /\ work'[u] = work[u] /\ work[u].by # n
    BY <1>0, <1>5, <1>7 DEF OthersAt, Busy, LoginInv, SpendInv, SpendApart
  <2>3. \A u \in Calls : SpendFit(u)'
    BY <1>1, <1>4, <2>2 DEF LoginInv, SpendInv, SpendFit, RowsSame
  <2>4. \A u, v \in Calls : SpendApart(u, v)'
    BY <1>1, <2>2 DEF LoginInv, SpendInv, SpendApart, Busy
  <2>5. /\ spent' \intersect codes' \subseteq excused'
        /\ \A m, i \in Nat : <<m, i>> \in spent' => m <= drawn'
        /\ \A t \in Nat : L!Challenge(t) \in spent' => t <= requests'
    BY <1>1 DEF LoginInv, SpendInv, RowsSame
  <2>6. \A t \in DOMAIN challenges' : t <= requests' /\ L!Challenge(t) \notin spent'
    BY <1>1, <1>2, <1>4 DEF LoginInv, SpendInv
  <2> QED BY <2>1, <2>3, <2>4, <2>5, <2>6 DEF SpendInv
<1> QED BY <1>6, <1>8, <1>9, <1>10 DEF LoginInv

\* Who is let in owes nothing but what is passed over with it, whatever becomes of the lock.
LEMMA LetIn ==
  ASSUME LoginInv, NEW w \in Calls, NEW passed, L!IssueLoginTokens(w, passed),
         FactorGiven(work[w]), "age" \in passed \/ AgeMinded(work[w]),
         UNCHANGED <<failures, perpetual>>
  PROVE  LoginInv'
<1>1. /\ L!End(w) /\ RowsSame /\ slips' = slips \union (L!Owed(w) \ passed)
      /\ UNCHANGED <<failures, perpetual, challenges, requests, spent, spentAgain, excused, crossed>>
  BY DEF L!IssueLoginTokens, RowsSame, L!accountVars, L!mfaVars
<1>2. L!Owed(w) \ passed = {}
  BY DEF L!Owed, FactorGiven, AgeMinded
<1>3. slips' = slips
  BY <1>1, <1>2
<1>4. work' \in [Calls -> Work] /\ OthersAt(w) /\ work'[w] = L!Nothing
  BY <1>1, WorkDone DEF LoginInv
<1>5. LoginTypes'
  BY <1>1, <1>4 DEF LoginInv, LoginTypes, RowsSame
<1>6. RecordsFit(w)' /\ SpendsNot(w) /\ AdmitFit(w)'
  BY <1>4, <1>5, GoneFits
<1>7. LoginGrows
  BY <1>1 DEF LoginGrows, RowsSame, LoginInv, LoginTypes
<1>8. RecordsInv'
  BY <1>1, <1>4, <1>6, RecordsStill DEF LoginInv, RowsSame
<1>9. SpendInv'
  BY <1>1, <1>4, <1>6, SpendStill DEF LoginInv, RowsSame
<1>10. AdmitInv'
  BY <1>1, <1>3, <1>4, <1>5, <1>6, <1>7, AdmitStill DEF LoginInv
<1> QED BY <1>5, <1>8, <1>9, <1>10 DEF LoginInv

InputsSame == UNCHANGED <<failures, perpetual, lockout, challenges, spent, spentAgain, excused, slips, crossed>>
Frames == <<L!accountVars, L!mfaVars, L!counterVars, challenges, L!ghosts, crossed>>

LEMMA FramesSame == (UNCHANGED Frames) => RowsSame /\ InputsSame
BY DEF Frames, RowsSame, InputsSame, L!accountVars, L!mfaVars, L!counterVars, L!ghosts

LEMMA ShownDrawn ==
  ASSUME LoginTypes, NEW c \in L!Shown
  PROVE  c \in Nat \X Nat /\ c[1] <= drawn
<1>1. drawn \in Nat /\ secret \in 0..drawn /\ MaxDrawn \in Nat /\ RecoveryCodes \in Nat
  BY LoginNumbers DEF LoginTypes
<1>2. CASE c = <<secret, 0>>
  BY <1>1, <1>2
<1>3. CASE c \in L!AllCodes /\ c[1] \in 1..drawn
  <2>1. L!AllCodes \subseteq Nat \X Nat
    BY <1>1 DEF L!AllCodes, L!NoCode, L!Draws
  <2> QED BY <1>1, <1>3, <2>1
<1> QED BY <1>2, <1>3 DEF L!Shown

LEMMA StartKept ==
  ASSUME LoginInv, NEW w \in Calls, L!Start(w)
  PROVE  LoginInv'
<1> USE NothingIdle
<1>1. DuesFit(L!Nothing) /\ L!Nothing \in Work /\ 0 <= drawn /\ 0 <= Len(history) /\ LoginTypes
  BY DEF DuesFit, LoginInv, LoginTypes
<1>2. ASSUME NEW p \in Passwords, L!Login(w, p) PROVE LoginInv'
  <2> DEFINE r == [L!Nothing EXCEPT !.flow = "login", !.step = "compare", !.old = p]
  <2>1. /\ r \in Work /\ r.step = "compare" /\ r.flow = "login" /\ r.bring = 0 /\ r.keep = {}
        /\ r.code = <<0, 0>> /\ r.factor = 0 /\ r.age = 0
    BY <1>1 DEF Work, L!Steps, L!Flows
  <2>2. L!Begin(w, r) /\ UNCHANGED Frames
    BY <1>2 DEF L!Login, Frames
  <2> HIDE DEF r
  <2>3. DuesFit(r) /\ r.code[1] <= drawn
    BY <1>1, <2>1 DEF DuesFit
  <2> QED BY <2>1, <2>2, <2>3, FramesSame, Begun DEF InputsSame
<1>3. ASSUME NEW t \in DOMAIN challenges, NEW c \in L!Shown, L!CompleteMFALogin(w, t, c) PROVE LoginInv'
  <2> DEFINE r == [L!Nothing EXCEPT !.flow = "mfa", !.step = "prepare", !.bring = t, !.code = c,
                      !.factor = challenges[t].factor, !.age = challenges[t].age,
                      !.settled = challenges[t].settled]
  <2>1. challenges[t] \in Asked /\ t \in Nat /\ c \in Nat \X Nat /\ c[1] <= drawn
    BY <1>1, ShownDrawn DEF LoginTypes
  <2>2. /\ r \in Work /\ r.step = "prepare" /\ r.flow = "mfa" /\ r.bring = t /\ r.keep = {} /\ r.code = c
        /\ r.factor = challenges[t].factor /\ r.age = challenges[t].age
    BY <1>1, <2>1 DEF Work, Asked, L!Steps, L!Flows
  <2>3. L!Begin(w, r) /\ UNCHANGED Frames
    BY <1>3 DEF L!CompleteMFALogin, Frames
  <2> HIDE DEF r
  <2>4. DuesFit(r)
    BY <2>2 DEF DuesFit, LoginInv, AdmitInv
  <2> QED BY <2>1, <2>2, <2>3, <2>4, FramesSame, Begun DEF InputsSame
<1>4. ASSUME NEW c \in L!Shown, L!DisableSensitive(w, c) \/ L!Confirm(w, c) PROVE LoginInv'
  <2>1. c \in Nat \X Nat /\ c[1] <= drawn
    BY <1>1, ShownDrawn
  <2>2. ASSUME NEW f \in {"disable", "confirm"}, NEW s \in {"prepare", "verify"},
               L!Begin(w, [L!Nothing EXCEPT !.flow = f, !.step = s, !.code = c]), UNCHANGED Frames
        PROVE  LoginInv'
    <3> DEFINE r == [L!Nothing EXCEPT !.flow = f, !.step = s, !.code = c]
    <3>1. /\ r \in Work /\ r.step = s /\ r.flow = f /\ r.bring = 0 /\ r.keep = {}
          /\ r.code = c /\ r.factor = 0 /\ r.age = 0
      BY <1>1, <2>1 DEF Work, L!Steps, L!Flows
    <3>2. L!Begin(w, r)
      BY <2>2
    <3> HIDE DEF r
    <3>3. DuesFit(r)
      BY <1>1, <3>1 DEF DuesFit
    <3> QED BY <2>1, <2>2, <3>1, <3>2, <3>3, FramesSame, Begun DEF InputsSame
  <2>3. CASE L!DisableSensitive(w, c)
    BY <2>2, <2>3 DEF L!DisableSensitive, Frames
  <2>4. CASE L!Confirm(w, c)
    BY <2>2, <2>4 DEF L!Confirm, Frames
  <2> QED BY <1>4, <2>3, <2>4
<1>5. CASE L!Setup(w) \/ L!ResetPassword(w)
  <2>1. ASSUME NEW f \in {"setup", "reset"}, NEW s \in {"draw", "reuse"},
               L!Begin(w, [L!Nothing EXCEPT !.flow = f, !.step = s]), UNCHANGED Frames
        PROVE  LoginInv'
    <3> DEFINE r == [L!Nothing EXCEPT !.flow = f, !.step = s]
    <3>1. /\ r \in Work /\ r.step = s /\ r.flow = f /\ r.bring = 0 /\ r.keep = {}
          /\ r.code = <<0, 0>> /\ r.factor = 0 /\ r.age = 0
      BY <1>1 DEF Work, L!Steps, L!Flows
    <3>2. L!Begin(w, r)
      BY <2>1
    <3> HIDE DEF r
    <3>3. DuesFit(r) /\ r.code[1] <= drawn
      BY <1>1, <3>1 DEF DuesFit
    <3> QED BY <2>1, <3>1, <3>2, <3>3, FramesSame, Begun DEF InputsSame
  <2>2. CASE L!Setup(w)
    BY <2>1, <2>2 DEF L!Setup, Frames
  <2>3. CASE L!ResetPassword(w)
    BY <2>1, <2>3 DEF L!ResetPassword, Frames
  <2> QED BY <1>5, <2>2, <2>3
<1>6. ASSUME NEW p \in Passwords, NEW q \in Passwords, L!UpdateProfile(w, p, q) PROVE LoginInv'
  <2> DEFINE r == [L!Nothing EXCEPT !.flow = "profile", !.step = "reuse", !.old = p, !.new = q]
  <2>1. /\ r \in Work /\ r.step = "reuse" /\ r.flow = "profile" /\ r.bring = 0 /\ r.keep = {}
        /\ r.code = <<0, 0>> /\ r.factor = 0 /\ r.age = 0
    BY <1>1 DEF Work, L!Steps, L!Flows
  <2>2. L!Begin(w, r) /\ UNCHANGED Frames
    BY <1>6 DEF L!UpdateProfile, Frames
  <2> HIDE DEF r
  <2>3. DuesFit(r) /\ r.code[1] <= drawn
    BY <1>1, <2>1 DEF DuesFit
  <2> QED BY <2>1, <2>2, <2>3, FramesSame, Begun DEF InputsSame
<1>7. ASSUME NEW p \in Passwords, NEW q \in Passwords, NEW t \in DOMAIN challenges,
             L!CompletePasswordChange(w, t, p, q)
      PROVE  LoginInv'
  <2> DEFINE r == [L!Nothing EXCEPT !.flow = "change", !.step = "reuse", !.bring = t, !.old = p,
                      !.new = q, !.factor = challenges[t].factor, !.age = challenges[t].age,
                      !.settled = challenges[t].settled]
  <2>1. challenges[t] \in Asked /\ t \in Nat
    BY <1>1 DEF LoginTypes
  <2>2. /\ r \in Work /\ r.step = "reuse" /\ r.flow = "change" /\ r.bring = t /\ r.keep = {}
        /\ r.code = <<0, 0>> /\ r.factor = challenges[t].factor /\ r.age = challenges[t].age
        /\ r.settled = challenges[t].settled
    BY <1>1, <2>1 DEF Work, Asked, L!Steps, L!Flows
  <2>3. L!Begin(w, r) /\ UNCHANGED Frames /\ challenges[t].kind = "change"
    BY <1>7 DEF L!CompletePasswordChange, Frames
  <2> HIDE DEF r
  <2>4. DuesFit(r) /\ FactorGiven(r) /\ r.code[1] <= drawn
    BY <1>1, <2>2, <2>3 DEF DuesFit, FactorGiven, LoginInv, AdmitInv
  <2> QED BY <2>1, <2>2, <2>3, <2>4, FramesSame, Begun DEF InputsSame
<1>8. <<secret, 0>> \in L!Shown
  BY DEF L!Shown
<1> QED BY <1>2, <1>3, <1>4, <1>5, <1>6, <1>7, <1>8 DEF L!Start

\* The counter of failures: a step of somebody's, or of time.
LEMMA RecordsCounted ==
  ASSUME RecordsInv, UNCHANGED <<password, history>>, crossed \subseteq crossed',
         \A u \in Calls : work'[u] = work[u] \/ RecordsFit(u)',
         perpetual' => perpetual \/ <<"counter", 0>> \in crossed',
         failures' = -1 => \A u \in Calls : work[u].step = "count" => <<"counter", 0>> \in crossed'
  PROVE  RecordsInv'
<1>1. L!RecordsAreKept'
  BY DEF RecordsInv, L!RecordsAreKept
<1>2. ASSUME NEW u \in Calls, work'[u] = work[u] PROVE RecordsFit(u)'
  <2>1. NewPassword(u)' => NewPassword(u)
    BY <1>2 DEF NewPassword
  <2> QED BY <1>2, <2>1 DEF RecordsInv, RecordsFit
<1> QED BY <1>1, <1>2 DEF RecordsInv

LEMMA Counted ==
  ASSUME LoginInv, NEW w \in Calls, RowsSame, OthersAt(w), work' \in [Calls -> Work],
         UNCHANGED <<challenges, requests, spent, spentAgain, excused, slips>>,
         crossed \subseteq crossed', failures' \in Int, failures' >= -1,
         RecordsFit(w)', SpendsNot(w), AdmitFit(w)',
         perpetual' => perpetual \/ <<"counter", 0>> \in crossed',
         failures' = -1 => \A u \in Calls : work[u].step = "count" => <<"counter", 0>> \in crossed'
  PROVE  LoginInv'
<1>1. LoginTypes'
  BY DEF LoginInv, LoginTypes, RowsSame
<1>2. RecordsInv'
  BY RecordsCounted DEF LoginInv, RowsSame, OthersAt
<1>3. SpendInv'
  BY SpendStill DEF LoginInv, RowsSame
<1>4. LoginGrows
  BY DEF LoginGrows, RowsSame, LoginInv, LoginTypes
<1>5. AdmitInv'
  BY <1>1, <1>4, AdmitStill DEF LoginInv
<1> QED BY <1>1, <1>2, <1>3, <1>5 DEF LoginInv

LEMMA CounterKept ==
  ASSUME LoginInv, NEW w \in Calls, L!Add(w) \/ L!Count(w) \/ L!Lock(w) \/ L!Success(w)
  PROVE  LoginInv'
<1> USE DEF RowsSame, L!accountVars, L!mfaVars, L!counterVars, L!ghosts
<1>1. LoginTypes /\ failures \in Int /\ failures >= -1 /\ SpendFit(w) /\ AdmitFit(w) /\ RecordsFit(w)
  BY DEF LoginInv, LoginTypes, SpendInv, AdmitInv, RecordsInv
<1>2. CASE L!Add(w)
  <2>1. /\ work[w].step = "add" /\ failures' = (IF failures = -1 THEN 0 ELSE failures) /\ RowsSame
        /\ L!GoTo(w, "count")
        /\ UNCHANGED <<challenges, requests, spent, spentAgain, excused, slips, perpetual, crossed>>
    BY <1>2 DEF L!Add
  <2>2. /\ work' \in [Calls -> Work] /\ OthersAt(w) /\ work'[w].step = "count"
        /\ work'[w].flow = work[w].flow /\ work'[w].by = work[w].by /\ work'[w].bring = work[w].bring
        /\ work'[w].code = work[w].code /\ work'[w].keep = work[w].keep
        /\ work'[w].factor = work[w].factor /\ work'[w].age = work[w].age
        /\ work'[w].settled = work[w].settled
    BY <1>1, <2>1, GoneTo DEF L!Steps
  <2>3. failures' \in Int /\ failures' >= 0
    BY <1>1, <2>1
  <2>4. RecordsFit(w)'
    BY <2>2, <2>3 DEF RecordsFit, NewPassword
  <2>5. SpendsNot(w)
    BY <1>1, <2>1, <2>2 DEF SpendsNot, SpendFit, Busy
  <2>6. AdmitFit(w)'
    BY <1>1, <2>1, <2>2 DEF AdmitFit, DuesFit, FactorGiven
  <2> QED BY <2>1, <2>2, <2>3, <2>4, <2>5, <2>6, Counted
<1>3. CASE L!Count(w)
  <2> DEFINE n == IF failures = -1 THEN 1 ELSE failures + 1
  <2>1. /\ work[w].step = "count" /\ failures' = (IF n > MaxFailures THEN MaxFailures ELSE n)
        /\ L!GoTo(w, "lock") \/ L!End(w)
        /\ perpetual' = (perpetual \/ failures = -1) /\ RowsSame
        /\ UNCHANGED <<challenges, requests, spent, spentAgain, excused, slips, crossed>>
    BY <1>3 DEF L!Count
  <2>2. failures' \in Int /\ failures' >= 0
    BY <1>1, <2>1, LoginNumbers
  <2>3. perpetual' => perpetual \/ <<"counter", 0>> \in crossed'
    BY <1>1, <2>1 DEF RecordsFit
  <2>4. CASE L!End(w)
    <3>1. work' \in [Calls -> Work] /\ OthersAt(w) /\ work'[w] = L!Nothing
      BY <1>1, <2>4, WorkDone
    <3>2. LoginTypes'
      BY <1>1, <2>1, <2>2, <3>1 DEF LoginTypes
    <3> QED BY <2>1, <2>2, <2>3, <3>1, <3>2, GoneFits, Counted
  <2>5. CASE L!GoTo(w, "lock")
    <3>1. /\ work' \in [Calls -> Work] /\ OthersAt(w) /\ work'[w].step = "lock"
          /\ work'[w].flow = work[w].flow /\ work'[w].by = work[w].by /\ work'[w].bring = work[w].bring
          /\ work'[w].code = work[w].code /\ work'[w].keep = work[w].keep
          /\ work'[w].factor = work[w].factor /\ work'[w].age = work[w].age
          /\ work'[w].settled = work[w].settled
      BY <1>1, <2>5, GoneTo DEF L!Steps
    <3>2. RecordsFit(w)'
      BY <3>1 DEF RecordsFit, NewPassword
    <3>3. SpendsNot(w)
      BY <1>1, <2>1, <3>1 DEF SpendsNot, SpendFit, Busy
    <3>4. AdmitFit(w)'
      BY <1>1, <2>1, <3>1 DEF AdmitFit, DuesFit, FactorGiven
    <3> QED BY <2>1, <2>2, <2>3, <3>1, <3>2, <3>3, <3>4, Counted
  <2> QED BY <2>1, <2>4, <2>5
<1>4. CASE L!Lock(w)
  <2>1. RowsSame /\ UNCHANGED <<failures, perpetual, challenges, requests, spent, spentAgain, excused,
                                slips, crossed>> /\ L!End(w)
    BY <1>4 DEF L!Lock
  <2>2. work' \in [Calls -> Work] /\ OthersAt(w) /\ work'[w] = L!Nothing
    BY <1>1, <2>1, WorkDone
  <2>3. LoginTypes'
    BY <1>1, <2>1, <2>2 DEF LoginTypes
  <2>4. \A u \in Calls : work[u].step = "count" /\ failures = -1 => <<"counter", 0>> \in crossed
    BY DEF LoginInv, RecordsInv, RecordsFit
  <2> QED BY <1>1, <2>1, <2>2, <2>3, <2>4, GoneFits, Counted
<1>5. CASE L!Success(w)
  <2>1. /\ work[w].step = "success" /\ L!GoTo(w, "unlock") /\ RowsSame
        /\ failures' = -1 /\ perpetual' = FALSE
        /\ crossed' = crossed \union (IF \E u \in Calls : work[u].step = "count"
                                      THEN {<<"counter", 0>>} ELSE {})
        /\ UNCHANGED <<challenges, requests, spent, spentAgain, excused, slips>>
    BY <1>5 DEF L!Success, L!Uncounted
  <2>2. /\ work' \in [Calls -> Work] /\ OthersAt(w) /\ work'[w].step = "unlock"
        /\ work'[w].flow = work[w].flow /\ work'[w].by = work[w].by /\ work'[w].bring = work[w].bring
        /\ work'[w].code = work[w].code /\ work'[w].keep = work[w].keep
        /\ work'[w].factor = work[w].factor /\ work'[w].age = work[w].age
        /\ work'[w].settled = work[w].settled
    BY <1>1, <2>1, GoneTo DEF L!Steps
  <2>3. \A u \in Calls : work[u].step = "count" => <<"counter", 0>> \in crossed'
    BY <2>1
  <2>4. RecordsFit(w)'
    BY <2>2 DEF RecordsFit, NewPassword
  <2>5. SpendsNot(w)
    BY <1>1, <2>1, <2>2 DEF SpendsNot, SpendFit, Busy
  <2>6. AdmitFit(w)'
    BY <1>1, <2>1, <2>2 DEF AdmitFit, DuesFit, FactorGiven, AgeMinded
  <2> QED BY <2>1, <2>2, <2>3, <2>4, <2>5, <2>6, Counted
<1> QED BY <1>2, <1>3, <1>4, <1>5

LEMMA UnlockKept ==
  ASSUME LoginInv, NEW w \in Calls, L!Unlock(w)
  PROVE  LoginInv'
<1> USE DEF RowsSame, L!accountVars, L!mfaVars, L!counterVars, L!ghosts
<1>1. LoginTypes /\ failures \in Int /\ failures >= -1 /\ SpendFit(w) /\ AdmitFit(w)
  BY DEF LoginInv, LoginTypes, SpendInv, AdmitInv
<1>2. work[w].step = "unlock" /\ UNCHANGED <<failures, perpetual>>
  BY DEF L!Unlock
<1>3. CASE work[w].flow # "mfa" /\ L!IssueLoginTokens(w, {})
  <2>1. FactorGiven(work[w]) /\ AgeMinded(work[w])
    BY <1>1, <1>2, <1>3 DEF AdmitFit
  <2> QED BY <1>2, <1>3, <2>1, LetIn
<1>4. CASE work[w].flow = "mfa"
  <2>1. /\ L!GoTo(w, "age") /\ RowsSame
        /\ UNCHANGED <<failures, perpetual, challenges, requests, spent, spentAgain, excused, slips, crossed>>
    BY <1>4 DEF L!Unlock
  <2>2. /\ work' \in [Calls -> Work] /\ OthersAt(w) /\ work'[w].step = "age"
        /\ work'[w].flow = work[w].flow /\ work'[w].by = work[w].by /\ work'[w].bring = work[w].bring
        /\ work'[w].code = work[w].code /\ work'[w].keep = work[w].keep
        /\ work'[w].factor = work[w].factor /\ work'[w].age = work[w].age
        /\ work'[w].settled = work[w].settled
    BY <1>1, <2>1, GoneTo DEF L!Steps
  <2>3. \A u \in Calls : work[u].step = "count" /\ failures = -1 => <<"counter", 0>> \in crossed
    BY DEF LoginInv, RecordsInv, RecordsFit
  <2>4. RecordsFit(w)'
    BY <2>2 DEF RecordsFit, NewPassword
  <2>5. SpendsNot(w)
    BY <1>1, <1>2, <2>1, <2>2 DEF SpendsNot, SpendFit, Busy
  <2>6. AdmitFit(w)'
    BY <1>1, <1>2, <2>1, <2>2 DEF AdmitFit, DuesFit, FactorGiven
  <2> QED BY <1>1, <2>1, <2>2, <2>3, <2>4, <2>5, <2>6, Counted
<1> QED BY <1>3, <1>4 DEF L!Unlock

\* Time, and an operator: no request moves.
LEMMA Idled ==
  ASSUME LoginInv, work' = work, UNCHANGED <<password, history, secret, codes, enrolled, drawn, confirmed>>,
         UNCHANGED <<requests, spent, spentAgain, excused, slips>>,
         standing' \in {1, 2}, expired' \in BOOLEAN, expired => expired', failures' \in Int, failures' >= -1,
         crossed \subseteq crossed', perpetual' => perpetual,
         failures' = -1 => \A u \in Calls : work[u].step = "count" => <<"counter", 0>> \in crossed',
         DOMAIN challenges' \subseteq DOMAIN challenges,
         \A t \in DOMAIN challenges' : challenges'[t] = challenges[t]
  PROVE  LoginInv'
<1>1. LoginTypes'
  BY DEF LoginInv, LoginTypes
<1>2. RecordsInv'
  BY RecordsCounted DEF LoginInv
<1>3. SpendInv'
  <2>1. L!FactorsAreSpentOnce'
    BY DEF LoginInv, SpendInv, L!FactorsAreSpentOnce, L!enabled
  <2>2. \A u \in Calls : SpendFit(u)'
    BY DEF LoginInv, SpendInv, SpendFit, Busy
  <2>3. \A u, v \in Calls : SpendApart(u, v)'
    BY DEF LoginInv, SpendInv, SpendApart, Busy
  <2>4. /\ spent' \intersect codes' \subseteq excused'
        /\ \A n, i \in Nat : <<n, i>> \in spent' => n <= drawn'
        /\ \A t \in Nat : L!Challenge(t) \in spent' => t <= requests'
    BY DEF LoginInv, SpendInv
  <2>5. \A t \in DOMAIN challenges' : t <= requests' /\ L!Challenge(t) \notin spent'
    BY DEF LoginInv, SpendInv
  <2> QED BY <2>1, <2>2, <2>3, <2>4, <2>5 DEF SpendInv
<1>4. AdmitInv'
  <2>1. \A u \in Calls : AdmitFit(u)'
    BY DEF LoginInv, AdmitInv, AdmitFit, DuesFit, FactorGiven, AgeMinded
  <2>2. ASSUME NEW t \in DOMAIN challenges' PROVE ChallengeFits(t)'
    <3>1. t \in DOMAIN challenges /\ challenges'[t] = challenges[t] /\ ChallengeFits(t)
      BY DEF LoginInv, AdmitInv, ChallengeFits
    <3> QED BY <3>1 DEF ChallengeFits, DuesFit, FactorGiven
  <2> QED BY <2>1, <2>2 DEF LoginInv, AdmitInv, ChallengeFits
<1> QED BY <1>1, <1>2, <1>3, <1>4 DEF LoginInv

LEMMA LapseKept ==
  ASSUME LoginInv, L!Lapse \/ L!UpdateUser
  PROVE  LoginInv'
<1> USE DEF L!accountVars, L!mfaVars, L!counterVars, L!ghosts
<1>1. /\ \A u \in Calls : work[u].step = "count" /\ failures = -1 => <<"counter", 0>> \in crossed
      /\ failures \in Int /\ failures >= -1 /\ standing \in {1, 2} /\ expired \in BOOLEAN
  BY DEF LoginInv, LoginTypes, RecordsInv, RecordsFit
<1>2. CASE /\ L!Uncounted
           /\ UNCHANGED <<password, standing, history, expired, secret, codes, enrolled, drawn, confirmed,
                          lockout, challenges, work, requests, spent, spentAgain, excused, slips>>
  <2>1. /\ failures' = -1 /\ perpetual' = FALSE
        /\ crossed' = crossed \union (IF \E u \in Calls : work[u].step = "count"
                                      THEN {<<"counter", 0>>} ELSE {})
    BY <1>2 DEF L!Uncounted
  <2>2. \A u \in Calls : work[u].step = "count" => <<"counter", 0>> \in crossed'
    BY <2>1
  <2> QED BY <1>1, <1>2, <2>1, <2>2, Idled
<1>3. CASE /\ \/ challenges' = challenges
              \/ \E t \in DOMAIN challenges : challenges' = [u \in DOMAIN challenges \ {t} |-> challenges[u]]
           /\ expired' = expired \/ expired' = TRUE
           /\ standing' = standing \/ standing' = 3 - standing
           /\ UNCHANGED <<password, history, secret, codes, enrolled, drawn, confirmed,
                          failures, perpetual, work, requests, spent, spentAgain, excused, slips, crossed>>
  <2>1. /\ DOMAIN challenges' \subseteq DOMAIN challenges
        /\ \A t \in DOMAIN challenges' : challenges'[t] = challenges[t]
    BY <1>3
  <2>2. standing' \in {1, 2}
    BY <1>1, <1>3
  <2>3. expired' \in BOOLEAN /\ (expired => expired')
    <3>1. expired' = expired \/ expired' = TRUE
      BY <1>3
    <3> QED BY <1>1, <3>1
  <2> QED BY <1>1, <1>3, <2>1, <2>2, <2>3, Idled
<1> QED BY <1>2, <1>3 DEF L!Lapse, L!UpdateUser

LEMMA CompareKept ==
  ASSUME LoginInv, NEW w \in Calls, L!Compare(w)
  PROVE  LoginInv'
<1>1. /\ work[w].step = "compare" /\ Busy(w) /\ work[w] \in Work /\ LoginTypes
      /\ SpendFit(w) /\ AdmitFit(w)
  BY DEF L!Compare, Busy, LoginInv, LoginTypes, SpendInv, AdmitInv
<1>2. CASE L!Move(w, "add")
  BY <1>1, <1>2, MovedOn DEF L!Steps
<1>3. CASE L!Refused(w)
  BY <1>3, TurnedAway
<1> DEFINE s == IF history = <<>> THEN "seed" ELSE "factor"
           a == IF expired THEN Len(history) ELSE 0
<1>4. CASE /\ work[w].old = password
           /\ work' = [work EXCEPT ![w].step = s, ![w].read = standing, ![w].factor = enrolled,
                                   ![w].age = a]
           /\ UNCHANGED <<L!accountVars, L!mfaVars, L!counterVars, challenges, requests, L!ghosts, crossed>>
  <2> DEFINE r == [work[w] EXCEPT !.step = s, !.read = standing, !.factor = enrolled, !.age = a]
  <2>1. RowsSame /\ RestSame
    BY <1>4 DEF RowsSame, RestSame, L!accountVars, L!mfaVars, L!counterVars, L!ghosts
  <2>2. work' = [work EXCEPT ![w] = r]
    BY <1>4
  <2>3. a \in Nat /\ enrolled \in Nat /\ standing \in Nat /\ s \in {"seed", "factor"}
    BY <1>1 DEF LoginTypes
  <2> HIDE DEF a, s
  <2>4. /\ r \in Work /\ r.step = s /\ r.flow = work[w].flow /\ r.by = work[w].by
        /\ r.bring = work[w].bring /\ r.old = work[w].old /\ r.code = work[w].code
        /\ r.keep = work[w].keep /\ r.factor = enrolled /\ r.age = a
    BY <1>1, <2>3 DEF Work, L!Steps
  <2> HIDE DEF r
  <2>5. work' \in [Calls -> Work] /\ work'[w] = r /\ OthersAt(w)
    BY <1>1, <2>2, <2>4, WorkSet
  <2>6. RecordsFit(w)'
    BY <1>4, <2>1, <2>3, <2>4, <2>5 DEF RecordsFit, NewPassword, RowsSame
  <2>7. SpendsNot(w)
    BY <1>1, <2>3, <2>4, <2>5 DEF SpendsNot, SpendFit, Busy
  <2>8. enrolled <= drawn /\ a <= Len(history) /\ (a # 0 /\ a = Len(history) => expired)
    BY <1>1 DEF LoginTypes, a
  <2>9. work[w].flow = "login"
    BY <1>1 DEF AdmitFit
  <2>10. AdmitFit(w)'
    BY <1>1, <2>1, <2>3, <2>4, <2>5, <2>8, <2>9 DEF AdmitFit, DuesFit, RowsSame
  <2> QED BY <2>1, <2>5, <2>6, <2>7, <2>10, Walked
<1> QED BY <1>2, <1>3, <1>4 DEF L!Compare

\* A row is added to the history: one that is known to have been crossed, or the password,
\* unlike the rows that count.
LEMMA RecordsWritten ==
  ASSUME LoginTypes, RecordsInv, NEW w \in Calls, OthersAt(w), NEW p \in Passwords,
         history' = Append(history, p), UNCHANGED <<failures, perpetual>>,
         crossed \subseteq crossed', RecordsFit(w)',
         <<"history", Len(history) + 1>> \notin crossed' =>
           /\ p = password'
           /\ \A i \in 1..Len(history) : i + HistoryLimit > Len(history) => history[i] # p
  PROVE  RecordsInv'
<1> DEFINE n == Len(history)
<1>1. history \in Seq(Passwords) /\ n \in Nat /\ DOMAIN history = 1..n
  BY DEF LoginTypes
<1>2. /\ Len(history') = n + 1 /\ DOMAIN history' = 1..(n + 1) /\ history'[n + 1] = p
      /\ \A i \in 1..n : history'[i] = history[i]
      /\ history' # <<>>
  BY <1>1
<1> HIDE DEF n
<1>3. <<"history", n + 1>> \notin crossed' =>
        p = password' /\ \A i \in 1..n : i + HistoryLimit > n => history[i] # p
  BY DEF n
<1>4. L!RecordsAreKept'
  <2>1. history' # <<>> /\ <<"history", Len(history')>> \notin crossed' => history'[Len(history')] = password'
    BY <1>2, <1>3
  <2>2. ASSUME NEW j \in DOMAIN history', <<"history", j>> \notin crossed',
               NEW i \in 1..(j - 1), i + HistoryLimit >= j
        PROVE  history'[i] # history'[j]
    <3>1. CASE j = n + 1
      <4>1. i \in 1..n /\ i + HistoryLimit > n
        BY <1>1, <2>2, <3>1, LoginNumbers
      <4> QED BY <1>2, <1>3, <2>2, <3>1, <4>1
    <3>2. CASE j # n + 1
      <4>1. j \in DOMAIN history /\ i \in 1..n /\ j \in 1..n
        BY <1>1, <1>2, <3>2
      <4>2. history[i] # history[j]
        BY <2>2, <4>1 DEF RecordsInv, L!RecordsAreKept
      <4> QED BY <1>2, <4>1, <4>2
    <3> QED BY <3>1, <3>2
  <2>3. perpetual' => <<"counter", 0>> \in crossed'
    BY DEF RecordsInv, L!RecordsAreKept
  <2> QED BY <2>1, <2>2, <2>3 DEF L!RecordsAreKept
<1>5. ASSUME NEW u \in Calls \ {w} PROVE RecordsFit(u)'
  <2>1. work'[u] = work[u] /\ RecordsFit(u) /\ work[u].read \in Nat
    BY DEF OthersAt, RecordsInv, LoginTypes, Work
  <2>2. ASSUME NewPassword(u)'
        PROVE  /\ work[u].read <= n + 1
               /\ \A i \in 1..work[u].read : i + HistoryLimit > work[u].read => history'[i] # work[u].new
    <3>1. NewPassword(u)
      BY <2>1, <2>2 DEF NewPassword
    <3>2. /\ work[u].read <= n
          /\ \A i \in 1..work[u].read : i + HistoryLimit > work[u].read => history[i] # work[u].new
      BY <2>1, <3>1 DEF RecordsFit, n
    <3>3. \A i \in 1..work[u].read : i \in 1..n
      BY <1>1, <2>1, <3>2
    <3>4. work[u].read <= n + 1
      BY <1>1, <2>1, <3>2
    <3> QED BY <1>2, <3>2, <3>3, <3>4
  <2>3. work[u].step = "count" /\ failures' = -1 => <<"counter", 0>> \in crossed'
    BY <2>1 DEF RecordsFit
  <2> QED BY <1>2, <2>1, <2>2, <2>3 DEF RecordsFit
<1> QED BY <1>4, <1>5 DEF RecordsInv

\* The rest of it when a row was added.
LEMMA Written ==
  ASSUME LoginInv, NEW w \in Calls, OthersAt(w), work' \in [Calls -> Work],
         NEW p \in Passwords, history' = Append(history, p), password' \in Passwords, expired' \in BOOLEAN,
         UNCHANGED <<standing, secret, codes, enrolled, drawn, confirmed, failures, perpetual>>,
         UNCHANGED <<challenges, requests, spent, spentAgain, excused, slips>>,
         crossed \subseteq crossed', SpendsNot(w), RecordsInv',
         work'[w].factor = work[w].factor \/ work'[w].factor = 0,
         work'[w].age = work[w].age \/ work'[w].age = 0,
         DuesFit(work[w])' => AdmitFit(w)'
  PROVE  LoginInv'
<1>1. history \in Seq(Passwords) /\ Len(history') = Len(history) + 1 /\ history' \in Seq(Passwords)
  BY DEF LoginInv, LoginTypes
<1>2. LoginTypes'
  BY <1>1 DEF LoginInv, LoginTypes
<1>3. LoginGrows
  BY <1>1 DEF LoginGrows, LoginInv, LoginTypes
<1>4. SpendInv'
  BY SpendStill DEF LoginInv
<1>5. DuesFit(work[w]) /\ work[w].factor \in Nat /\ work[w].age \in Nat
  BY DEF LoginInv, LoginTypes, Work, AdmitInv, AdmitFit
<1>6. /\ work[w].factor <= drawn /\ work[w].age <= Len(history)
      /\ Len(history) \in Nat /\ drawn \in Nat
  BY <1>5 DEF DuesFit, LoginInv, LoginTypes
<1>7. DuesFit(work[w])'
  BY <1>1, <1>5, <1>6 DEF DuesFit
<1>8. AdmitFit(w)'
  BY <1>7
<1>9. AdmitInv'
  BY <1>2, <1>3, <1>8, AdmitStill DEF LoginInv
<1> QED BY <1>2, <1>4, <1>9 DEF LoginInv

LEMMA SeedKept ==
  ASSUME LoginInv, NEW w \in Calls, L!Seed(w)
  PROVE  LoginInv'
<1>1. /\ work[w].step = "seed" /\ work[w] \in Work /\ LoginTypes /\ RecordsFit(w)
      /\ SpendFit(w) /\ AdmitFit(w)
  BY DEF L!Seed, LoginInv, LoginTypes, RecordsInv, SpendInv, AdmitInv
<1> DEFINE p == work[w].old
<1>2. /\ history' = Append(history, p) /\ expired' \in BOOLEAN
      /\ crossed' = crossed \union (IF history # <<>> THEN {<<"history", Len(history) + 1>>} ELSE {})
      /\ UNCHANGED <<password, standing, secret, codes, enrolled, drawn, confirmed, failures, perpetual>>
      /\ UNCHANGED <<challenges, requests, spent, spentAgain, excused, slips>>
      /\ L!End(w) \/ L!GoTo(w, "factor")
  BY DEF L!Seed, L!mfaVars, L!counterVars, L!ghosts
<1>3. p \in Passwords /\ password' \in Passwords /\ Len(history) \in Nat
  BY <1>1, <1>2 DEF Work, LoginTypes
<1>4. <<"history", Len(history) + 1>> \notin crossed' =>
        p = password' /\ \A i \in 1..Len(history) : i + HistoryLimit > Len(history) => history[i] # p
  <2>1. SUFFICES ASSUME <<"history", Len(history) + 1>> \notin crossed'
                 PROVE  p = password' /\ 1..Len(history) = {}
    OBVIOUS
  <2>2. history = <<>>
    BY <1>2, <2>1
  <2> QED BY <1>1, <1>2, <2>2 DEF RecordsFit
<1>5. /\ work' \in [Calls -> Work] /\ OthersAt(w) /\ RecordsFit(w)' /\ SpendsNot(w)
      /\ work'[w].factor = work[w].factor \/ work'[w].factor = 0
      /\ work'[w].age = work[w].age \/ work'[w].age = 0
      /\ DuesFit(work[w])' => AdmitFit(w)'
  <2>1. CASE L!End(w)
    <3>1. work' \in [Calls -> Work] /\ OthersAt(w) /\ work'[w] = L!Nothing
      BY <1>1, <2>1, WorkDone
    <3> QED BY <3>1, NothingIdle DEF RecordsFit, NewPassword, SpendsNot, Busy, AdmitFit
  <2>2. CASE L!GoTo(w, "factor")
    <3>1. /\ work' \in [Calls -> Work] /\ OthersAt(w) /\ work'[w].step = "factor"
          /\ work'[w].flow = work[w].flow /\ work'[w].by = work[w].by /\ work'[w].bring = work[w].bring
          /\ work'[w].code = work[w].code /\ work'[w].keep = work[w].keep
          /\ work'[w].factor = work[w].factor /\ work'[w].age = work[w].age
          /\ work'[w].settled = work[w].settled
      BY <1>1, <2>2, GoneTo DEF L!Steps
    <3>2. RecordsFit(w)'
      BY <3>1 DEF RecordsFit, NewPassword
    <3>3. SpendsNot(w)
      BY <1>1, <3>1 DEF SpendsNot, SpendFit, Busy
    <3>4. DuesFit(work[w])' => AdmitFit(w)'
      BY <1>1, <1>2, <3>1 DEF AdmitFit, FactorGiven
    <3> QED BY <3>1, <3>2, <3>3, <3>4
  <2> QED BY <1>2, <2>1, <2>2
<1> HIDE DEF p
<1>6. RecordsInv'
  BY <1>1, <1>2, <1>3, <1>4, <1>5, RecordsWritten DEF LoginInv
<1> QED BY <1>2, <1>3, <1>5, <1>6, Written

LEMMA WritePasswordKept ==
  ASSUME LoginInv, NEW w \in Calls, L!WritePassword(w)
  PROVE  LoginInv'
<1>0. /\ work[w].step = "write" /\ work[w] \in Work /\ LoginTypes /\ RecordsFit(w)
      /\ SpendFit(w) /\ AdmitFit(w)
  BY DEF L!WritePassword, LoginInv, LoginTypes, RecordsInv, SpendInv, AdmitInv
<1> DEFINE p == work[w].new
<1>1. /\ password' = p /\ history' = Append(history, p) /\ expired' = FALSE
      /\ crossed' = crossed \union (IF work[w].read # Len(history)
                                    THEN {<<"history", Len(history) + 1>>} ELSE {})
      /\ UNCHANGED <<standing, secret, codes, enrolled, drawn, confirmed, failures, perpetual>>
      /\ UNCHANGED <<challenges, requests, spent, spentAgain, excused, slips>>
      /\ IF work[w].flow = "change"
         THEN work' = [work EXCEPT ![w].step = "success", ![w].settled = @ \union {"age"}]
         ELSE L!End(w)
  BY DEF L!WritePassword, L!Recorded, L!mfaVars, L!counterVars, L!ghosts
<1>2. p \in Passwords /\ password' \in Passwords
  BY <1>0, <1>1 DEF Work
<1>3. <<"history", Len(history) + 1>> \notin crossed' =>
        p = password' /\ \A i \in 1..Len(history) : i + HistoryLimit > Len(history) => history[i] # p
  <2>1. SUFFICES ASSUME <<"history", Len(history) + 1>> \notin crossed'
                 PROVE  \A i \in 1..Len(history) : i + HistoryLimit > Len(history) => history[i] # p
    BY <1>1
  <2>2. work[w].read = Len(history)
    BY <1>1, <2>1
  <2> QED BY <1>0, <2>2 DEF RecordsFit, NewPassword
<1>4. /\ work' \in [Calls -> Work] /\ OthersAt(w) /\ RecordsFit(w)' /\ SpendsNot(w)
      /\ work'[w].factor = work[w].factor \/ work'[w].factor = 0
      /\ work'[w].age = work[w].age \/ work'[w].age = 0
      /\ DuesFit(work[w])' => AdmitFit(w)'
  <2>1. CASE work[w].flow # "change"
    <3>1. work' \in [Calls -> Work] /\ OthersAt(w) /\ work'[w] = L!Nothing
      BY <1>0, <1>1, <2>1, WorkDone
    <3> QED BY <3>1, NothingIdle DEF RecordsFit, NewPassword, SpendsNot, Busy, AdmitFit
  <2>2. CASE work[w].flow = "change"
    <3> DEFINE r == [work[w] EXCEPT !.step = "success", !.settled = work[w].settled \union {"age"}]
    <3>1. work' = [work EXCEPT ![w] = r]
      BY <1>1, <2>2
    <3>2. /\ r \in Work /\ r.step = "success" /\ r.flow = work[w].flow /\ r.by = work[w].by
          /\ r.bring = work[w].bring /\ r.code = work[w].code /\ r.keep = work[w].keep
          /\ r.factor = work[w].factor /\ r.age = work[w].age
          /\ r.settled = work[w].settled \union {"age"}
      BY <1>0 DEF Work, L!Steps
    <3> HIDE DEF r
    <3>3. work' \in [Calls -> Work] /\ work'[w] = r /\ OthersAt(w)
      BY <1>0, <3>1, <3>2, WorkSet
    <3>4. RecordsFit(w)'
      BY <3>2, <3>3 DEF RecordsFit, NewPassword
    <3>5. SpendsNot(w)
      BY <1>0, <3>2, <3>3 DEF SpendsNot, SpendFit, Busy
    <3>6. DuesFit(work[w])' => AdmitFit(w)'
      BY <1>0, <1>1, <2>2, <3>2, <3>3 DEF AdmitFit, FactorGiven, AgeMinded
    <3> QED BY <3>2, <3>3, <3>4, <3>5, <3>6
  <2> QED BY <2>1, <2>2
<1> HIDE DEF p
<1>5. RecordsInv'
  BY <1>0, <1>1, <1>2, <1>3, <1>4, RecordsWritten DEF LoginInv
<1> QED BY <1>1, <1>2, <1>4, <1>5, Written

\* Where a read fails, what it would have asked for is settled.
LEMMA PassedOver ==
  ASSUME LoginInv, NEW w \in Calls, Busy(w), NEW x \in {"factor", "age"},
         NEW s \in {"age", "success"}, L!PassOver(w, x, s),
         x = "factor" \/ FactorGiven(work[w]), s = "age" \/ x = "age"
  PROVE  LoginInv'
<1> DEFINE r == [work[w] EXCEPT !.step = s, !.settled = work[w].settled \union {x}]
<1>1. work[w] \in Work /\ LoginTypes /\ SpendFit(w) /\ AdmitFit(w)
  BY DEF LoginInv, LoginTypes, SpendInv, AdmitInv
<1>2. work' = [work EXCEPT ![w] = r] /\ RowsSame /\ RestSame
  BY DEF L!PassOver, RowsSame, RestSame, L!accountVars, L!mfaVars, L!counterVars, L!ghosts
<1>3. /\ r \in Work /\ r.step = s /\ r.flow = work[w].flow /\ r.by = work[w].by
      /\ r.bring = work[w].bring /\ r.code = work[w].code /\ r.keep = work[w].keep
      /\ r.factor = work[w].factor /\ r.age = work[w].age
      /\ r.settled = work[w].settled \union {x}
  BY <1>1 DEF Work, L!Steps
<1> HIDE DEF r
<1>4. work' \in [Calls -> Work] /\ work'[w] = r /\ OthersAt(w)
  BY <1>1, <1>2, <1>3, WorkSet
<1>5. RecordsFit(w)'
  BY <1>3, <1>4 DEF RecordsFit, NewPassword
<1>6. SpendsNot(w)
  BY <1>1, <1>3, <1>4 DEF SpendsNot, SpendFit
<1>7. AdmitFit(w)'
  <2>1. DuesFit(work[w])'
    BY <1>1, <1>2, <1>3, <1>4 DEF AdmitFit, DuesFit, RowsSame
  <2>2. FactorGiven(work[w])'
    BY <1>2, <1>3, <1>4 DEF FactorGiven, RowsSame
  <2>3. s = "success" => AgeMinded(work[w])'
    BY <1>3, <1>4 DEF AgeMinded
  <2> QED BY <1>3, <1>4, <2>1, <2>2, <2>3 DEF AdmitFit
<1> QED BY <1>2, <1>4, <1>5, <1>6, <1>7, Walked

LEMMA FactorKept ==
  ASSUME LoginInv, NEW w \in Calls, L!Factor(w)
  PROVE  LoginInv'
<1>1. work[w].step = "factor" /\ Busy(w) /\ work[w] \in Work /\ LoginTypes
  BY DEF L!Factor, L!FactorDue, Busy, LoginInv, LoginTypes
<1>2. CASE L!IssueChallenge(w, "mfa")
  BY <1>1, <1>2, Challenged
<1>3. CASE L!PassOver(w, "factor", "age")
  BY <1>1, <1>3, PassedOver
<1>4. CASE ~L!FactorDue(w) /\ L!Move(w, "age")
  <2>1. FactorGiven(work[w])
    BY <1>1, <1>4 DEF FactorGiven, L!FactorDue, L!enabled
  <2> QED BY <1>1, <1>4, <2>1, MovedOn DEF L!Steps
<1> QED BY <1>2, <1>3, <1>4 DEF L!Factor

LEMMA AgeKept ==
  ASSUME LoginInv, NEW w \in Calls, L!Age(w)
  PROVE  LoginInv'
<1>1. work[w].step = "age" /\ Busy(w) /\ work[w] \in Work /\ LoginTypes /\ AdmitFit(w)
  BY DEF L!Age, Busy, LoginInv, LoginTypes, AdmitInv
<1>2. FactorGiven(work[w])
  BY <1>1 DEF AdmitFit
<1>3. CASE L!IssueChallenge(w, "change")
  BY <1>1, <1>2, <1>3, Challenged
<1>4. CASE L!PassOver(w, "age", "success")
  BY <1>1, <1>2, <1>4, PassedOver
<1>5. ~L!ChangeDue => AgeMinded(work[w])
  <2> SUFFICES ASSUME ~L!ChangeDue PROVE AgeMinded(work[w])
    OBVIOUS
  <2>1. history = <<>> => Len(history) = 0
    OBVIOUS
  <2>2. work[w].age # 0 /\ work[w].age = Len(history) => expired
    BY <1>1 DEF AdmitFit, DuesFit
  <2> QED BY <2>1, <2>2 DEF AgeMinded, L!ChangeDue
<1>6. CASE ~L!ChangeDue /\ L!Move(w, "success")
  BY <1>1, <1>2, <1>5, <1>6, MovedOn DEF L!Steps
<1>7. CASE L!IssueLoginTokens(w, IF L!ChangeDue THEN {"age"} ELSE {}) /\ UNCHANGED L!counterVars
  <2>1. PICK passed : passed = IF L!ChangeDue THEN {"age"} ELSE {}
    OBVIOUS
  <2>2. L!IssueLoginTokens(w, passed) /\ ("age" \in passed \/ AgeMinded(work[w]))
    BY <1>5, <1>7, <2>1
  <2> QED BY <1>2, <1>7, <2>2, LetIn DEF L!counterVars
<1> QED BY <1>3, <1>4, <1>6, <1>7 DEF L!Age

LEMMA PrepareKept ==
  ASSUME LoginInv, NEW w \in Calls, L!PrepareVerify(w)
  PROVE  LoginInv'
<1>1. /\ work[w].step = "prepare" /\ Busy(w) /\ work[w] \in Work /\ LoginTypes
      /\ SpendFit(w) /\ AdmitFit(w)
  BY DEF L!PrepareVerify, Busy, LoginInv, LoginTypes, SpendInv, AdmitInv
<1> DEFINE s == IF work[w].flow = "mfa" THEN "consume" ELSE "commit"
<1>2. s \in {"consume", "commit"} /\ (s = "consume" => work[w].flow = "mfa")
  OBVIOUS
<1>3. CASE L!Move(w, s)
  BY <1>1, <1>2, <1>3, MovedOn DEF L!Steps
<1>4. CASE L!Move(w, "add")
  BY <1>1, <1>4, MovedOn DEF L!Steps
<1>5. CASE L!Refused(w)
  BY <1>5, TurnedAway
<1>6. CASE /\ work' = [work EXCEPT ![w].step = s, ![w].keep = L!Remaining(w)]
           /\ UNCHANGED <<L!accountVars, L!mfaVars, L!counterVars, challenges, requests, L!ghosts, crossed>>
  <2> DEFINE r == [work[w] EXCEPT !.step = s, !.keep = codes \ {work[w].code}]
  <2>1. work' = [work EXCEPT ![w] = r]
    BY <1>6 DEF L!Remaining
  <2>2. RowsSame /\ RestSame
    BY <1>6 DEF RowsSame, RestSame, L!accountVars, L!mfaVars, L!counterVars, L!ghosts
  <2>3. codes \ {work[w].code} \in SUBSET (Nat \X Nat)
    BY <1>1 DEF LoginTypes
  <2>4. /\ r \in Work /\ r.step = s /\ r.flow = work[w].flow /\ r.by = work[w].by
        /\ r.bring = work[w].bring /\ r.code = work[w].code /\ r.keep = codes \ {work[w].code}
        /\ r.factor = work[w].factor /\ r.age = work[w].age /\ r.settled = work[w].settled
    BY <1>1, <1>2, <2>3 DEF Work, L!Steps
  <2> HIDE DEF r, s
  <2>5. work' \in [Calls -> Work] /\ work'[w] = r /\ OthersAt(w)
    BY <1>1, <2>1, <2>4, WorkSet
  <2>6. RecordsFit(w)'
    BY <1>2, <2>4, <2>5 DEF RecordsFit, NewPassword
  <2>7. SpendsNot(w)
    BY <1>1, <1>2, <2>4, <2>5 DEF SpendsNot
  <2>8. AdmitFit(w)'
    BY <1>1, <1>2, <2>2, <2>4, <2>5 DEF AdmitFit, DuesFit, FactorGiven, RowsSame
  <2> QED BY <2>2, <2>5, <2>6, <2>7, <2>8, Walked
<1> QED BY <1>3, <1>4, <1>5, <1>6 DEF L!PrepareVerify

LEMMA ValidateReuseKept ==
  ASSUME LoginInv, NEW w \in Calls, L!ValidateReuse(w)
  PROVE  LoginInv'
<1>1. /\ work[w].step = "reuse" /\ Busy(w) /\ work[w] \in Work /\ LoginTypes
      /\ SpendFit(w) /\ AdmitFit(w)
  BY DEF L!ValidateReuse, Busy, LoginInv, LoginTypes, SpendInv, AdmitInv
<1>2. CASE L!Refused(w)
  BY <1>2, TurnedAway
<1>3. CASE ~L!Refused(w)
  <2> DEFINE s == IF work[w].flow = "reset" THEN "write" ELSE "old"
             n == Len(history)
             r == [work[w] EXCEPT !.step = s, !.read = n]
  <2>1. work[w].new \notin L!Recent /\ work' = [work EXCEPT ![w] = r]
    BY <1>3 DEF L!ValidateReuse
  <2>2. RowsSame /\ RestSame
    BY <1>3 DEF L!ValidateReuse, RowsSame, RestSame, L!accountVars, L!mfaVars, L!counterVars, L!ghosts
  <2>3. s \in {"write", "old"} /\ n \in Nat /\ DOMAIN history = 1..n
    BY <1>1 DEF LoginTypes
  <2>4. \A i \in 1..n : i + HistoryLimit > n => history[i] # work[w].new
    BY <2>1, <2>3 DEF L!Recent
  <2> HIDE DEF s, n
  <2>5. /\ r \in Work /\ r.step = s /\ r.flow = work[w].flow /\ r.by = work[w].by
        /\ r.bring = work[w].bring /\ r.code = work[w].code /\ r.keep = work[w].keep
        /\ r.new = work[w].new /\ r.read = n
        /\ r.factor = work[w].factor /\ r.age = work[w].age /\ r.settled = work[w].settled
    BY <1>1, <2>3 DEF Work, L!Steps
  <2> HIDE DEF r
  <2>6. work' \in [Calls -> Work] /\ work'[w] = r /\ OthersAt(w)
    BY <1>1, <2>1, <2>5, WorkSet
  <2>7. history' = history /\ n <= n /\ n = Len(history)
    BY <2>2, <2>3 DEF RowsSame, n
  <2>8. RecordsFit(w)'
    BY <2>3, <2>4, <2>5, <2>6, <2>7 DEF RecordsFit, NewPassword
  <2>9. SpendsNot(w)
    BY <1>1, <2>3, <2>5, <2>6 DEF SpendsNot, SpendFit
  <2>10. AdmitFit(w)'
    BY <1>1, <2>2, <2>3, <2>5, <2>6 DEF AdmitFit, DuesFit, FactorGiven, RowsSame
  <2> QED BY <2>2, <2>6, <2>8, <2>9, <2>10, Walked
<1> QED BY <1>2, <1>3

LEMMA CompareOldKept ==
  ASSUME LoginInv, NEW w \in Calls, L!CompareOld(w)
  PROVE  LoginInv'
<1>1. work[w].step = "old" /\ Busy(w) /\ NewPassword(w)
  BY DEF L!CompareOld, Busy, NewPassword
<1>2. CASE L!Refused(w)
  BY <1>2, TurnedAway
<1>3. CASE L!Move(w, "consume") \/ L!Move(w, "write")
  BY <1>1, <1>3, MovedOn DEF L!Steps
<1> QED BY <1>2, <1>3 DEF L!CompareOld

\* Factors that are drawn, enabled and disabled.
LEMMA SpendEnrols ==
  ASSUME SpendInv, NEW w \in Calls, OthersAt(w), ~Busy(w)', drawn \in Nat, drawn' \in Nat, drawn' >= drawn,
         UNCHANGED <<spent, spentAgain, excused, requests, challenges, confirmed>>,
         crossed \subseteq crossed', spent \intersect codes' \subseteq excused,
         \A u \in Calls : Busy(u) => work[u].code[1] \in Nat,
         enrolled' # 0 => secret' \in confirmed \/ <<"secret", secret'>> \in crossed',
         \A u \in Calls \ {w} : work[u].step = "enable" =>
           secret' \in confirmed \/ <<"secret", secret'>> \in crossed'
  PROVE  SpendInv'
<1>1. L!FactorsAreSpentOnce'
  BY DEF SpendInv, L!FactorsAreSpentOnce, L!enabled
<1>2. \A u \in Calls : Busy(u)' => u # w /\ Busy(u) /\ work'[u] = work[u]
  BY DEF OthersAt, Busy
<1>3. \A u \in Calls : SpendFit(u)'
  <2> SUFFICES ASSUME NEW u \in Calls, Busy(u)' PROVE SpendFit(u)'
    BY DEF SpendFit
  <2>1. u # w /\ Busy(u) /\ work'[u] = work[u] /\ SpendFit(u)
    BY <1>2 DEF SpendInv
  <2>2. work[u].code[1] <= drawn'
    BY <2>1 DEF SpendFit
  <2> QED BY <2>1, <2>2 DEF SpendFit
<1>4. \A u, v \in Calls : SpendApart(u, v)'
  BY <1>2 DEF SpendInv, SpendApart, Busy
<1>5. /\ spent' \intersect codes' \subseteq excused'
      /\ \A n, i \in Nat : <<n, i>> \in spent' => n <= drawn'
      /\ \A t \in Nat : L!Challenge(t) \in spent' => t <= requests'
      /\ \A t \in DOMAIN challenges' : t <= requests' /\ L!Challenge(t) \notin spent'
  BY DEF SpendInv
<1> QED BY <1>1, <1>3, <1>4, <1>5 DEF SpendInv

LEMMA Enrolled ==
  ASSUME LoginInv, NEW w \in Calls, L!End(w), drawn' \in Nat, drawn' >= drawn,
         enrolled' \in 0..drawn', secret' \in 0..drawn', codes' \subseteq Nat \X Nat,
         enrolled' = 0 \/ enrolled' > drawn,
         UNCHANGED <<password, standing, history, expired, confirmed, failures, perpetual, lockout>>,
         UNCHANGED <<challenges, requests, spent, spentAgain, excused, slips>>,
         crossed \subseteq crossed', spent \intersect codes' \subseteq excused,
         enrolled' # 0 => secret' \in confirmed \/ <<"secret", secret'>> \in crossed',
         \A u \in Calls \ {w} : work[u].step = "enable" =>
           secret' \in confirmed \/ <<"secret", secret'>> \in crossed'
  PROVE  LoginInv'
<1>1. work' \in [Calls -> Work] /\ OthersAt(w) /\ work'[w] = L!Nothing
  BY WorkDone DEF LoginInv
<1>2. LoginTypes'
  BY <1>1 DEF LoginInv, LoginTypes
<1>3. ~Busy(w)' /\ RecordsFit(w)' /\ AdmitFit(w)'
  BY <1>1, <1>2, GoneFits
<1>4. RecordsInv'
  BY <1>1, <1>3, RecordsStill DEF LoginInv
<1>5. LoginGrows
  BY DEF LoginGrows, LoginInv, LoginTypes
<1>6. AdmitInv'
  BY <1>1, <1>2, <1>3, <1>5, AdmitStill DEF LoginInv
<1>7. drawn \in Nat /\ \A u \in Calls : work[u].code[1] \in Nat
  BY DEF LoginInv, LoginTypes, Work
<1>8. SpendInv'
  BY <1>1, <1>3, <1>7, SpendEnrols DEF LoginInv
<1> QED BY <1>2, <1>4, <1>6, <1>8 DEF LoginInv

LEMMA EnrolKept ==
  ASSUME LoginInv, NEW w \in Calls, L!Disable(w) \/ L!DrawSecret(w) \/ L!Enable(w)
  PROVE  LoginInv'
<1> USE DEF L!accountVars, L!counterVars, L!ghosts
<1>1. /\ drawn \in Nat /\ enrolled \in 0..drawn /\ secret \in 0..drawn /\ codes \subseteq Nat \X Nat
      /\ spent \intersect codes \subseteq excused
      /\ \A u \in Calls : work[u].step = "enable" => secret \in confirmed \/ <<"secret", secret>> \in crossed
  BY DEF LoginInv, LoginTypes, SpendInv, SpendFit, Busy
<1>2. CASE L!Disable(w)
  BY <1>1, <1>2, Enrolled DEF L!Disable
<1>3. CASE L!DrawSecret(w)
  <2>1. /\ drawn' = drawn + 1 /\ secret' = drawn + 1 /\ enrolled' = 0 /\ codes' = {} /\ L!End(w)
        /\ crossed' = crossed \union (IF \E u \in Calls : work[u].step = "enable"
                                      THEN {<<"secret", drawn'>>} ELSE {})
        /\ UNCHANGED <<password, standing, history, expired, confirmed, failures, perpetual, lockout,
                       challenges, requests, spent, spentAgain, excused, slips>>
    BY <1>3 DEF L!DrawSecret
  <2>2. \A u \in Calls : work[u].step = "enable" => <<"secret", secret'>> \in crossed'
    BY <2>1
  <2> QED BY <1>1, <2>1, <2>2, Enrolled
<1>4. CASE L!Enable(w)
  <2>1. /\ work[w].step = "enable"
        /\ drawn' = drawn + 1 /\ enrolled' = drawn + 1 /\ codes' = {drawn + 1} \X (1..RecoveryCodes)
        /\ L!End(w)
        /\ UNCHANGED <<password, standing, history, expired, confirmed, failures, perpetual, lockout,
                       secret, crossed, challenges, requests, spent, spentAgain, excused, slips>>
    BY <1>4 DEF L!Enable
  <2>2. codes' \subseteq Nat \X Nat
    BY <1>1, <2>1, LoginNumbers
  <2>3. spent \intersect codes' = {}
    <3>1. ASSUME NEW c \in codes', c \in spent PROVE FALSE
      <4>1. PICK i \in 1..RecoveryCodes : c = <<drawn + 1, i>>
        BY <2>1, <3>1
      <4>2. drawn + 1 \in Nat /\ i \in Nat
        BY <1>1, LoginNumbers
      <4>3. drawn + 1 <= drawn
        BY <3>1, <4>1, <4>2 DEF LoginInv, SpendInv
      <4> QED BY <1>1, <4>3
    <3> QED BY <3>1
  <2> QED BY <1>1, <2>1, <2>2, <2>3, Enrolled
<1> QED BY <1>2, <1>3, <1>4

LEMMA VerifySecretKept ==
  ASSUME LoginInv, NEW w \in Calls, L!VerifySecret(w)
  PROVE  LoginInv'
<1>1. /\ work[w].step = "verify" /\ Busy(w) /\ work[w] \in Work /\ LoginTypes
      /\ SpendFit(w) /\ AdmitFit(w)
  BY DEF L!VerifySecret, Busy, LoginInv, LoginTypes, SpendInv, AdmitInv
<1>2. CASE L!Refused(w)
  BY <1>2, TurnedAway
<1>3. CASE ~L!Refused(w)
  <2>1. /\ L!GoTo(w, "enable") /\ confirmed' = confirmed \union {secret}
        /\ UNCHANGED <<password, standing, history, expired, secret, codes, enrolled, drawn>> /\ RestSame
    BY <1>3 DEF L!VerifySecret, RestSame, L!accountVars, L!counterVars, L!ghosts
  <2>2. /\ work' \in [Calls -> Work] /\ OthersAt(w) /\ work'[w].step = "enable"
        /\ work'[w].flow = work[w].flow /\ work'[w].by = work[w].by /\ work'[w].bring = work[w].bring
        /\ work'[w].code = work[w].code /\ work'[w].keep = work[w].keep
        /\ work'[w].factor = work[w].factor /\ work'[w].age = work[w].age
        /\ work'[w].settled = work[w].settled
    BY <1>1, <2>1, GoneTo DEF L!Steps
  <2>3. LoginTypes'
    BY <1>1, <2>1, <2>2 DEF LoginTypes, RestSame
  <2>4. RecordsFit(w)'
    BY <2>2 DEF RecordsFit, NewPassword
  <2>5. RecordsInv'
    BY <2>1, <2>2, <2>4, RecordsStill DEF LoginInv, RestSame
  <2>6. SpendsNot(w)
    BY <1>1, <2>1, <2>2 DEF SpendsNot, SpendFit
  <2>7. SpendInv'
    BY <2>1, <2>2, <2>6, SpendStill DEF LoginInv, RestSame
  <2>8. AdmitFit(w)'
    BY <1>1, <2>1, <2>2 DEF AdmitFit, DuesFit, FactorGiven
  <2>9. LoginGrows
    BY <1>1, <2>1 DEF LoginGrows, LoginTypes
  <2>10. AdmitInv'
    BY <1>1, <2>1, <2>2, <2>3, <2>8, <2>9, AdmitStill DEF LoginInv, RestSame
  <2> QED BY <2>3, <2>5, <2>7, <2>10 DEF LoginInv
<1> QED BY <1>2, <1>3

\* A challenge is neither another's nor a code.
LEMMA ChallengesDiffer ==
  /\ \A t, u : L!Challenge(t) = L!Challenge(u) => t = u
  /\ \A t, n, i : i \in Nat => L!Challenge(t) # <<n, i>>
  /\ \A t : \A c \in Nat \X Nat : L!Challenge(t) # c
BY DEF L!Challenge

LEMMA ConsumeChallengeKept ==
  ASSUME LoginInv, NEW w \in Calls, L!Consume(w)
  PROVE  LoginInv'
<1>1. /\ work[w].step = "consume" /\ Busy(w) /\ work[w] \in Work /\ LoginTypes
      /\ RecordsFit(w) /\ SpendFit(w) /\ AdmitFit(w) /\ SpendInv
  BY DEF L!Consume, Busy, LoginInv, LoginTypes, RecordsInv, SpendInv, AdmitInv
<1>2. CASE L!Refused(w)
  BY <1>2, TurnedAway
<1>3. CASE ~L!Refused(w)
  <2>1. /\ work[w].bring \in DOMAIN challenges /\ L!GoTo(w, "forget") /\ RowsSame
        /\ excused' = excused \union {L!Challenge(work[w].bring) :
             u \in {u \in Calls : work[u].step = "forget" /\ work[u].bring = work[w].bring}}
        /\ UNCHANGED <<failures, perpetual, challenges, requests, spent, spentAgain, slips, crossed>>
    BY <1>3 DEF L!Consume, RowsSame, L!accountVars, L!mfaVars, L!counterVars
  <2>2. /\ work' \in [Calls -> Work] /\ OthersAt(w) /\ work'[w].step = "forget"
        /\ work'[w].flow = work[w].flow /\ work'[w].by = work[w].by /\ work'[w].bring = work[w].bring
        /\ work'[w].old = work[w].old /\ work'[w].new = work[w].new /\ work'[w].read = work[w].read
        /\ work'[w].code = work[w].code /\ work'[w].keep = work[w].keep
        /\ work'[w].factor = work[w].factor /\ work'[w].age = work[w].age
        /\ work'[w].settled = work[w].settled
    BY <1>1, <2>1, GoneTo DEF L!Steps
  <2>3. LoginTypes'
    BY <1>1, <2>1, <2>2 DEF LoginTypes, RowsSame
  <2>4. RecordsInv'
    <3>1. NewPassword(w)' => NewPassword(w)
      BY <1>1, <2>2 DEF NewPassword
    <3>2. RecordsFit(w)'
      BY <1>1, <2>1, <2>2, <3>1 DEF RecordsFit, RowsSame
    <3> QED BY <2>1, <2>2, <3>2, RecordsStill DEF LoginInv, RowsSame
  <2>5. AdmitInv'
    <3>1. AdmitFit(w)'
      BY <1>1, <2>1, <2>2 DEF AdmitFit, DuesFit, FactorGiven, RowsSame
    <3>2. LoginGrows
      BY <1>1, <2>1 DEF LoginGrows, LoginTypes, RowsSame
    <3> QED BY <1>1, <2>1, <2>2, <2>3, <3>1, <3>2, AdmitStill DEF LoginInv
  <2>6. L!FactorsAreSpentOnce'
    BY <1>1, <2>1 DEF SpendInv, L!FactorsAreSpentOnce, L!enabled, RowsSame
  <2>7. excused \subseteq excused' /\ L!Challenge(work[w].bring) \notin spent
    BY <1>1, <2>1 DEF SpendInv
  <2>8. \A u \in Calls : SpendFit(u)'
    <3> SUFFICES ASSUME NEW u \in Calls, Busy(u)' PROVE SpendFit(u)'
      BY DEF SpendFit
    <3>1. CASE u = w
      BY <1>1, <2>1, <2>2, <2>7, <3>1 DEF SpendFit, RowsSame
    <3>2. CASE u # w
      <4>1. Busy(u) /\ SpendFit(u) /\ work'[u] = work[u]
        BY <1>1, <2>2, <3>2 DEF SpendInv, OthersAt, Busy
      <4> QED BY <2>1, <2>7, <4>1 DEF SpendFit, RowsSame
    <3> QED BY <3>1, <3>2
  <2>9. \A u, v \in Calls : SpendApart(u, v)'
    <3> SUFFICES ASSUME NEW u \in Calls, NEW v \in Calls, Busy(u)', Busy(v)' PROVE SpendApart(u, v)'
      BY DEF SpendApart
    <3>1. /\ Busy(u) /\ Busy(v) /\ SpendApart(u, v)
          /\ work'[u].by = work[u].by /\ work'[u].bring = work[u].bring
          /\ work'[v].by = work[v].by /\ work'[v].bring = work[v].bring
      BY <1>1, <2>2 DEF SpendInv, OthersAt, Busy
    <3>2. ASSUME u # v, work'[u].step = "forget", work'[v].step = "forget", work[u].bring = work[v].bring
          PROVE  L!Challenge(work[v].bring) \in excused'
      <4>1. CASE u # w /\ v # w
        BY <2>2, <2>7, <3>1, <3>2, <4>1 DEF SpendApart, OthersAt
      <4>2. CASE u = w
        BY <2>1, <2>2, <3>2, <4>2 DEF OthersAt
      <4>3. CASE v = w
        BY <2>1, <2>2, <3>2, <4>3 DEF OthersAt
      <4> QED BY <4>1, <4>2, <4>3
    <3> QED BY <3>1, <3>2 DEF SpendApart
  <2>10. /\ spent' \intersect codes' \subseteq excused'
         /\ \A n, i \in Nat : <<n, i>> \in spent' => n <= drawn'
         /\ \A t \in DOMAIN challenges' : t <= requests' /\ L!Challenge(t) \notin spent'
         /\ \A t \in Nat : L!Challenge(t) \in spent' => t <= requests'
    BY <1>1, <2>1, <2>7 DEF SpendInv, RowsSame
  <2>11. SpendInv'
    BY <2>6, <2>8, <2>9, <2>10 DEF SpendInv
  <2> QED BY <2>3, <2>4, <2>5, <2>11 DEF LoginInv
<1> QED BY <1>2, <1>3

LEMMA ForgetKept ==
  ASSUME LoginInv, NEW w \in Calls, L!Forget(w)
  PROVE  LoginInv'
<1>1. /\ work[w].step = "forget" /\ Busy(w) /\ work[w] \in Work /\ LoginTypes
      /\ RecordsFit(w) /\ SpendFit(w) /\ AdmitFit(w) /\ SpendInv
  BY DEF L!Forget, Busy, LoginInv, LoginTypes, RecordsInv, SpendInv, AdmitInv
<1> DEFINE s == IF work[w].flow = "mfa" THEN "commit" ELSE "write"
<1>2. PICK b \in Nat : b = work[w].bring
  BY <1>1 DEF Work
<1>3. /\ L!GoTo(w, s) /\ RowsSame
      /\ challenges' = [t \in DOMAIN challenges \ {b} |-> challenges[t]]
      /\ spent' = spent \union {L!Challenge(b)}
      /\ spentAgain' = spentAgain \union (spent \intersect {L!Challenge(b)})
      /\ UNCHANGED <<failures, perpetual, requests, excused, slips, crossed>>
  BY <1>2 DEF L!Forget, L!Spend, L!Forgotten, RowsSame, L!accountVars, L!mfaVars, L!counterVars
<1>4. s \in {"commit", "write"} /\ (s = "write" => work[w].flow # "mfa")
  OBVIOUS
<1> HIDE DEF s
<1>5. /\ work' \in [Calls -> Work] /\ OthersAt(w) /\ work'[w].step = s
      /\ work'[w].flow = work[w].flow /\ work'[w].by = work[w].by /\ work'[w].bring = work[w].bring
      /\ work'[w].old = work[w].old /\ work'[w].new = work[w].new /\ work'[w].read = work[w].read
      /\ work'[w].code = work[w].code /\ work'[w].keep = work[w].keep
      /\ work'[w].factor = work[w].factor /\ work'[w].age = work[w].age
      /\ work'[w].settled = work[w].settled
  BY <1>1, <1>3, <1>4, GoneTo DEF L!Steps
<1>6. DOMAIN challenges' = DOMAIN challenges \ {b} /\ \A t \in DOMAIN challenges' : challenges'[t] = challenges[t]
  BY <1>3
<1>7. LoginTypes'
  BY <1>1, <1>3, <1>5, <1>6 DEF LoginTypes, RowsSame
<1>8. RecordsInv'
  <2>1. NewPassword(w)' => NewPassword(w)
    BY <1>1, <1>4, <1>5 DEF NewPassword
  <2>2. RecordsFit(w)'
    BY <1>1, <1>3, <1>4, <1>5, <2>1 DEF RecordsFit, RowsSame
  <2> QED BY <1>3, <1>5, <2>2, RecordsStill DEF LoginInv, RowsSame
<1>9. AdmitInv'
  <2>1. AdmitFit(w)'
    BY <1>1, <1>3, <1>4, <1>5 DEF AdmitFit, DuesFit, FactorGiven, RowsSame
  <2>2. LoginGrows
    BY <1>1, <1>3 DEF LoginGrows, LoginTypes, RowsSame
  <2> QED BY <1>1, <1>3, <1>5, <1>6, <1>7, <2>1, <2>2, AdmitStill DEF LoginInv
<1>10. L!FactorsAreSpentOnce'
  <2>1. L!Challenge(b) \in spent => L!Challenge(b) \in excused
    BY <1>1, <1>2 DEF SpendFit
  <2> QED BY <1>1, <1>3, <2>1 DEF SpendInv, L!FactorsAreSpentOnce, L!enabled, RowsSame
<1>11. \A u \in Calls : SpendFit(u)'
  <2> SUFFICES ASSUME NEW u \in Calls, Busy(u)' PROVE SpendFit(u)'
    BY DEF SpendFit
  <2>1. /\ Busy(u) /\ SpendFit(u) /\ work'[u].by = work[u].by /\ work'[u].bring = work[u].bring
        /\ work'[u].code = work[u].code /\ work'[u].keep = work[u].keep
        /\ SpendApart(u, w)
    BY <1>1, <1>5 DEF SpendInv, OthersAt, Busy
  <2>2. work[u].by # b
    BY <1>1, <1>2, <2>1 DEF SpendApart
  <2>3. L!Challenge(work[u].by) \notin spent' /\ work[u].by \notin DOMAIN challenges'
    BY <1>3, <1>6, <2>1, <2>2, ChallengesDiffer DEF SpendFit
  <2>4. work'[u].step = "forget" => u # w /\ work'[u] = work[u]
    BY <1>4, <1>5 DEF OthersAt
  <2>5. ASSUME work'[u].step = "forget", L!Challenge(work[u].bring) \in spent'
        PROVE  L!Challenge(work[u].bring) \in excused
    <3>1. CASE work[u].bring = b
      BY <1>1, <1>2, <2>1, <2>4, <2>5, <3>1 DEF SpendApart
    <3>2. CASE work[u].bring # b
      BY <1>3, <2>1, <2>4, <2>5, <3>2, ChallengesDiffer DEF SpendFit
    <3> QED BY <3>1, <3>2
  <2>6. work'[u].step = "enable" => work[u].step = "enable"
    BY <1>4, <1>5 DEF OthersAt
  <2> QED BY <1>3, <2>1, <2>3, <2>5, <2>6 DEF SpendFit, RowsSame
<1>12. \A u, v \in Calls : SpendApart(u, v)'
  <2> SUFFICES ASSUME NEW u \in Calls, NEW v \in Calls, Busy(u)', Busy(v)' PROVE SpendApart(u, v)'
    BY DEF SpendApart
  <2>1. Busy(u) /\ Busy(v) /\ SpendApart(u, v)
    BY <1>1, <1>5 DEF SpendInv, OthersAt, Busy
  <2>2. /\ work'[u].by = work[u].by /\ work'[v].by = work[v].by
        /\ work'[u].bring = work[u].bring /\ work'[v].bring = work[v].bring
        /\ work'[u].step = "forget" => work[u].step = "forget"
        /\ work'[v].step = "forget" => work[v].step = "forget"
    BY <1>4, <1>5 DEF OthersAt
  <2> QED BY <1>3, <2>1, <2>2 DEF SpendApart
<1>13. /\ spent' \intersect codes' \subseteq excused'
       /\ \A n, i \in Nat : <<n, i>> \in spent' => n <= drawn'
  <2>1. codes' \subseteq Nat \X Nat /\ codes' = codes
    BY <1>1, <1>3 DEF LoginTypes, RowsSame
  <2> QED BY <1>1, <1>3, <2>1, ChallengesDiffer DEF SpendInv, RowsSame
<1>14. /\ \A t \in DOMAIN challenges' : t <= requests' /\ L!Challenge(t) \notin spent'
       /\ \A t \in Nat : L!Challenge(t) \in spent' => t <= requests'
  <2>1. b <= requests
    BY <1>1, <1>2 DEF SpendFit
  <2> QED BY <1>1, <1>3, <1>6, <2>1, ChallengesDiffer DEF SpendInv
<1>15. SpendInv'
  BY <1>10, <1>11, <1>12, <1>13, <1>14 DEF SpendInv
<1> QED BY <1>7, <1>8, <1>9, <1>15 DEF LoginInv

LEMMA CommitKept ==
  ASSUME LoginInv, NEW w \in Calls, L!Commit(w)
  PROVE  LoginInv'
<1>0. /\ work[w].step = "commit" /\ Busy(w) /\ work[w] \in Work /\ LoginTypes
      /\ SpendFit(w) /\ AdmitFit(w) /\ SpendInv
  BY DEF L!Commit, Busy, LoginInv, LoginTypes, SpendInv, AdmitInv
<1> DEFINE s == IF work[w].flow = "mfa" THEN "success" ELSE "disable"
           r == [work[w] EXCEPT !.step = s, !.settled = work[w].settled \union {"factor"}]
<1>1. PICK c \in Nat \X Nat : c = work[w].code
  BY <1>0 DEF Work
<1>2. PICK k \in SUBSET (Nat \X Nat) : k = work[w].keep
  BY <1>0 DEF Work
<1>3. /\ work' = [work EXCEPT ![w] = r]
      /\ UNCHANGED <<password, standing, history, expired, enrolled, secret, drawn, confirmed>>
      /\ UNCHANGED <<failures, perpetual, lockout, challenges, requests, slips, crossed>>
  BY <1>0 DEF L!Commit, L!accountVars, L!counterVars, LoginTypes
<1>4. \/ UNCHANGED <<codes, spent, spentAgain, excused>>
      \/ /\ codes' = k /\ spent' = spent \union {c}
         /\ spentAgain' = spentAgain \union (spent \intersect {c})
         /\ excused' = excused \union ((k \union {c}) \ codes)
  BY <1>1, <1>2 DEF L!Commit, L!Spend
<1>5. s \in {"success", "disable"} /\ (s = "success" => work[w].flow = "mfa")
  OBVIOUS
<1>6. /\ r \in Work /\ r.step = s /\ r.flow = work[w].flow /\ r.by = work[w].by
      /\ r.bring = work[w].bring /\ r.code = c /\ r.keep = k /\ r.factor = work[w].factor
      /\ r.age = work[w].age /\ "factor" \in r.settled
  BY <1>0, <1>1, <1>2, <1>5 DEF Work, L!Steps
<1> HIDE DEF s, r
<1>7. work' \in [Calls -> Work] /\ work'[w] = r /\ OthersAt(w)
  BY <1>0, <1>3, <1>6, WorkSet
<1>8. LoginTypes'
  BY <1>0, <1>3, <1>4, <1>7 DEF LoginTypes
<1>9. RecordsInv'
  <2>1. RecordsFit(w)'
    BY <1>5, <1>6, <1>7 DEF RecordsFit, NewPassword
  <2> QED BY <1>3, <1>7, <2>1, RecordsStill DEF LoginInv
<1>10. AdmitInv'
  <2>1. AdmitFit(w)'
    BY <1>0, <1>3, <1>5, <1>6, <1>7 DEF AdmitFit, DuesFit, FactorGiven
  <2>2. LoginGrows
    BY <1>0, <1>3 DEF LoginGrows, LoginTypes
  <2> QED BY <1>0, <1>3, <1>7, <1>8, <2>1, <2>2, AdmitStill DEF LoginInv
<1>11. SpendInv'
  <2>1. /\ c \notin k /\ c[1] <= drawn
        /\ \A t : L!Challenge(t) # c
    BY <1>0, <1>1, <1>2, ChallengesDiffer DEF SpendFit
  <2>2. /\ spent \subseteq spent' /\ spent' \subseteq spent \union {c} /\ excused \subseteq excused'
    BY <1>4
  <2>3. spentAgain' \subseteq excused' /\ spent' \intersect codes' \subseteq excused'
    BY <1>0, <1>4, <2>1 DEF SpendInv, L!FactorsAreSpentOnce
  <2>4. L!FactorsAreSpentOnce'
    BY <1>0, <1>3, <2>3 DEF SpendInv, L!FactorsAreSpentOnce, L!enabled
  <2>5. \A t : L!Challenge(t) \in spent' <=> L!Challenge(t) \in spent
    BY <2>1, <2>2
  <2>6. \A u \in Calls : SpendFit(u)'
    <3> SUFFICES ASSUME NEW u \in Calls, Busy(u)' PROVE SpendFit(u)'
      BY DEF SpendFit
    <3>1. CASE u = w
      BY <1>0, <1>1, <1>2, <1>3, <1>5, <1>6, <1>7, <2>5, <3>1 DEF SpendFit
    <3>2. CASE u # w
      <4>1. Busy(u) /\ SpendFit(u) /\ work'[u] = work[u]
        BY <1>0, <1>7, <3>2 DEF SpendInv, OthersAt, Busy
      <4> QED BY <1>3, <2>2, <2>5, <4>1 DEF SpendFit
    <3> QED BY <3>1, <3>2
  <2>7. \A u, v \in Calls : SpendApart(u, v)'
    <3> SUFFICES ASSUME NEW u \in Calls, NEW v \in Calls, Busy(u)', Busy(v)' PROVE SpendApart(u, v)'
      BY DEF SpendApart
    <3>1. /\ Busy(u) /\ Busy(v) /\ SpendApart(u, v)
          /\ work'[u].by = work[u].by /\ work'[u].bring = work[u].bring
          /\ work'[v].by = work[v].by /\ work'[v].bring = work[v].bring
          /\ work'[u].step = "forget" => work[u].step = "forget"
          /\ work'[v].step = "forget" => work[v].step = "forget"
      BY <1>0, <1>5, <1>6, <1>7 DEF SpendInv, OthersAt, Busy
    <3> QED BY <2>2, <3>1 DEF SpendApart
  <2>8. \A n, i \in Nat : <<n, i>> \in spent' => n <= drawn'
    <3> SUFFICES ASSUME NEW n \in Nat, NEW i \in Nat, <<n, i>> \in spent' PROVE n <= drawn
      BY <1>3
    <3>1. CASE <<n, i>> = c
      BY <2>1, <3>1
    <3>2. CASE <<n, i>> \in spent
      BY <1>0, <3>2 DEF SpendInv
    <3> QED BY <2>2, <3>1, <3>2
  <2>9. /\ \A t \in DOMAIN challenges' : t <= requests' /\ L!Challenge(t) \notin spent'
        /\ \A t \in Nat : L!Challenge(t) \in spent' => t <= requests'
    BY <1>0, <1>3, <2>5 DEF SpendInv
  <2> QED BY <2>3, <2>4, <2>6, <2>7, <2>8, <2>9 DEF SpendInv
<1> QED BY <1>8, <1>9, <1>10, <1>11 DEF LoginInv

LEMMA LoginStep ==
  ASSUME LoginInv, L!Next
  PROVE  LoginInv'
<1>1. ASSUME NEW w \in Calls, L!Start(w) PROVE LoginInv'
  BY <1>1, StartKept
<1>2. ASSUME NEW w \in Calls, L!Continue(w) PROVE LoginInv'
  <2>1. CASE L!Compare(w) \/ L!Seed(w) \/ L!Factor(w) \/ L!Age(w) \/ L!Unlock(w)
    BY <2>1, CompareKept, SeedKept, FactorKept, AgeKept, UnlockKept
  <2>2. CASE L!Add(w) \/ L!Count(w) \/ L!Lock(w) \/ L!Success(w)
    BY <2>2, CounterKept
  <2>3. CASE L!PrepareVerify(w) \/ L!Consume(w) \/ L!Forget(w) \/ L!Commit(w)
    BY <2>3, PrepareKept, ConsumeChallengeKept, ForgetKept, CommitKept
  <2>4. CASE L!Disable(w) \/ L!DrawSecret(w) \/ L!VerifySecret(w) \/ L!Enable(w)
    BY <2>4, EnrolKept, VerifySecretKept
  <2>5. CASE L!ValidateReuse(w) \/ L!CompareOld(w) \/ L!WritePassword(w)
    BY <2>5, ValidateReuseKept, CompareOldKept, WritePasswordKept
  <2>6. CASE L!Fails(w)
    BY <2>6, TurnedAway DEF L!Fails
  <2> QED BY <1>2, <2>1, <2>2, <2>3, <2>4, <2>5, <2>6 DEF L!Continue
<1>3. CASE L!Lapse \/ L!UpdateUser
  BY <1>3, LapseKept
<1> QED BY <1>1, <1>2, <1>3 DEF L!Next

LEMMA LoginStutters ==
  ASSUME LoginInv, UNCHANGED L!vars
  PROVE  LoginInv'
<1>1. /\ UNCHANGED <<password, standing, history, expired, secret, codes, enrolled, drawn, confirmed>>
      /\ UNCHANGED <<failures, perpetual, challenges, work, requests>>
      /\ UNCHANGED <<spent, spentAgain, excused, slips, crossed>>
  BY DEF L!vars, L!accountVars, L!mfaVars, L!counterVars, L!ghosts
<1>2. LoginTypes'
  BY <1>1 DEF LoginInv, LoginTypes
<1>3. RecordsInv'
  BY <1>1 DEF LoginInv, RecordsInv, L!RecordsAreKept, RecordsFit, NewPassword
<1>4. SpendInv'
  BY <1>1 DEF LoginInv, SpendInv, L!FactorsAreSpentOnce, L!enabled, SpendFit, SpendApart, Busy
<1>5. AdmitInv'
  BY <1>1 DEF LoginInv, AdmitInv, AdmitFit, DuesFit, FactorGiven, AgeMinded
<1> QED BY <1>2, <1>3, <1>4, <1>5 DEF LoginInv

LEMMA LoginInvariant == L!Spec => []LoginInv
<1>1. L!Init => LoginInv
  BY LoginFirst
<1>2. LoginInv /\ [L!Next]_(L!vars) => LoginInv'
  BY LoginStep, LoginStutters
<1> QED BY <1>1, <1>2, PTL DEF L!Spec

\* Who is let in has given the factor that was enrolled when the password was compared, and
\* changed the password that had expired by then, whatever happened between the challenges:
\* each of them unless the very read that would have asked for it failed in this login, which
\* the code takes for nothing due (auth.go:772-778, password_history.go:120-124).
THEOREM AdmittedWhole == L!Spec => []AdmittedInFull
<1>1. LoginInv => AdmittedInFull
  BY DEF LoginInv, AdmitInv, AdmittedInFull, L!AdmittedInFull
<1> QED BY <1>1, LoginInvariant, PTL

\* A recovery code and a challenge are good for one request, but for those that two held at a
\* time or a late one put back; and an enabled factor is one its owner gave a code of.
THEOREM FactorsOnce == L!Spec => []FactorsAreSpentOnce
<1>1. LoginInv => FactorsAreSpentOnce
  BY DEF LoginInv, SpendInv, FactorsAreSpentOnce
<1> QED BY <1>1, LoginInvariant, PTL

\* The newest row of the history is the password and repeats none of those that count, unless
\* another wrote while its writer was at work; and failures count for good only if the counter
\* went between its two steps.
THEOREM PasswordsOnRecord == L!Spec => []RecordsAreKept
<1>1. LoginInv => RecordsAreKept
  BY DEF LoginInv, RecordsInv, RecordsAreKept
<1> QED BY <1>1, LoginInvariant, PTL
=============================================================================
