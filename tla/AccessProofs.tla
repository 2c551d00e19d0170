---------------------------- MODULE AccessProofs ----------------------------
(***************************************************************************)
(* Why a token that was ended stays ended, why the rules of roles say what *)
(* their rows say, and why no node answers by rules that are too old.      *)
(*                                                                         *)
(* Tokens.  An entry of the blacklist lasts as long as a token of its type *)
(* does, counted from the time it is written, and so outlasts the token,   *)
(* unless that was issued under a longer lifetime (EntriesLast).  Whoever  *)
(* brings an ended token afterwards is refused, or the token is one of     *)
(* these (EndedOutlived); and a refresh token that was exchanged while a   *)
(* worker had it in hand is one that two of them brought (ExchangesMeet).  *)
(*                                                                         *)
(* Roles.  Rows and rules agree as long as no two changes overlapped,      *)
(* because what a call has read of its role is true when it commits, or    *)
(* the role is a new one that nothing refers to (SeenFits), and because    *)
(* the user has no rule without a role (NoStrayRules).  A menu that is     *)
(* given its name anew brings rows that have no rules: they are adrift     *)
(* until their role is synced.  What an enforcer says was right before it  *)
(* was kept, by no more than the load took (Recent).                       *)
(***************************************************************************)
EXTENDS MCAccess, SequenceTheorems, TLAPS

(***************************************************************************)
(* Tokens                                                                  *)
(***************************************************************************)

WorkersFit ==
  \A w \in Workers :
    /\ stage[w] = "idle" => bearer[w] = 0 /\ w \notin ended
    /\ stage[w] # "idle" => bearer[w] \in DOMAIN tokens
    /\ stage[w] = "exchange" => tokens[bearer[w]].type = "refresh"

\* What has a lifetime does not last longer from now on.
TokensFit ==
  \A i \in DOMAIN tokens :
    tokens[i].lifetime # 0 => tokens[i].until <= now + tokens[i].lifetime

\* The token has expired, or its entry lasts until then or as long as the clock runs.
EndedFor(i) ==
  now >= tokens[i].until \/ blacklist[i] >= tokens[i].until \/ blacklist[i] > MaxTime
EntriesLast ==
  /\ revoked \subseteq DOMAIN tokens
  /\ \A i \in revoked \ outlived : EndedFor(i)

EndedOutlived == \A w \in ended : bearer[w] \in outlived

ToExchange(w) == stage[w] # "idle" /\ tokens[bearer[w]].type = "refresh"
ExchangesMeet ==
  /\ \A w \in Workers : ToExchange(w) /\ bearer[w] \in revoked =>
       bearer[w] \in overlapped \union outlived
  /\ \A v, w \in Workers : v # w /\ ToExchange(w) /\ bearer[v] = bearer[w] =>
       bearer[w] \in overlapped

TokensInv ==
  /\ TypeOK /\ WorkersFit /\ TokensFit /\ EntriesLast /\ EndedOutlived /\ ExchangesMeet
  /\ EndedStaysEnded

-----------------------------------------------------------------------------
LEMMA TokenFacts ==
  ASSUME TypeOK
  PROVE  /\ Len(tokens) \in Nat /\ DOMAIN tokens = 1..Len(tokens)
         /\ DOMAIN tokens \subseteq Ids
         /\ \A i \in DOMAIN tokens : tokens[i] \in TokenOf
         /\ now \in Nat /\ now <= MaxTime
         /\ \A type \in Types : lifetimes[type] \in Nat
         /\ Forever \in Nat /\ Forever > MaxTime
BY LifetimeAssumption DEF TypeOK, Ids, Types, Forever

\* What is issued comes after what was.
LEMMA IssuedFollow ==
  ASSUME TypeOK
  PROVE  /\ Issued \in Seq(TokenOf) /\ Len(Issued) = Len(tokens) + 2
         /\ \A i \in DOMAIN tokens : i \in DOMAIN Issued /\ Issued[i] = tokens[i]
         /\ \A i \in DOMAIN Issued : i \notin DOMAIN tokens /\ Issued[i].lifetime # 0 =>
              Issued[i].until = now + Issued[i].lifetime
<1> DEFINE a == IssueApplicationToken("access")
           r == IssueApplicationToken("refresh")
<1>1. ASSUME NEW type \in Types
      PROVE  /\ IssueApplicationToken(type) \in TokenOf
             /\ IssueApplicationToken(type).lifetime # 0 =>
                  IssueApplicationToken(type).until = now + IssueApplicationToken(type).lifetime
  BY <1>1, TokenFacts DEF IssueApplicationToken, TokenOf
<1>2. /\ a \in TokenOf /\ (a.lifetime # 0 => a.until = now + a.lifetime)
      /\ r \in TokenOf /\ (r.lifetime # 0 => r.until = now + r.lifetime)
  BY <1>1 DEF Types
<1>3. Issued = tokens \o <<a, r>> /\ tokens \in Seq(TokenOf)
  BY DEF Issued, TypeOK
<1> HIDE DEF a, r
<1>4. <<a, r>> \in Seq(TokenOf) /\ Len(<<a, r>>) = 2 /\ <<a, r>>[1] = a /\ <<a, r>>[2] = r
  BY <1>2
<1>5. /\ Issued \in Seq(TokenOf) /\ Len(Issued) = Len(tokens) + 2
      /\ \A i \in 1..(Len(tokens) + 2) :
           Issued[i] = IF i <= Len(tokens) THEN tokens[i] ELSE <<a, r>>[i - Len(tokens)]
  BY <1>3, <1>4, ConcatProperties
<1>6. \A i \in DOMAIN Issued : i \notin DOMAIN tokens => Issued[i] = a \/ Issued[i] = r
  BY <1>4, <1>5, TokenFacts
<1> QED BY <1>2, <1>5, <1>6, TokenFacts

LEMMA TokensInitially == Init => TokensInv
BY LifetimeAssumption
   DEF Init, TokensInv, TypeOK, WorkersFit, TokensFit, EntriesLast, EndedOutlived, ExchangesMeet,
       ToExchange, EndedStaysEnded, Ids, Types, Forever
\* An entry that is written outlasts its token, or the token is noted.
LEMMA EntryOutlasts ==
  ASSUME TypeOK, TokensFit, EntriesLast, NEW i \in DOMAIN tokens, BlacklistToken(i), now' = now,
         \A j \in DOMAIN tokens : j \in DOMAIN tokens' /\ tokens'[j] = tokens[j]
  PROVE  EntriesLast' /\ blacklist' \in [Ids -> Nat]
<1> DEFINE type == tokens[i].type
           l == lifetimes[type]
<1>1. /\ i \in Ids /\ type \in Types /\ l \in Nat /\ now \in Nat /\ now <= MaxTime
      /\ tokens[i].lifetime \in Nat /\ tokens[i].until \in Nat
      /\ Forever \in Nat /\ Forever > MaxTime /\ MaxTime \in Nat
  BY TokenFacts, LifetimeAssumption DEF TokenOf
<1>2. BlacklistTTL(type) \in Nat
  BY <1>1 DEF BlacklistTTL
<1>3. blacklist' = [blacklist EXCEPT ![i] = now + BlacklistTTL(type)]
      /\ revoked' = revoked \union {i}
      /\ outlived' = outlived \union (IF Outlives(i) THEN {i} ELSE {})
  BY DEF BlacklistToken
<1>4. blacklist' \in [Ids -> Nat]
  BY <1>1, <1>2, <1>3 DEF TypeOK
<1>5. i \notin outlived' => blacklist'[i] >= tokens[i].until \/ blacklist'[i] > MaxTime
  <2> SUFFICES ASSUME ~Outlives(i)
               PROVE  blacklist'[i] >= tokens[i].until \/ blacklist'[i] > MaxTime
    BY <1>3
  <2>1. blacklist'[i] = now + BlacklistTTL(type)
    BY <1>1, <1>3 DEF TypeOK
  <2>2. CASE l = 0
    BY <1>1, <2>1, <2>2 DEF BlacklistTTL
  <2>3. CASE l # 0
    <3>1. tokens[i].lifetime # 0 /\ tokens[i].lifetime <= l
      BY <1>1, <2>3 DEF Outlives
    <3>2. tokens[i].until <= now + tokens[i].lifetime
      BY <3>1 DEF TokensFit
    <3> QED BY <1>1, <2>1, <2>3, <3>1, <3>2 DEF BlacklistTTL
  <2> QED BY <2>2, <2>3
<1>6. ASSUME NEW j \in revoked \ outlived, j # i PROVE EndedFor(j)'
  <2>1. EndedFor(j) /\ j \in DOMAIN tokens /\ tokens'[j] = tokens[j]
    BY <1>6 DEF EntriesLast
  <2>2. j \in Ids
    BY <2>1, TokenFacts
  <2>3. blacklist'[j] = blacklist[j]
    BY <1>3, <1>6, <2>2 DEF TypeOK
  <2> QED BY <2>1, <2>3 DEF EndedFor
<1>7. ASSUME i \notin outlived' PROVE EndedFor(i)'
  BY <1>5, <1>7 DEF EndedFor
<1>8. EntriesLast'
  BY <1>3, <1>6, <1>7 DEF EntriesLast
<1> QED BY <1>4, <1>8

\* What is on no list and has not expired was not ended, or the token is noted.
LEMMA AdmittedEndedOutlived ==
  ASSUME TypeOK, EntriesLast, NEW i \in revoked, NEW type, Admits(i, type)
  PROVE  i \in outlived
<1>1. i \in DOMAIN tokens
  BY DEF EntriesLast
<1>2. /\ i \in Ids /\ tokens[i].until \in Nat /\ now \in Nat /\ blacklist[i] = 0
      /\ now < tokens[i].until
  BY <1>1, TokenFacts DEF Admits, Parses, TokenBlacklisted, TokenOf
<1>3. ~EndedFor(i)
  BY <1>2, LifetimeAssumption DEF EndedFor
<1> QED BY <1>3 DEF EntriesLast

LEMMA LoginKeeps == ASSUME TokensInv, IssueLoginTokens PROVE TokensInv'
<1> USE DEF TokensInv, workerVars, ghosts
<1>1. DOMAIN tokens = {} /\ Len(tokens) = 0
  BY DEF IssueLoginTokens
<1>2. tokens' = Issued /\ UNCHANGED <<now, lifetimes, blacklist, status, workerVars, ghosts>>
  BY DEF IssueLoginTokens
<1>3. \A w \in Workers : stage[w] = "idle"
  BY <1>1 DEF WorkersFit, TypeOK
<1>4. revoked = {}
  BY <1>1 DEF EntriesLast
<1>5. TypeOK'
  <2>1. tokens' \in Seq(TokenOf) /\ Len(tokens') = 2
    <3>1. Issued \in Seq(TokenOf) /\ Len(Issued) = Len(tokens) + 2
      BY IssuedFollow
    <3> HIDE DEF TokensInv
    <3> QED BY <1>1, <1>2, <3>1
  <2> QED BY <1>2, <2>1, LifetimeAssumption DEF TypeOK
<1>6. WorkersFit'
  BY <1>2, <1>3 DEF WorkersFit
<1>7. TokensFit'
  <2>1. ASSUME NEW i \in DOMAIN tokens', tokens'[i].lifetime # 0
        PROVE  tokens'[i].until <= now + tokens'[i].lifetime
    <3>1. tokens'[i].until = now + tokens'[i].lifetime
      BY <1>1, <1>2, <2>1, IssuedFollow
    <3>2. tokens'[i] \in TokenOf
      BY <1>5, <2>1 DEF TypeOK
    <3> QED BY <3>1, <3>2, TokenFacts DEF TokenOf
  <2> QED BY <1>2, <2>1 DEF TokensFit
<1>8. EntriesLast'
  BY <1>2, <1>4 DEF EntriesLast
<1>9. EndedOutlived' /\ ExchangesMeet' /\ EndedStaysEnded'
  BY <1>2, <1>3 DEF EndedOutlived, ExchangesMeet, ToExchange, EndedStaysEnded
<1> QED BY <1>5, <1>6, <1>7, <1>8, <1>9

LEMMA BringKeeps ==
  ASSUME TokensInv, NEW w \in Workers, NEW i \in DOMAIN tokens, NEW type \in Types, Bring(w, i, type)
  PROVE  TokensInv'
<1> USE DEF TokensInv
<1>1. /\ stage[w] = "idle" /\ Admits(i, type)
      /\ stage' = [stage EXCEPT ![w] = "find"] /\ bearer' = [bearer EXCEPT ![w] = i]
      /\ ended' = (IF i \in revoked THEN ended \union {w} ELSE ended)
      /\ overlapped' = (IF type = "refresh" /\ \E v \in Workers : bearer[v] = i
                          THEN overlapped \union {i} ELSE overlapped)
      /\ UNCHANGED <<now, lifetimes, tokens, blacklist, status, revoked, twice, revived, outlived>>
  BY DEF Bring, GoTo, tokenVars
<1>2. i \in Ids
  BY TokenFacts
<1>3. /\ stage'[w] = "find" /\ bearer'[w] = i
      /\ \A v \in Workers : v # w => stage'[v] = stage[v] /\ bearer'[v] = bearer[v]
  BY <1>1 DEF TypeOK
<1>4. TypeOK'
  BY <1>1, <1>2 DEF TypeOK
<1>5. WorkersFit'
  BY <1>1, <1>3 DEF WorkersFit
<1>6. TokensFit' /\ EntriesLast'
  BY <1>1 DEF TokensFit, EntriesLast, EndedFor
<1>7. i \in revoked => i \in outlived
  BY <1>1, AdmittedEndedOutlived
<1>8. EndedOutlived'
  BY <1>1, <1>3, <1>7 DEF EndedOutlived, WorkersFit
<1>9. ExchangesMeet'
  <2>1. tokens[i].type = "refresh" <=> type = "refresh"
    BY <1>1 DEF Admits, Parses
  <2>2. \A v \in Workers : ToExchange(v)' /\ v # w => ToExchange(v)
    BY <1>1, <1>3 DEF ToExchange
  <2>3. ToExchange(w)' => type = "refresh"
    BY <1>1, <1>3, <2>1 DEF ToExchange
  <2>4. \A v \in Workers : ToExchange(v)' /\ bearer'[v] \in revoked' =>
          bearer'[v] \in overlapped' \union outlived'
    BY <1>1, <1>3, <1>7, <2>2 DEF ExchangesMeet
  <2>5. ASSUME NEW u \in Workers, NEW v \in Workers, u # v, ToExchange(v)',
               bearer'[u] = bearer'[v]
        PROVE  bearer'[v] \in overlapped'
    <3>1. CASE v = w
      BY <1>1, <1>3, <2>3, <2>5, <3>1
    <3>2. CASE u = w
      <4>1. tokens[i].type = "refresh" /\ bearer[v] = i
        BY <1>1, <1>3, <2>5, <3>2 DEF ToExchange
      <4> QED BY <1>1, <1>3, <2>1, <2>5, <3>2, <4>1
    <3>3. CASE u # w /\ v # w
      BY <1>1, <1>3, <2>2, <2>5, <3>3 DEF ExchangesMeet
    <3> QED BY <3>1, <3>2, <3>3
  <2> QED BY <2>4, <2>5 DEF ExchangesMeet
<1>10. EndedStaysEnded'
  BY <1>1 DEF EndedStaysEnded
<1> QED BY <1>4, <1>5, <1>6, <1>8, <1>9, <1>10

LEMMA FindKeeps == ASSUME TokensInv, NEW w \in Workers, FindUser(w) PROVE TokensInv'
<1> USE DEF TokensInv
<1>1. /\ stage[w] = "find"
      /\ UNCHANGED <<now, lifetimes, tokens, blacklist, status, revoked, twice, overlapped, outlived>>
      /\ \/ /\ stage' = [stage EXCEPT ![w] = "idle"] /\ bearer' = [bearer EXCEPT ![w] = 0]
            /\ ended' = ended \ {w}
            /\ revived' = revived \/ revived' = revived \union (IF w \in ended THEN {bearer[w]} ELSE {})
         \/ /\ tokens[bearer[w]].type = "refresh"
            /\ stage' = [stage EXCEPT ![w] = "exchange"]
            /\ UNCHANGED <<bearer, ended, revived>>
  BY DEF FindUser, End, GoTo, tokenVars
<1>2. bearer[w] \in DOMAIN tokens /\ (w \in ended => bearer[w] \in outlived)
  BY <1>1 DEF WorkersFit, EndedOutlived
<1>3. revived' \subseteq revived \union outlived
  BY <1>1, <1>2
<1>4. TypeOK'
  BY <1>1, <1>2, <1>3 DEF TypeOK
<1>5. WorkersFit'
  BY <1>1, <1>2 DEF WorkersFit, TypeOK
<1>6. TokensFit' /\ EntriesLast'
  BY <1>1 DEF TokensFit, EntriesLast, EndedFor
<1>7. \A v \in Workers : stage'[v] # "idle" => stage[v] # "idle" /\ bearer'[v] = bearer[v]
  BY <1>1 DEF TypeOK
<1>8. \A v \in ended' : v \in ended /\ bearer'[v] = bearer[v]
  BY <1>1 DEF TypeOK
<1>9. EndedOutlived'
  BY <1>1, <1>8 DEF EndedOutlived
<1>10. ExchangesMeet'
  <2>1. \A v \in Workers : ToExchange(v)' => ToExchange(v) /\ bearer'[v] = bearer[v] /\ bearer[v] # 0
    BY <1>1, <1>7, TokenFacts DEF ToExchange, WorkersFit
  <2>2. \A v \in Workers : bearer'[v] = bearer[v] \/ bearer'[v] = 0
    BY <1>1 DEF TypeOK
  <2> QED BY <1>1, <2>1, <2>2 DEF ExchangesMeet
<1>11. EndedStaysEnded'
  BY <1>1, <1>3 DEF EndedStaysEnded
<1> QED BY <1>4, <1>5, <1>6, <1>9, <1>10, <1>11

\* An exchange, or the end of a token by its owner.
LEMMA RefreshKeeps == ASSUME TokensInv, NEW w \in Workers, Refresh(w) PROVE TokensInv'
<1> USE DEF TokensInv
<1> DEFINE i == bearer[w]
<1>1. /\ stage[w] = "exchange" /\ stage' = [stage EXCEPT ![w] = "idle"]
      /\ bearer' = [bearer EXCEPT ![w] = 0] /\ ended' = ended \ {w}
      /\ UNCHANGED <<now, lifetimes, status, overlapped>>
  BY DEF Refresh, End, GoTo
<1>2. i \in DOMAIN tokens /\ i \in Ids /\ tokens[i].type = "refresh" /\ ToExchange(w)
  BY <1>1, TokenFacts DEF WorkersFit, ToExchange
<1>3. /\ \A v \in Workers : v # w =>
           stage'[v] = stage[v] /\ bearer'[v] = bearer[v] /\ (v \in ended' <=> v \in ended)
      /\ stage'[w] = "idle" /\ bearer'[w] = 0 /\ w \notin ended'
  BY <1>1 DEF TypeOK
<1>4. CASE UNCHANGED <<tokenVars, revoked, twice, revived, outlived>>
  <2> USE <1>4 DEF tokenVars
  <2>1. TypeOK'
    BY <1>1 DEF TypeOK
  <2>2. WorkersFit'
    BY <1>3 DEF WorkersFit
  <2>3. TokensFit' /\ EntriesLast' /\ EndedStaysEnded'
    BY <1>1 DEF TokensFit, EntriesLast, EndedFor, EndedStaysEnded
  <2>4. EndedOutlived'
    BY <1>1, <1>3 DEF EndedOutlived
  <2>5. ExchangesMeet'
    <3>1. \A v \in Workers : ToExchange(v)' =>
            /\ v # w /\ ToExchange(v) /\ bearer'[v] = bearer[v] /\ bearer[v] # 0
      BY <1>3, TokenFacts DEF ToExchange, WorkersFit
    <3> QED BY <1>1, <1>3, <3>1 DEF ExchangesMeet
  <2> QED BY <2>1, <2>2, <2>3, <2>4, <2>5
<1>5. CASE /\ tokens' = (IF Len(tokens) + 2 <= MaxTokens THEN Issued ELSE tokens)
           /\ BlacklistToken(i)
           /\ twice' = twice \union ({i} \intersect revoked)
           /\ revived' = revived \union (IF w \in ended THEN {i} ELSE {})
  <2>1. /\ tokens' \in Seq(TokenOf) /\ Len(tokens') <= MaxTokens
        /\ \A j \in DOMAIN tokens : j \in DOMAIN tokens' /\ tokens'[j] = tokens[j]
        /\ \A j \in DOMAIN tokens' : j \notin DOMAIN tokens /\ tokens'[j].lifetime # 0 =>
             tokens'[j].until = now + tokens'[j].lifetime
    <3>1. CASE Len(tokens) + 2 <= MaxTokens
      <4>1. tokens' = Issued
        BY <1>5, <3>1
      <4> QED BY <3>1, <4>1, IssuedFollow
    <3>2. CASE ~(Len(tokens) + 2 <= MaxTokens)
      <4>1. tokens' = tokens
        BY <1>5, <3>2
      <4> QED BY <4>1 DEF TypeOK
    <3> QED BY <3>1, <3>2
  <2>2. EntriesLast' /\ blacklist' \in [Ids -> Nat]
    BY <1>1, <1>2, <1>5, <2>1, EntryOutlasts
  <2>3. /\ revoked' = revoked \union {i}
        /\ outlived' = outlived \union (IF Outlives(i) THEN {i} ELSE {})
    BY <1>5 DEF BlacklistToken
  <2>4. i \in revoked => i \in overlapped \union outlived
    BY <1>2 DEF ExchangesMeet
  <2>5. w \in ended => i \in outlived
    BY DEF EndedOutlived
  <2>6. TypeOK'
    BY <1>1, <1>2, <1>5, <2>1, <2>2, <2>3 DEF TypeOK
  <2>7. WorkersFit'
    BY <1>1, <1>3, <2>1 DEF WorkersFit
  <2>8. TokensFit'
    <3>1. ASSUME NEW j \in DOMAIN tokens', tokens'[j].lifetime # 0
          PROVE  tokens'[j].until <= now + tokens'[j].lifetime
      <4>1. CASE j \in DOMAIN tokens
        BY <2>1, <3>1, <4>1 DEF TokensFit
      <4>2. CASE j \notin DOMAIN tokens
        <5>1. tokens'[j].until = now + tokens'[j].lifetime
          BY <2>1, <3>1, <4>2
        <5>2. tokens'[j] \in TokenOf
          BY <2>1, <3>1
        <5> QED BY <5>1, <5>2, TokenFacts DEF TokenOf
      <4> QED BY <4>1, <4>2
    <3> QED BY <1>1, <3>1 DEF TokensFit
  <2>9. EndedOutlived'
    BY <1>1, <1>3, <2>3 DEF EndedOutlived
  <2>10. ExchangesMeet'
    <3>1. \A v \in Workers : ToExchange(v)' =>
            /\ v # w /\ ToExchange(v) /\ bearer'[v] = bearer[v] /\ bearer[v] # 0
      BY <1>3, <2>1, TokenFacts DEF ToExchange, WorkersFit
    <3>2. \A v \in Workers : ToExchange(v)' /\ bearer[v] = i => i \in overlapped
      BY <1>2, <3>1 DEF ExchangesMeet
    <3>3. \A v \in Workers : ToExchange(v)' /\ bearer'[v] \in revoked' =>
            bearer'[v] \in overlapped' \union outlived'
      BY <1>1, <2>3, <3>1, <3>2 DEF ExchangesMeet
    <3>4. \A u, v \in Workers : u # v /\ ToExchange(v)' /\ bearer'[u] = bearer'[v] =>
            bearer'[v] \in overlapped'
      BY <1>1, <1>3, <3>1 DEF ExchangesMeet
    <3> QED BY <3>3, <3>4 DEF ExchangesMeet
  <2>11. EndedStaysEnded'
    BY <1>1, <1>5, <2>3, <2>4, <2>5 DEF EndedStaysEnded
  <2> QED BY <2>2, <2>6, <2>7, <2>8, <2>9, <2>10, <2>11
<1> QED BY <1>4, <1>5 DEF Refresh

LEMMA LogoutKeeps == ASSUME TokensInv, NEW i \in DOMAIN tokens, Logout(i) PROVE TokensInv'
<1> USE DEF TokensInv
<1>1. /\ tokens[i].type = "access" /\ BlacklistToken(i)
      /\ UNCHANGED <<now, lifetimes, tokens, status, stage, bearer, ended, twice, revived, overlapped>>
  BY DEF Logout, Parses, workerVars
<1>2. i \in Ids
  BY TokenFacts
<1>3. EntriesLast' /\ blacklist' \in [Ids -> Nat]
  BY <1>1, EntryOutlasts
<1>4. revoked' = revoked \union {i} /\ outlived' = outlived \union (IF Outlives(i) THEN {i} ELSE {})
  BY <1>1 DEF BlacklistToken
<1>5. TypeOK'
  BY <1>1, <1>2, <1>3, <1>4 DEF TypeOK
<1>6. WorkersFit' /\ TokensFit'
  BY <1>1 DEF WorkersFit, TokensFit
<1>7. EndedOutlived' /\ EndedStaysEnded'
  BY <1>1, <1>4 DEF EndedOutlived, EndedStaysEnded
<1>8. ExchangesMeet'
  BY <1>1, <1>4 DEF ExchangesMeet, ToExchange
<1> QED BY <1>3, <1>5, <1>6, <1>7, <1>8

LEMMA OthersKeep ==
  ASSUME TokensInv, UpdateUser \/ (\E l \in Lifetimes : Deploy(l)) \/ UNCHANGED vars
  PROVE  TokensInv'
<1>1. /\ UNCHANGED <<now, tokens, blacklist, stage, bearer, ended, ghosts>>
      /\ status' \in {1, 2} /\ lifetimes' \in Lifetimes
  BY DEF TokensInv, TypeOK, UpdateUser, Deploy, vars, tokenVars, workerVars
<1> USE <1>1 DEF TokensInv, ghosts
<1>2. TypeOK'
  BY DEF TypeOK
<1>3. WorkersFit' /\ TokensFit' /\ EntriesLast' /\ EndedOutlived' /\ EndedStaysEnded'
  BY DEF WorkersFit, TokensFit, EntriesLast, EndedFor, EndedOutlived, EndedStaysEnded
<1>4. ExchangesMeet'
  BY DEF ExchangesMeet, ToExchange
<1> QED BY <1>2, <1>3, <1>4

LEMMA TickKeeps == ASSUME TokensInv, Tick PROVE TokensInv'
<1> USE DEF TokensInv
<1>1. /\ now < MaxTime /\ now' = now + 1
      /\ blacklist' = [i \in Ids |-> IF blacklist[i] > now' THEN blacklist[i] ELSE 0]
      /\ UNCHANGED <<lifetimes, tokens, status, stage, bearer, ended, ghosts>>
  BY DEF Tick, workerVars
<1>2. now \in Nat /\ now' \in 0..MaxTime /\ now <= now'
  BY <1>1, LifetimeAssumption DEF TypeOK
<1>3. TypeOK'
  BY <1>1, <1>2 DEF TypeOK, ghosts
<1>4. WorkersFit' /\ EndedOutlived' /\ EndedStaysEnded'
  BY <1>1 DEF WorkersFit, EndedOutlived, EndedStaysEnded, ghosts
<1>5. ExchangesMeet'
  BY <1>1 DEF ExchangesMeet, ToExchange, ghosts
<1>6. \A i \in DOMAIN tokens : tokens[i].lifetime \in Nat /\ tokens[i].until \in Nat
  BY TokenFacts DEF TokenOf
<1>7. TokensFit'
  BY <1>1, <1>2, <1>6 DEF TokensFit
<1>8. EntriesLast'
  <2>1. ASSUME NEW i \in revoked \ outlived PROVE EndedFor(i)'
    <3>1. EndedFor(i) /\ i \in DOMAIN tokens /\ i \in Ids
      BY TokenFacts DEF EntriesLast
    <3>2. blacklist'[i] = IF blacklist[i] > now' THEN blacklist[i] ELSE 0
      BY <1>1, <3>1
    <3> QED BY <1>1, <1>2, <1>6, <3>1, <3>2, LifetimeAssumption DEF EndedFor, TypeOK
  <2> QED BY <1>1, <2>1 DEF EntriesLast, ghosts
<1> QED BY <1>3, <1>4, <1>5, <1>7, <1>8

LEMMA TokensStep == TokensInv /\ [Next]_vars => TokensInv'
BY LoginKeeps, BringKeeps, FindKeeps, RefreshKeeps, LogoutKeeps, OthersKeep, TickKeeps DEF Next

\* A token that was signed out or exchanged is not accepted again, and a refresh
\* token has one successor, but for tokens that outlive the lifetime they were
\* ended under and requests that bring one token at a time, for any number of
\* workers and tokens and any lifetimes (TokenBlacklistTTL, BlacklistToken, Refresh).
THEOREM EndedForGood == Spec => []EndedStaysEnded
<1>1. TokensInv => EndedStaysEnded
  BY DEF TokensInv
<1> QED BY <1>1, TokensInitially, TokensStep, PTL DEF Spec

-----------------------------------------------------------------------------
(***************************************************************************)
(* Rows and rules                                                          *)
(***************************************************************************)

RowsFit ==
  /\ \A r \in Roles : r \notin born => code[r] = None
  /\ \A r, q \in Roles : P!Live(r) /\ code[r] = code[q] => r = q

OfRoles == {"rename", "delete", "grant", "revoke"}
CallFits(c) ==
  /\ call[c].role \in Roles /\ call[c].seen \in Codes \union {None}
  /\ call[c].kind = "rename" => call[c].to \in Codes
CallsFit == \A c \in Workers : step[c] = "commit" /\ call[c].kind \in OfRoles => CallFits(c)

\* What a call has read of a role is true, or there was no role and it is a new one,
\* that has at most a menu that was renamed.
SeenOfRole(c) ==
  LET r == call[c].role
  IN  call[c].seen = code[r] \/ (call[c].seen = None /\ r \notin (grants \ adrift) \union members)
SeenOfMenu(c) == menu # call[c].seen => grants \subseteq adrift
SeenFits ==
  \A c \in Workers : step[c] = "commit" =>
    /\ call[c].kind \in OfRoles => SeenOfRole(c)
    /\ call[c].kind = "menu" => SeenOfMenu(c)

\* The user's rules are those of roles that are there.
NoStrayRules ==
  /\ grants \subseteq born /\ members \subseteq born
  /\ None \notin prules \union grules
  /\ \A k \in grules : \E r \in members : code[r] = k

RolesAgree ==
  \A r \in Roles : P!Live(r) =>
    /\ r \in grants \ adrift => code[r] \in prules
    /\ r \in members <=> code[r] \in grules

RowsInv ==
  /\ P!TypeOK /\ RowsFit /\ CallsFit
  /\ torn \/ (SeenFits /\ NoStrayRules /\ RolesAgree)

LEMMA RowsInitially == P!Init => RowsInv
<1> SUFFICES ASSUME P!Init PROVE RowsInv
  OBVIOUS
<1> DEFINE first == CHOOSE r \in Roles : TRUE
           name == CHOOSE k \in Codes : TRUE
           one == CHOOSE m \in Menus : TRUE
<1>1. first \in Roles /\ name \in Codes /\ one \in Menus
  BY RolesAssumption DEF P!RolesAssumption
<1>2. /\ born = {first} /\ code = [r \in Roles |-> IF r = first THEN name ELSE None]
      /\ menu \in {one, None} /\ drawn = {one} /\ others \in {{}, {one}} /\ adrift = {}
      /\ grants \in {{}, {first}} /\ members \in {{}, {first}}
      /\ prules = {code[r] : r \in grants} /\ grules = {code[r] : r \in members}
      /\ step = [c \in Workers |-> "idle"] /\ call = [c \in Workers |-> P!Nothing]
      /\ entry = "none" /\ left = 0 /\ load = "none" /\ age = 0
      /\ reader = [q \in Readers |-> "idle"]
      /\ since = [v \in P!Verdicts |-> IF v = P!Verdict THEN 0 ELSE P!Stale]
      /\ torn = FALSE
  BY DEF P!Init
<1> HIDE DEF first, name, one
<1>3. TTL \in Nat /\ MaxLoad \in Nat /\ P!Stale \in Nat
  BY RolesAssumption DEF P!RolesAssumption, P!Stale
<1>4. P!RowsTyped
  BY <1>1, <1>2 DEF P!RowsTyped
<1>5. P!CallsTyped
  BY <1>2 DEF P!CallsTyped, P!Stages, P!CallOf, P!Nothing
<1>6. P!CacheTyped
  BY <1>2, <1>3 DEF P!CacheTyped
<1>7. P!HistoryTyped
  <2>1. since \in [P!Verdicts -> 0..P!Stale]
    BY <1>2, <1>3
  <2> QED BY <1>2, <2>1 DEF P!HistoryTyped
<1>8. RowsFit
  BY <1>1, <1>2, RolesAssumption DEF RowsFit, P!Live, P!RolesAssumption
<1>9. SeenFits /\ CallsFit
  BY <1>2 DEF SeenFits, CallsFit
<1>10. NoStrayRules /\ RolesAgree
  BY <1>1, <1>2, RolesAssumption DEF NoStrayRules, RolesAgree, P!Live, P!RolesAssumption
<1> QED BY <1>4, <1>5, <1>6, <1>7, <1>8, <1>9, <1>10 DEF RowsInv, P!TypeOK

-----------------------------------------------------------------------------
LEMMA TimesFit == TTL \in Nat /\ TTL > 0 /\ MaxLoad \in Nat /\ P!Stale = TTL + MaxLoad
BY RolesAssumption DEF P!RolesAssumption, P!Stale

LEMMA GoesTo ==
  ASSUME P!CallsTyped, NEW c \in Workers, NEW s \in P!Stages, NEW what \in P!CallOf,
         P!GoTo(c, s, what)
  PROVE  /\ P!CallsTyped'
         /\ step'[c] = s /\ call'[c] = what
         /\ \A d \in Workers \ {c} : step'[d] = step[d] /\ call'[d] = call[d]
BY DEF P!CallsTyped, P!GoTo

LEMMA NothingOf ==
  \A n \in P!Nodes \union {None} : [P!Nothing EXCEPT !.node = n] \in P!CallOf
BY DEF P!Nothing, P!CallOf

LEMMA Writes ==
  ASSUME P!CallsTyped, NEW c \in Workers, NEW n \in P!Nodes \union {None}, P!Written(c, n)
  PROVE  /\ P!CallsTyped' /\ step'[c] = "invalidate"
         /\ \A d \in Workers \ {c} : step'[d] = step[d] /\ call'[d] = call[d]
<1>1. [P!Nothing EXCEPT !.node = n] \in P!CallOf
  BY NothingOf
<1> QED BY <1>1, GoesTo DEF P!Written, P!Stages

LEMMA CommitsOnce ==
  ASSUME P!CallsTyped, NEW c \in Workers, NEW kinds, P!Commits(c, kinds)
  PROVE  /\ P!CallsTyped' /\ step'[c] = "invalidate" /\ step[c] = "commit"
         /\ call[c].kind \in kinds
         /\ \A d \in Workers \ {c} : step'[d] = step[d] /\ call'[d] = call[d]
<1>1. call[c].node \in P!Nodes \union {None}
  BY DEF P!CallsTyped, P!CallOf
<1> QED BY <1>1, Writes DEF P!Commits

\* What a transaction makes of the histories.
LEMMA Remembers ==
  ASSUME P!HistoryTyped, NEW c \in Workers, P!Remember(c)
  PROVE  /\ P!HistoryTyped'
         /\ \A v \in P!Verdicts : since'[v] <= since[v]
         /\ since'[P!Verdict'] = 0
         /\ torn \/ None \in (prules \union grules)'
              \/ (\E d \in Workers \ {c} : step[d] = "commit") => torn'
         /\ torn' => torn \/ None \in (prules \union grules)'
              \/ (\E d \in Workers \ {c} : step[d] = "commit")
<1>1. since' = [v \in P!Verdicts |-> IF v \in {P!Verdict, P!Verdict'} THEN 0 ELSE since[v]]
  BY DEF P!Remember
<1>2. P!Verdict' \in P!Verdicts
  BY DEF P!Verdict, P!Verdicts
<1>3. /\ since' \in [P!Verdicts -> 0..P!Stale] /\ since'[P!Verdict'] = 0
      /\ \A v \in P!Verdicts : since'[v] <= since[v]
  <2> HIDE DEF P!Verdict
  <2> QED BY <1>1, <1>2, TimesFit DEF P!HistoryTyped
<1>4. torn' = (torn \/ None \in (prules \union grules)'
                   \/ \E d \in Workers \ {c} : step[d] = "commit")
  BY DEF P!Remember
<1>5. torn' \in BOOLEAN
  BY <1>4
<1> QED BY <1>3, <1>4, <1>5 DEF P!HistoryTyped

-----------------------------------------------------------------------------
\* Steps that leave the rows alone, and at most end a call or begin one that
\* has read what is there.
LEMMA RowsStill ==
  ASSUME RowsInv, P!CallsTyped', P!CacheTyped', P!HistoryTyped', UNCHANGED P!dataVars,
         torn' = torn,
         \A c \in Workers : step'[c] = "commit" =>
            \/ step[c] = "commit" /\ call'[c] = call[c]
            \/ call'[c].kind = "other"
            \/ /\ call'[c].kind \in OfRoles
               /\ call'[c].role \in Roles /\ call'[c].seen = code[call'[c].role]
               /\ call'[c].kind = "rename" => call'[c].to \in Codes
            \/ call'[c].kind = "menu" /\ call'[c].seen = menu
  PROVE  RowsInv'
<1>1. P!RowsTyped'
  BY DEF RowsInv, P!TypeOK, P!RowsTyped, P!dataVars, P!menuVars
<1>2. RowsFit'
  BY DEF RowsInv, RowsFit, P!Live, P!dataVars, P!menuVars
<1>3. ASSUME ~torn PROVE NoStrayRules' /\ RolesAgree'
  BY <1>3 DEF RowsInv, NoStrayRules, RolesAgree, P!Live, P!dataVars, P!menuVars
<1>4. ASSUME ~torn, NEW c \in Workers, step'[c] = "commit",
             call'[c].kind \in OfRoles
      PROVE  SeenOfRole(c)'
  BY <1>4 DEF RowsInv, SeenFits, SeenOfRole, OfRoles, P!dataVars, P!menuVars
<1>5. ASSUME ~torn, NEW c \in Workers, step'[c] = "commit", call'[c].kind = "menu"
      PROVE  SeenOfMenu(c)'
  BY <1>5 DEF RowsInv, SeenFits, SeenOfMenu, OfRoles, P!dataVars, P!menuVars
<1>6. ~torn => SeenFits'
  BY <1>4, <1>5 DEF SeenFits
<1>7. CallsFit'
  BY DEF RowsInv, P!TypeOK, P!RowsTyped, CallsFit, CallFits, OfRoles, P!dataVars, P!menuVars
<1> QED BY <1>1, <1>2, <1>3, <1>6, <1>7 DEF RowsInv, P!TypeOK

\* A transaction: if no other call was under way, the rows and rules it leaves agree.
LEMMA RowsWritten ==
  ASSUME RowsInv, P!RowsTyped', RowsFit', P!CallsTyped', UNCHANGED P!cacheVars,
         NEW c \in Workers, step'[c] # "commit",
         \A d \in Workers \ {c} : step'[d] = step[d] /\ call'[d] = call[d],
         P!Remember(c),
         ~torn /\ None \notin (prules \union grules)' => NoStrayRules' /\ RolesAgree'
  PROVE  RowsInv'
<1>1. P!HistoryTyped' /\ (~torn' => ~torn /\ None \notin (prules \union grules)'
                                    /\ \A d \in Workers \ {c} : step[d] # "commit")
  BY Remembers DEF RowsInv, P!TypeOK
<1>2. P!CacheTyped'
  BY DEF RowsInv, P!TypeOK, P!CacheTyped, P!cacheVars
<1>3. ~torn' => SeenFits'
  BY <1>1 DEF SeenFits
<1>4. CallsFit'
  BY DEF RowsInv, CallsFit, CallFits
<1> QED BY <1>1, <1>2, <1>3, <1>4 DEF RowsInv, P!TypeOK

LEMMA ReadRoleKeeps ==
  ASSUME RowsInv, NEW c \in Workers, NEW n \in P!Nodes, NEW r \in Roles,
         NEW k \in OfRoles, NEW t \in Codes \union {None},
         k = "rename" => t \in Codes, P!ReadRole(c, n, k, r, t)
  PROVE  RowsInv'
<1> DEFINE what == [node |-> n, kind |-> k, role |-> r, to |-> t, seen |-> code[r]]
<1>1. what \in P!CallOf
  BY DEF RowsInv, P!TypeOK, P!RowsTyped, P!CallOf, OfRoles
<1>2. P!GoTo(c, "commit", what) /\ UNCHANGED <<P!dataVars, P!cacheVars, since, torn>>
  BY DEF P!ReadRole, P!Reads
<1>3. /\ P!CallsTyped' /\ step'[c] = "commit" /\ call'[c] = what
      /\ \A d \in Workers \ {c} : step'[d] = step[d] /\ call'[d] = call[d]
  BY <1>1, <1>2, GoesTo DEF RowsInv, P!TypeOK, P!Stages
<1>4. P!CacheTyped' /\ P!HistoryTyped'
  BY <1>2 DEF RowsInv, P!TypeOK, P!CacheTyped, P!HistoryTyped, P!cacheVars
<1> QED BY <1>2, <1>3, <1>4, RowsStill

LEMMA ReadMenusKeeps ==
  ASSUME RowsInv, NEW c \in Workers, NEW n \in P!Nodes, NEW m \in Menus \union {None},
         P!ReadMenus(c, n, m)
  PROVE  RowsInv'
<1> DEFINE kind == IF m = menu THEN "menu" ELSE "other"
           what == [node |-> n, kind |-> kind, role |-> None, to |-> None, seen |-> m]
<1>1. what \in P!CallOf /\ kind \in {"menu", "other"} /\ (kind = "menu" => m = menu)
  BY DEF P!CallOf
<1> HIDE DEF kind
<1>2. P!GoTo(c, "commit", what) /\ UNCHANGED <<P!dataVars, P!cacheVars, since, torn>>
  BY DEF P!ReadMenus, P!Reads, kind
<1>3. /\ P!CallsTyped' /\ step'[c] = "commit" /\ call'[c] = what
      /\ \A d \in Workers \ {c} : step'[d] = step[d] /\ call'[d] = call[d]
  BY <1>1, <1>2, GoesTo DEF RowsInv, P!TypeOK, P!Stages
<1>4. P!CacheTyped' /\ P!HistoryTyped'
  BY <1>2 DEF RowsInv, P!TypeOK, P!CacheTyped, P!HistoryTyped, P!cacheVars
<1>5. call'[c].kind = kind /\ call'[c].seen = m
  BY <1>3
<1> HIDE DEF what
<1> QED BY <1>1, <1>2, <1>3, <1>4, <1>5, RowsStill

LEMMA FailureKeeps ==
  ASSUME RowsInv, NEW c \in Workers, P!TransactionFails(c)
  PROVE  RowsInv'
<1>1. P!GoTo(c, "failed", P!Nothing) /\ UNCHANGED <<P!dataVars, P!cacheVars, since, torn>>
  BY DEF P!TransactionFails
<1>2. P!Nothing \in P!CallOf
  BY DEF P!Nothing, P!CallOf
<1>3. /\ P!CallsTyped' /\ step'[c] = "failed"
      /\ \A d \in Workers \ {c} : step'[d] = step[d] /\ call'[d] = call[d]
  BY <1>1, <1>2, GoesTo DEF RowsInv, P!TypeOK, P!Stages
<1>4. P!CacheTyped' /\ P!HistoryTyped'
  BY <1>1 DEF RowsInv, P!TypeOK, P!CacheTyped, P!HistoryTyped, P!cacheVars
<1> QED BY <1>1, <1>3, <1>4, RowsStill

\* A role that has just been made has neither the menu nor the user, and its code
\* is in no rule of the user.
LEMMA CreateRoleKeeps ==
  ASSUME RowsInv, NEW c \in Workers, NEW n \in P!Nodes, NEW r \in Roles, NEW k \in Codes,
         P!CreateRole(c, n, r, k)
  PROVE  RowsInv'
<1>1. /\ step[c] = "idle" /\ r \notin born /\ (\A q \in Roles \ {r} : code[q] # k)
      /\ P!Written(c, n)
      /\ born' = born \union {r} /\ code' = [code EXCEPT ![r] = k]
      /\ UNCHANGED <<menu, drawn, others, grants, members, prules, grules, adrift, P!cacheVars, since, torn>>
  BY DEF P!CreateRole, P!Taken, P!menuVars
<1>2. /\ P!CallsTyped' /\ step'[c] = "invalidate"
      /\ \A d \in Workers \ {c} : step'[d] = step[d] /\ call'[d] = call[d]
  BY <1>1, Writes DEF RowsInv, P!TypeOK
<1>3. /\ P!RowsTyped' /\ P!CacheTyped' /\ P!HistoryTyped'
  BY <1>1 DEF RowsInv, P!TypeOK, P!RowsTyped, P!CacheTyped, P!HistoryTyped, P!cacheVars
<1>4. /\ code'[r] = k /\ code[r] = None
      /\ \A q \in Roles \ {r} : code'[q] = code[q]
  BY <1>1 DEF RowsInv, RowsFit, P!TypeOK, P!RowsTyped
<1>5. RowsFit'
  BY <1>1, <1>4 DEF RowsInv, RowsFit, P!Live
<1>6. ASSUME ~torn PROVE SeenFits'
  <2> r \notin grants \union members
    BY <1>1, <1>6 DEF RowsInv, NoStrayRules
  <2>1. ASSUME NEW d \in Workers, step'[d] = "commit",
               call'[d].kind \in OfRoles
        PROVE  SeenOfRole(d)'
    BY <1>1, <1>2, <1>4, <1>6, <2>1 DEF RowsInv, SeenFits, SeenOfRole
  <2>2. ASSUME NEW d \in Workers, step'[d] = "commit", call'[d].kind = "menu"
        PROVE  SeenOfMenu(d)'
    BY <1>1, <1>2, <1>6, <2>2 DEF RowsInv, SeenFits, SeenOfMenu
  <2> QED BY <2>1, <2>2 DEF SeenFits
<1>7. ASSUME ~torn PROVE NoStrayRules' /\ RolesAgree'
  <2> r \notin grants \union members
    BY <1>1, <1>7 DEF RowsInv, NoStrayRules
  <2>1. k \notin grules
    BY <1>1, <1>4, <1>7 DEF RowsInv, NoStrayRules, P!TypeOK, P!RowsTyped
  <2>2. NoStrayRules'
    BY <1>1, <1>4, <1>7 DEF RowsInv, NoStrayRules, P!TypeOK, P!RowsTyped
  <2>3. RolesAgree'
    BY <1>1, <1>4, <1>7, <2>1 DEF RowsInv, RolesAgree, P!Live
  <2> QED BY <2>2, <2>3
<1>8. CallsFit'
  BY <1>2 DEF RowsInv, CallsFit, CallFits
<1> QED BY <1>1, <1>2, <1>3, <1>5, <1>6, <1>7, <1>8 DEF RowsInv, P!TypeOK

\* What is renamed or made anew is owed no rule: nobody has it, or had it before.
LEMMA MenuNamed ==
  ASSUME RowsInv, NEW c \in Workers, NEW n \in P!Nodes, P!Written(c, n),
         menu' \in Menus \union {None}, drawn' \subseteq Menus, others' \subseteq Menus,
         grants' \subseteq {r \in Roles : P!Live(r)}, adrift' = grants',
         UNCHANGED <<born, code, members, prules, grules, P!cacheVars, since, torn>>
  PROVE  RowsInv'
<1>1. /\ P!CallsTyped' /\ step'[c] = "invalidate"
      /\ \A d \in Workers \ {c} : step'[d] = step[d] /\ call'[d] = call[d]
  BY Writes DEF RowsInv, P!TypeOK
<1>2. /\ P!RowsTyped' /\ P!CacheTyped' /\ P!HistoryTyped'
  BY DEF RowsInv, P!TypeOK, P!RowsTyped, P!CacheTyped, P!HistoryTyped, P!cacheVars
<1>3. RowsFit'
  BY DEF RowsInv, RowsFit, P!Live
<1>4. ASSUME ~torn PROVE SeenFits'
  <2>1. ASSUME NEW d \in Workers, step'[d] = "commit", call'[d].kind \in OfRoles
        PROVE  SeenOfRole(d)'
    <3>1. step[d] = "commit" /\ call'[d] = call[d] /\ SeenOfRole(d)
      BY <1>1, <1>4, <2>1 DEF RowsInv, SeenFits
    <3> QED BY <3>1 DEF SeenOfRole
  <2>2. ASSUME NEW d \in Workers PROVE SeenOfMenu(d)'
    BY DEF SeenOfMenu
  <2> QED BY <2>1, <2>2 DEF SeenFits
<1>5. ~torn => NoStrayRules' /\ RolesAgree'
  BY DEF RowsInv, NoStrayRules, RolesAgree, RowsFit, P!Live
<1>6. CallsFit'
  BY <1>1 DEF RowsInv, CallsFit, CallFits
<1> QED BY <1>1, <1>2, <1>3, <1>4, <1>5, <1>6 DEF RowsInv, P!TypeOK

LEMMA SaveMenuKeeps ==
  ASSUME RowsInv, NEW c \in Workers, NEW n \in P!Nodes, NEW m \in Menus \union {None},
         P!SaveMenu(c, n, m) \/ P!RenameMenu(c, n, m)
  PROVE  RowsInv'
<1>1. /\ P!Written(c, n) /\ menu' = m
      /\ UNCHANGED <<born, code, members, prules, grules, P!cacheVars, since, torn>>
      /\ adrift' = grants' /\ grants' \subseteq {r \in Roles : P!Live(r)}
  BY DEF P!SaveMenu, P!RenameMenu, P!NoRows
<1>2. drawn' \subseteq Menus /\ others' \subseteq Menus
  BY DEF RowsInv, P!TypeOK, P!RowsTyped, P!SaveMenu, P!RenameMenu
<1> QED BY <1>1, <1>2, MenuNamed

LEMMA DeleteMenusKeeps ==
  ASSUME RowsInv, NEW c \in Workers, P!DeleteMenus(c)
  PROVE  RowsInv'
<1> DEFINE m == call[c].seen
<1>1. /\ P!Commits(c, {"menu", "other"}) /\ P!Remember(c)
      /\ prules' = IF call[c].kind = "menu" THEN {} ELSE prules
      /\ \/ menu = m /\ menu' = None /\ grants' = {} /\ adrift' = {}
         \/ menu # m /\ UNCHANGED <<menu, grants, adrift>>
      /\ others' = others \ {m}
      /\ UNCHANGED <<born, code, drawn, members, grules, P!cacheVars>>
  BY DEF P!DeleteMenus, P!NoRows
<1>2. /\ P!CallsTyped' /\ step'[c] = "invalidate" /\ step[c] = "commit"
      /\ \A d \in Workers \ {c} : step'[d] = step[d] /\ call'[d] = call[d]
  BY <1>1, CommitsOnce DEF RowsInv, P!TypeOK
<1>3. P!RowsTyped' /\ RowsFit'
  BY <1>1 DEF RowsInv, P!TypeOK, P!RowsTyped, RowsFit, P!Live
<1>4. ASSUME ~torn, call[c].kind = "menu" PROVE grants' \subseteq adrift'
  BY <1>1, <1>2, <1>4 DEF RowsInv, SeenFits, SeenOfMenu
<1>5. ASSUME ~torn PROVE NoStrayRules' /\ RolesAgree'
  BY <1>1, <1>4, <1>5 DEF RowsInv, NoStrayRules, RolesAgree, P!Live
<1> QED BY <1>1, <1>2, <1>3, <1>5, RowsWritten

\* What a call that commits knows of its role, if nothing has changed meanwhile.
LEMMA CommitsKnowing ==
  ASSUME RowsInv, NEW c \in Workers, NEW kinds \in SUBSET OfRoles, P!Commits(c, kinds)
  PROVE  CallFits(c) /\ (~torn => SeenOfRole(c))
BY CommitsOnce DEF RowsInv, P!TypeOK, SeenFits, CallsFit

LEMMA DeleteRolesKeeps ==
  ASSUME RowsInv, NEW c \in Workers, P!DeleteRoles(c)
  PROVE  RowsInv'
<1> DEFINE r == call[c].role
           gone == {call[c].seen} \ {None}
<1>1. /\ P!Commits(c, {"delete"}) /\ P!Remember(c)
      /\ code' = [code EXCEPT ![r] = None] /\ grants' = grants \ {r}
      /\ adrift' = adrift \ {r}
      /\ prules' = prules \ gone /\ grules' = grules \ gone
      /\ UNCHANGED <<born, menu, drawn, others, members, P!cacheVars>>
  BY DEF P!DeleteRoles, P!menuVars
<1>2. /\ P!CallsTyped' /\ step'[c] = "invalidate" /\ step[c] = "commit"
      /\ \A d \in Workers \ {c} : step'[d] = step[d] /\ call'[d] = call[d]
  BY <1>1, CommitsOnce DEF RowsInv, P!TypeOK
<1>3. \A q \in Roles : code'[q] = IF q = r THEN None ELSE code[q]
  BY <1>1 DEF RowsInv, P!TypeOK, P!RowsTyped
<1>4. P!RowsTyped'
  BY <1>1 DEF RowsInv, P!TypeOK, P!RowsTyped
<1>5. RowsFit'
  BY <1>1, <1>3 DEF RowsInv, RowsFit, P!Live
<1>6. ASSUME ~torn PROVE NoStrayRules' /\ RolesAgree'
  <2>1. /\ r \in Roles
        /\ call[c].seen = code[r] \/ (call[c].seen = None /\ r \notin (grants \ adrift) \union members)
    BY <1>1, <1>6, CommitsKnowing DEF SeenOfRole, CallFits, OfRoles
  <2>2. NoStrayRules /\ RolesAgree /\ RowsFit /\ members \subseteq Roles
    BY <1>6 DEF RowsInv, P!TypeOK, P!RowsTyped
  <2>3. None \notin (prules \union grules)'
    BY <1>1, <2>2 DEF NoStrayRules
  <2>4. ASSUME NEW k \in grules' PROVE \E q \in members' : code'[q] = k
    <3>1. PICK q \in members : code[q] = k
      BY <1>1, <2>2 DEF NoStrayRules
    <3>2. q # r
      BY <1>1, <2>1, <2>2, <2>3, <2>4, <3>1 DEF NoStrayRules
    <3> QED BY <1>1, <1>3, <2>2, <3>1, <3>2
  <2>5. RolesAgree'
    <3> SUFFICES ASSUME NEW q \in Roles, code'[q] # None
                 PROVE  /\ q \in grants' \ adrift' => code'[q] \in prules'
                        /\ q \in members' <=> code'[q] \in grules'
      BY DEF RolesAgree, P!Live
    <3>1. q # r /\ code'[q] = code[q] /\ code[q] # None
      BY <1>3
    <3>2. code[q] \notin gone
      BY <2>1, <2>2, <3>1 DEF RowsFit, P!Live
    <3> QED BY <1>1, <2>2, <3>1, <3>2 DEF RolesAgree, P!Live
  <2> QED BY <1>1, <2>2, <2>3, <2>4, <2>5 DEF NoStrayRules
<1> QED BY <1>1, <1>2, <1>4, <1>5, <1>6, RowsWritten

LEMMA SyncRolePermissionsKeeps ==
  ASSUME RowsInv, NEW c \in Workers, P!SyncRolePermissions(c)
  PROVE  RowsInv'
<1> DEFINE r == call[c].role
           k == call[c].seen
           grant == call[c].kind = "grant"
<1>1. /\ P!Commits(c, {"grant", "revoke"}) /\ P!Remember(c)
      /\ grants' = IF grant /\ menu # None THEN grants \union {r} ELSE grants \ {r}
      /\ adrift' = adrift \ {r}
      /\ prules' = IF grant THEN prules \union {k} ELSE prules \ {k}
      /\ UNCHANGED <<born, code, menu, drawn, others, members, grules, P!cacheVars>>
  BY DEF P!SyncRolePermissions, P!menuVars
<1>2. /\ P!CallsTyped' /\ step'[c] = "invalidate" /\ step[c] = "commit"
      /\ \A d \in Workers \ {c} : step'[d] = step[d] /\ call'[d] = call[d]
  BY <1>1, CommitsOnce DEF RowsInv, P!TypeOK
<1>3. P!RowsTyped' /\ RowsFit'
  <2>1. r \in Roles /\ k \in Codes \union {None}
    BY <1>1, CommitsKnowing DEF CallFits, OfRoles
  <2> QED BY <1>1, <2>1 DEF RowsInv, P!TypeOK, P!RowsTyped, RowsFit, P!Live
<1>4. ASSUME ~torn, None \notin (prules \union grules)' PROVE NoStrayRules' /\ RolesAgree'
  <2>1. r \in Roles /\ (k = code[r] \/ (k = None /\ r \notin (grants \ adrift) \union members))
    BY <1>1, <1>4, CommitsKnowing DEF SeenOfRole, CallFits, OfRoles
  <2>2. grants' \subseteq born
    BY <1>1, <1>4, <2>1 DEF RowsInv, NoStrayRules, RowsFit
  <2>3. NoStrayRules'
    BY <1>1, <1>4, <2>2 DEF RowsInv, NoStrayRules
  <2>4. RolesAgree'
    <3> SUFFICES ASSUME NEW q \in Roles, code[q] # None, q \in grants' \ adrift'
                 PROVE  code[q] \in prules'
      BY <1>1, <1>4 DEF RowsInv, RolesAgree, P!Live
    <3> QED BY <1>1, <1>4, <2>1 DEF RowsInv, RolesAgree, RowsFit, P!Live
  <2> QED BY <2>3, <2>4
<1> QED BY <1>1, <1>2, <1>3, <1>4, RowsWritten


\* The rules that name a code that nobody else has name the new one instead.
LEMMA UpdateRoleKeeps ==
  ASSUME RowsInv, NEW c \in Workers, P!UpdateRole(c)
  PROVE  RowsInv'
<1> DEFINE r == call[c].role
           k == call[c].to
           old == call[c].seen
<1>1. /\ P!Commits(c, {"rename"}) /\ P!Remember(c)
      /\ P!Live(r) => \A q \in Roles \ {r} : code[q] # k
      /\ code' = [code EXCEPT ![r] = IF P!Live(r) THEN k ELSE None]
      /\ prules' = IF old \in prules THEN (prules \ {old}) \union {k} ELSE prules
      /\ grules' = IF old \in grules THEN (grules \ {old}) \union {k} ELSE grules
      /\ UNCHANGED <<born, menu, drawn, others, grants, members, adrift, P!cacheVars>>
  BY DEF P!UpdateRole, P!Taken, P!Renamed, P!MembersRenamed, P!menuVars
<1>2. /\ P!CallsTyped' /\ step'[c] = "invalidate" /\ call[c].kind = "rename"
      /\ \A d \in Workers \ {c} : step'[d] = step[d] /\ call'[d] = call[d]
  BY <1>1, CommitsOnce DEF RowsInv, P!TypeOK
<1>3. r \in Roles /\ k \in Codes /\ k # None /\ (~torn => SeenOfRole(c))
  BY <1>1, <1>2, CommitsKnowing, RolesAssumption DEF CallFits, OfRoles, P!RolesAssumption
<1>4. \A q \in Roles : code'[q] = IF q # r THEN code[q] ELSE IF P!Live(r) THEN k ELSE None
  BY <1>1 DEF RowsInv, P!TypeOK, P!RowsTyped
<1>5. P!RowsTyped'
  BY <1>1, <1>3 DEF RowsInv, P!TypeOK, P!RowsTyped
<1>6. RowsFit'
  BY <1>1, <1>3, <1>4 DEF RowsInv, RowsFit, P!Live
<1>7. ASSUME ~torn PROVE NoStrayRules' /\ RolesAgree'
  <2>1. old = code[r] \/ (old = None /\ r \notin (grants \ adrift) \union members)
    BY <1>3, <1>7 DEF SeenOfRole
  <2>2. NoStrayRules /\ RolesAgree /\ RowsFit /\ members \subseteq Roles
    BY <1>7 DEF RowsInv, P!TypeOK, P!RowsTyped
  <2>3. None \notin prules \union grules /\ None \notin (prules \union grules)'
    BY <1>1, <1>3, <2>2 DEF NoStrayRules
  <2>4. CASE ~P!Live(r)
    <3>1. prules' = prules /\ grules' = grules
      BY <1>1, <2>1, <2>3, <2>4 DEF P!Live
    <3>2. \A q \in Roles : code'[q] = code[q]
      BY <1>4, <2>4 DEF P!Live
    <3> QED BY <1>1, <2>2, <2>3, <3>1, <3>2 DEF NoStrayRules, RolesAgree, P!Live
  <2>5. CASE P!Live(r)
    <3>1. code'[r] = k /\ \A q \in Roles \ {r} : code'[q] = code[q] /\ code[q] # k
      BY <1>1, <1>3, <1>4, <2>5
    <3>2. \A q \in Roles \ {r} : code[q] # None => code[q] # code[r]
      BY <1>3, <2>2 DEF RowsFit, P!Live
    <3>3. code[r] # None
      BY <2>5 DEF P!Live
    <3>4. \A x \in grules : \E q \in members : code[q] = x
      BY <2>2 DEF NoStrayRules
    <3>5. ASSUME old = None PROVE NoStrayRules' /\ RolesAgree'
      <4>1. prules' = prules /\ grules' = grules /\ r \notin (grants \ adrift) \union members
        BY <1>1, <2>1, <2>3, <3>3, <3>5
      <4>2. k \notin grules
        BY <2>2, <3>1, <3>4, <4>1
      <4> QED BY <1>1, <1>3, <2>2, <2>3, <3>1, <3>3, <4>1, <4>2
              DEF NoStrayRules, RolesAgree, P!Live
    <3>6. ASSUME old = code[r] PROVE NoStrayRules' /\ RolesAgree'
      <4>1. old \in grules <=> r \in members
        BY <1>3, <2>2, <3>3, <3>6 DEF RolesAgree, P!Live
      <4>2. \A q \in Roles \ {r} : code[q] # None => code[q] # old
        BY <3>2, <3>6
      <4>3. k \in grules => k = old
        BY <2>2, <3>1, <3>4, <3>6
      <4>4. \A x \in grules' : \E q \in members' : code'[q] = x
        <5> TAKE x \in grules'
        <5>1. CASE x = k /\ r \in members
          BY <1>1, <3>1, <5>1
        <5>2. CASE x = k /\ r \notin members
          BY <1>1, <4>1, <4>3, <5>2
        <5>3. CASE x # k
          <6>1. x \in grules /\ x # old
            BY <1>1, <4>1, <5>3, <3>4, <3>6, <3>1
          <6> QED BY <1>1, <2>2, <3>1, <3>4, <3>6, <6>1
        <5> QED BY <5>1, <5>2, <5>3
      <4>5. NoStrayRules'
        BY <1>1, <2>2, <2>3, <4>4 DEF NoStrayRules
      <4>6. RolesAgree'
        <5> SUFFICES ASSUME NEW q \in Roles, code'[q] # None
                     PROVE  /\ q \in grants \ adrift => code'[q] \in prules'
                            /\ q \in members <=> code'[q] \in grules'
          BY <1>1 DEF RolesAgree, P!Live
        <5>1. CASE q = r
          BY <1>1, <1>3, <2>2, <3>1, <3>3, <3>6, <4>1, <4>3, <5>1 DEF RolesAgree, P!Live
        <5>2. CASE q # r
          BY <1>1, <2>2, <3>1, <4>2, <5>2 DEF RolesAgree, P!Live
        <5> QED BY <5>1, <5>2
      <4> QED BY <4>5, <4>6
    <3> QED BY <2>1, <3>5, <3>6
  <2> QED BY <2>4, <2>5
<1> QED BY <1>1, <1>2, <1>5, <1>6, <1>7, RowsWritten

\* The user is given the roles of some codes.
LEMMA UserRolesAgree ==
  ASSUME RowsInv, NEW codes \in SUBSET Codes, P!SetUserRoles(codes),
         UNCHANGED <<born, code, menu, drawn, others, grants, prules, adrift>>
  PROVE  /\ P!RowsTyped' /\ RowsFit'
         /\ ~torn /\ None \notin (prules \union grules)' => NoStrayRules' /\ RolesAgree'
<1> DEFINE found == {r \in Roles : code[r] \in codes}
<1>1. /\ members' = found
      /\ grules' \subseteq {code[r] : r \in found} \union {None}
      /\ {code[r] : r \in found} \subseteq grules'
  BY DEF P!SetUserRoles
<1>2. None \notin codes
  BY RolesAssumption DEF P!RolesAssumption
<1>3. P!RowsTyped' /\ RowsFit'
  BY <1>1 DEF RowsInv, P!TypeOK, P!RowsTyped, RowsFit, P!Live
<1>4. ASSUME ~torn, None \notin (prules \union grules)' PROVE NoStrayRules' /\ RolesAgree'
  <2>1. grules' = {code[r] : r \in found}
    BY <1>1, <1>4
  <2>2. NoStrayRules'
    BY <1>1, <1>2, <1>4, <2>1 DEF RowsInv, NoStrayRules, RowsFit
  <2>3. RolesAgree'
    BY <1>1, <1>4, <2>1 DEF RowsInv, RolesAgree, P!Live
  <2> QED BY <2>2, <2>3
<1> QED BY <1>3, <1>4

LEMMA UserRolesKeep ==
  ASSUME RowsInv, NEW c \in Workers, NEW n \in P!Nodes, NEW codes \in SUBSET Codes,
         P!SyncUserRoles(c, n, codes) \/ P!ApplySSOMappings(c, n, codes)
  PROVE  RowsInv'
<1>1. /\ P!SetUserRoles(codes) /\ P!Remember(c)
      /\ P!Written(c, n) \/ P!GoTo(c, "done", [P!Nothing EXCEPT !.node = n])
      /\ UNCHANGED <<born, code, menu, drawn, others, grants, prules, adrift, P!cacheVars>>
  BY DEF P!SyncUserRoles, P!ApplySSOMappings, P!menuVars
<1>2. [P!Nothing EXCEPT !.node = n] \in P!CallOf
  BY NothingOf
<1>3. /\ P!CallsTyped' /\ step'[c] # "commit"
      /\ \A d \in Workers \ {c} : step'[d] = step[d] /\ call'[d] = call[d]
  BY <1>1, <1>2, Writes, GoesTo DEF RowsInv, P!TypeOK, P!Stages
<1> QED BY <1>1, <1>3, UserRolesAgree, RowsWritten

LEMMA CacheKeepsRows ==
  ASSUME RowsInv, P!CacheTyped', P!HistoryTyped', UNCHANGED <<P!dataVars, P!callVars, torn>>
  PROVE  RowsInv'
<1>1. P!CallsTyped'
  BY DEF RowsInv, P!TypeOK, P!CallsTyped, P!callVars
<1> QED BY <1>1, RowsStill DEF P!callVars

-----------------------------------------------------------------------------
(***************************************************************************)
(* The enforcer                                                            *)
(***************************************************************************)

\* What the rules say now was said no tick ago, what is loaded when the load was
\* begun, and what is kept as long ago as it has been kept, and the load took.
Recent ==
  /\ since[P!Verdict] = 0
  /\ entry \in P!Verdicts => since[entry] + left <= P!Stale
  /\ load \in P!Verdicts => since[load] <= age
  /\ P!AnswerIsRecent

LEMMA RecentInitially == P!Init => Recent
<1> SUFFICES ASSUME P!Init PROVE Recent
  OBVIOUS
<1>1. entry = "none" /\ load = "none" /\ (\A q \in Readers : reader[q] = "idle")
      /\ since = [v \in P!Verdicts |-> IF v = P!Verdict THEN 0 ELSE P!Stale]
  BY DEF P!Init
<1>2. P!Verdict \in P!Verdicts
  BY DEF P!Verdict, P!Verdicts
<1>3. since[P!Verdict] = 0
  BY <1>1, <1>2
<1> QED BY <1>1, <1>3 DEF Recent, P!AnswerIsRecent, P!Verdicts

LEMMA RecentFacts ==
  ASSUME P!TypeOK
  PROVE  /\ P!Verdict \in P!Verdicts
         /\ \A v \in P!Verdicts : since[v] \in Nat /\ since[v] <= P!Stale
         /\ left \in Nat /\ left <= TTL /\ age \in Nat /\ age <= MaxLoad
BY TimesFit DEF P!TypeOK, P!HistoryTyped, P!CacheTyped, P!Verdict, P!Verdicts

\* Changes of the rows and rules leave the enforcer as it is.
LEMMA WritesKeepRecent ==
  ASSUME P!TypeOK, Recent, UNCHANGED P!cacheVars, NEW c \in Workers,
         P!Remember(c) \/ UNCHANGED <<prules, grules, since, torn>>
  PROVE  Recent'
<1>1. /\ \A v \in P!Verdicts : since'[v] \in Nat /\ since'[v] <= since[v]
      /\ since'[P!Verdict'] = 0
  <2>1. CASE P!Remember(c)
    <3>1. P!HistoryTyped' /\ P!HistoryTyped
      BY <2>1, Remembers DEF P!TypeOK
    <3> QED BY <2>1, <3>1, Remembers, TimesFit DEF P!HistoryTyped
  <2>2. CASE UNCHANGED <<prules, grules, since, torn>>
    BY <2>2, RecentFacts DEF Recent, P!Verdict
  <2> QED BY <2>1, <2>2
<1>2. UNCHANGED <<entry, left, load, age, reader>>
  BY DEF P!cacheVars
<1>3. /\ \A v \in P!Verdicts : since[v] \in Nat
      /\ left \in Nat /\ age \in Nat /\ TTL \in Nat /\ MaxLoad \in Nat /\ P!Stale = TTL + MaxLoad
  BY RecentFacts, TimesFit
<1> HIDE DEF P!Verdicts
<1> QED BY <1>1, <1>2, <1>3 DEF Recent, P!AnswerIsRecent

RolesInv == RowsInv /\ Recent

LEMMA ChangesKeep ==
  ASSUME RolesInv, NEW c \in Workers,
         \/ \E n \in P!Nodes : P!Begin(c, n)
         \/ P!UpdateRole(c) \/ P!DeleteRoles(c) \/ P!SyncRolePermissions(c) \/ P!DeleteMenus(c)
         \/ P!TransactionFails(c)
  PROVE  RolesInv'
<1>1. P!Remember(c) \/ UNCHANGED <<prules, grules, since, torn>>
  BY DEF P!Begin, P!ReadRole, P!CreateRole, P!SyncUserRoles, P!ApplySSOMappings, P!ReadMenus,
         P!SaveMenu, P!RenameMenu, P!UpdateRole, P!DeleteRoles, P!SyncRolePermissions, P!DeleteMenus,
         P!TransactionFails, P!dataVars, P!menuVars
<1>2. UNCHANGED P!cacheVars
  BY DEF P!Begin, P!ReadRole, P!CreateRole, P!SyncUserRoles, P!ApplySSOMappings, P!ReadMenus,
         P!SaveMenu, P!RenameMenu, P!UpdateRole, P!DeleteRoles, P!SyncRolePermissions, P!DeleteMenus,
         P!TransactionFails
<1>3. Recent'
  BY <1>1, <1>2, WritesKeepRecent DEF RolesInv, RowsInv
<1>4. ASSUME NEW n \in P!Nodes, P!Begin(c, n) PROVE RowsInv'
  <2>1. ASSUME NEW k \in {"delete", "grant", "revoke"}, NEW r \in Roles,
               P!ReadRole(c, n, k, r, None)
        PROVE  RowsInv'
    BY <2>1, ReadRoleKeeps DEF RolesInv, OfRoles
  <2>2. ASSUME NEW r \in Roles, NEW k \in Codes,
               P!ReadRole(c, n, "rename", r, k) \/ P!CreateRole(c, n, r, k)
        PROVE  RowsInv'
    BY <2>2, ReadRoleKeeps, CreateRoleKeeps DEF RolesInv, OfRoles
  <2>3. ASSUME NEW codes \in SUBSET Codes,
               P!SyncUserRoles(c, n, codes) \/ P!ApplySSOMappings(c, n, codes)
        PROVE  RowsInv'
    BY <2>3, UserRolesKeep DEF RolesInv
  <2>4. ASSUME NEW m \in Menus \union {None}, P!ReadMenus(c, n, m) PROVE RowsInv'
    BY <2>4, ReadMenusKeeps DEF RolesInv
  <2>5. ASSUME NEW m \in Menus \union {None}, P!SaveMenu(c, n, m) \/ P!RenameMenu(c, n, m)
        PROVE  RowsInv'
    BY <2>5, SaveMenuKeeps DEF RolesInv
  <2> QED BY <1>4, <2>1, <2>2, <2>3, <2>4, <2>5 DEF P!Begin
<1>5. RowsInv'
  BY <1>4, UpdateRoleKeeps, DeleteRolesKeeps, SyncRolePermissionsKeeps, DeleteMenusKeeps,
     FailureKeeps DEF RolesInv
<1> QED BY <1>3, <1>5 DEF RolesInv

\* A process forgets what it keeps when a change is told to it, or when it dies.
LEMMA DropsKeepRecent ==
  ASSUME P!TypeOK, Recent, (entry' = entry /\ left' = left) \/ P!Drop,
         (load' = load /\ age' = age) \/ load' = "none",
         reader' = reader \/ (\A q \in Readers : reader'[q] \notin P!Verdicts),
         UNCHANGED <<prules, grules, since>>
  PROVE  Recent'
<1>1. P!Verdict' = P!Verdict /\ "none" \notin P!Verdicts
  BY DEF P!Verdict, P!Verdicts
<1> HIDE DEF P!Verdict, P!Verdicts
<1> QED BY <1>1 DEF Recent, P!AnswerIsRecent, P!Drop

LEMMA InvalidateKeeps == ASSUME RolesInv, NEW c \in Workers, P!Invalidate(c) PROVE RolesInv'
<1>1. /\ P!GoTo(c, "done", call[c])
      /\ (entry' = entry /\ left' = left) \/ P!Drop
      /\ UNCHANGED <<P!dataVars, load, age, reader, since, torn>>
  BY DEF P!Invalidate
<1>2. P!TypeOK /\ Recent /\ call[c] \in P!CallOf
  BY DEF RolesInv, RowsInv, P!TypeOK, P!CallsTyped
<1>3. /\ P!CallsTyped' /\ step'[c] = "done"
      /\ \A d \in Workers \ {c} : step'[d] = step[d] /\ call'[d] = call[d]
  BY <1>1, <1>2, GoesTo DEF P!TypeOK, P!Stages
<1>4. P!CacheTyped' /\ P!HistoryTyped'
  BY <1>1, <1>2, TimesFit DEF P!TypeOK, P!CacheTyped, P!HistoryTyped, P!Drop
<1>5. RowsInv'
  BY <1>1, <1>3, <1>4, RowsStill DEF RolesInv
<1>6. Recent'
  BY <1>1, <1>2, DropsKeepRecent DEF P!dataVars, P!menuVars
<1> QED BY <1>5, <1>6 DEF RolesInv

LEMMA RestartKeeps == ASSUME RolesInv, NEW n \in P!Nodes, P!Restart(n) PROVE RolesInv'
<1> DEFINE lost == {c \in Workers : step[c] \in {"commit", "invalidate"} /\ call[c].node = n}
<1>1. /\ \/ P!Drop /\ load' = "none" /\ age' = 0 /\ reader' = [q \in Readers |-> "idle"]
         \/ UNCHANGED P!cacheVars
      /\ step' = [c \in Workers |-> IF c \in lost THEN "failed" ELSE step[c]]
      /\ call' = [c \in Workers |-> IF c \in lost THEN P!Nothing ELSE call[c]]
      /\ UNCHANGED <<P!dataVars, since, torn>>
  BY DEF P!Restart
<1>2. P!TypeOK /\ Recent /\ P!Nothing \in P!CallOf
  BY DEF RolesInv, RowsInv, P!Nothing, P!CallOf
<1>3. P!CallsTyped' /\ \A c \in Workers : step'[c] = "commit" => step[c] = "commit" /\ call'[c] = call[c]
  BY <1>1, <1>2 DEF P!TypeOK, P!CallsTyped, P!Stages
<1>4. P!CacheTyped' /\ P!HistoryTyped'
  BY <1>1, <1>2, TimesFit DEF P!TypeOK, P!CacheTyped, P!HistoryTyped, P!Drop, P!cacheVars
<1>5. RowsInv'
  BY <1>1, <1>3, <1>4, RowsStill DEF RolesInv
<1>6. Recent'
  <2>1. reader' = reader \/ (\A q \in Readers : reader'[q] \notin P!Verdicts)
    BY <1>1 DEF P!cacheVars, P!Verdicts
  <2> QED BY <1>1, <1>2, <2>1, DropsKeepRecent DEF P!dataVars, P!menuVars, P!cacheVars
<1> QED BY <1>5, <1>6 DEF RolesInv

LEMMA RequestsKeep ==
  ASSUME RolesInv, NEW q \in Readers,
         P!Hit(q) \/ P!StartLoad(q) \/ P!AwaitLoad(q) \/ P!Leave(q)
  PROVE  RolesInv'
<1>1. UNCHANGED <<P!dataVars, P!callVars, since, torn>>
  BY DEF P!Hit, P!StartLoad, P!AwaitLoad, P!Leave
<1>2. P!TypeOK /\ Recent /\ P!Verdict' = P!Verdict
  BY <1>1 DEF RolesInv, RowsInv, P!Verdict, P!dataVars, P!menuVars
<1>3. P!HistoryTyped' /\ P!CacheTyped' /\ Recent'
  <2>1. CASE P!Hit(q)
    <3>1. /\ entry \in P!Verdicts /\ left > 0 /\ reader' = [reader EXCEPT ![q] = entry]
          /\ UNCHANGED <<entry, left, load, age>>
      BY <1>2, <2>1 DEF P!Hit, P!Good, P!KeptByHit, P!TypeOK, P!CacheTyped
    <3>2. since[entry] < TTL + MaxLoad
      BY <1>2, <3>1, RecentFacts, TimesFit DEF Recent
    <3> QED BY <1>1, <1>2, <3>1, <3>2
            DEF P!TypeOK, P!CacheTyped, P!HistoryTyped, Recent, P!AnswerIsRecent
  <2>2. CASE P!StartLoad(q) \/ P!AwaitLoad(q) \/ P!Leave(q)
    <3>1. /\ (entry' = entry /\ left' = left) \/ P!Drop
          /\ (load' = load /\ age' = age) \/ (load' = "started" /\ age' = 0)
          /\ \E s \in {"load", "wait", "idle"} : reader' = [reader EXCEPT ![q] = s]
      BY <2>2 DEF P!StartLoad, P!AwaitLoad, P!Leave
    <3>2. "none" \notin P!Verdicts /\ "started" \notin P!Verdicts
          /\ {"load", "wait", "idle"} \cap P!Verdicts = {}
      BY DEF P!Verdicts
    <3>3. P!CacheTyped' /\ P!HistoryTyped'
      BY <1>1, <1>2, <3>1, TimesFit DEF P!TypeOK, P!CacheTyped, P!HistoryTyped, P!Drop
    <3> HIDE DEF P!Verdicts
    <3>4. P!AnswerIsRecent'
      BY <1>1, <1>2, <3>1, <3>2 DEF P!TypeOK, P!CacheTyped, Recent, P!AnswerIsRecent
    <3> QED BY <1>1, <1>2, <3>1, <3>2, <3>3, <3>4 DEF Recent, P!Drop
  <2> QED BY <2>1, <2>2
<1> QED BY <1>1, <1>3, CacheKeepsRows DEF RolesInv

LEMMA LoadsKeep == ASSUME RolesInv, P!LoadRules \/ P!StoreEnforcer PROVE RolesInv'
<1>1. UNCHANGED <<P!dataVars, P!callVars, since, torn>>
  BY DEF P!LoadRules, P!StoreEnforcer
<1>2. P!TypeOK /\ Recent /\ P!Verdict' = P!Verdict
  BY <1>1 DEF RolesInv, RowsInv, P!Verdict, P!dataVars, P!menuVars
<1>3. "none" \notin P!Verdicts /\ "error" \notin P!Verdicts
  BY DEF P!Verdicts
<1>4. P!HistoryTyped' /\ P!CacheTyped' /\ Recent'
  <2>1. CASE P!LoadRules
    <3>1. load' \in {P!Verdict, "error"} /\ UNCHANGED <<entry, left, age, reader>>
      BY <2>1 DEF P!LoadRules
    <3> HIDE DEF P!Verdict, P!Verdicts
    <3> QED BY <1>1, <1>2, <1>3, <3>1, RecentFacts
            DEF P!TypeOK, P!CacheTyped, P!HistoryTyped, Recent, P!AnswerIsRecent
  <2>2. CASE P!StoreEnforcer
    <3>1. /\ load \in P!Verdicts \union {"error"} /\ load' = "none" /\ age' = 0
          /\ \/ load = "error" /\ UNCHANGED <<entry, left>>
             \/ load \in P!Verdicts /\ entry' = load /\ left' = TTL
          /\ reader' = [q \in Readers |->
                          IF reader[q] \in {"load", "wait"} THEN load ELSE reader[q]]
      BY <1>3, <2>2 DEF P!StoreEnforcer
    <3>2. load \in P!Verdicts => since[load] \in Nat /\ since[load] <= MaxLoad
      BY <1>2, RecentFacts, TimesFit DEF Recent
    <3>3. P!CacheTyped' /\ P!HistoryTyped'
      BY <1>1, <1>2, <3>1, TimesFit DEF P!TypeOK, P!CacheTyped, P!HistoryTyped
    <3> HIDE DEF P!Verdict, P!Verdicts
    <3>4. P!AnswerIsRecent'
      BY <1>1, <1>2, <1>3, <3>1, <3>2, TimesFit DEF Recent, P!AnswerIsRecent
    <3> QED BY <1>1, <1>2, <1>3, <3>1, <3>2, <3>3, <3>4, TimesFit DEF Recent
  <2> QED BY <2>1, <2>2
<1> QED BY <1>1, <1>4, CacheKeepsRows DEF RolesInv

LEMMA TimePasses == ASSUME RolesInv, P!Tick PROVE RolesInv'
<1>1. /\ load # "none" => age < MaxLoad
      /\ \A q \in Readers : reader[q] \notin P!Verdicts
      /\ left' = IF left = 0 THEN 0 ELSE left - 1
      /\ age' = IF load = "none" THEN 0 ELSE age + 1
      /\ since' = [v \in P!Verdicts |->
           IF v = P!Verdict THEN 0 ELSE IF since[v] = P!Stale THEN P!Stale ELSE since[v] + 1]
      /\ UNCHANGED <<P!dataVars, P!callVars, entry, load, reader, torn>>
  BY DEF P!Tick
<1>2. P!TypeOK /\ Recent /\ P!Verdict' = P!Verdict /\ "none" \notin P!Verdicts
  BY <1>1 DEF RolesInv, RowsInv, P!Verdict, P!Verdicts, P!dataVars, P!menuVars
<1>3. /\ P!Verdict \in P!Verdicts
      /\ \A v \in P!Verdicts : since[v] \in Nat /\ since[v] <= P!Stale
      /\ left \in Nat /\ left <= TTL /\ age \in Nat /\ age <= MaxLoad
      /\ TTL \in Nat /\ TTL > 0 /\ MaxLoad \in Nat /\ P!Stale = TTL + MaxLoad
  BY <1>2, RecentFacts, TimesFit
<1> HIDE DEF P!Verdict, P!Verdicts, P!Stale
<1>4. \A v \in P!Verdicts :
        /\ since'[v] \in 0..P!Stale
        /\ since'[v] <= since[v] + 1
        /\ v = P!Verdict => since'[v] = 0
  BY <1>1, <1>3
<1>5. P!HistoryTyped'
  <2>1. since' \in [P!Verdicts -> 0..P!Stale]
    BY <1>1, <1>4
  <2> QED BY <1>1, <1>2, <2>1 DEF P!TypeOK, P!HistoryTyped
<1>6. P!CacheTyped'
  BY <1>1, <1>2, <1>3 DEF P!TypeOK, P!CacheTyped
<1>7. Recent'
  <2>1. since'[P!Verdict'] = 0
    BY <1>2, <1>3, <1>4
  <2>2. entry' \in P!Verdicts => since'[entry'] + left' <= P!Stale
    BY <1>1, <1>2, <1>3, <1>4 DEF Recent
  <2>3. load' \in P!Verdicts => since'[load'] <= age'
    BY <1>1, <1>2, <1>3, <1>4 DEF Recent
  <2>4. P!AnswerIsRecent'
    BY <1>1 DEF P!AnswerIsRecent
  <2> QED BY <2>1, <2>2, <2>3, <2>4 DEF Recent
<1> QED BY <1>1, <1>5, <1>6, <1>7, CacheKeepsRows DEF RolesInv

LEMMA RolesInitially == P!Init => RolesInv
BY RowsInitially, RecentInitially DEF RolesInv

LEMMA RolesStep == RolesInv /\ [P!Next]_P!vars => RolesInv'
<1>1. ASSUME RolesInv, UNCHANGED P!vars PROVE RolesInv'
  <2>1. UNCHANGED <<P!dataVars, P!callVars, P!cacheVars, since, torn>>
    BY <1>1 DEF P!vars
  <2>2. P!CacheTyped' /\ P!HistoryTyped'
    BY <1>1, <2>1 DEF RolesInv, RowsInv, P!TypeOK, P!CacheTyped, P!HistoryTyped, P!cacheVars
  <2>3. Recent'
    BY <1>1, <2>1, DropsKeepRecent DEF RolesInv, RowsInv, P!dataVars, P!menuVars, P!cacheVars
  <2> QED BY <1>1, <2>1, <2>2, <2>3, CacheKeepsRows DEF RolesInv
<1>2. ASSUME RolesInv, P!Next PROVE RolesInv'
  BY <1>2, ChangesKeep, InvalidateKeeps, RequestsKeep, LoadsKeep, RestartKeeps, TimePasses
     DEF P!Next
<1> QED BY <1>1, <1>2

-----------------------------------------------------------------------------
\* No node answers by rules older than its entry may be and a load may take, be it
\* told of the changes or not, for any TTL and load, any number of requests and
\* changes, and restarts (EnforcerCache: Get, store, invalidate).
THEOREM AnswersRecent == P!Spec => []AnswerIsRecent
<1>1. RolesInv => AnswerIsRecent
  BY DEF RolesInv, Recent, AnswerIsRecent, P!AnswerIsRecent
<1> QED BY <1>1, RolesInitially, RolesStep, PTL DEF P!Spec

\* Rows and rules agree as long as no two changes overlapped: a role that was given the
\* menu under the name it has has its rule, and the user the rules of the user's roles,
\* for any roles, codes and menus (UpdateRole, DeleteRoles, SyncRolePermissions,
\* SyncUserRoles, menus).  A role given the menu before it took its name is owed nothing:
\* saveMenu moves no rule (permission.go:430-437).
THEOREM RulesFollow == P!Spec => []RulesFollowRows
<1>1. RolesInv => RulesFollowRows
  BY DEF RolesInv, RowsInv, RolesAgree, RulesFollowRows, P!RulesFollowRows
<1> QED BY <1>1, RolesInitially, RolesStep, PTL DEF P!Spec

=============================================================================
