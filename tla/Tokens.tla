-------------------------------- MODULE Tokens --------------------------------
(***************************************************************************)
(* The tokens a login is answered by (app/services/access/auth/jwt.go and  *)
(* token_blacklist.go, auth.go): a JWT is good until it expires, whoever   *)
(* signed out; what ends it earlier is an entry of the blacklist, which    *)
(* itself lasts only so long.                                              *)
(*                                                                         *)
(* One user, of a tenant or of the platform, and the requests to the realm *)
(* that user is of; any other refuses the subject or the tenant of the     *)
(* token.  Lifetimes are configuration, which a deployment changes.  A     *)
(* lifetime of 0 is none.                                                  *)
(***************************************************************************)
EXTENDS Naturals, Sequences

CONSTANTS
  Workers,             \* each serves one request after another
  Lifetimes,           \* what [access |-> jwt.ttl, refresh |-> jwt.refresh_ttl] may be
  MaxTokens, MaxTime   \* bounds

ASSUME LifetimeAssumption ==
  /\ Lifetimes \subseteq [access : Nat, refresh : Nat]
  /\ MaxTokens \in Nat /\ MaxTokens >= 2 /\ MaxTime \in Nat

VARIABLES
  now, lifetimes,      \* the clock, and the configuration
  tokens,              \* all that were issued: [type, lifetime, until]
  blacklist,           \* in the cache: token to the time its entry lasts until,
                       \* 0 without one
  status,              \* of the user
  stage, bearer,       \* of a worker: where it is, the token it was brought
  ended,               \* workers whose token had been signed out or exchanged by then
  revoked,             \* tokens that were signed out or exchanged,
  twice, revived,      \* exchanged twice, accepted nevertheless
  overlapped,          \* brought for an exchange while another of them was under way
  outlived             \* revoked under a lifetime shorter than their own

Types == {"access", "refresh"}
Ids == 1..MaxTokens
Forever == 3 * MaxTime + 1
TokenOf == [type : Types, lifetime : Nat, until : Nat]

tokenVars == <<tokens, blacklist>>
workerVars == <<stage, bearer, ended>>
ghosts == <<revoked, twice, revived, overlapped, outlived>>
vars == <<now, lifetimes, tokenVars, status, workerVars, ghosts>>

TypeOK ==
  /\ now \in 0..MaxTime /\ lifetimes \in Lifetimes
  /\ tokens \in Seq(TokenOf) /\ Len(tokens) <= MaxTokens
  /\ blacklist \in [Ids -> Nat] /\ status \in {1, 2}
  /\ stage \in [Workers -> {"idle", "find", "exchange"}]
  /\ bearer \in [Workers -> Ids \union {0}] /\ ended \subseteq Workers
  /\ revoked \union twice \union revived \union overlapped \union outlived \subseteq Ids

Init ==
  /\ now = 0 /\ lifetimes \in Lifetimes
  /\ tokens = <<>> /\ blacklist = [i \in Ids |-> 0] /\ status = 1
  /\ stage = [w \in Workers |-> "idle"] /\ bearer = [w \in Workers |-> 0]
  /\ ended = {}
  /\ revoked = {} /\ twice = {} /\ revived = {} /\ overlapped = {} /\ outlived = {}

-----------------------------------------------------------------------------

\* IssueApplicationToken: without a lifetime there is no claim of an expiry.
IssueApplicationToken(type) ==
  [type |-> type, lifetime |-> lifetimes[type],
   until |-> IF lifetimes[type] = 0 THEN Forever ELSE now + lifetimes[type]]

Issued == tokens \o <<IssueApplicationToken("access"), IssueApplicationToken("refresh")>>

\* TokenBlacklistTTL and BlacklistToken.  Without a lifetime the entry lasts a hundred
\* years.  Variant: it lasts as an access token does, whatever it ends.
BlacklistTTLOfAccess(type) == IF lifetimes.access = 0 THEN Forever ELSE lifetimes.access
BlacklistTTL(type) == IF lifetimes[type] = 0 THEN Forever ELSE lifetimes[type]

\* A token may be older than the lifetimes of today, and was to last longer.
Outlives(i) ==
  LET l == lifetimes[tokens[i].type] IN
  l # 0 /\ (tokens[i].lifetime = 0 \/ tokens[i].lifetime > l)

BlacklistToken(i) ==
  /\ blacklist' = [blacklist EXCEPT ![i] = now + BlacklistTTL(tokens[i].type)]
  /\ revoked' = revoked \union {i}
  /\ outlived' = outlived \union (IF Outlives(i) THEN {i} ELSE {})

TokenBlacklisted(i) == blacklist[i] # 0

\* ParseApplicationToken, for a request that asks for one type.
Parses(i, type) == tokens[i].type = type /\ now < tokens[i].until

GoTo(w, s) == stage' = [stage EXCEPT ![w] = s]
End(w) ==
  /\ GoTo(w, "idle") /\ bearer' = [bearer EXCEPT ![w] = 0]
  /\ ended' = ended \ {w}

-----------------------------------------------------------------------------

\* issueLoginTokens, after a login (see Sessions).  The tokens of one login are
\* followed, and those they are exchanged for.
IssueLoginTokens ==
  /\ tokens = <<>> /\ status = 1
  /\ tokens' = Issued
  /\ UNCHANGED <<now, lifetimes, blacklist, status, workerVars, ghosts>>

\* UserFromAuthorization, with an access token, and Refresh begin alike; what they
\* refuse has no effect.  Variant: a refresh does not look at the blacklist.
AdmitsRefresh(i, type) == (type = "refresh" \/ ~TokenBlacklisted(i)) /\ Parses(i, type)
Admits(i, type) == ~TokenBlacklisted(i) /\ Parses(i, type)
Bring(w, i, type) ==
  /\ stage[w] = "idle" /\ Admits(i, type)
  /\ GoTo(w, "find") /\ bearer' = [bearer EXCEPT ![w] = i]
  /\ ended' = (IF i \in revoked THEN ended \union {w} ELSE ended)
  /\ overlapped' = (IF type = "refresh" /\ \E v \in Workers : bearer[v] = i
                      THEN overlapped \union {i} ELSE overlapped)
  /\ UNCHANGED <<now, lifetimes, tokenVars, status, revoked, twice, revived, outlived>>

\* The row of the user.  With it an access token is accepted.
FindUser(w) ==
  /\ stage[w] = "find"
  /\ \/ status = 2 /\ End(w) /\ UNCHANGED revived
     \/ /\ status = 1 /\ tokens[bearer[w]].type = "refresh"
        /\ GoTo(w, "exchange") /\ UNCHANGED <<bearer, ended, revived>>
     \/ /\ status = 1 /\ tokens[bearer[w]].type = "access" /\ End(w)
        /\ revived' = revived \union (IF w \in ended THEN {bearer[w]} ELSE {})
  /\ UNCHANGED <<now, lifetimes, tokenVars, status, revoked, twice, overlapped, outlived>>

\* The new tokens are out once the old one is on the blacklist, which may fail.
\* Those beyond the bound are not followed.
Refresh(w) ==
  /\ stage[w] = "exchange" /\ End(w)
  /\ \/ /\ tokens' = (IF Len(tokens) + 2 <= MaxTokens THEN Issued ELSE tokens)
        /\ BlacklistToken(bearer[w])
        /\ twice' = twice \union ({bearer[w]} \intersect revoked)
        /\ revived' = revived \union (IF w \in ended THEN {bearer[w]} ELSE {})
     \/ UNCHANGED <<tokenVars, revoked, twice, revived, outlived>>
  /\ UNCHANGED <<now, lifetimes, status, overlapped>>

\* Only the access token is ended, and one that was ended may be ended again.
Logout(i) ==
  /\ Parses(i, "access")
  /\ BlacklistToken(i)
  /\ UNCHANGED <<now, lifetimes, tokens, status, workerVars, twice, revived, overlapped>>

-----------------------------------------------------------------------------

\* UpdateUser, of an operator.
UpdateUser ==
  /\ status' = 3 - status
  /\ UNCHANGED <<now, lifetimes, tokenVars, workerVars, ghosts>>

\* The nodes are started anew with other lifetimes.
Deploy(l) ==
  /\ l # lifetimes /\ lifetimes' = l
  /\ \A w \in Workers : stage[w] = "idle"
  /\ UNCHANGED <<now, tokenVars, status, workerVars, ghosts>>

Tick ==
  /\ now < MaxTime /\ now' = now + 1
  /\ blacklist' = [i \in Ids |-> IF blacklist[i] > now' THEN blacklist[i] ELSE 0]
  /\ UNCHANGED <<lifetimes, tokens, status, workerVars, ghosts>>

Next ==
  \/ IssueLoginTokens \/ UpdateUser
  \/ \E i \in DOMAIN tokens : Logout(i)
  \/ \E w \in Workers, i \in DOMAIN tokens, type \in Types : Bring(w, i, type)
  \/ \E w \in Workers : FindUser(w) \/ Refresh(w)
  \/ \E l \in Lifetimes : Deploy(l)
  \/ Tick

Spec == Init /\ [][Next]_vars

-----------------------------------------------------------------------------
(* What holds. *)

\* A token that was signed out or exchanged is never accepted of a request that
\* begins later, as its entry lasts until it has expired, unless lifetimes were
\* shortened between; and a refresh token has one successor, unless two requests
\* bring it at a time.
EndedStaysEnded ==
  /\ revived \subseteq outlived
  /\ twice \subseteq overlapped \union outlived
=============================================================================
