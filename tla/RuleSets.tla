------------------------------- MODULE RuleSets -------------------------------
(***************************************************************************)
(* The administration of rule sets (service.go of                          *)
(* app/services/runtime/protection): drafts under a version number that    *)
(* every form brings along, the history of what was published, and the     *)
(* engine of one process, into which the newest versions are loaded.       *)
(*                                                                         *)
(* Of a rule set's content only its scope and pattern are kept: two sets   *)
(* that are published and enabled must not share them.                     *)
(***************************************************************************)
EXTENDS Naturals, Sequences

CONSTANTS
  RuleSets,     \* their ids
  Patterns,     \* scopes with resource patterns, the key of a conflict
  Calls,        \* of operators and of requests to the engine, each made once
  MaxVersion,   \* bound: of rows
  None

\* Nobody is neither a call nor a pattern.
RulesAssumption == MaxVersion \in Nat /\ None \notin Calls \union Patterns

VARIABLES
  row,          \* of a set: version, content and enabled; version 0: there is no row
  published,    \* of a set: its versions, oldest first,
  meant,        \* and, history, what their operators had seen and asked for
  loaded,       \* how many versions of each set the engine's definitions are made of
  loader,       \* the call that holds the mutex of runtimeState,
  found,        \* and how many versions it has read
  at, op, target,     \* of a call: where it is, what it does, and its set
  number,       \* the version of its form, and then the one it has published
  wish,         \* what its operator saw and wants
  pick,         \* what it has read and is about to publish
  raced         \* history: two sets of one pattern were checked for conflicts, each
                \* before the other was published

rowVars == <<row, published, meant>>
engineVars == <<loaded, loader, found>>
callVars == <<at, op, target, number, wish, pick>>
vars == <<rowVars, engineVars, callVars, raced>>

Content == [content : Patterns, enabled : BOOLEAN]
NoContent == [content |-> None, enabled |-> FALSE]
Ops == {"update", "delete", "publish", "enable", "disable", "rollback"}
Counts == [RuleSets -> 0..MaxVersion]

TypeOK ==
  /\ row \in [RuleSets -> [version : 0..MaxVersion, content : Patterns, enabled : BOOLEAN]]
  /\ \A i \in RuleSets : published[i] \in Seq(Content) /\ meant[i] \in Seq(Content)
  /\ loaded \in Counts /\ found \in Counts /\ loader \in Calls \union {None}
  /\ at \in [Calls -> {"idle", "open", "version", "check", "commit", "count", "reload",
                       "replace", "done", "over"}]
  /\ op \in [Calls -> Ops \union {"none", "evaluate"}]
  /\ target \in [Calls -> RuleSets \union {None}] /\ number \in [Calls -> 0..MaxVersion]
  /\ wish \in [Calls -> Content \union {NoContent}]
  /\ pick \in [Calls -> Content \union {NoContent}]
  /\ raced \in BOOLEAN

Histories == UNION {[1..n -> Content] : n \in 0..2}
Newest(i) == published[i][Len(published[i])]
Live(i) == published[i] # <<>> /\ Newest(i).enabled
\* ValidatePublishedConflicts.
Loadable ==
  \A i, j \in RuleSets : i # j /\ Live(i) /\ Live(j) => Newest(i).content # Newest(j).content

\* Create has made the rows, and Publish may have published them.
Init ==
  /\ published \in [RuleSets -> Histories] /\ Loadable
  /\ \E drafted \in [RuleSets -> Patterns] :
       row = [i \in RuleSets |->
                IF published[i] = <<>>
                  THEN [version |-> 1, content |-> drafted[i], enabled |-> TRUE]
                  ELSE [version |-> Len(published[i]) + 1,
                        content |-> Newest(i).content, enabled |-> Newest(i).enabled]]
  /\ meant = published /\ loaded = [i \in RuleSets |-> Len(published[i])]
  /\ found = [i \in RuleSets |-> 0] /\ loader = None
  /\ at = [c \in Calls |-> "idle"] /\ op = [c \in Calls |-> "none"]
  /\ target = [c \in Calls |-> None] /\ number = [c \in Calls |-> 0]
  /\ wish = [c \in Calls |-> NoContent] /\ pick = wish
  /\ raced = FALSE

GoTo(c, s) == at' = [at EXCEPT ![c] = s]
\* What a call that is over knew.
Forget(c) ==
  /\ op' = [op EXCEPT ![c] = "none"] /\ target' = [target EXCEPT ![c] = None]
  /\ number' = [number EXCEPT ![c] = 0] /\ wish' = [wish EXCEPT ![c] = NoContent]
  /\ pick' = [pick EXCEPT ![c] = NoContent]
\* An outdated form, a conflict, a statement that fails, a crash.
Fail(c) == GoTo(c, "over") /\ Forget(c) /\ UNCHANGED <<rowVars, engineVars, raced>>

Draft(i) == [content |-> row[i].content, enabled |-> row[i].enabled]
Publishes(c) ==
  op[c] \in {"publish", "rollback"} \/ (op[c] \in {"enable", "disable"} /\ pick[c] # NoContent)

-----------------------------------------------------------------------------
(* Operators. *)

\* An operator looks at a set and its history and decides what to do.
Open(c, i) ==
  /\ at[c] = "idle" /\ row[i].version \in 1..(MaxVersion - 1)
  /\ \E o \in Ops, new \in Content :
       /\ CASE o = "update" -> TRUE
            [] o = "publish" -> new = Draft(i)
            [] o = "rollback" -> published[i] # <<>> /\ new = Head(published[i])
            [] o \in {"enable", "disable"} ->
                 /\ new.enabled = (o = "enable")
                 /\ new.content = IF published[i] = <<>> THEN row[i].content
                                                          ELSE Newest(i).content
            [] o = "delete" -> new = Draft(i)
       /\ op' = [op EXCEPT ![c] = o] /\ wish' = [wish EXCEPT ![c] = new]
  /\ target' = [target EXCEPT ![c] = i] /\ number' = [number EXCEPT ![c] = row[i].version]
  /\ GoTo(c, "open")
  /\ UNCHANGED <<rowVars, engineVars, pick, raced>>

\* A draft that is disabled is not checked for conflicts.
Find(c) ==
  LET i == target[c] IN
  /\ at[c] = "open"
  /\ \/ /\ row[i].version = number[c]
        /\ GoTo(c, CASE op[c] = "update" -> "commit"
                     [] op[c] = "delete" -> "count"
                     [] op[c] = "publish" -> IF row[i].enabled THEN "check" ELSE "commit"
                     [] op[c] = "rollback" -> "version"
                     [] OTHER -> IF published[i] = <<>> THEN "commit" ELSE "version")
        /\ pick' = IF op[c] = "publish" THEN [pick EXCEPT ![c] = Draft(i)] ELSE pick
        /\ UNCHANGED <<rowVars, engineVars, op, target, number, wish, raced>>
     \/ Fail(c)

\* latestPublishedVersion, or the version to go back to.
ReadVersion(c) ==
  LET i == target[c]
      read == IF op[c] = "rollback" THEN Head(published[i])
              ELSE [content |-> Newest(i).content, enabled |-> op[c] = "enable"] IN
  /\ at[c] = "version"
  /\ pick' = [pick EXCEPT ![c] = read]
  /\ GoTo(c, IF op[c] = "disable" THEN "commit" ELSE "check")
  /\ UNCHANGED <<rowVars, engineVars, op, target, number, wish, raced>>

\* validatePublishConflicts.  Variant: a set is not checked when it is enabled again.
NoConflictButEnabling(c) ==
  op[c] = "enable" \/ \A j \in RuleSets \ {target[c]} : Live(j) => Newest(j).content # pick[c].content
NoConflict(c) ==
  \A j \in RuleSets \ {target[c]} : Live(j) => Newest(j).content # pick[c].content

Check(c) ==
  /\ at[c] = "check"
  /\ \/ /\ NoConflict(c) /\ GoTo(c, "commit")
        /\ UNCHANGED <<rowVars, engineVars, op, target, number, wish, pick, raced>>
     \/ Fail(c)

\* The UPDATE, and the row of protection_rule_version in its transaction.
\* Variant: whatever the version of the row.
StillFitsAlways(c) == row[target[c]].version > 0
StillFits(c) == row[target[c]].version = number[c]
Commit(c) ==
  LET i == target[c]
      new == [content |-> CASE op[c] = "update" -> wish[c].content
                            [] op[c] = "rollback" -> pick[c].content
                            [] OTHER -> row[i].content,
              enabled |-> CASE op[c] = "publish" -> row[i].enabled
                            [] op[c] = "rollback" -> pick[c].enabled
                            [] OTHER -> wish[c].enabled,
              version |-> row[i].version + 1] IN
  /\ at[c] = "commit"
  /\ \/ /\ StillFits(c) /\ row[i].version < MaxVersion
        /\ row' = [row EXCEPT ![i] = new]
        /\ IF Publishes(c)
             THEN /\ published' = [published EXCEPT ![i] = Append(@, pick[c])]
                  /\ meant' = [meant EXCEPT ![i] = Append(@, wish[c])]
                  /\ number' = [number EXCEPT ![c] = Len(published[i]) + 1]
                  /\ raced' = (raced \/ (\E d \in Calls \ {c} :
                       /\ at[d] = "commit" /\ target[d] # i
                       /\ pick[d] = pick[c] /\ pick[c].enabled))
                  /\ GoTo(c, "reload") /\ UNCHANGED <<op, target, wish, pick>>
             ELSE GoTo(c, "over") /\ Forget(c) /\ UNCHANGED <<published, meant, raced>>
        /\ UNCHANGED engineVars
     \/ Fail(c)

\* Delete: the count of versions, and the statement.
Count(c) ==
  /\ at[c] = "count"
  /\ \/ /\ published[target[c]] = <<>> /\ GoTo(c, "commit")
        /\ UNCHANGED <<rowVars, engineVars, op, target, number, wish, pick, raced>>
     \/ Fail(c)

Delete(c) ==
  /\ at[c] = "commit" /\ op[c] = "delete" /\ StillFits(c)
  /\ row' = [row EXCEPT ![target[c]].version = 0] /\ GoTo(c, "over") /\ Forget(c)
  /\ UNCHANGED <<published, meant, engineVars, raced>>

-----------------------------------------------------------------------------
(* The engine. *)

\* A request to the engine, five seconds after it was loaded.
Evaluate(c) ==
  /\ at[c] = "idle"
  /\ op' = [op EXCEPT ![c] = "evaluate"] /\ GoTo(c, "reload")
  /\ UNCHANGED <<rowVars, engineVars, target, number, wish, pick, raced>>

\* reloadRuntime, under the mutex: the definitions, and ReplaceRules, which refuses
\* them if two conflict.  Variant: without the mutex.
LoaderFreeAlways == TRUE
LoaderFree == loader = None

ReadDefinitions(c) ==
  /\ at[c] = "reload" /\ LoaderFree
  /\ \/ /\ Loadable
        /\ loader' = c /\ found' = [i \in RuleSets |-> Len(published[i])]
        /\ GoTo(c, "replace")
        /\ UNCHANGED <<rowVars, loaded, op, target, number, wish, pick, raced>>
     \/ Fail(c)

ReplaceRules(c) ==
  /\ at[c] = "replace"
  /\ loaded' = found /\ found' = [i \in RuleSets |-> 0] /\ loader' = None
  /\ IF Publishes(c) THEN GoTo(c, "done") /\ UNCHANGED <<op, target, number, wish, pick>>
                     ELSE GoTo(c, "over") /\ Forget(c)
  /\ UNCHANGED <<rowVars, raced>>

Next ==
  \E c \in Calls :
    \/ \E i \in RuleSets : Open(c, i)
    \/ Find(c) \/ ReadVersion(c) \/ Check(c) \/ (op[c] # "delete" /\ Commit(c))
    \/ Count(c) \/ Delete(c)
    \/ Evaluate(c) \/ ReadDefinitions(c) \/ ReplaceRules(c)

Spec == Init /\ [][Next]_vars

-----------------------------------------------------------------------------
(* What holds. *)

\* What is published is what its operator had before him when he asked for it, not
\* what a form saved in the meantime has made of it; and history is kept.
PublishedAsSeen ==
  \A i \in RuleSets : published[i] = meant[i] /\ (published[i] # <<>> => row[i].version > 0)

\* What is published and enabled can be loaded, and no process is left with what it
\* has, unless two sets of one pattern were checked at the same time.
RulesCanBeLoaded == ~raced => Loadable

\* Once a publication is answered the process works with it, or with a later one,
\* whoever else loads the rules.
EngineIsCurrent ==
  \A c \in Calls : at[c] = "done" => loaded[target[c]] >= number[c]

\* Whatever is published reaches the engines, and nothing of it is overtaken there.
RulesAreServed == RulesCanBeLoaded /\ EngineIsCurrent
=============================================================================
