---------------------------- MODULE NativeRecall ----------------------------
(***************************************************************************)
(* Recall against a native memory store: a query leaves a durable case     *)
(* that pins what it returned, a turn captures its evidence before it      *)
(* recalls, and feedback names a pinned candidate.  Proposal reviews and   *)
(* shadow activation work from these cases.                                *)
(***************************************************************************)
EXTENDS NativeMemory

CONSTANTS
    MaxCases,      \* recall cases of a run
    MaxFeedback,   \* rows of feedback
    Queries        \* "all": match everything, "none": match nothing

Cases == DOMAIN db.cases

\* The case of a query over scopes whose postings match the records in C.
\* Text, ranks and limits are left out: any part of what may be returned can
\* be what a query returns.
WithCase(d, scopes, C) ==
    [d EXCEPT !.cases = WithRow(@, Cardinality(DOMAIN @) + 1,
                                [scopes |-> scopes, candidates |-> {Pin(d, r) : r \in C}])]

CaseRoom == Cardinality(Cases) < MaxCases

\* Recall holds the write lock too, but records no operation.
Recall(scopes, C) ==
    /\ open /\ CaseRoom /\ scopes # {}
    /\ C \subseteq RecallSet(db, scopes)
    /\ db' = WithCase(db, scopes, C)
    /\ UNCHANGED <<derived, operations, audit, rootVars, preview>>

\* The evidence of the turn is durable before the recall and excluded from it.
BeginTurnRecall(op, class, scope, C) ==
    /\ class \in UserClasses /\ CaptureAllowed("User", class, "Direct")
    /\ Room(db, "Evidence", 1) /\ CaseRoom
    /\ C \subseteq RecallSet(db, {scope})
    /\ LET e == NewId(db, "Evidence")
       IN Commit(op, {<<e, 1>>}, WithCase(InsertEvidence(db, e, class, scope), {scope}, C))
    /\ UNCHANGED <<derived, preview>>

\* A retried turn finds its evidence and only recalls again.
RetryTurnRecall(op, scope, C) ==
    /\ open /\ CaseRoom /\ op \in DOMAIN operations
    /\ \E e \in OfKind(db, "Evidence") :
          /\ operations[op] = {<<e, 1>>} /\ db.records[e].label \in UserClasses
          /\ db.records[e].scope = scope /\ C \subseteq RecallSet(db, {scope})
          /\ db' = WithCase(db, {scope}, C \ {e})
    /\ UNCHANGED <<derived, operations, audit, rootVars, preview>>

\* candidates is empty for "an expected record is missing", else one pin.
RecordRecallFeedback(op, actor, case, candidates) ==
    /\ actor # "Assistant" /\ Cardinality(db.feedback) < MaxFeedback
    /\ Cardinality(candidates) <= 1 /\ candidates \subseteq db.cases[case].candidates
    /\ Commit(op, candidates, [db EXCEPT !.feedback = @ \cup {<<case, candidates>>}])
    /\ UNCHANGED <<derived, preview>>

Matched(scopes) == {IF q = "all" THEN RecallSet(db, scopes) ELSE {} : q \in Queries}

RecallStep ==
    \/ \E scopes \in SUBSET Scopes : \E C \in Matched(scopes) : Recall(scopes, C)
    \/ \E op \in Ops, scope \in Scopes : \E C \in Matched({scope}) :
          \/ Begin(op) /\ \E class \in Classes : BeginTurnRecall(op, class, scope, C)
          \/ RetryTurnRecall(op, scope, C)
    \/ \E op \in Ops, actor \in Actors, case \in Cases :
          /\ Begin(op)
          /\ \E cs \in SUBSET db.cases[case].candidates : RecordRecallFeedback(op, actor, case, cs)
=============================================================================
