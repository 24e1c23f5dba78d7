---------------------------- MODULE NativeMemory ----------------------------
(***************************************************************************)
(* The canonical records of a native memory store: evidence, claims,       *)
(* semantic relations and artifacts, retraction, correction, and purge.    *)
(* One action per mutation; the caller's input is chosen by quantifiers.   *)
(***************************************************************************)
EXTENDS NativeKernel

CONSTANTS
    Classes,      \* evidence classes callers capture
    Domains,      \* claim domains callers use
    RelationKinds,
    PurgeKinds,   \* kinds of records operators purge
    None

VARIABLE preview  \* the purge preview an operator holds, or None

memVars == <<db, derived, operations, audit, root, opening, open, crashes, preview>>

EvidenceClasses == {"UserAssertion", "UserCorrection", "ImportedSource", "ToolObservation",
                    "ActionOutcome", "AssistantCommitment", "AssistantUtterance",
                    "SystemObservation", "ArtifactSnapshot", "ArtifactPassage"}
ClaimDomains == {"UserProfile", "UserPreference", "UserNote", "ExternalFact", "WorkspaceFact",
                 "SessionContext", "ArtifactContent", "SystemFact", "AssistantCommitment"}
SemanticRelationKinds == {"Supports", "Contradicts", "Supersedes", "About", "RefersTo",
                          "DerivedFrom", "CanonicalizesTo"}
ProposalStatus == {"PendingReview", "ReviewedApprove", "ReviewedReject", "NeedsUser",
                   "Applied", "Rejected", "Stale", "Unsupported"}
ASSUME MemoryAssumption ==
    /\ Classes \subseteq EvidenceClasses /\ Domains \subseteq ClaimDomains
    /\ RelationKinds \subseteq SemanticRelationKinds

UserClasses == {"UserAssertion", "UserCorrection"}
UserDomains == {"UserProfile", "UserPreference", "UserNote", "SessionContext"}
-----------------------------------------------------------------------------
(* Who may record what. *)

\* Artifact evidence is never captured directly; a commitment of the
\* assistant is evidence only when its turn completed.
CaptureAllowed(actor, class, lifecycle) ==
    /\ CASE class \in UserClasses -> actor = "User"
         [] class = "ImportedSource" -> actor # "Assistant"
         [] class = "AssistantUtterance" -> actor # "User"
         [] class \in {"ToolObservation", "ActionOutcome", "SystemObservation",
                       "AssistantCommitment"} -> actor \in {"System", "Operator"}
         [] OTHER -> FALSE
    /\ CASE class = "AssistantCommitment" -> lifecycle = "Completed"
         [] class \in {"ToolObservation", "ActionOutcome", "AssistantUtterance"} -> TRUE
         [] OTHER -> lifecycle = "Direct"

Admissible(class) ==
    CASE class = "UserAssertion" -> UserDomains
      [] class = "UserCorrection" -> UserDomains \cup {"ExternalFact", "WorkspaceFact"}
      [] class \in {"ImportedSource", "ArtifactSnapshot", "ArtifactPassage"} ->
            {"ExternalFact", "WorkspaceFact", "ArtifactContent"}
      [] class \in {"ToolObservation", "ActionOutcome"} ->
            {"ExternalFact", "WorkspaceFact", "SessionContext", "SystemFact"}
      [] class = "AssistantCommitment" -> {"AssistantCommitment"}
      [] class = "SystemObservation" -> {"SessionContext", "SystemFact"}
      [] OTHER -> {}

MayActivateClaim(actor, domain, classes) ==
    /\ actor # "Assistant"
    /\ actor = "User" => domain \in UserDomains /\ classes \subseteq UserClasses

MayActivateRelation(actor, classes) ==
    /\ actor # "Assistant"
    /\ actor = "User" => classes \subseteq UserClasses

ArtifactActor(actor) == actor # "Assistant"

ClassesOf(d, E) == {d.records[e].label : e \in E}

\* May a user relate this record to another one?
UserMayActivate(d, r) ==
    CASE r[1] = "Evidence" -> d.records[r].label \in UserClasses
      [] r[1] = "Claim" -> d.records[r].label \in UserDomains
      [] r[1] = "Entity" -> ClassesOf(d, d.records[r].evidence) \subseteq UserClasses
      [] OTHER -> FALSE

EndpointKindsFit(kind, from, to) ==
    CASE kind \in {"Supports", "Contradicts"} ->
            from \in {"Evidence", "Claim"} /\ to = "Claim"
      [] kind = "Supersedes" -> from = to /\ from \in {"Claim", "Entity"}
      [] kind = "About" -> (from = "Entity" /\ to # "Entity") \/ (from # "Entity" /\ to = "Entity")
      [] kind = "RefersTo" -> to = "Entity"
      [] kind = "DerivedFrom" -> from \in {"Claim", "Entity"}
      [] kind = "CanonicalizesTo" -> from = "Entity" /\ to = "Entity"

\* Every source exists, is active and lives in the scope.
SourcesActive(d, E, scope) ==
    \A e \in E : IsActive(d, e) /\ d.records[e].scope = scope

\* The records that recall returns and relations connect.
Truths(d) == OfKind(d, "Evidence") \cup OfKind(d, "Claim") \cup OfKind(d, "Entity")

EvidenceSets == (SUBSET OfKind(db, "Evidence")) \ {{}}
-----------------------------------------------------------------------------
(* Evidence. *)

InsertEvidence(d, id, class, scope) ==
    InsertLexical(Insert(d, id, NewRecord(scope, class, {}, {})), id)

CaptureEvidence(op, actor, class, lifecycle, scope) ==
    /\ CaptureAllowed(actor, class, lifecycle)
    /\ Room(db, "Evidence", 1)
    /\ LET e == NewId(db, "Evidence")
       IN Commit(op, {<<e, 1>>}, InsertEvidence(db, e, class, scope))
    /\ UNCHANGED <<derived, preview>>
-----------------------------------------------------------------------------
(* Artifacts: a collection, byte-exact snapshots of it and passages of     *)
(* those.  A snapshot or passage and its evidence depend on each other.    *)

CreateArtifactCollection(op, actor) ==
    /\ ArtifactActor(actor) /\ Room(db, "ArtifactCollection", 1)
    /\ LET c == NewId(db, "ArtifactCollection")
       IN Commit(op, {<<c, 1>>}, Insert(db, c, NewRecord(c, "None", {}, {})))
    /\ UNCHANGED <<derived, preview>>

\* n artifact records below parent, each with evidence of its own.
InsertArtifacts(d, kind, parent, n) ==
    LET scope == d.records[parent].scope
        id(i) == NthId(d, kind, i)
        e(i) == NthId(d, "Evidence", i)
        new == [r \in {id(i) : i \in 1..n} \cup {e(i) : i \in 1..n} |->
                  IF r[1] = "Evidence" THEN NewRecord(scope, kind, {}, {})
                  ELSE NewRecord(scope, "None", {e(i) : i \in {j \in 1..n : id(j) = r}}, {parent})]
    IN [InsertAll(d, new) EXCEPT !.lexical = @ \cup {e(i) : i \in 1..n},
                                 !.dependencies = @ \cup {<<id(i), e(i)>> : i \in 1..n}]

ImportArtifactSnapshot(op, actor, collection, expected) ==
    /\ ArtifactActor(actor)
    /\ IsActive(db, collection) /\ db.records[collection].revision = expected
    /\ Room(db, "ArtifactSnapshot", 1) /\ Room(db, "Evidence", 1)
    /\ LET s == NewId(db, "ArtifactSnapshot")
           d == InsertArtifacts(db, "ArtifactSnapshot", collection, 1)
       IN Commit(op, {<<s, 1>>, <<NewId(db, "Evidence"), 1>>},
                 [d EXCEPT !.blobs = @ \cup {s}])
    /\ UNCHANGED <<derived, preview>>

\* A batch of passages, all or none; an ordinal of a snapshot is used once.
CreateArtifactPassages(op, actor, snapshot, expected, ordinals) ==
    /\ ArtifactActor(actor)
    /\ IsActive(db, snapshot) /\ db.records[snapshot].revision = expected
    /\ LET n == Cardinality(ordinals)
           slots == {snapshot} \X ordinals
           d == InsertArtifacts(db, "ArtifactPassage", snapshot, n)
       IN /\ slots \cap db.ordinals = {}
          /\ Room(db, "ArtifactPassage", n) /\ Room(db, "Evidence", n)
          /\ Commit(op, {Pin(d, r) : r \in DOMAIN d.records \ DOMAIN db.records},
                    [d EXCEPT !.ordinals = @ \cup slots])
    /\ UNCHANGED <<derived, preview>>

\* The bytes of a snapshot, read under write_lock with its metadata.
SnapshotReadable(d, s) == StateOf(d, s) # "Purged" /\ s \in d.payloads
-----------------------------------------------------------------------------
(* Claims and relations. *)

InsertClaim(d, id, domain, scope, E) ==
    InsertLexical(Insert(d, id, NewRecord(scope, domain, E, {})), id)

InsertRelation(d, id, kind, scope, from, to, E) ==
    Insert(d, id, NewRecord(scope, kind, E, {from, to}))

CreateClaim(op, actor, domain, scope, E) ==
    /\ SourcesActive(db, E, scope)
    /\ \A e \in E : domain \in Admissible(db.records[e].label)
    /\ MayActivateClaim(actor, domain, ClassesOf(db, E))
    /\ Room(db, "Claim", 1)
    /\ LET c == NewId(db, "Claim")
       IN Commit(op, {<<c, 1>>}, InsertClaim(db, c, domain, scope, E))
    /\ UNCHANGED <<derived, preview>>

\* Assertion and claim in one batch.
RememberUserClaim(op, domain, scope) ==
    /\ domain \in Admissible("UserAssertion")
    /\ MayActivateClaim("User", domain, {"UserAssertion"})
    /\ Room(db, "Evidence", 1) /\ Room(db, "Claim", 1)
    /\ LET e == NewId(db, "Evidence")
           c == NewId(db, "Claim")
           d == InsertEvidence(db, e, "UserAssertion", scope)
       IN Commit(op, {<<e, 1>>, <<c, 1>>}, InsertClaim(d, c, domain, scope, {e}))
    /\ UNCHANGED <<derived, preview>>

CreateSemanticRelation(op, actor, kind, from, to, E) ==
    /\ from # to
    /\ EndpointKindsFit(kind, from[1], to[1])
    /\ IsActive(db, from) /\ IsActive(db, to)
    /\ db.records[to].scope = db.records[from].scope
    /\ SourcesActive(db, E, db.records[from].scope)
    /\ MayActivateRelation(actor, ClassesOf(db, E))
    /\ actor = "User" => UserMayActivate(db, from) /\ UserMayActivate(db, to)
    /\ Room(db, "SemanticRelation", 1)
    /\ LET r == NewId(db, "SemanticRelation")
       IN Commit(op, {<<r, 1>>},
                 InsertRelation(db, r, kind, db.records[from].scope, from, to, E))
    /\ UNCHANGED <<derived, preview>>
-----------------------------------------------------------------------------
(* Retraction, correction. *)

\* The target changes state, what is active below it loses its support, and
\* none of them stays in the lexical projection.
Withdraw(d, target, state) ==
    LET lost == ActiveClosure(d, target)
    IN RemoveLexical(AppendStates(AppendStates(d, {target}, state), lost, "Unsupported"),
                     lost \cup {target})

WithdrawReceipt(d, target) ==
    {<<r, d.records[r].revision + 1>> : r \in ActiveClosure(d, target) \cup {target}}

Retract(op, actor, target, expected) ==
    /\ actor # "Assistant"
    /\ IsActive(db, target) /\ db.records[target].revision = expected
    /\ Commit(op, WithdrawReceipt(db, target), Withdraw(db, target, "Retracted"))
    /\ UNCHANGED <<derived, preview>>

\* The user's correction: new evidence, a replacement claim, and a Supersedes
\* relation, while the old claim and what rested on it go.
CorrectUserClaim(op, target, expected) ==
    /\ target[1] = "Claim"
    /\ IsActive(db, target) /\ db.records[target].revision = expected
    /\ db.records[target].label \in Admissible("UserCorrection")
    /\ MayActivateClaim("User", db.records[target].label, {"UserCorrection"})
    /\ Room(db, "Evidence", 1) /\ Room(db, "Claim", 1) /\ Room(db, "SemanticRelation", 1)
    /\ LET scope == db.records[target].scope
           e == NewId(db, "Evidence")
           c == NewId(db, "Claim")
           r == NewId(db, "SemanticRelation")
           withdrawn == Withdraw(db, target, "Superseded")
           replaced == InsertClaim(InsertEvidence(withdrawn, e, "UserCorrection", scope),
                                   c, db.records[target].label, scope, {e})
       IN Commit(op, WithdrawReceipt(db, target) \cup {<<e, 1>>, <<c, 1>>, <<r, 1>>},
                 InsertRelation(replaced, r, "Supersedes", scope, c, target, {e}))
    /\ UNCHANGED <<derived, preview>>
-----------------------------------------------------------------------------
(* Purge: an operator is shown what would go, and commits exactly that. *)

BuildPreview(d, x, target) ==
    LET below == PurgeClosure(d, target)
        all == below \cup {target}
        signals == SignalsOf(x, all)
        traces == TracesOf(x, all)
    IN [target  |-> Pin(d, target),
        invalid |-> {Pin(d, r) : r \in below},
        signals |-> {<<s, x.signals[s].revision>> : s \in signals},
        traces  |-> traces,
        payloads |-> Cardinality(all \cap d.payloads) + Cardinality(signals \cap x.scores)
                     + Cardinality(traces)]

\* The window in which a preview may be committed is left out: it only
\* refuses more commits.
PreviewPurge(target) ==
    /\ open /\ Exists(db, target) /\ StateOf(db, target) # "Purged"
    /\ preview' = BuildPreview(db, derived, target)
    /\ UNCHANGED <<db, derived, operations, audit, rootVars>>

\* Mutant: only the target is compared with the preview.
PreviewCurrentTarget(p) ==
    StateOf(db, p.target[1]) # "Purged" /\ db.records[p.target[1]].revision = p.target[2]

\* The preview built again, now, is the one the operator holds.
PreviewCurrent(p) ==
    /\ StateOf(db, p.target[1]) # "Purged"
    /\ BuildPreview(db, derived, p.target[1]) = p

Purged(d, p) ==
    LET below == {pin[1] : pin \in p.invalid}
        all == below \cup {p.target[1]}
        live == {r \in below : IsActive(d, r)}
        revised == AppendStates(AppendStates(d, {p.target[1]}, "Purged"), live, "Unsupported")
    IN RemovePayloads(RemoveLexical(revised, all), all)

PurgeReceipt(d, p) ==
    {<<p.target[1], p.target[2] + 1>>}
      \cup {<<pin[1], pin[2] + 1>> : pin \in {q \in p.invalid : IsActive(d, q[1])}}

CommitPurge(op) ==
    /\ preview # None
    /\ PreviewCurrent(preview)
    /\ Commit(op, PurgeReceipt(db, preview), Purged(db, preview))
    /\ derived' = PurgeTraces(PurgeSignals(derived, {s[1] : s \in preview.signals}),
                              preview.traces)
    /\ UNCHANGED preview
-----------------------------------------------------------------------------
(* What recall may return. *)

\* Mutant: any active evidence is the truth.
EvidenceTruthActive(d, E) == \A e \in E : IsActive(d, e) /\ e \in d.payloads

EvidenceTruth(d, E) ==
    \A e \in E : /\ IsActive(d, e) /\ e \in d.payloads
                 /\ d.records[e].label # "AssistantUtterance"

Recallable(d, r) ==
    /\ IsActive(d, r) /\ r \in d.payloads
    /\ CASE r[1] = "Evidence" -> d.records[r].label # "AssistantUtterance"
         [] r[1] \in {"Claim", "Entity"} -> EvidenceTruth(d, d.records[r].evidence)
         [] OTHER -> FALSE

\* Candidates come from the postings of the lexical documents.
RecallSet(d, scopes) ==
    {r \in d.lexical : Recallable(d, r) /\ d.records[r].scope \in scopes}
-----------------------------------------------------------------------------
Init == InitKernel /\ preview = None

\* Every mutation first looks its operation identifier up.
MemoryStep ==
    \E op \in Ops : Begin(op) /\
      \/ \E actor \in Actors, class \in Classes, life \in {"Direct", "Completed"},
            scope \in Scopes : CaptureEvidence(op, actor, class, life, scope)
      \/ \E actor \in Actors : CreateArtifactCollection(op, actor)
      \/ \E actor \in Actors, c \in OfKind(db, "ArtifactCollection"), n \in 1..2 :
            ImportArtifactSnapshot(op, actor, c, n)
      \/ \E actor \in Actors, s \in OfKind(db, "ArtifactSnapshot"), n \in 1..2,
            ordinals \in (SUBSET (1..2)) \ {{}} : CreateArtifactPassages(op, actor, s, n, ordinals)
      \/ \E actor \in Actors, domain \in Domains, scope \in Scopes
              \cup OfKind(db, "ArtifactCollection"), E \in EvidenceSets :
            CreateClaim(op, actor, domain, scope, E)
      \/ \E domain \in Domains, scope \in Scopes : RememberUserClaim(op, domain, scope)
      \/ \E actor \in Actors, kind \in RelationKinds, from, to \in Truths(db),
            E \in EvidenceSets : CreateSemanticRelation(op, actor, kind, from, to, E)
      \/ \E actor \in Actors, r \in DOMAIN db.records, n \in 1..3 : Retract(op, actor, r, n)
      \/ \E c \in OfKind(db, "Claim"), n \in 1..2 : CorrectUserClaim(op, c, n)
      \/ CommitPurge(op)

Next ==
    \/ RootStep /\ UNCHANGED preview
    \/ MemoryStep
    \/ \E r \in DOMAIN db.records : r[1] \in PurgeKinds /\ PreviewPurge(r)

Spec == Init /\ [][Next]_memVars
-----------------------------------------------------------------------------
(* Properties. *)

Record == [state : RecordState, revision : Nat \ {0}, scope : Scopes \cup RecordRef,
           label : EvidenceClasses \cup ClaimDomains \cup SemanticRelationKinds \cup {"None"},
           evidence : SUBSET RecordRef, ends : SUBSET RecordRef,
           status : ProposalStatus \cup {"None"}]

DerivedRef == {"RelationEvaluator", "RelationProfile", "RelationSignal", "ActivationTrace"} \X Nat

\* Type correctness: every partition holds keys of records the store has, the
\* erasable ones a subset of them (append_state_revision, insert_operation).
TypeOK ==
    /\ DOMAIN db.records \subseteq RecordRef
    /\ \A r \in DOMAIN db.records : db.records[r] \in Record
    /\ db.payloads \subseteq DOMAIN db.records
    /\ db.blobs \subseteq db.payloads
    /\ db.lexical \subseteq db.payloads
    /\ db.dependencies \subseteq (DOMAIN db.records) \X (DOMAIN db.records)
    /\ DOMAIN operations \subseteq Ops
    /\ \A op \in DOMAIN operations : operations[op] \in SUBSET ((RecordRef \cup DerivedRef) \X Nat)
    /\ root \in {"absent", "dir", "manifest", "engine", "ready"}
    /\ opening \in {"none", "create", "initialize", "load"}

\* An active record rests on active records only, whatever was retracted,
\* corrected or purged in which order.  The exceptions are the Supersedes
\* relation, which keeps pointing at the claim it replaced, and the records of
\* a proposal's own workflow (the comment on retract: dependents "are
\* invalidated in the same durable batch").
ActiveIsSupported ==
    \A e \in db.dependencies :
      IsActive(db, e[2]) /\ e[2][1] \notin {"Proposal", "ProposalReview"} =>
        \/ IsActive(db, e[1])
        \/ /\ db.records[e[2]].label = "Supersedes"
           /\ e[1] \in db.records[e[2]].ends /\ StateOf(db, e[1]) = "Superseded"

\* The records something was derived from, itself included.
Ancestors(d, r) == Descendants({<<e[2], e[1]>> : e \in d.dependencies}, {r})

\* What recall may return rests, all the way down, on records that are
\* active, readable and never an utterance of the assistant
\* (recallable_record and recall_evidence_truth look one level down).
RecallSound ==
    \A r \in DOMAIN db.records : Recallable(db, r) =>
      \A a \in Ancestors(db, r) :
        IsActive(db, a) /\ a \in db.payloads /\ db.records[a].label # "AssistantUtterance"

\* Nothing derived from a purged record can be read again: not its payload,
\* bytes or index entries, not those of anything below it, not the scores or
\* traces computed from it (commit_purge against its preview).  A review may
\* still be recorded later against a recall case from before the purge.
PurgeErases ==
    \A r \in DOMAIN db.records : StateOf(db, r) = "Purged" =>
      LET gone == {x \in Descendants(db.dependencies, {r}) : x[1] # "ProposalReview"}
      IN /\ gone \cap (db.payloads \cup db.blobs \cup db.lexical) = {}
         /\ \A x \in gone : ~IsActive(db, x)
         /\ SignalsOf(derived, gone) = {} /\ TracesOf(derived, gone) = {}

\* The lexical projection holds exactly the records it may return, and a
\* snapshot that can be opened has its bytes (remove_lexical_document,
\* materialize_artifact_snapshot's Corrupt error is unreachable).
ProjectionExact ==
    /\ db.lexical = {r \in DOMAIN db.records :
                       IsActive(db, r) /\ r[1] \in {"Evidence", "Claim", "Entity"}}
    /\ \A s \in OfKind(db, "ArtifactSnapshot") : SnapshotReadable(db, s) => s \in db.blobs

\* Records relate and rest on records of their own scope, so that a recall
\* restricted to scopes never returns what rests on another one (a review may
\* cite a recall case over several scopes).
OneScope ==
    \A e \in db.dependencies : e[2][1] # "ProposalReview" =>
      db.records[e[1]].scope = db.records[e[2]].scope

\* retract, correct and purge leave no active record without its support, and
\* support never crosses scopes.
SupportSound == ActiveIsSupported /\ OneScope

\* A store in which an operation committed can always be opened again with
\* the key its digests were made with (load_or_create_native_metadata).
CommittedStoreOpens == DOMAIN operations # {} => root = "ready"

\* What recall, search, snapshots and the opening of the store read is what
\* they may read, and it is there.
ReadsSound == TypeOK /\ RecallSound /\ PurgeErases /\ ProjectionExact /\ CommittedStoreOpens

\* Revisions only advance, one at a time, and a purged record is final.
RevisionsAdvance ==
    \A r \in DOMAIN db.records :
      /\ r \in DOMAIN db'.records
      /\ db'.records[r] # db.records[r] =>
           /\ db'.records[r].revision = db.records[r].revision + 1
           /\ StateOf(db, r) # "Purged"

\* Every mutation is at most once per operation identifier, across replays,
\* conflicts and restarts (replayed_operation, insert_operation).
AMO == INSTANCE AtMostOnce WITH
          Receipts <- SUBSET ((RecordRef \cup DerivedRef) \X Nat),
          receipt <- operations, effects <- audit
OperationsAtMostOnce == AMO!Spec
=============================================================================
