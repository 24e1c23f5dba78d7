-------------------------- MODULE NativeProposals ---------------------------
(***************************************************************************)
(* Proposal bundles of a native memory store: submitted by anyone, pinned  *)
(* to exact revisions, reviewed against a recall case, and decided by the  *)
(* user or an operator; what is accepted is applied in one batch.          *)
(***************************************************************************)
EXTENDS NativeRecall

CONSTANTS
    Jobs,          \* source job identifiers callers use
    Proposers,     \* actors that submit
    Shapes         \* the sets of change kinds bundles are made of

SE == INSTANCE SequencesExt

Proposals == OfKind(db, "Proposal")
Reviews == OfKind(db, "ProposalReview")
Workflow == {"Proposal", "ProposalReview"}
Verdicts == {"Approve", "Reject", "NeedsUser", "Unsupported"}

\* A draft of the bundle as an endpoint, in the form of a pin.
Draft(n) == <<<<"Draft", n>>, 0>>
-----------------------------------------------------------------------------
(* Bundles. *)

Creates(b) == {ch \in b.changes : ch.kind \in {"CreateClaim", "CreateEntity", "CreateRelation"}}
Relates(b) == {ch \in b.changes : ch.kind = "CreateRelation"}
Mutates(b) == {ch \in b.changes : ch.kind \in {"Retract", "Supersede"}}
Supersessions(b) == {ch \in b.changes : ch.kind = "Supersede"}

SourceIds(b) == {pin[1] : pin \in b.sources}
Targets(b) == {ch.target[1] : ch \in Mutates(b)}
EndpointPins(b) == UNION {{ch.from, ch.to} : ch \in Relates(b)}
ExistingEndpoints(b) == {pin \in EndpointPins(b) : pin[1][1] # "Draft"}

\* The revisions the changes name.
ExistingPins(b) == ExistingEndpoints(b) \cup {ch.target : ch \in Mutates(b)}

AppliedKind(ch) ==
    CASE ch.kind = "CreateClaim" -> "Claim"
      [] ch.kind = "CreateEntity" -> "Entity"
      [] OTHER -> "SemanticRelation"

DraftKind(b, n) ==
    IF \E ch \in Creates(b) : ch.draft = n
    THEN AppliedKind(CHOOSE ch \in Creates(b) : ch.draft = n) ELSE "None"

EndpointKind(b, pin) == IF pin[1][1] = "Draft" THEN DraftKind(b, pin[1][2]) ELSE pin[1][1]

RelationWellFormed(b, ch) ==
    LET from == EndpointKind(b, ch.from)
        to == EndpointKind(b, ch.to)
    IN /\ ch.from # ch.to
       /\ {from, to} \subseteq {"Evidence", "Claim", "Entity"}
       /\ EndpointKindsFit(ch.label, from, to)

MutationWellFormed(b, ch) ==
    CASE ch.kind = "Retract" -> ch.target[1][1] \notin Workflow
      [] ch.kind = "Supersede" ->
            ch.target[1][1] \in {"Claim", "Entity"}
            /\ DraftKind(b, ch.replacement) = ch.target[1][1]

\* Byte and count budgets are left out.
WellFormed(b) ==
    /\ b.sources # {} /\ b.changes # {}
    /\ \A ch \in Creates(b) : ch.evidence # {} /\ ch.evidence \subseteq SourceIds(b)
    /\ \A c1, c2 \in Creates(b) : c1.draft = c2.draft => c1 = c2
    /\ \A c1, c2 \in Mutates(b) : c1.target[1] = c2.target[1] => c1 = c2
    /\ \A ch \in Relates(b) : RelationWellFormed(b, ch)
    /\ \A ch \in Mutates(b) : MutationWellFormed(b, ch)
    /\ Targets(b) \cap SourceIds(b) = {}
    /\ Targets(b) \cap {pin[1] : pin \in ExistingEndpoints(b)} = {}

PinInScope(d, pin, scope) == PinCurrent(d, pin) /\ d.records[pin[1]].scope = scope
-----------------------------------------------------------------------------
(* Submission. *)

\* Mutant: a proposal depends on its sources, not on what it would change.
WithProposalOfSources(d, p, actor, job, scope, b) ==
    [Insert(d, p, [NewRecord(scope, "None", SourceIds(b), {}) EXCEPT !.status = "PendingReview"])
       EXCEPT !.bundles = WithRow(@, p, b), !.pending = @ \cup {p},
              !.jobs = WithRow(@, job, [proposal |-> p, actor |-> actor, bundle |-> b])]

WithProposal(d, p, actor, job, scope, b) ==
    LET new == [NewRecord(scope, "None", SourceIds(b), {pin[1] : pin \in ExistingPins(b)})
                  EXCEPT !.status = "PendingReview"]
    IN [Insert(d, p, new) EXCEPT
          !.bundles = WithRow(@, p, b),
          !.pending = @ \cup {p},
          !.jobs = WithRow(@, job, [proposal |-> p, actor |-> actor, bundle |-> b])]

SubmitProposal(op, actor, job, scope, b) ==
    /\ WellFormed(b) /\ job \notin DOMAIN db.jobs
    /\ \A pin \in b.sources \cup ExistingPins(b) : PinInScope(db, pin, scope)
    /\ Room(db, "Proposal", 1)
    /\ LET p == NewId(db, "Proposal")
       IN Commit(op, {<<p, 1>>}, WithProposal(db, p, actor, job, scope, b))
    /\ UNCHANGED <<derived, preview>>

\* The same bundle for the same job again, under a new operation: the
\* proposal there is, wherever it has got to.  Another bundle is refused.
ResubmitProposal(op, actor, job, b) ==
    /\ job \in DOMAIN db.jobs
    /\ db.jobs[job].actor = actor /\ db.jobs[job].bundle = b
    /\ CommitReceipt(op, {Pin(db, db.jobs[job].proposal)})
    /\ UNCHANGED preview
-----------------------------------------------------------------------------
(* Review. *)

ReviewStatus(verdict) ==
    CASE verdict = "Approve" -> "ReviewedApprove"
      [] verdict = "Reject" -> "ReviewedReject"
      [] OTHER -> verdict

\* The next revision of a proposal that stays in the store.
SetStatus(d, p, status) ==
    [d EXCEPT !.records[p].revision = @ + 1, !.records[p].status = status]

WithReview(d, v, p, case, verdict, findings) ==
    LET about == {p} \cup {pin[1] : pin \in d.cases[case].candidates \cup findings}
        scope == d.records[p].scope
        status == ReviewStatus(verdict)
    IN [Insert(SetStatus(d, p, status), v, NewRecord(scope, "None", {}, about)) EXCEPT
          !.reviews = WithRow(@, v, [proposal |-> Pin(d, p), case |-> case, verdict |-> verdict,
                                     findings |-> findings]),
          !.pending = @ \ {p},
          !.awaiting = IF AwaitsAdjudication(status) THEN @ \cup {p} ELSE @]

FindingPins(d, p, case) == d.bundles[p].sources \cup d.cases[case].candidates

Reviewable(d, p) ==
    IsActive(d, p) /\ d.records[p].status = "PendingReview" /\ p \in d.payloads

ReviewProposal(op, actor, p, expected, case, verdict, findings) ==
    /\ actor # "User"
    /\ db.records[p].revision = expected
    /\ Reviewable(db, p)
    /\ db.records[p].scope \in db.cases[case].scopes
    /\ verdict = "Approve" => findings = {}
    /\ findings \subseteq FindingPins(db, p, case)
    /\ \A pin \in findings : PinInScope(db, pin, db.records[p].scope)
    /\ Room(db, "ProposalReview", 1)
    /\ LET v == NewId(db, "ProposalReview")
       IN Commit(op, {<<v, 1>>, <<p, expected + 1>>},
                 WithReview(db, v, p, case, verdict, findings))
    /\ UNCHANGED <<derived, preview>>
-----------------------------------------------------------------------------
(* Adjudication. *)

AuthorityHeld(actor) == actor \in {"User", "Operator"}

Adjudicable(actor, p, expected) ==
    /\ AuthorityHeld(actor)
    /\ db.records[p].revision = expected /\ p \in db.payloads

\* Mutant: any review of the proposal will do.
ReviewPinsProposal(p, v, expected) ==
    /\ IsActive(db, p) /\ db.records[p].status # "Stale"
    /\ db.records[v].revision = expected /\ db.reviews[v].proposal[1] = p

\* The review was made of the revision before this one.
ReviewPins(p, v, expected) ==
    /\ IsActive(db, p) /\ db.records[p].status # "Stale"
    /\ db.records[v].revision = expected
    /\ db.reviews[v].proposal = <<p, db.records[p].revision - 1>>

\* The proposal in a final status, and out of the queue.
Decided(d, p, status) == [SetStatus(d, p, status) EXCEPT !.awaiting = @ \ {p}]

\* A proposal that is already stale is only reported.
AdjudicateStale(op, actor, p, expected) ==
    /\ Adjudicable(actor, p, expected) /\ db.records[p].status = "Stale"
    /\ Commit(op, {Pin(db, p)}, [db EXCEPT !.awaiting = @ \ {p}])
    /\ UNCHANGED <<derived, preview>>

RejectProposal(op, actor, p, expected, v, expectedReview) ==
    /\ Adjudicable(actor, p, expected) /\ ReviewPins(p, v, expectedReview)
    /\ Commit(op, {<<p, expected + 1>>}, Decided(db, p, "Rejected"))
    /\ UNCHANGED <<derived, preview>>

Acceptable(p, v) ==
    db.records[p].status \in {"ReviewedApprove", "NeedsUser"} /\ v \in db.payloads

\* Everything the bundle, its review and the case of the review pin is still
\* what it was.
PinsCurrent(d, p, v) ==
    LET scope == d.records[p].scope
        review == d.reviews[v]
        case == d.cases[review.case]
    IN /\ IsActive(d, v) /\ scope \in case.scopes /\ d.records[v].scope = scope
       /\ \A pin \in d.bundles[p].sources \cup ExistingPins(d.bundles[p]) \cup review.findings :
             PinInScope(d, pin, scope)
       /\ review.findings \subseteq FindingPins(d, p, review.case)
       /\ \A pin \in case.candidates : PinCurrent(d, pin)

AcceptOutdated(op, actor, p, expected, v, expectedReview) ==
    /\ Adjudicable(actor, p, expected) /\ ReviewPins(p, v, expectedReview)
    /\ Acceptable(p, v) /\ ~PinsCurrent(db, p, v)
    /\ Commit(op, {<<p, expected + 1>>}, Decided(db, p, "Stale"))
    /\ UNCHANGED <<derived, preview>>

ChangeAllowed(d, actor, ch) ==
    LET classes == ClassesOf(d, ch.evidence)
    IN CASE ch.kind = "CreateClaim" ->
              /\ \A c \in classes : ch.label \in Admissible(c)
              /\ MayActivateClaim(actor, ch.label, classes)
         [] OTHER -> MayActivateRelation(actor, classes)

ActivationAllowed(d, actor, b) ==
    /\ \A ch \in Creates(b) : ChangeAllowed(d, actor, ch)
    /\ Supersessions(b) # {} => MayActivateRelation(actor, ClassesOf(d, SourceIds(b)))
    /\ actor = "User" => \A pin \in ExistingEndpoints(b) : UserMayActivate(d, pin[1])

\* The record each creating change becomes; a supersession creates a relation.
Creating(b) == Creates(b) \cup Supersessions(b)
RefOf(d, b, ch) ==
    LET kind == AppliedKind(ch)
        peers == SE!SetToSeq({x \in Creating(b) : AppliedKind(x) = kind})
    IN <<kind, Cardinality(OfKind(d, kind)) + (CHOOSE i \in DOMAIN peers : peers[i] = ch)>>
DraftRef(d, b, n) == RefOf(d, b, CHOOSE ch \in Creates(b) : ch.draft = n)
Resolve(d, b, pin) == IF pin[1][1] = "Draft" THEN DraftRef(d, b, pin[1][2]) ELSE pin[1]

NewRecordOf(d, b, scope, ch) ==
    CASE ch.kind = "CreateClaim" -> NewRecord(scope, ch.label, ch.evidence, {})
      [] ch.kind = "CreateEntity" -> NewRecord(scope, "None", ch.evidence, {})
      [] ch.kind = "CreateRelation" ->
            NewRecord(scope, ch.label, ch.evidence,
                      {Resolve(d, b, ch.from), Resolve(d, b, ch.to)})
      [] OTHER ->
            NewRecord(scope, "Supersedes", SourceIds(b),
                      {DraftRef(d, b, ch.replacement), ch.target[1]})

Created(d, b, scope) ==
    LET refs == {RefOf(d, b, ch) : ch \in Creating(b)}
        Of(r) == CHOOSE ch \in Creating(b) : RefOf(d, b, ch) = r
    IN [r \in refs |-> NewRecordOf(d, b, scope, Of(r))]

\* What loses its support: the closure of every target in the state before
\* the batch, without the targets and the proposal and review themselves.
Invalidated(d, b, p, v) ==
    (UNION {ActiveClosure(d, t) : t \in Targets(b)}) \ (Targets(b) \cup {p, v})

Applied(d, p, v) ==
    LET b == d.bundles[p]
        new == Created(d, b, d.records[p].scope)
        superseded == {ch.target[1] : ch \in Supersessions(b)}
        lost == Invalidated(d, b, p, v)
        changed == AppendStates(AppendStates(AppendStates(d,
                       Targets(b) \ superseded, "Retracted"),
                       superseded, "Superseded"), lost, "Unsupported")
        indexed == RemoveLexical(changed, Targets(b) \cup lost)
        texts == {r \in DOMAIN new : r[1] \in {"Claim", "Entity"}}
    IN Decided([InsertAll(indexed, new) EXCEPT !.lexical = @ \cup texts], p, "Applied")

AppliedReceipt(d, e) ==
    {Pin(e, r) : r \in {x \in DOMAIN e.records : x \notin DOMAIN d.records
                                                 \/ e.records[x] # d.records[x]}}

AcceptProposal(op, actor, p, expected, v, expectedReview) ==
    /\ Adjudicable(actor, p, expected) /\ ReviewPins(p, v, expectedReview)
    /\ Acceptable(p, v) /\ PinsCurrent(db, p, v)
    /\ LET b == db.bundles[p]
           after == Applied(db, p, v)
       IN /\ ActivationAllowed(db, actor, b)
          /\ \A k \in Kinds : Room(db, k, Cardinality({ch \in Creating(b) : AppliedKind(ch) = k}))
          /\ Commit(op, AppliedReceipt(db, after), after)
    /\ UNCHANGED <<derived, preview>>
-----------------------------------------------------------------------------
(* The bundles callers submit. *)

ActivePins(kinds) == {Pin(db, r) : r \in {x \in DOMAIN db.records : x[1] \in kinds /\ IsActive(db, x)}}

ProposedChanges(kind, E) ==
    LET ends == ActivePins({"Evidence", "Claim", "Entity"}) \cup {Draft(1), Draft(2)}
    IN CASE kind = "CreateClaim" ->
              {[kind |-> kind, draft |-> 1, label |-> dom, evidence |-> E] : dom \in Domains}
         [] kind = "CreateEntity" -> {[kind |-> kind, draft |-> 2, evidence |-> E]}
         [] kind = "CreateRelation" ->
              {[kind |-> kind, draft |-> 3, label |-> k, from |-> f, to |-> t, evidence |-> E]
                 : k \in RelationKinds, f \in ends, t \in ends}
         [] kind = "Retract" ->
              {[kind |-> kind, target |-> pin] : pin \in ActivePins(Kinds)}
         [] kind = "Supersede" ->
              {[kind |-> kind, target |-> pin, replacement |-> n]
                 : pin \in ActivePins({"Claim", "Entity"}), n \in 1..2}

\* One or two changes that rest on all the sources.
Bundles ==
    UNION {UNION {{b \in {[sources |-> S, changes |-> {c1, c2}]
                            : c1 \in ProposedChanges(shape[1], {pin[1] : pin \in S}),
                              c2 \in ProposedChanges(shape[2], {pin[1] : pin \in S})}
                     : WellFormed(b)}
                  : shape \in Shapes}
           : S \in (SUBSET ActivePins({"Evidence"})) \ {{}}}

ProposalStep ==
    \E op \in Ops : Begin(op) /\
      \/ /\ Room(db, "Proposal", 1)
         /\ \E actor \in Proposers, job \in Jobs, scope \in Scopes, b \in Bundles :
               SubmitProposal(op, actor, job, scope, b)
      \/ \E actor \in Proposers, job \in DOMAIN db.jobs :
            ResubmitProposal(op, actor, job, db.jobs[job].bundle)
      \/ \E actor \in Actors, p \in Proposals, n \in 1..2, case \in Cases, verdict \in Verdicts :
            \E findings \in {{}} \cup {{pin} : pin \in FindingPins(db, p, case)} :
               ReviewProposal(op, actor, p, n, case, verdict, findings)
      \/ \E actor \in Actors, p \in Proposals, n \in 1..4 :
            \/ AdjudicateStale(op, actor, p, n)
            \/ \E v \in Reviews, m \in 1..2 :
                  \/ RejectProposal(op, actor, p, n, v, m)
                  \/ AcceptOutdated(op, actor, p, n, v, m)
                  \/ AcceptProposal(op, actor, p, n, v, m)

ProposalsNext == Next \/ RecallStep \/ ProposalStep

ProposalsSpec == Init /\ [][ProposalsNext]_memVars
-----------------------------------------------------------------------------
(* Properties. *)

Undecided == {"PendingReview", "ReviewedApprove", "ReviewedReject", "NeedsUser", "Unsupported"}

\* Both work queues hold exactly the proposals that can be worked on, so
\* list_pending_proposals and list_awaiting_adjudication never report a
\* corrupt index, and what waits for a decision has the review it needs.
QueuesExact ==
    /\ db.pending = {p \in Proposals : IsActive(db, p) /\ db.records[p].status = "PendingReview"}
    /\ db.awaiting = {p \in Proposals : /\ IsActive(db, p)
                                        /\ AwaitsAdjudication(db.records[p].status)}
    /\ \A p \in db.awaiting : \E v \in Reviews :
          db.reviews[v].proposal = <<p, db.records[p].revision - 1>>

\* A proposal that was applied, rejected or found stale is never decided
\* again, whoever resubmits, reviews or adjudicates it: it only changes by
\* losing its support, being retracted or being purged.
DecidedOnce ==
    \A p \in Proposals :
      db.records[p].status \notin Undecided /\ db'.records[p] # db.records[p] =>
        ~IsActive(db', p)

\* Records only move forward: one revision at a time, purges and decisions are
\* final (append_states, adjudicate).
ForwardOnly == [][RevisionsAdvance /\ DecidedOnce]_memVars

\* Every claim, by whatever path it was activated, rests on evidence of a
\* class that is admissible for its domain.
ClaimsAdmissible ==
    \A c \in OfKind(db, "Claim") :
      /\ db.records[c].evidence # {}
      /\ \A e \in db.records[c].evidence :
            db.records[c].label \in Admissible(db.records[e].label)

\* What an open proposal pins is what it was submitted with: a decision is
\* never made about sources that were withdrawn.
OpenProposalsCurrent ==
    \A p \in Proposals : IsActive(db, p) /\ db.records[p].status \in Undecided =>
      \A pin \in db.bundles[p].sources \cup ExistingPins(db.bundles[p]) : PinCurrent(db, pin)

\* The queues, the pins of open proposals and the claims they led to agree,
\* while submit, review and adjudicate interleave with withdrawals.
ProposalsExact == QueuesExact /\ OpenProposalsCurrent /\ ClaimsAdmissible
=============================================================================
