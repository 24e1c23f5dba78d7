---------------------------- MODULE NativeKernel ----------------------------
(***************************************************************************)
(* The state of one native memory store (crates/mmdb/src/native_memory.rs) *)
(* and the steps every mutation of it is made of: records with revision    *)
(* chains, erasable payloads, the lexical projection, the dependency       *)
(* graph, the operation table and the life of the store's root.            *)
(*                                                                         *)
(* Every mutation holds write_lock and commits one durable batch, so it is *)
(* one action: the batch is a new value of db.  Texts, times and digests   *)
(* are left out; a record keeps what the kernel decides on.                *)
(***************************************************************************)
EXTENDS Naturals, FiniteSets, TLC

CONSTANTS
    Limit,       \* how many records of each kind a run may create
    MaxOps,      \* operation identifiers 1..MaxOps
    Scopes,      \* the scopes callers name (artifacts have their own)
    MaxCrashes   \* how often the process may stop

VARIABLES
    db,          \* durable: the partitions of the canonical records
    derived,     \* durable: evaluators, profiles, signals and traces
    operations,  \* durable: the receipt of every committed operation
    audit,       \* durable: how many audit events each operation wrote
    root,        \* durable: how far the root was created
    opening,     \* the open in progress: may it create the metadata?
    open,        \* is there a MemoryDatabase value?
    crashes

rootVars == <<root, opening, open, crashes>>
vars == <<db, derived, operations, audit, rootVars>>

Kinds == {"Evidence", "Claim", "Entity", "SemanticRelation", "Proposal",
          "ProposalReview", "ArtifactCollection", "ArtifactSnapshot",
          "ArtifactPassage"}
ASSUME KernelAssumption ==
    MaxOps \in Nat /\ MaxCrashes \in Nat /\ Limit \in [Kinds -> Nat]

RecordRef == UNION {{k} \X (1..Limit[k]) : k \in Kinds}
RecordState == {"Active", "Retracted", "Superseded", "Unsupported", "Purged"}
Actors == {"User", "Assistant", "System", "Operator"}
Ops == 1..MaxOps

EmptyDb ==
    [records      |-> [r \in {} |-> {}],   \* the head revision of each record
     payloads     |-> {},                  \* records whose payload is stored
     blobs        |-> {},                  \* snapshots whose bytes are stored
     lexical      |-> {},                  \* records with a lexical document
     dependencies |-> {},                  \* <<source, dependent>>
     ordinals     |-> {},                  \* <<snapshot, ordinal>> in use
     bundles      |-> [p \in {} |-> {}],   \* what each proposal would change
     reviews      |-> [v \in {} |-> {}],   \* what each review pins
     cases        |-> [c \in {} |-> {}],   \* recall cases: pinned candidates
     feedback     |-> {},                  \* <<case, candidate>>
     pending      |-> {},                  \* proposals awaiting review
     awaiting     |-> {},                  \* proposals awaiting adjudication
     jobs         |-> [j \in {} |-> {}]]   \* proposal of each source job

EmptyDerived ==
    [evaluators |-> [e \in {} |-> {}], profiles |-> [p \in {} |-> {}],
     signals    |-> [s \in {} |-> {}], traces   |-> [t \in {} |-> {}],
     scores     |-> {}, byEvaluator |-> {}]

Exists(d, r) == r \in DOMAIN d.records
StateOf(d, r) == d.records[r].state
IsActive(d, r) == Exists(d, r) /\ StateOf(d, r) = "Active"
Pin(d, r) == <<r, d.records[r].revision>>
PinCurrent(d, pin) == IsActive(d, pin[1]) /\ d.records[pin[1]].revision = pin[2]
OfKind(d, k) == {r \in DOMAIN d.records : r[1] = k}

\* Identifiers are fresh; the number of each kind is the bound of a run.
Room(d, k, n) == Cardinality(OfKind(d, k)) + n <= Limit[k]
NthId(d, k, i) == <<k, Cardinality(OfKind(d, k)) + i>>
NewId(d, k) == NthId(d, k, 1)
-----------------------------------------------------------------------------
(* The steps batches are made of. *)

\* A partition with one row written.
WithRow(f, key, row) == [x \in DOMAIN f \cup {key} |-> IF x = key THEN row ELSE f[x]]

\* The first revision of a record.  label is its evidence class, claim domain
\* or relation kind; ends are the records it relates or belongs to.
NewRecord(scope, label, evidence, ends) ==
    [state |-> "Active", revision |-> 1, scope |-> scope, label |-> label,
     evidence |-> evidence, ends |-> ends, status |-> "None"]

\* Record, head, payload, and one dependency for every source.
InsertAll(d, new) ==
    [d EXCEPT !.records = [r \in DOMAIN @ \cup DOMAIN new |->
                             IF r \in DOMAIN @ THEN @[r] ELSE new[r]],
              !.payloads = @ \cup DOMAIN new,
              !.dependencies = @ \cup UNION {{<<s, r>> : s \in new[r].evidence \cup new[r].ends}
                                              : r \in DOMAIN new}]
Insert(d, r, rec) == InsertAll(d, [x \in {r} |-> rec])

InsertLexical(d, r) == [d EXCEPT !.lexical = @ \cup {r}]
RemoveLexical(d, S) == [d EXCEPT !.lexical = @ \ S]
RemovePayloads(d, S) == [d EXCEPT !.payloads = @ \ S, !.blobs = @ \ S]

AwaitsAdjudication(status) ==
    status \in {"ReviewedApprove", "ReviewedReject", "NeedsUser"}

\* The next revision of a record in another state.  A proposal that loses
\* its support is stale, a retracted one is rejected.
NextRevision(rec, kind, state) ==
    [rec EXCEPT !.revision = @ + 1, !.state = state,
                !.status = IF kind # "Proposal" THEN @
                           ELSE IF state = "Unsupported" THEN "Stale"
                           ELSE IF state = "Retracted" THEN "Rejected" ELSE @]

AppendStates(d, S, state) ==
    [d EXCEPT
       !.records = [r \in DOMAIN @ |->
                      IF r \in S THEN NextRevision(@[r], r[1], state) ELSE @[r]],
       !.pending = @ \ {r \in S : d.records[r].status = "PendingReview"},
       !.awaiting = @ \ {r \in S : AwaitsAdjudication(d.records[r].status)}]

\* Everything reachable from S over dependencies, through inactive records
\* too: what is in every set that holds S and is closed under the edges.
Descendants(edges, S) ==
    LET targets == {e[2] : e \in edges}
        closed == {C \in SUBSET targets : \A e \in edges : e[1] \in S \cup C => e[2] \in C}
    IN S \cup {x \in targets : \A C \in closed : x \in C}

Dependents(d, target) == Descendants(d.dependencies, {target}) \ {target}
\* Mutant: only direct dependents are invalidated.
ActiveClosureDirect(d, target) ==
    {r \in DOMAIN d.records : <<target, r>> \in d.dependencies /\ IsActive(d, r)}

ActiveClosure(d, target) == {r \in Dependents(d, target) : IsActive(d, r)}
PurgeClosure(d, target) ==
    {r \in Dependents(d, target) : StateOf(d, r) # "Purged"}

\* Derived rows that depend on erased records: their scores go, the headers
\* of signals get a purged revision, traces keep only their header.
PurgedSignal(h) == [h EXCEPT !.revision = @ + 1, !.state = "Purged"]
PurgedTrace(t) == [t EXCEPT !.payload = FALSE]

PurgeSignals(x, S) ==
    [x EXCEPT !.signals = [s \in DOMAIN @ |-> IF s \in S THEN PurgedSignal(@[s]) ELSE @[s]],
              !.scores = @ \ S]

PurgeTraces(x, T) ==
    [x EXCEPT !.traces = [t \in DOMAIN @ |-> IF t \in T THEN PurgedTrace(@[t]) ELSE @[t]]]

SignalsOf(x, R) ==
    {s \in DOMAIN x.signals : /\ x.signals[s].state # "Purged"
                              /\ x.signals[s].from[1] \in R \/ x.signals[s].to[1] \in R}
TracesOf(x, R) ==
    {t \in DOMAIN x.traces : /\ x.traces[t].payload
                             /\ \E c \in x.traces[t].candidates : c[1] \in R}
-----------------------------------------------------------------------------
(* Operations.  A handler that finds its identifier in the table returns   *)
(* the stored receipt, or OperationConflict for another input: neither     *)
(* changes anything.                                                       *)

\* Callers draw fresh identifiers, or use an earlier one again.
Offered == {op \in Ops : op <= Cardinality(DOMAIN operations) + 1}

\* Mutant: the operation table is not consulted.
NotReplayedEver(op) == op \in Ops

NotReplayed(op) == op \notin DOMAIN operations

Begin(op) == open /\ op \in Offered /\ NotReplayed(op)

\* The batch: records, audit event and operation row become durable at once.
Commit(op, receipt, d) ==
    /\ db' = d
    /\ operations' = WithRow(operations, op, receipt)
    /\ audit' = [audit EXCEPT ![op] = @ + 1]
    /\ UNCHANGED rootVars

\* A reply that only points at earlier work writes no audit event.
CommitReceipt(op, receipt) ==
    /\ operations' = WithRow(operations, op, receipt)
    /\ UNCHANGED <<db, derived, audit, rootVars>>
-----------------------------------------------------------------------------
(* The root. *)

InitKernel ==
    /\ db = EmptyDb /\ derived = EmptyDerived
    /\ operations = [op \in {} |-> {}]
    /\ audit = [op \in Ops |-> 0]
    /\ root = "absent" /\ opening = "none" /\ open = FALSE /\ crashes = 0

dbVars == <<db, derived, operations, audit>>

CreateRoot ==
    /\ opening = "none" /\ ~open /\ root = "absent"
    /\ root' = "dir" /\ opening' = "create"
    /\ UNCHANGED <<dbVars, open, crashes>>

WriteManifest ==
    /\ opening = "create" /\ root = "dir"
    /\ root' = "manifest" /\ opening' = "initialize"
    /\ UNCHANGED <<dbVars, open, crashes>>

\* Only a root that holds nothing but its manifest may get new metadata.
OpenRoot ==
    /\ opening = "none" /\ ~open
    /\ root \in {"manifest", "engine", "ready"}
    /\ opening' = IF root = "manifest" THEN "initialize" ELSE "load"
    /\ UNCHANGED <<dbVars, root, open, crashes>>

OpenEngine ==
    /\ opening = "initialize" /\ root = "manifest"
    /\ root' = "engine"
    /\ UNCHANGED <<dbVars, opening, open, crashes>>

\* Metadata found, created, or missing from a store that must have it.
LoadMetadata ==
    /\ opening \in {"initialize", "load"} /\ root \in {"engine", "ready"}
    /\ opening' = "none"
    /\ root' = IF opening = "initialize" THEN "ready" ELSE root
    /\ open' = (root' = "ready")
    /\ UNCHANGED <<dbVars, crashes>>

\* The process stops, or the value is dropped.
Crash ==
    /\ crashes < MaxCrashes /\ (open \/ opening # "none")
    /\ open' = FALSE /\ opening' = "none" /\ crashes' = crashes + 1
    /\ UNCHANGED <<dbVars, root>>

RootStep == CreateRoot \/ WriteManifest \/ OpenRoot \/ OpenEngine \/ LoadMetadata
            \/ Crash
=============================================================================
