# mmdb: TLA+ models, checks and proofs

mmdb is an embedded memory database written in Rust: nodes with text, images or
blobs, embeddings, typed edges, hybrid search, an application state store, and
on top of them a memory runtime with adjudicated change proposals and
reversible "dreaming". This directory models the parts whose correctness
depends on the order of several durable writes, on locks that are given up in
between, and on recovery. Every definition is translated from the code; the
`map` of `PROJECT.json` names its lines.

## Inventory

| Part | State | Operations | What is hard |
|---|---|---|---|
| store format and reset (`store_format.rs`) | the root directory, quarantine, staging, journal and receipt beside it; a lock file | `ResetPlan::build`, `commit_reset`, `StoreLease::acquire`, opening a root | two renames that must look like one; crashes, power loss, retries with another plan |
| state store (`state.rs`) | values with revisions and tombstones per namespace and key | `get`, `put`, `apply`, `replace_prefix`, two scans | compare-and-swap across deletes, readers without the lock, pages of a changing range |
| blob store (`mmdb-blob`) with the facade's node operations (`db.rs`) | bytes in the file system, refcounts in a partition, node rows | `put_stream`, `inc_ref`, `dec_ref`, `gc`, `insert`, `insert_blob`, `delete` | three stores without a common transaction, unlocked counts, garbage collection |
| proposals (`recall.rs`) with node, edge and index writes | proposals with status and cursor, nodes, edges, vector rows | `adjudicate`, `apply_proposal`, `reject_proposal`, `repair_applying_proposals` | replay after a crash between any two writes; failing storage calls |
| dreaming (`dream.rs`) | runs with plan, snapshots and fingerprints | `maintain`, `revert_dream`, `repair_dream_runs` | two waits without the lock, staged publication, rollback that must spare edits of others |
| projections (`runtime.rs`) | a status per node and profile | `project_node`, `retry_projection`, `set_memory_profile` | answers of an embedding client that arrive late |
| context store (`context/`) | record revisions, receipts, payload chunks, history, search rows, two epochs, checkpoints, action intents | appends, revisions, retract, purge, recovery, checkpoints, actions | lost acknowledgements, abandoned uploads, stale checkpoints |
| entities and extraction (`entity.rs`, `extraction.rs`) | references, aliases, extraction markers and receipts | resolve, alias, merge, extraction transactions | repeated extractions, chains of merges |
| native memory kernel (`native_memory.rs`) | evidence, claims, relations, entities, artifacts, proposals, signals, receipts | idempotent operations under one lock and one batch | closures of retract and purge, reviews and adjudication |
| record, vector and graph stores | rows and indexes | put, delete, search | snapshots and tombstones of the vector store |
| query, MMQL, UDFs, lexical index, audit, access, catalog, conversions | mostly none | evaluation | plan equivalence |

How they interact. `Database` owns the record, vector, graph, blob and runtime
stores and serializes node and edge mutations with `node_mutation_lock`; it
writes the stores one after the other, each write durable on its own. Proposal
and dream code takes the same lock, calls the unlocked variants of those
mutations, and keeps its own progress in the runtime store. `maintain` and
`project_node` give the lock up while they wait for a client. `open_runtime`
rebuilds the in-memory parts, then repairs dream runs, then proposals, and only
then hands the database out. `StateStore` and `MemoryDatabase` open a root under
a `StoreLease`, which first finishes an interrupted reset.

The native memory kernel and the context store each keep their own root: every
mutation holds one `write_lock`, looks its operation identifier up in the
operation table, and commits one batch with the receipt. The exception is a
payload of the context store, which is uploaded in batches of its own.

The properties that make each part correct are in the sections below; the full
list of what can go wrong, at its line and with the properties about it, is
`hazards` in `PROJECT.json`.

## Modules

### StoreReset, StoreResetProofs

`fs` is the parent directory of one root: the root, one quarantine path per old
era, one staging path per new era, one journal and one receipt path per plan.
`crashable` is the set of states a power loss may leave: the ones the directory
had since its last sync. `pc` and `job` are the holder of the lease: every system
call of `drive_reset_transaction`, `ensure_fresh_staging`, `write_reset_journal`
and `publish_reset_receipt` that changes the directory is an action, and so is
each sync. `Kill` stops the holder anywhere, `PowerLoss` takes the directory back.
`BeginOpen` is `StoreLease::acquire`: it resumes a journal it finds.
`TornWrites` says whether a crash may fall between creating a file and writing
it; the run lets it.

### StateStore, StateStoreProofs

`disk` is the partition; revision 0 stands for a key never written, a deleted
entry is a tombstone that keeps its revision. A mutation is three steps: take
the lock (`Begin...`), read and check (`Prepare`), commit the batch (`Commit`).
`Get` and the pages of a scan interleave with all of them. A key stands for
namespace and key; the keys of the prefix are the first `PrefixLen`.

### BlobStore, BlobStoreProofs

`bytes` and `volatile` are the files and those not yet on the disk, `meta` the
refcounts, `nodes` the content of each node row. Each thread runs one facade
operation, one access at a time; `MetaGet` and `MetaPut` are the two halves of
`inc_ref` and `dec_ref`. `Overlap` says which kinds of operation the application
runs at the same time: the run overlaps inserts and deletes, which the lock
serializes. `faults` counts stops and failed index writes; a failed node write
costs nothing and is not counted.

### Proposals

`nodes`, `vec`, `edges` and `props` are durable; `task` is the call that holds
the lock and the write it makes next. `Judge` and `StoreProposal` are `adjudicate`,
which validates and stores without the lock. `ChangeNode` and `ChangeEdge` are
`apply_proposed_change_unlocked` with its replay test (`Replayed`), its expected
revision (`Expected`) and its reconciliation of the index (`Reconcile`);
`AdvanceCursor` is the durable cursor step. `hits`, `dirty` and `deleted` are
history variables for the properties. Times are told apart by origin, because
the replay test compares a stored start with a proposed one.

### Dream, DreamProofs

A `task` is a sequence of durable writes still to be made: staging
(`StageWork`), publication (`CompleteWork`), rollback (`RollbackWork`), cleanup
(`CleanupWork`), revert (`RevertWork`), with one action per kind of write. `call`
is where each `maintain` future is: asked, staged, projected. `Cancel` drops a
future while it waits for the dreamer. `writer` is a history variable: who wrote
a node last.

### Projection, ProjectionProofs

One node, its row, its vector rows, its projection rows (`status`), the memory
profile and the lexical document. A call (`tasks`) marks its row Pending under the
lock, waits for the embedding client without it, and takes the lock again to
install the answer if profile, content and attempt are still its own
(`OwnsAttempt`). `insert`, `delete` and `set_memory_profile` are cut at their
durable writes. A vector is told by its origin: a caller, or a client asked under
a fingerprint about a content. `abandoned` is a history variable: the rows whose
call ended early.

### AtMostOnce

The abstract specification of an operation identifier: the first request that
commits under it decides its receipt, its effects happen at most once, later
requests change nothing. `NativeMemory` and `ContextHistory` refine it
(`OperationsAtMostOnce == AMO!Spec`): the receipt is the operation table, the
effects are the audit rows an operation wrote in the kernel and the record
writes it made in the context store, which are counted apart from the table.

### NativeKernel, NativeMemory, NativeRecall, NativeProposals, NativeSignals, NativeMemoryProofs, NativeProposalsProofs

`db` holds the partitions of the canonical records: heads with state and
revision, erasable payloads and blobs, the lexical projection, the dependency
edges and the two work queues. `derived` holds evaluators, profiles, signals and
traces with their owner indexes, `operations` the receipts, and `root`,
`opening` and `open` the creation and opening of the store, one file or batch at
a time. Every mutation of the code holds `write_lock` and commits one batch, so
it is one action, and its helper operators (`AppendStates`, `ActiveClosure`,
`PurgeClosure`, `RemovePayloads`, `RemoveLexical`) carry the names of what they
translate. A closure over the dependency edges (`Descendants`) is stated as the
least closed set the worklist of `active_dependency_closure` computes, not as its
recursion.

`NativeMemory` captures evidence, snapshots and passages of artifacts, remembers,
corrects, relates, retracts and purges; `PreviewPurge` and `CommitPurge` are two
actions with others in between. `NativeRecall` adds durable recall cases, turns
and feedback; a query may return any part of what it is allowed to return.
`NativeProposals` adds bundles from submission over review to adjudication, which
validates them again and applies them in one batch. `NativeSignals` adds
evaluators, profiles, signals and shadow activation. The last two each extend
`NativeRecall`; nothing in the code couples them but the records.

### ContextKernel, ContextHistory, ContextRecords, ContextSessions, ContextProofs

`db` holds revisions (`headers`, a pin is record and revision), `heads`, payload
chunks, pending rows, the order and the streams of each session, search and
adjacency rows, entities, extraction receipts, the availability and redaction
epochs and the latest checkpoints. `upload` is the append that holds the lock
between its batches. `ContextKernel` has the operation table, the epochs, validity
of sources, retraction and purge; `ContextHistory` the append of an event batch
by batch and `recover_payloads` with its budget; `ContextRecords` types, objects,
relations, search, entities and extraction transactions; `ContextSessions`
checkpoints, whose generator works outside the lock, and actions, whose harness
crashes between being told to execute and reporting.

All calls of the context store together are out of reach, so a behaviour of
`ContextSessions` draws a `workload` first: which families of calls this
application uses and how many it makes. The run goes through nine of them:
each family alone or with the ones it touches.

## Runs

Passing runs:

| Run | Shows | Instance |
|---|---|---|
| `store_reset` | acknowledged data and confirmed resets survive power loss (`ResetKeepsData`); one intent at a time and none beside an open store (`ResetExclusive`); the quarantine is what was planned; a published reset is finished | 3 eras, 2 plans, 1 write, 2 crashes |
| `state_store` | prepared batches are current, a revision names one version, `replace_prefix` is exact, paging misses nothing | 2 keys, 2 clients, 2 values, pages of 1, 3 mutations |
| `blob_store` | counts exact, or off by at most one per fault; without a fault readable references and uploads (`BytesReadable`); only garbage is collected | 2 blobs, 3 nodes, 2 threads, 2 faults |
| `proposals` | every change once, and replayable (`ReplaySafe`); only on what was judged; indexed and serializable (`AppliedAtomically`); finished after a crash | 2 proposals of 2 and 3 changes, 4 calls, 2 crashes, 1 failing storage call |
| `dream` | no batch dreamed twice; runs appear whole or not at all (`RunsAreAtomic`); edits preserved and completed runs revertible (`RevertIsSafe`); unfinished runs settled on reopen | 2 runs, 2 raw and 1 derived memory, 1 other call, 1 crash, 1 failing storage call |
| `projection` | what recall takes for current is current, the lexical document follows, every Pending row has an owner (`ProjectionSound`); a later attempt wins; owned rows are settled | 2 fingerprints of a profile, 3 contents, 2 calls of 2 attempts, 2 edits, 1 profile change, 1 crash |
| `native_memory` | active records are supported, within one scope (`SupportSound`); recall, purge, projections and reopening agree (`ReadsSound`); the store implements `AtMostOnce` | 4 operations, 3 evidence, 2 claims, 1 relation, 1 artifact with 2 passages, 1 crash |
| `native_proposals` | queues, pins and claims agree (`ProposalsExact`); `ReadsSound` with proposals applied; revisions, purges and decisions go one way (`ForwardOnly`) | 5 operations, 1 evidence, 2 claims, 1 entity, 1 relation, 1 proposal, 1 review, 1 recall case |
| `native_signals` | nothing computed outlives a purge, owner index and availability agree (`SignalsExact`); a pair is scored once per revision and never after its purge | 8 operations, of which 4 made the initial store; 2 evaluators, 1 profile, 2 signals, 1 trace |
| `context_history` | no chunk lost or left behind (`PayloadsExact`); positions, streams and calls in order (`HistoryWellFormed`); withdrawn for ever; `AtMostOnce` implemented; recovery drains | 3 events of 2 chunks, 4 operations, 3 revisions, 2 faults, 1 message of 2 fragments, 1 tool call |
| `context_sessions` | search exact; extractions and actions without a second effect (`RetriedOnce`); checkpoints neither outdated, revealing nor forked (`CheckpointsSound`); merged entities stay merged; what is written is current | 9 workloads of 2 to 4 calls, 2 revisions, 2 checkpoints, 1 extraction of up to 2 items, 3 entities, 1 fault |

A property in parentheses is a conjunction; its parts are named and commented
where it is defined, and `TypeOK` of each module is one of them (that of
`StateStore` is proved instead). Every property has a mutation of the mapped
code in `PROJECT.json` that breaks it.

Why these bounds. Two plans and three eras let a second reset follow the first
and a retry come with the wrong plan. Two clients and three mutations let a key
be read, deleted, created again and then swapped. Three nodes and two blobs let
one blob be shared while another replaces it. Two crashes let the second hit the
repair of what the first interrupted. Four calls are the least for a proposal
that is judged, fails half way, is overtaken and is applied again. Two maintain
calls are the least for the race on a batch. Two projection calls, two edits and
a profile change let an answer come late for each reason. Four kernel
operations are the least for evidence, a claim on it, a claim that corrects it
or a relation, and the withdrawal; five take a proposal through capture,
submission, review, a withdrawal and the decision; four more than the seeded
ones move a signal to the second evaluator, revise it and purge the first. Three
events with two chunks make a message, or a call with its result, and a
withdrawal in between; two faults let recovery itself be interrupted. Four
context calls are the least for a source, a checkpoint, a correction of the
source and a second checkpoint, three for every other pair of families.

One run is refuted by TLC, a disagreement between the code and what its comments
say (details in `findings`): in `proposals_replay` a `SetValidity` without a start
does not recognise its own write after a crash, and the database can no longer
be opened.

## Limits learned

Some properties are stated with an exception, or hold for the instance above and
not beyond it, because the code does not keep them otherwise. What was learned,
with the constants that show it:

- `StoreReset`: a crash while the journal is being written leaves a file nothing
  can resume (`store_format.rs:1340`; check `InterruptedResetIsResumable`), so
  `ResetCompletes` excepts torn files. Eras are the caller's choice, and an earlier
  era of the root is accepted again.
- `StateStore`: revisions saturate at 2^64 (`state.rs:374`), after which
  compare-and-swap no longer tells versions apart.
- `BlobStore`: two simultaneous uploads of a new payload count one reference
  (`lib.rs:165`; `Overlap = {"insert_blob"}`, no faults, `RefcountWithinFaults`). A
  collection removes bytes that were referenced since it listed them (`lib.rs:197`;
  `Overlap = {"insert_blob", "gc"}`, `GcRemovesOnlyGarbage`). A process stopped inside
  `gc` leaves an entry without bytes, and the next upload of that payload succeeds
  without storing it. An index error after the node write makes `insert_blob`
  release a reference the stored node needs, and `delete` releases before it
  deletes.
- `Proposals`: `apply_proposal` returns a storage error with the proposal Applying
  and the lock released. Others can then write its nodes; a write that shows
  what a change asks for is taken for that change; an edge a caller removed in
  between is added again; and a proposal that can no longer be resumed makes
  every later open fail.
- `Dream`: an answer that names a memory twice leaves it superseded although the
  run failed (`dream.rs:791`; `Plans <- TwicePlan`, `Out <- OneOutput`, one run, one raw
  memory, `UndoneLeavesNothing`). So does one that names the Pending output of
  another run: once publication and rollback have both been broken off, the
  projection of that output moves its revision and the repair no longer knows it
  (`MaxFaults = 2`). An interrupted revert is finished over edits made in between
  (`dream.rs:594`; two other calls and one failing call, `RevertIsSafe`).
- `Projection`: two profiles that name one model share a vector row, and the
  answer of one stands behind the Ready status of the other (`runtime.rs:300`; two
  identifiers, `Model <- OneModel`, `RecallSound`).
- Native kernel: a bundle that relates one record and retracts another may leave
  an active relation to what it retracted (`native_memory.rs:5947`; `Shapes <-
  MixedShapes`, two evidence, one claim, one relation, `ActiveIsSupported`). A review
  may be recorded against a recall case from before a purge. Applied proposals
  stay Active when their targets are withdrawn. A stop while the root is
  created, before the first metadata batch, leaves a root that cannot be opened.
- Context store: an extraction revises records without advancing the
  availability epoch (`extraction.rs:288`), although "A correction invalidates older
  checkpoints" (`checkpoints.rs:98`, and `docs/CONTEXT-DESIGN.md:187`);
  `CheckpointCurrent` excepts it. Each item of
  an extraction is validated against the state before the batch, so that two
  revisions of one record in it overwrite each other; `ExtractionStep` assumes
  callers do not ask for that (`RevisesOnce`). A revision that cites a checkpoint is
  unavailable at once, because it advances the epoch itself. The alias and merge
  of entities do not consult the operation table and overwrite its row
  (`entity.rs:284`, `355`): one that reuses the identifier of an execution takes its
  receipt (`Workload({"entities", "actions"}, 4)`, `RetriedOnce`). An
  assistant may revise an Instruction record into an Inference. A query over
  current records fails as a whole when an Active object's source was purged.
  `recover_payloads` stops at the first purged record its caller may not see.
- Facade: an identifier that is used again after a delete meets what the first
  use left behind in the projections (`db.rs:359`).

## Fairness

`store_reset`: a process that holds the lease runs on and drops its handle
(weak fairness); the lease is a `try_lock`, so that some opener finds it free is
strong fairness of `BeginOpen`. `proposals`, `dream`: the holder of the lock runs on
(`TaskStep`), and a closed database is opened and repaired again. `projection`: a
writer inside the lock runs on, and each call gets the lock in the end although
others take it in between (strong fairness of its `Step`; a `parking_lot`
mutex is fair in the long run), and its client answers or fails. `context_history`: an upload runs
on until it ends one way or the other, and the application keeps calling
`recover_payloads`. Nothing is assumed of callers, dreamers or faults.

Deadlock is not checked where the system may really stop: a root with a torn
file (`StoreReset`), and callers whose bounded calls are used up (`Proposals`,
`Dream`, `Projection`, the native and the context runs). `StateStore` and `BlobStore`
check it.

## Proofs

Eight modules hold theorems, each beside the component it is about. They hold for
every value of the constants that satisfies the component's assumptions: any
number of keys, clients, nodes, threads, calls, records, faults and crashes.

| Module | Proved of every behaviour | Hypothesis |
|---|---|---|
| `StateStoreProofs` | `PreparedIsCurrent`, `RevisionNamesVersion`, `ReplaceIsExact`, `ScanMissesNothing`, that revisions advance by one, types | |
| `StoreResetProofs` | `ResetKeepsData`, `ResetExclusive`, `QuarantineAsPlanned` | |
| `BlobStoreProofs` | `RefcountWithinFaults`, `BytesReadable`, `GcRemovesOnlyGarbage` | `Serial` |
| `DreamProofs` | `NeverDreamedTwice`, types | |
| | `RunsAreAtomic`, `CompletedIsRevertible` | `ActiveTargets` |
| | `RevertIsSafe` | `ActiveTargets`, `RevertUnbroken` |
| `ProjectionProofs` | `ProjectionSound`, `LaterAttemptWins` | `SeparateModels` |
| `ContextProofs` | of the history: `PayloadsExact`, `HistoryWellFormed`, `UnreadableForever`, and that it implements `AtMostOnce` | |
| | of sessions: `SearchExact`, `CheckpointsSound`, `WrittenIsCurrent`, `SameEntityStays`, `ExtractionsExact`, that an action is executed at most once | |
| | `RetriedOnce` | `SeparateWorkloads` |
| `NativeMemoryProofs` | with recall and signals and without: `SupportSound`, `ReadsSound`, that revisions advance by one and a purge is final, that the kernel implements `AtMostOnce`; `SignalsExact`, `SignalsAdvance` | |
| `NativeProposalsProofs` | with recall and proposals: `ProposalsExact`, `ForwardOnly` | |

Assumptions. Sentinels are distinct from the values they stand beside, bounds are
natural numbers, and TLC evaluates every assumption on the runs. Four say
something of the program: fewer mutations are begun than a revision counts
(`StateStore`, standing for 2^64), nodes are finitely many (`BlobStore`), and in
`Dream` every answer of the dreamer cites a finite set of memories and every run
stages its output under an identifier of its own (`Ulid::new`, `dream.rs:835`).
`SessionsAssumption` leaves room for the store an application of the context store
starts with: a session, a message of one chunk, two types, two objects. The
native kernel assumes of its instance only that evidence classes, claim domains
and relation kinds are among those of the code's enums (`MemoryAssumption`) and
that the identifiers operators choose can be compared (`SignalsAssumption`: they
are numbers).

The hypotheses are the limits described above: `Serial` says that uploads and
collections do not overlap with anything, which nothing in the code enforces,
and `SeparateModels` that no two profiles name one model; both hold of the
instances of the runs, and so does `SeparateWorkloads`, that no application both
merges entities and executes actions: `add_entity_alias` and `merge_entities`
(`entity.rs:284`, `355`) do not look their operation up and may replace the
receipt of an execution, whose intent `ActionExecutedOnce` then no longer finds
by it; that it is executed once is proved without it. `ActiveTargets` says
that an answer supersedes memories that are active, each named once, and
`RevertUnbroken` that no storage call fails in a revert while the database stays
open; neither is asked of a behaviour in general, and the run `dream` shows the
properties also where its first does not hold, within its bounds. Without each
of them TLC refutes the conclusion.

The arguments. No property is inductive by itself; each module names what has to
be added.

- `StateStore`. That a prepared batch is computed from the current disk needs
  `LockHeld` (only the holder of the lock is inside a mutation); that revisions
  advance by one needs `RevisionsBounded` (the counter never saturates because each
  mutation in flight or done accounts for one); that a revision names one
  version needs `PreparedIsCurrent` for `Commit` and `UnwrittenIsAbsent` for `Get`. A
  replacement is exact because the pairs it was prepared with are those of the
  disk it is committed to. That paging misses nothing is an invariant about every
  page so far: what stood below the cursor all along has been returned. A page
  ends at its limit or at the end, so the smallest entry it could miss would be
  in it.
- `StoreReset`. A power loss may take the directory back to any state it had since
  the last sync, so what must hold of the directory must hold of all of those.
  `Sound(s)` is what each satisfies by itself (one journal, a quarantine that is
  free or as planned, promises kept), `JobSound` what the holder of the lease knows
  of the one it works on. A rename or a write then adds one sound state, a sync
  removes some.
- `BlobStore`. A refcount is not the number of nodes in the middle of an operation.
  `Extra` says which reference the running operation has counted and not stored,
  or stored and not counted; `Account` is exact up to that and the faults. That
  only one operation is in the middle (`Solo`) is where `Serial` is needed.
- `Dream`. A `maintain` call looks for a duplicate before it waits and again under the
  lock. That the second look is enough rests on this: a run that no longer
  counts never counts again, because whoever writes a status later holds the
  lock for a run that counts. That a run is seen whole or not at all (`AtomicIInv`)
  is an invariant about what is left to write: between two durable writes the
  list of the lock's holder has exactly the edges, memories and output that are
  still missing (`Completing`), or every one that is still to be seen (`Undoing`),
  each once and the status last (`InOrder`); where nobody holds the lock, what an
  unfinished run shows is what its rollback recognises by revision or
  fingerprint (`Published`). A step for one run leaves every other run's writes
  alone or takes them over (`Spares`). That undoing spares edits (`EditsIInv`) needs
  the converse: the revision a run recorded for a memory, and the fingerprint of
  its output, are never what a caller's write leaves behind (`Spared`), because a
  revision only grows and a caller can neither supersede nor stage.
- `Projection`. A Ready row stands for the vector of its own profile version and
  content whether or not it is current now (`Rooted`), because it may become
  current again; the call inside the lock still owns the attempt it was let in
  for (`Inside`); an unsettled row is claimed by a call that will settle it
  (`Claimed`).
- `ContextHistory`. The invariants are about the store as a value, so each batch is
  proved once: the batch keeps `Sound` and `Written`, whichever action commits it.
  `Sound` has the revisions of a record without gaps, cleanup rows that name an
  upload which is no record or a record which is purged, and the chunks of every
  record that is not purged. `Written` has an event where its entry says, calls and
  results where their rows say, and a message table that counts the parts of each
  message in the history; the order of streams follows from that count.
  `Receipts` is what the refinement needs: an identifier that is not in the table
  has had no effects.
- `ContextSessions`. `StoreOK` is again about a store as a value: what the postings,
  the adjacency, the names, the checkpoints and the receipts have to do with the
  heads they index. `Wrote` says that a batch adds one revision and does with
  indexes and epochs what this revision requires; it is shown of every batch, and
  `StoreOK` survives any `Wrote`. An extraction is a row of them on a batch that
  nobody sees yet: there is no first item that it fails at. `Summarised` dates a summary: what
  it lists is current while the availability epoch is its own, unless an
  extraction revised it, and shows nothing erased while the redaction epoch is not
  later; a draft that is generated while others write keeps it too, so that saving
  it needs only the comparison with the latest. `Adjacent` is weaker than it looks:
  extractions leave rows of older revisions behind, and search is exact because it
  returns none that is not current. `Fits` collects what a step promises of what it
  has just written and of references. `Executing` and `Intended` follow an
  operation from its receipt to the harness: it is told of once, because `Begin`
  tells only an operation that is not in the table.
- `NativeSignals`. A signal is live (`SignalLive`) while its evaluator, its profile and
  both ends are not purged, and only a live one has a score. What that rests on is
  in `DerivedOK`: identifiers are dense, so that a new one is never that of an old
  signal (`Numbered`), and the owner index names the signals of an evaluator and
  no others (`Indexed`), because the purge of an evaluator visits only what the
  index names. `Booked` is `Receipts` again. `Shown` says that the target of a
  preview still exists when it is committed, whatever happened in between.
- `NativeMemory`. `Store` is what holds of the records between two batches, and each
  batch is proved once, on values of the store: one that inserts a record above
  ones that may support it (`PutKeeps`), one that files artifacts (`ArtifactsAdded`), one that
  withdraws a record with everything active above it (`Withdrawn`), one that purges
  (`PurgedIs`). `Edges` says which kinds rest on which and that an edge into an active
  record comes from an active one, or from the claim a `Supersedes` relation
  superseded. `Erasing` is about everything ever derived from a purged record, not
  only what was active then: it has no payload and stays inactive. That an
  insertion keeps it needs that nobody can cite such a record (`ActiveStays`);
  that it outlives a purge needs that the purge closure is the set of all
  descendants. `Dense` makes identifiers fresh, `Clear` says the same of signals and
  traces as `Erasing` of records. About `Descendants` the proofs use three facts:
  it is closed, it is the least closed set, and edges that start outside add
  nothing. `RecallIsSound` takes the active evidence and artifacts that are no
  utterance (`Ground`) and shows that support never leads out of them.
- `NativeProposals`. `Ledger` has what the queues, bundles, reviews and edges have to do
  with each other. An undecided proposal pins current revisions (`Fresh`) because every
  pin of its bundle is an edge of the dependency table (`Bundled`): whoever withdraws a
  record withdraws what is active above it, so no proposal that pins it stays
  open (`Shuts`). A proposal that awaits adjudication can name its review because a
  review pins the revision before the one it makes, and the only way on from there is
  the decision (`Reviewed`). `Serial` makes identifiers fresh, `Grounded` says what
  claims rest on. A batch has one of six shapes, each shown to keep the ledger
  once: it withdraws, decorates (rows no proposal depends on), inserts a record,
  enters a proposal, judges or decides one. To apply a bundle is a chain of them, in
  which the proposal being decided is the one that may be out of date (`Fresh(d, {p})`).

Only model-checked:

- liveness (`ResetCompletes`, `ResumeCompletes`, `ReopenSettles`, `PendingSettles`,
  `PendingDrains`): the provers have no rules for fairness;
- what `native_proposals` shows of `ReadsSound`. The theorems about it cover `Spec` and
  `SignalsSpec`; a bundle also creates entities, reviews and relations between drafts,
  kinds and edges that `Typed` and `EdgeOK` leave out;
- `Proposals`: the invariant has to say for every durable write of every program
  what the remaining ones will still do, as that of `Dream` does, over changes of
  four kinds and a replay that tells its own writes by their look.

## Abstractions

- A payload, content or embedding is a value that can be compared; digests are
  injective. A payload of the context store is its number of chunks.
- Keys of the storage engine are ordered model values; a batch is atomic and,
  where the code persists, durable.
- Identifiers are not reused by callers after a delete.
- The facade's lexical index is part of the state only in `Projection`; statistics
  and audit lines are not, except for the audit rows of the native kernel, which
  count effects.
- A dream run has at most one output; thresholds on bytes, counts and periods,
  which only refuse input, are left out.
- Evidence attached to edges is left out.
- Recall and search return any subset of what they may return: ranks, texts and
  limits are left out. Temporal fields of native records are left out.
- The context store has one owner and one scope, and callers have the authority
  their call needs: another owner lives under other keys, and a wrong scope or
  actor refuses a call before it changes anything.
- One type of entities; the values of properties and the definitions of types are
  content.

## Not modelled

MMQL parsing and format conversions (text, no state); calls of user-defined
functions (foreign code behind a registry); lexical ranking and vector distances
(floating point); catalog statistics (counters rebuilt on open); the audit log
and access checks of the facade; exports and listings that only read.

## Plan

Done: every module above.

1. Proofs: `ReadsSound` with proposals; `ReplaySafe` of `Proposals`.
2. `VectorStore` (slots, tombstones, snapshots and their recovery).
3. The query optimizer and graph traversal as pure algorithms, checked against a
   reference evaluation over small stores.
