---------------------------- MODULE ContextKernel ----------------------------
(***************************************************************************)
(* The context store (crates/mmdb/src/context): immutable record revisions *)
(* with pinned sources, payloads kept in chunks, the operation table, the  *)
(* two epochs that date checkpoints, and the change of state that retracts *)
(* or purges a record.                                                     *)
(*                                                                         *)
(* Every call holds the write lock of the database.  The model is one      *)
(* owner with one scope, and every caller has the authority its call       *)
(* needs: other owners live under other keys, and a wrong scope or actor   *)
(* refuses a call before it changes anything.                              *)
(***************************************************************************)
EXTENDS Naturals, FiniteSets, Sequences, TLC

CONSTANTS
    Limit,         \* how many records of each kind a run may create
    MaxRevision,   \* how often one record may be revised
    MaxOps,        \* operation identifiers 1..MaxOps
    Sessions,      \* sessions with a history of their own
    MaxFaults,    \* crashes and failing readers of a run
    None

VARIABLES
    db,          \* durable: the partitions of the store
    operations,  \* durable: the receipt of every committed operation
    applied,     \* history variable: how often each operation wrote a record
    upload,      \* the append that holds the write lock between its batches
    faults

vars == <<db, operations, applied, upload, faults>>

Kinds == <<"Type", "Object", "Relation", "History", "Checkpoint", "Action",
           "ActionExecution">>
KindSet == {Kinds[i] : i \in DOMAIN Kinds}
ASSUME ContextAssumption ==
    /\ MaxOps \in Nat /\ MaxRevision \in Nat \ {0} /\ MaxFaults \in Nat
    /\ Limit \in [KindSet -> Nat]

Records == UNION {{k} \X (1..Limit[k]) : k \in KindSet}
Ops == 1..MaxOps
RecordState == {"Active", "Retracted", "Purged"}

\* A pin names one revision of a record.
PinOf(record, revision) == <<record, revision>>
Pins == Records \X (1..MaxRevision)

\* A partition with one row written.
WithRow(f, key, row) == [x \in DOMAIN f \cup {key} |-> IF x = key THEN row ELSE f[x]]

EmptyDb ==
    [headers   |-> [p \in {} |-> {}],        \* every revision ever written
     heads     |-> [r \in {} |-> 0],         \* the latest revision
     payloads  |-> {},                       \* <<pin, chunk>>
     pending   |-> [r \in {} |-> {}],        \* uploads and purges to clean up
     order     |-> [s \in Sessions |-> <<>>],
     events    |-> [e \in {} |-> {}],        \* <<session, event>>
     calls     |-> [c \in {} |-> {}],        \* <<session, call>>
     results   |-> [c \in {} |-> {}],
     messages  |-> [m \in {} |-> {}],        \* <<session, message>>
     epoch     |-> 0,
     marker    |-> None,                     \* dates the redaction epoch
     postings  |-> [r \in {} |-> {}],        \* the pin a record is found by
     adjacency |-> [e \in {} |-> {}],        \* <<endpoint, relation>>
     names     |-> [n \in {} |-> {}],        \* types and actions by name
     latest    |-> [k \in {} |-> {}],        \* checkpoint of a session or run
     entities  |-> [e \in {} |-> {}],        \* the node a reference names
     receipts  |-> [o \in {} |-> {}],        \* extraction receipts
     started   |-> {}]                       \* extractions begun, not ended

\* Everything a walk over these sources visits.  Revisions never change, so
\* it is known when a revision is written.
Rests(d, sources) == sources \cup UNION {d.headers[p].rests : p \in sources}

\* What the store decides on of a revision's header.
Header(d, sources, chunks, revision) ==
    [state |-> "Active", sources |-> sources, rests |-> Rests(d, sources),
     payload |-> [revision |-> revision, chunks |-> chunks],
     type |-> None, ends |-> {}, history |-> None, checkpoint |-> None,
     status |-> None, extracted |-> FALSE]

HeadPin(d, record) == PinOf(record, d.heads[record])
HeadOf(d, record) == d.headers[HeadPin(d, record)]
Exists(d, record) == record \in DOMAIN d.heads

\* Identifiers are fresh: none that a record, an upload or a chunk still has.
Used(d) == DOMAIN d.heads \cup DOMAIN d.pending \cup {c[1][1] : c \in d.payloads}
FreshIds(d, kind) == {r \in Records : r[1] = kind} \ Used(d)
HasRoom(d, kind) == FreshIds(d, kind) # {}
FreshPin(d, kind) ==
    PinOf(CHOOSE r \in FreshIds(d, kind) : \A s \in FreshIds(d, kind) : r[2] <= s[2], 1)

PutHeader(d, pin, header) ==
    [d EXCEPT !.headers = WithRow(@, pin, header), !.heads = WithRow(@, pin[1], pin[2])]

PutPayload(d, pin, chunks) ==
    [d EXCEPT !.payloads = @ \cup ({pin} \X (1..chunks))]
-----------------------------------------------------------------------------
(* The epochs of checkpoints.  Every correction advances the first; an     *)
(* erasure makes it the second as well.                                    *)

\* A marker of another epoch may hide an erasure: assume the worst.
RedactionEpoch(d) ==
    IF d.marker # None /\ d.marker.availability = d.epoch
    THEN d.marker.redaction ELSE d.epoch

AdvanceEpoch(d) ==
    [d EXCEPT !.epoch = @ + 1,
              !.marker = [availability |-> d.epoch + 1, redaction |-> RedactionEpoch(d)]]

InvalidateCheckpoints(d) ==
    [d EXCEPT !.marker = [availability |-> d.epoch, redaction |-> d.epoch]]
-----------------------------------------------------------------------------
(* Availability. *)

MessageKey(history) == <<history.session, history.kind.message>>
HasMessage(history) == history.kind.message # None
MessageAvailable(d, history) ==
    HasMessage(history) => ~d.messages[MessageKey(history)].unavailable

CheckpointAvailable(d, checkpoint, active) ==
    IF active THEN checkpoint.epoch = d.epoch
    ELSE checkpoint.epoch >= RedactionEpoch(d)

\* What one revision needs by itself, for current use or to be read as history.
SelfAvailable(d, pin, active) ==
    /\ pin \in DOMAIN d.headers
    /\ LET header == d.headers[pin]  head == HeadOf(d, pin[1])
       IN /\ header.checkpoint # None =>
                CheckpointAvailable(d, header.checkpoint, active)
          /\ header.history # None => MessageAvailable(d, header.history)
          /\ head.state # "Purged" /\ header.state # "Purged"
          /\ active => /\ head.state = "Active" /\ header.state = "Active"
                       /\ d.heads[pin[1]] = pin[2]

\* The walk of available_locked: the pin and all it rests on.
Available(d, pin, active) ==
    /\ SelfAvailable(d, pin, active)
    /\ \A p \in d.headers[pin].rests : SelfAvailable(d, p, active)

Current(d, pin) == Available(d, pin, TRUE)
Readable(d, pin) == Available(d, pin, FALSE)

\* Mutant: the record under revision may be among what its sources rest on.
ValidSourcesLoosely(d, sources, revised) ==
    /\ sources # {}
    /\ \A p \in sources : p[1][1] # "Type" /\ Current(d, p)

\* Sources of a new revision are current, and none rests on the record
\* that is revised.
ValidSources(d, sources, revised) ==
    /\ sources # {}
    /\ \A p \in sources : p[1][1] # "Type" /\ Current(d, p)
    /\ \A p \in Rests(d, sources) : p[1] # revised

\* Originals may copy what is only readable as history.
ValidHistorySources(d, sources) == \A p \in sources : Readable(d, p)
-----------------------------------------------------------------------------
(* Operations.  A call whose identifier is in the table returns its        *)
(* receipt, or IdempotencyConflict for another input: nothing changes.     *)

\* Mutant: the table is not consulted.
NotStoredEver(op) == op \in Ops

NotStored(op) == op \notin DOMAIN operations

Offered == {op \in Ops : op <= Cardinality(DOMAIN operations) + 1}

Locked == upload # None
Begin(op) == ~Locked /\ op \in Offered /\ NotStored(op)

\* The batch and the operation row become durable at once, whether or not
\* the caller hears of it.
CommitOperation(op, pin, d) ==
    /\ db' = d
    /\ operations' = WithRow(operations, op, pin)
    /\ applied' = [applied EXCEPT ![op] = @ + 1]

\* A call that finds its work done only records the earlier receipt.
CommitReceipt(op, pin) ==
    /\ operations' = WithRow(operations, op, pin)
    /\ UNCHANGED <<db, applied>>

\* The next revision of a record whose head the caller expects.
NextPin(d, record) == PinOf(record, d.heads[record] + 1)

\* Mutant: a purged record may be changed again.
RevisableAlways(d, record) == Exists(d, record) /\ d.heads[record] < MaxRevision

Revisable(d, record) ==
    /\ Exists(d, record) /\ HeadOf(d, record).state # "Purged"
    /\ d.heads[record] < MaxRevision
-----------------------------------------------------------------------------
(* Retraction and purge. *)

InvalidateMessage(d, history) ==
    IF HasMessage(history)
    THEN [d EXCEPT !.messages[MessageKey(history)].unavailable = TRUE] ELSE d

\* Search and relation rows follow the new head.
ReplacePostings(d, pin, indexed) ==
    [d EXCEPT !.postings =
        [r \in (DOMAIN @ \ {pin[1]}) \cup (IF indexed THEN {pin[1]} ELSE {}) |->
           IF r = pin[1] THEN pin ELSE @[r]]]

\* Mutant: the old rows are removed after the new ones are added.
ReplaceAdjacencySwapped(d, previous, pin, header) ==
    LET removed == previous \X {pin[1]}
        added == (IF header.state = "Active" THEN header.ends ELSE {}) \X {pin[1]}
    IN [d EXCEPT !.adjacency =
          [row \in (DOMAIN @ \cup added) \ removed |-> IF row \in added THEN pin ELSE @[row]]]

ReplaceAdjacency(d, previous, pin, header) ==
    LET removed == previous \X {pin[1]}
        added == (IF header.state = "Active" THEN header.ends ELSE {}) \X {pin[1]}
    IN [d EXCEPT !.adjacency =
          [row \in (DOMAIN @ \ removed) \cup added |-> IF row \in added THEN pin ELSE @[row]]]

\* Mutant: no cleanup row is left for recovery.
StagePurgeLater(d, pin) == d

StagePurge(d, pin) ==
    [d EXCEPT !.pending = WithRow(@, pin[1], [pin |-> pin, purge |-> TRUE])]

\* The rows of the batch: epochs, message, header, indexes, cleanup entry.
StateBatch(d, record, state) ==
    LET previous == HeadOf(d, record)
        pin == NextPin(d, record)
        header == [previous EXCEPT !.state = state]
        dated == IF state = "Purged" \/ header.history # None
                 THEN InvalidateCheckpoints(AdvanceEpoch(d)) ELSE AdvanceEpoch(d)
        told == IF header.history # None THEN InvalidateMessage(dated, header.history)
                ELSE dated
        indexed == ReplaceAdjacency(ReplacePostings(PutHeader(told, pin, header), pin, FALSE),
                                    previous.ends, pin, header)
    IN IF state = "Purged" THEN StagePurge(indexed, pin) ELSE indexed

ChangeState(op, record, state) ==
    /\ Begin(op)
    /\ record[1] # "Type" /\ Revisable(db, record)
    /\ CommitOperation(op, NextPin(db, record), StateBatch(db, record, state))
    /\ UNCHANGED <<upload, faults>>

Retract(op, record) == ChangeState(op, record, "Retracted")
Purge(op, record) == ChangeState(op, record, "Purged")
-----------------------------------------------------------------------------
InitKernel ==
    /\ operations = [op \in {} |-> {}]
    /\ applied = [op \in Ops |-> 0]
    /\ upload = None
    /\ faults = 0
=============================================================================
