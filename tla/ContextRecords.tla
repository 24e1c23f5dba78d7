--------------------------- MODULE ContextRecords ---------------------------
(***************************************************************************)
(* What an application derives from history in the context store: types,   *)
(* objects and relations (catalog.rs, records.rs), the search over them    *)
(* (search.rs), references to entities (entity.rs) and extraction          *)
(* transactions (extraction.rs).                                           *)
(*                                                                         *)
(* Properties and definitions are content and left out: what a revision    *)
(* is decided by is its type, its sources and its endpoints.               *)
(***************************************************************************)
EXTENDS ContextHistory

CONSTANTS
    MaxEntities,     \* references 1..MaxEntities to entities of one type
    MaxExtractions,  \* extraction identifiers 1..MaxExtractions
    MaxBatch         \* operations of one extraction

TypeNames == {"note", "link", "tag"}
Category(kind) == IF kind = "Relation" THEN "link" ELSE "note"
TypePins(d, name) ==
    IF name \in DOMAIN d.names
    THEN {p \in DOMAIN d.headers : p[1] = d.names[name]} ELSE {}

\* The sources a caller may cite.
CurrentPins(d) == {p \in DOMAIN d.headers : p[1][1] # "Type" /\ Current(d, p)}
Citations(d) == {s \in SUBSET CurrentPins(d) : Cardinality(s) \in 1..MaxCited}
-----------------------------------------------------------------------------
(* Types. *)

TypeBatch(d, pin, name) ==
    [PutHeader(PutPayload(d, pin, 1), pin, Header(d, {}, 1, pin[2])) EXCEPT
       !.names = WithRow(@, name, pin[1])]

DefineType(op, name) ==
    /\ Begin(op) /\ name \notin DOMAIN db.names /\ HasRoom(db, "Type")
    /\ LET pin == FreshPin(db, "Type") IN CommitOperation(op, pin, TypeBatch(db, pin, name))
    /\ UNCHANGED <<upload, faults>>

\* The same definition again.
DefineTypeAgain(op, name) ==
    /\ Begin(op) /\ name \in DOMAIN db.names
    /\ CommitReceipt(op, HeadPin(db, db.names[name]))
    /\ UNCHANGED <<upload, faults>>

\* Type revisions leave the epoch alone: checkpoints do not rest on types.
ReviseType(op, name) ==
    /\ Begin(op) /\ name \in DOMAIN db.names /\ Revisable(db, db.names[name])
    /\ LET pin == NextPin(db, db.names[name])
       IN CommitOperation(op, pin, TypeBatch(db, pin, name))
    /\ UNCHANGED <<upload, faults>>
-----------------------------------------------------------------------------
(* Objects and relations. *)

ValidEndpoint(d, record) ==
    record[1] # "Type" /\ Exists(d, record) /\ Current(d, HeadPin(d, record))

\* Payload, header and index rows of one revision.
RecordBatch(d, pin, header, previousEnds) ==
    LET stored == PutHeader(PutPayload(d, pin, 1), pin, header)
    IN ReplaceAdjacency(ReplacePostings(stored, pin, TRUE), previousEnds, pin, header)

DataHeader(d, pin, type, sources, ends) ==
    [Header(d, sources, 1, pin[2]) EXCEPT !.type = type, !.ends = ends]

ValidData(d, kind, sources, ends, revised) ==
    /\ ValidSources(d, sources, revised)
    /\ IF kind = "Relation" THEN ends # {} ELSE ends = {}
    /\ \A e \in ends : ValidEndpoint(d, e)

SaveData(op, kind, type, sources, ends) ==
    /\ Begin(op) /\ HasRoom(db, kind)
    /\ type \in TypePins(db, Category(kind))
    /\ ValidData(db, kind, sources, ends, None)
    /\ LET pin == FreshPin(db, kind)
       IN CommitOperation(op, pin, RecordBatch(db, pin, DataHeader(db, pin, type, sources, ends), {}))
    /\ UNCHANGED <<upload, faults>>

\* A revision dates every checkpoint made before it.
ReviseData(op, record, type, sources, ends) ==
    /\ Begin(op) /\ Revisable(db, record)
    /\ HeadOf(db, record).type[1] = type[1]
    /\ ValidData(db, record[1], sources, ends, record)
    /\ LET pin == NextPin(db, record)
       IN CommitOperation(op, pin,
             RecordBatch(AdvanceEpoch(db), pin, DataHeader(db, pin, type, sources, ends),
                         HeadOf(db, record).ends))
    /\ UNCHANGED <<upload, faults>>
-----------------------------------------------------------------------------
(* References to entities.  resolve_or_create_entity returns a known       *)
(* reference whatever its operation; a type it lacks is defined first, in  *)
(* a commit of its own (DefineType).                                       *)

\* Callers name a known reference or a fresh one.
OfferedEntities == {e \in 1..MaxEntities : e <= Cardinality(DOMAIN db.entities) + 1}

\* Aliases and merges answer with a pin that is never written.
Unwritten == PinOf(<<"Object", 0>>, 1)

ResolveEntity(op, entity) ==
    /\ Begin(op) /\ entity \notin DOMAIN db.entities
    /\ "note" \in DOMAIN db.names /\ HasRoom(db, "Object")
    /\ LET pin == FreshPin(db, "Object")
           header == DataHeader(db, pin, HeadPin(db, db.names["note"]), {}, {})
       IN CommitOperation(op, pin,
             [RecordBatch(db, pin, header, {}) EXCEPT
                !.entities = WithRow(@, entity, [node |-> pin[1], alias |-> None])])
    /\ UNCHANGED <<upload, faults>>

\* Aliases and merges do not look their operation up, and overwrite its row.
Unchecked(op) == ~Locked /\ op \in Offered

AddEntityAlias(op, primary, alias) ==
    /\ Unchecked(op)
    /\ primary \in DOMAIN db.entities /\ alias \notin DOMAIN db.entities
    /\ LET node == db.entities[primary].node
       IN CommitOperation(op, Unwritten,
             [db EXCEPT !.entities = WithRow(@, alias, [node |-> node, alias |-> node])])
    /\ UNCHANGED <<upload, faults>>

\* Mutant: aliases of the merged entity stay behind.
MergedRowAlone(row, source, target) ==
    IF row.node = source /\ row.alias = None
    THEN [node |-> target, alias |-> target] ELSE row

\* Every reference to the merged node, aliases included, names the target.
MergedRow(row, source, target) ==
    IF row.node = source \/ row.alias = source
    THEN [node |-> target, alias |-> target] ELSE row

MergeEntities(op, source, target) ==
    /\ Unchecked(op)
    /\ source \in DOMAIN db.entities /\ target \in DOMAIN db.entities
    /\ LET from == db.entities[source].node  to == db.entities[target].node
       IN /\ from # to /\ db.entities[source].alias # to
          /\ CommitOperation(op, Unwritten,
                [db EXCEPT !.entities =
                   [e \in DOMAIN @ |-> MergedRow(@[e], from, to)]])
    /\ UNCHANGED <<upload, faults>>
-----------------------------------------------------------------------------
(* Extraction transactions: several writes in one batch, memoised by an    *)
(* identifier of their own.  Every write is validated against the store    *)
(* as it was before the batch, without an advance of the epoch.            *)

Item(kind, record, ends) == [kind |-> kind, record |-> record, ends |-> ends]

Endpoints(d) == {r \in DOMAIN d.heads : r[1] = "Object"}
EndChoices(d) == {e \in SUBSET Endpoints(d) : Cardinality(e) \in 1..2}

\* Revising an object drops endpoints, revising a relation keeps them; the
\* kind of the record is not looked at.
Items(d) ==
    LET revisable == {r \in DOMAIN d.heads : r[1] \in {"Object", "Relation"} /\ Revisable(d, r)}
    IN {Item("Object", None, {})}
       \cup {Item("Relation", None, e) : e \in EndChoices(d)}
       \cup {Item(r[1], r, {}) : r \in revisable}
       \cup {Item(r[1], r, HeadOf(d, r).ends) : r \in revisable}

ItemType(d, item) ==
    IF item.record = None THEN HeadPin(d, d.names[Category(item.kind)])
    ELSE HeadOf(d, item.record).type

ValidItem(d, item, sources) ==
    /\ Category(item.kind) \in DOMAIN d.names
    /\ sources # {} => ValidSources(d, sources, item.record)

WriteItem(before, d, item, sources) ==
    LET pin == IF item.record = None THEN FreshPin(d, item.kind) ELSE NextPin(before, item.record)
        header == [DataHeader(before, pin, ItemType(before, item), sources, item.ends) EXCEPT
                     !.extracted = TRUE]
    IN [batch |-> RecordBatch(d, pin, header, {}), pin |-> pin]

Creations(items, kind) ==
    {i \in DOMAIN items : items[i].record = None /\ items[i].kind = kind}

ExtractionBatch(d, items, sources) ==
    LET Written[n \in 0..Len(items)] ==
          IF n = 0 THEN [batch |-> d, pins |-> {}]
          ELSE LET so == Written[n - 1]
                   one == WriteItem(d, so.batch, items[n], sources)
               IN [batch |-> one.batch, pins |-> so.pins \cup {one.pin}]
    IN Written[Len(items)]

NotExtracted(id) == id \notin DOMAIN db.receipts

Work == Cardinality(DOMAIN operations) + Cardinality(DOMAIN db.receipts)

\* A marker is committed first; a crash or a refused write leaves it.
ExtractionFails(id) ==
    /\ ~Locked /\ NotExtracted(id) /\ faults < MaxFaults
    /\ db' = [db EXCEPT !.started = @ \cup {id}]
    /\ faults' = faults + 1
    /\ UNCHANGED <<operations, applied, upload>>

\* Marker and batch, both under the lock: nobody sees the marker alone.
ExtractionTransaction(id, items, sources) ==
    /\ ~Locked /\ NotExtracted(id)
    /\ \A kind \in {"Object", "Relation"} :
          Cardinality(Creations(items, kind)) <= Cardinality(FreshIds(db, kind))
    /\ \A i \in DOMAIN items : ValidItem(db, items[i], sources)
    /\ LET written == ExtractionBatch(db, items, sources)
       IN db' = [written.batch EXCEPT !.receipts = WithRow(@, id, written.pins),
                                      !.started = @ \ {id}]
    /\ UNCHANGED <<operations, applied, upload, faults>>

\* A later call finds the receipt and clears the marker.
ExtractionReplayed(id) ==
    /\ ~Locked /\ id \in DOMAIN db.receipts
    /\ db' = [db EXCEPT !.started = @ \ {id}]
    /\ UNCHANGED <<operations, applied, upload, faults>>
-----------------------------------------------------------------------------
(* Search. *)

\* A record search may return: current, and between current endpoints.
CurrentCandidate(d, pin) ==
    /\ Current(d, pin)
    /\ \A e \in d.headers[pin].ends : Exists(d, e) /\ Current(d, HeadPin(d, e))

\* What recall finds by text, and the relations it follows from a record.
FoundByText(d) == {d.postings[r] : r \in {x \in DOMAIN d.postings : CurrentCandidate(d, d.postings[x])}}
Relations(d, record) ==
    {d.adjacency[row] : row \in {x \in DOMAIN d.adjacency :
                                   x[1] = record /\ CurrentCandidate(d, d.adjacency[x])}}
-----------------------------------------------------------------------------
TypeStep(op) ==
    \E name \in TypeNames :
       DefineType(op, name) \/ DefineTypeAgain(op, name) \/ ReviseType(op, name)

ObjectStep(op) ==
    \E sources \in Citations(db), type \in TypePins(db, "note") :
       \/ SaveData(op, "Object", type, sources, {})
       \/ \E record \in Endpoints(db) : ReviseData(op, record, type, sources, {})

RelationStep(op) ==
    \E sources \in Citations(db), type \in TypePins(db, "link"), ends \in EndChoices(db) :
       \/ SaveData(op, "Relation", type, sources, ends)
       \/ \E record \in {r \in DOMAIN db.heads : r[1] = "Relation"} :
             ReviseData(op, record, type, sources, ends)

EntityStep(op) ==
    \/ \E entity \in OfferedEntities : ResolveEntity(op, entity)
    \/ \E primary, other \in OfferedEntities :
          AddEntityAlias(op, primary, other) \/ MergeEntities(op, primary, other)

\* Callers revise a record once in a transaction: the code checks each
\* revision against the store before the batch, and the last one would win.
RevisesOnce(items) ==
    \A i, j \in DOMAIN items :
       (items[i].record # None /\ items[i].record = items[j].record) => i = j

ExtractionStep ==
    \E id \in 1..MaxExtractions :
       \/ ExtractionFails(id) \/ ExtractionReplayed(id)
       \/ \E length \in 1..MaxBatch : \E items \in {x \in [1..length -> Items(db)] : RevisesOnce(x)} :
             \E sources \in {s \in Citations(db) : \A p \in s : p[1][1] = "History"} \cup {{}} :
                ExtractionTransaction(id, items, sources)
-----------------------------------------------------------------------------
(* Properties. *)

DataRecords == {r \in DOMAIN db.heads : r[1] \in {"Object", "Relation"}}

\* replace_postings, replace_adjacency, current_candidate: search misses no
\* current record and no relation of a record, and returns no other.
SearchExact ==
    /\ FoundByText(db) =
          {p \in {HeadPin(db, r) : r \in DataRecords} : CurrentCandidate(db, p)}
    /\ \A e \in Endpoints(db) :
          Relations(db, e) = {p \in {HeadPin(db, r) : r \in DataRecords} :
                                /\ e \in db.headers[p].ends
                                /\ CurrentCandidate(db, p)}

\* extraction_transaction: all of a transaction is stored or nothing, once:
\* every extracted revision belongs to one receipt, and every receipt's
\* revisions are there.
ExtractionsExact ==
    /\ \A id \in DOMAIN db.receipts : db.receipts[id] \subseteq DOMAIN db.headers
    /\ \A p \in DOMAIN db.headers :
          (db.headers[p].extracted /\ db.headers[p].state = "Active") =>
             Cardinality({id \in DOMAIN db.receipts : p \in db.receipts[id]}) = 1

\* resolve_or_create_entity, merge_entities: two references that name the
\* same entity name the same one for ever, and every reference names a node.
SameEntityStays ==
    [][/\ \A e, f \in DOMAIN db.entities :
            db.entities[e].node = db.entities[f].node =>
               db'.entities[e].node = db'.entities[f].node
       /\ \A e \in DOMAIN db'.entities : db'.entities[e].node \in DOMAIN db'.heads]_vars
=============================================================================
