---------------------------- MODULE ContextProofs ----------------------------
(***************************************************************************)
(* Proofs about the context store, for any number of records, revisions,   *)
(* sessions, operations and faults.  First its history alone               *)
(* (ContextHistory): no chunk is lost or left behind, what became          *)
(* unreadable stays so, operation identifiers are at most once, and the    *)
(* history of a session reads like one.  Then everything an application    *)
(* does with it (ContextSessions): search is exact, checkpoints are sound, *)
(* what is written is current, references stay together, and retries have  *)
(* no second effect.                                                       *)
(*                                                                         *)
(* The invariants are about the store as a value (parameter d), so that a  *)
(* batch is proved once, before it is known which action commits it.       *)
(* Sound is what holds of the history's store between any two batches: the *)
(* revisions of a record are 1..head, a cleanup row names an upload that   *)
(* is no record or a purged record, a record that is not purged has its    *)
(* chunks, and a message that a revision belongs to is in the message      *)
(* table.  Written adds what the tables say of the history: an event is    *)
(* where its entry says, calls and results where their rows say, and the   *)
(* message table counts the parts of each message.                         *)
(*                                                                         *)
(* StoreOK is what holds of the whole store: every index agrees with the   *)
(* heads it indexes, every checkpoint lists what was current at its epoch, *)
(* and every receipt names what it wrote.  Wrote says that a batch added   *)
(* one revision and did with the indexes and epochs what that revision     *)
(* requires; Fits, what every step of the store shows.  Every batch but    *)
(* an extraction's is one Wrote, and an extraction is a row of them.       *)
(***************************************************************************)
EXTENDS ContextSessions, FiniteSetTheorems, SequenceTheorems, TLAPS

Rows == {"headers", "heads", "payloads", "pending", "order", "events", "calls", "results",
         "messages", "epoch", "marker", "postings", "adjacency", "names", "latest",
         "entities", "receipts", "started"}
HeaderRows == {"state", "sources", "rests", "payload", "type", "ends", "history",
               "checkpoint", "status", "extracted"}

Appends == [session : Sessions, event : 1..MaxEvents, kind : HistoryKinds, sources : SUBSET Pins]
Uploads == [op : Ops, input : Appends, size : Sizes, pin : Pins, written : Nat]
Pending == [pin : Pins, purge : BOOLEAN]
Message == [next : Nat, terminal : BOOLEAN, unavailable : BOOLEAN]

\* The revisions of a record, first to head.
Heads(d) ==
    /\ DOMAIN d.heads \subseteq Records
    /\ \A r \in DOMAIN d.heads : d.heads[r] \in 1..MaxRevision
    /\ DOMAIN d.headers = {p \in Pins : p[1] \in DOMAIN d.heads /\ p[2] <= d.heads[p[1]]}

\* What a revision keeps.
Revision(d, p) ==
    /\ DOMAIN d.headers[p] = HeaderRows
    /\ d.headers[p].state \in RecordState
    /\ d.headers[p].sources \subseteq DOMAIN d.headers
    /\ d.headers[p].rests \subseteq DOMAIN d.headers
    /\ d.headers[p].payload \in [revision : {1}, chunks : Sizes]
    /\ d.headers[p].history \in Entries
    /\ d.headers[p].checkpoint = None
Headers(d) == \A p \in DOMAIN d.headers : Revision(d, p)

\* Cleanup rows: an upload that is no record, or a purged record.
Cleanup(d) ==
    \A r \in DOMAIN d.pending :
       /\ r \in Records /\ d.pending[r] \in Pending
       /\ d.pending[r].purge => r \in DOMAIN d.heads /\ HeadOf(d, r).state = "Purged"
       /\ ~d.pending[r].purge => r \notin DOMAIN d.heads /\ d.pending[r].pin = PinOf(r, 1)

\* Chunks belong to first revisions, and none that may be read is missing.
Chunks(d) ==
    /\ d.payloads \subseteq Pins \X (1..MaxChunks)
    /\ \A c \in d.payloads :
          /\ c[1][2] = 1
          /\ c[1] \in DOMAIN d.headers \/ c[1][1] \in DOMAIN d.pending
    /\ \A p \in DOMAIN d.headers :
          HeadOf(d, p[1]).state # "Purged" =>
             \A i \in 1..d.headers[p].payload.chunks : <<PinOf(p[1], 1), i>> \in d.payloads

Told(d) ==
    /\ \A k \in DOMAIN d.messages : d.messages[k] \in Message
    /\ \A p \in DOMAIN d.headers :
          HasMessage(d.headers[p].history) => MessageKey(d.headers[p].history) \in DOMAIN d.messages

Listed(d) ==
    /\ d.order \in [Sessions -> Seq(Records)]
    /\ \A k \in DOMAIN d.events : d.events[k].pin \in Pins

Dated(d) == d.epoch \in Nat /\ RedactionEpoch(d) \in 0..d.epoch

Sound(d) ==
    /\ DOMAIN d = Rows
    /\ Heads(d) /\ Headers(d) /\ Cleanup(d) /\ Chunks(d) /\ Told(d) /\ Listed(d) /\ Dated(d)

\* What an append found to hold before its first batch.
Admitted(d, input) ==
    /\ EventKey(input) \notin DOMAIN d.events
    /\ CallLinked(d, input)
    /\ ValidHistorySources(d, input.sources)
    /\ Streams(input) => MessageFollows(d, input)

\* The upload that holds the lock.
Uploading ==
    Locked =>
       /\ upload \in Uploads
       /\ upload.op \notin DOMAIN operations
       /\ upload.written <= upload.size
       /\ upload.pin = PinOf(upload.pin[1], 1)
       /\ upload.pin[1] \in DOMAIN db.pending
       /\ ~db.pending[upload.pin[1]].purge
       /\ \A i \in 1..upload.written : <<upload.pin, i>> \in db.payloads
       /\ Admitted(db, upload.input)

\* An operation that is not in the table did nothing.
Receipts ==
    /\ DOMAIN operations \subseteq Ops
    /\ operations \in [DOMAIN operations -> Pins]
    /\ applied \in [Ops -> Nat]
    /\ \A op \in Ops : op \notin DOMAIN operations => applied[op] = 0

IInv == Sound(db) /\ Uploading /\ Receipts /\ faults \in 0..MaxFaults

USE ContextAssumption, HistoryAssumption

-----------------------------------------------------------------------------
(* Identifiers and rows. *)

LEMMA MaxChunksBound == MaxChunks \in Nat /\ \A n \in Sizes : n <= MaxChunks
  BY DEF MaxChunks

LEMMA RecordShape ==
    ASSUME NEW r \in Records
    PROVE  r = <<r[1], r[2]>> /\ r[1] \in KindSet /\ r[2] \in Nat
  BY DEF Records

LEMMA PinShape ==
    ASSUME NEW p \in Pins
    PROVE  /\ p = PinOf(p[1], p[2]) /\ p[1] \in Records
           /\ p[2] \in Nat /\ 1 <= p[2] /\ p[2] <= MaxRevision
  BY DEF Pins, PinOf

LEMMA PinIn ==
    ASSUME NEW r \in Records, NEW n \in 1..MaxRevision
    PROVE  PinOf(r, n) \in Pins /\ PinOf(r, n)[1] = r /\ PinOf(r, n)[2] = n
  BY DEF Pins, PinOf

LEMMA LeastNatural ==
    ASSUME NEW S, S \subseteq Nat, S # {}
    PROVE  \E n \in S : \A m \in S : n <= m
<1>1. PICK n \in S : \A m \in S : <<m, n>> \notin OpToRel(<, Nat)
  BY NatLessThanWellFounded, WFMin
<1>2. \A m \in S : ~(m < n)
  BY <1>1 DEF OpToRel
<1>. QED
  BY <1>2

LEMMA FreshPinTyped ==
    ASSUME NEW d, NEW kind, HasRoom(d, kind)
    PROVE  LET pin == FreshPin(d, kind)
           IN /\ pin \in Pins /\ pin = PinOf(pin[1], 1)
              /\ pin[1] \in Records /\ pin[1][1] = kind /\ pin[1] \notin Used(d)
<1> DEFINE ids == FreshIds(d, kind)
           numbers == {r[2] : r \in ids}
<1>1. ids \subseteq Records /\ ids # {} /\ \A r \in ids : r \notin Used(d) /\ r[1] = kind
  BY DEF FreshIds, HasRoom
<1>2. numbers \subseteq Nat /\ numbers # {}
  BY <1>1, RecordShape
<1>3. PICK n \in numbers : \A m \in numbers : n <= m
  <2> HIDE DEF numbers
  <2>. QED
    BY <1>2, LeastNatural
<1>4. \E r \in ids : \A s \in ids : r[2] <= s[2]
  BY <1>3
<1> DEFINE r == CHOOSE r \in ids : \A s \in ids : r[2] <= s[2]
<1>5. r \in ids
  BY <1>4
<1>6. r \in Records /\ r \notin Used(d) /\ r[1] = kind
  BY <1>1, <1>5
<1>7. FreshPin(d, kind) = PinOf(r, 1)
  BY DEF FreshPin
<1> HIDE DEF r
<1>8. PinOf(r, 1) \in Pins /\ PinOf(r, 1)[1] = r
  BY <1>6, PinIn
<1>. QED
  BY <1>6, <1>7, <1>8

\* A step of the store leaves these partitions alone.
Keeps(d, e, rows) == \A row \in rows : e[row] = d[row]

\* Rows and partitions that the batches build.
Restated(header, state) == [header EXCEPT !.state = state]
PurgeRow(pin) == [pin |-> pin, purge |-> TRUE]
Marker(availability, redaction) == [availability |-> availability, redaction |-> redaction]
Hidden(messages, key) == [messages EXCEPT ![key].unavailable = TRUE]
Entry(session, event, sequence, kind) ==
    [session |-> session, event |-> event, sequence |-> sequence, kind |-> kind]
EventRow(input, size, pin) == [input |-> input, size |-> size, pin |-> pin]
PayloadRow(size) == [revision |-> 1, chunks |-> size]
Cleared(pending, record) == [r \in DOMAIN pending \ {record} |-> pending[r]]
Appended(order, session, record) == [order EXCEPT ![session] = Append(@, record)]

\* The batch of a change of state, partition by partition.
LEMMA StateRows ==
    ASSUME NEW d, DOMAIN d = Rows, NEW r, NEW state,
           NEW e, e = StateBatch(d, r, state),
           NEW pin, pin = NextPin(d, r),
           NEW header, header = Restated(HeadOf(d, r), state)
    PROVE  /\ DOMAIN e = Rows
           /\ e.headers = WithRow(d.headers, pin, header)
           /\ e.heads = WithRow(d.heads, pin[1], pin[2])
           /\ e.pending = IF state = "Purged"
                          THEN WithRow(d.pending, pin[1], PurgeRow(pin))
                          ELSE d.pending
           /\ e.messages =
                IF header.history # None /\ HasMessage(header.history)
                THEN Hidden(d.messages, MessageKey(header.history))
                ELSE d.messages
           /\ e.epoch = d.epoch + 1
           /\ e.marker \in {Marker(d.epoch + 1, RedactionEpoch(d)),
                            Marker(d.epoch + 1, d.epoch + 1)}
           /\ e.payloads = d.payloads /\ e.order = d.order /\ e.events = d.events
           /\ e.calls = d.calls /\ e.results = d.results
<1> DEFINE advanced == AdvanceEpoch(d)
           dated == IF state = "Purged" \/ header.history # None
                    THEN InvalidateCheckpoints(advanced) ELSE advanced
           told == IF header.history # None THEN InvalidateMessage(dated, header.history)
                   ELSE dated
           put == PutHeader(told, pin, header)
           posted == ReplacePostings(put, pin, FALSE)
           indexed == ReplaceAdjacency(posted, HeadOf(d, r).ends, pin, header)
           staged == IF state = "Purged" THEN StagePurge(indexed, pin) ELSE indexed
<1>1. /\ DOMAIN advanced = Rows
      /\ Keeps(d, advanced, Rows \ {"epoch", "marker"})
      /\ advanced.epoch = d.epoch + 1
      /\ advanced.marker = Marker(d.epoch + 1, RedactionEpoch(d))
  BY DEF AdvanceEpoch, Rows, Keeps, Marker
<1>2. /\ DOMAIN dated = Rows
      /\ Keeps(d, dated, Rows \ {"epoch", "marker"})
      /\ dated.epoch = d.epoch + 1
      /\ dated.marker \in {Marker(d.epoch + 1, RedactionEpoch(d)),
                           Marker(d.epoch + 1, d.epoch + 1)}
  <2> HIDE DEF advanced
  <2>. QED
    BY <1>1 DEF InvalidateCheckpoints, Rows, Keeps, Marker
<1>3. /\ DOMAIN told = Rows
      /\ Keeps(d, told, Rows \ {"epoch", "marker", "messages"})
      /\ told.epoch = dated.epoch /\ told.marker = dated.marker
      /\ told.messages =
            IF header.history # None /\ HasMessage(header.history)
            THEN Hidden(d.messages, MessageKey(header.history))
            ELSE d.messages
  <2> DEFINE key == MessageKey(header.history)
             hidden == Hidden(d.messages, key)
  <2> HIDE DEF dated, key
  <2>1. dated.messages = d.messages
    BY <1>2 DEF Rows, Keeps
  <2>2. InvalidateMessage(dated, header.history) =
           IF HasMessage(header.history) THEN [dated EXCEPT !.messages = hidden] ELSE dated
    BY <2>1 DEF InvalidateMessage, key, Hidden
  <2> HIDE DEF hidden
  <2>3. told = IF header.history # None /\ HasMessage(header.history)
               THEN [dated EXCEPT !.messages = hidden] ELSE dated
    BY <2>2
  <2> HIDE DEF told
  <2>4. /\ DOMAIN told = Rows
        /\ Keeps(d, told, Rows \ {"epoch", "marker", "messages"})
        /\ told.epoch = dated.epoch /\ told.marker = dated.marker
        /\ told.messages = IF header.history # None /\ HasMessage(header.history)
                           THEN hidden ELSE d.messages
    BY <1>2, <2>1, <2>3 DEF Rows, Keeps
  <2>. QED
    BY <2>4 DEF hidden, key
<1>4. /\ DOMAIN put = Rows
      /\ put.headers = WithRow(d.headers, pin, header)
      /\ put.heads = WithRow(d.heads, pin[1], pin[2])
      /\ Keeps(told, put, Rows \ {"headers", "heads"})
  <2> HIDE DEF told
  <2>1. told.headers = d.headers /\ told.heads = d.heads
    BY <1>3 DEF Keeps, Rows
  <2>2. DOMAIN told = Rows
    BY <1>3
  <2>. QED
    BY <2>1, <2>2 DEF PutHeader, Rows, Keeps
<1>5. DOMAIN posted = Rows /\ Keeps(put, posted, Rows \ {"postings"})
  <2> HIDE DEF put
  <2>. QED
    BY <1>4 DEF ReplacePostings, Rows, Keeps
<1>6. DOMAIN indexed = Rows /\ Keeps(posted, indexed, Rows \ {"adjacency"})
  <2> HIDE DEF posted
  <2>. QED
    BY <1>5 DEF ReplaceAdjacency, Rows, Keeps
<1>7. /\ DOMAIN staged = Rows
      /\ Keeps(indexed, staged, Rows \ {"pending"})
      /\ staged.pending = IF state = "Purged"
                          THEN WithRow(indexed.pending, pin[1], PurgeRow(pin))
                          ELSE indexed.pending
  <2> HIDE DEF indexed
  <2>. QED
    BY <1>6 DEF StagePurge, Rows, Keeps, PurgeRow
<1>8. e = staged
  BY DEF StateBatch, Restated
<1> HIDE DEF advanced, dated, told, put, posted, indexed, staged
<1>9. Keeps(told, staged, {"payloads", "order", "events", "calls", "results", "messages",
                           "epoch", "marker"})
  BY <1>4, <1>5, <1>6, <1>7 DEF Keeps, Rows
<1>10. Keeps(put, staged, {"headers", "heads"}) /\ Keeps(told, indexed, {"pending"})
  BY <1>4, <1>5, <1>6, <1>7 DEF Keeps, Rows
<1>11. staged.headers = put.headers /\ staged.heads = put.heads
       /\ indexed.pending = told.pending /\ told.pending = d.pending
  BY <1>3, <1>10 DEF Keeps, Rows
<1>12. /\ staged.payloads = d.payloads /\ staged.order = d.order /\ staged.events = d.events
       /\ staged.calls = d.calls /\ staged.results = d.results
  BY <1>3, <1>9 DEF Keeps, Rows
<1>13. /\ staged.messages = told.messages /\ staged.epoch = told.epoch
       /\ staged.marker = told.marker
  BY <1>9 DEF Keeps
<1>14. /\ staged.headers = WithRow(d.headers, pin, header)
       /\ staged.heads = WithRow(d.heads, pin[1], pin[2])
  BY <1>4, <1>11
<1>15. staged.pending = IF state = "Purged"
                        THEN WithRow(d.pending, pin[1], PurgeRow(pin))
                        ELSE d.pending
  BY <1>7, <1>11
<1>16. staged.messages =
            IF header.history # None /\ HasMessage(header.history)
            THEN Hidden(d.messages, MessageKey(header.history))
            ELSE d.messages
  BY <1>3, <1>13
<1>17. /\ staged.epoch = d.epoch + 1
       /\ staged.marker \in {Marker(d.epoch + 1, RedactionEpoch(d)),
                             Marker(d.epoch + 1, d.epoch + 1)}
  BY <1>2, <1>3, <1>13, Zenon
<1>. QED
  BY <1>7, <1>8, <1>12, <1>14, <1>15, <1>16, <1>17, Zenon

\* The header of an event.
EventHeader(d, input, size) ==
    [Header(d, CallSources(d, input) \cup input.sources, size, 1) EXCEPT
       !.history = [session |-> input.session, event |-> input.event,
                    sequence |-> Sequence(d, input.session) + 1, kind |-> input.kind]]

\* The batch that makes an event visible, partition by partition.
LEMMA HistoryRows ==
    ASSUME NEW d, DOMAIN d = Rows, NEW input, NEW size, NEW pin,
           NEW e, e = HistoryBatch(d, input, size, pin),
           NEW header, header = EventHeader(d, input, size)
    PROVE  /\ DOMAIN e = Rows
           /\ e.headers = WithRow(d.headers, pin, header)
           /\ e.heads = WithRow(d.heads, pin[1], pin[2])
           /\ e.pending = Cleared(d.pending, pin[1])
           /\ e.order = Appended(d.order, input.session, pin[1])
           /\ e.events = WithRow(d.events, EventKey(input), EventRow(input, size, pin))
           /\ e.calls = IF input.kind.tag = "ToolCall"
                        THEN WithRow(d.calls, CallKey(input), pin[1]) ELSE d.calls
           /\ e.results = IF input.kind.tag = "ToolResult"
                          THEN WithRow(d.results, CallKey(input), pin[1]) ELSE d.results
           /\ e.messages = IF Streams(input)
                           THEN WithRow(d.messages, MessageKey(input), MessageTransition(d, input))
                           ELSE d.messages
           /\ e.payloads = d.payloads /\ e.epoch = d.epoch /\ e.marker = d.marker
<1> DEFINE put == PutHeader(d, pin, header)
           cleared == WithoutPending(put, pin[1])
<1>1. /\ DOMAIN put = Rows
      /\ put.headers = WithRow(d.headers, pin, header)
      /\ put.heads = WithRow(d.heads, pin[1], pin[2])
      /\ Keeps(d, put, Rows \ {"headers", "heads"})
  BY DEF PutHeader, Rows, Keeps
<1>2. /\ DOMAIN cleared = Rows
      /\ cleared.pending = Cleared(put.pending, pin[1])
      /\ Keeps(put, cleared, Rows \ {"pending"})
  <2> HIDE DEF put
  <2>. QED
    BY <1>1 DEF WithoutPending, Rows, Keeps, Cleared
<1> DEFINE order == Appended(cleared.order, input.session, pin[1])
           events == WithRow(cleared.events, EventKey(input), EventRow(input, size, pin))
           calls == IF input.kind.tag = "ToolCall"
                    THEN WithRow(cleared.calls, CallKey(input), pin[1]) ELSE cleared.calls
           results == IF input.kind.tag = "ToolResult"
                      THEN WithRow(cleared.results, CallKey(input), pin[1]) ELSE cleared.results
           messages == IF Streams(input)
                       THEN WithRow(cleared.messages, MessageKey(input), MessageTransition(d, input))
                       ELSE cleared.messages
<1>3. e = [cleared EXCEPT !.order = order, !.events = events, !.calls = calls,
                          !.results = results, !.messages = messages]
  BY DEF HistoryBatch, EventHeader, Appended, EventRow
<1> HIDE DEF put, cleared, order, events, calls, results, messages
<1>4. /\ DOMAIN e = Rows
      /\ e.order = order /\ e.events = events /\ e.calls = calls /\ e.results = results
      /\ e.messages = messages
      /\ Keeps(cleared, e, {"headers", "heads", "pending", "payloads", "epoch", "marker"})
  BY <1>2, <1>3 DEF Rows, Keeps
<1>5. /\ cleared.headers = put.headers /\ cleared.heads = put.heads
      /\ cleared.order = d.order /\ cleared.events = d.events /\ cleared.calls = d.calls
      /\ cleared.results = d.results /\ cleared.messages = d.messages
      /\ cleared.payloads = d.payloads /\ cleared.epoch = d.epoch
      /\ cleared.marker = d.marker /\ put.pending = d.pending
  BY <1>1, <1>2 DEF Rows, Keeps
<1>6. /\ e.headers = cleared.headers /\ e.heads = cleared.heads /\ e.pending = cleared.pending
      /\ e.payloads = cleared.payloads /\ e.epoch = cleared.epoch /\ e.marker = cleared.marker
  BY <1>4 DEF Keeps
<1>7. e.order = Appended(d.order, input.session, pin[1])
  BY <1>4, <1>5, Zenon DEF order
<1>8. e.events = WithRow(d.events, EventKey(input), EventRow(input, size, pin))
  BY <1>4, <1>5 DEF events
<1>9. /\ e.calls = IF input.kind.tag = "ToolCall"
                   THEN WithRow(d.calls, CallKey(input), pin[1]) ELSE d.calls
      /\ e.results = IF input.kind.tag = "ToolResult"
                     THEN WithRow(d.results, CallKey(input), pin[1]) ELSE d.results
      /\ e.messages = IF Streams(input)
                      THEN WithRow(d.messages, MessageKey(input), MessageTransition(d, input))
                      ELSE d.messages
  BY <1>4, <1>5 DEF calls, results, messages
<1>10. e.pending = Cleared(d.pending, pin[1])
  BY <1>2, <1>5, <1>6
<1>. QED
  BY <1>1, <1>4, <1>5, <1>6, <1>7, <1>8, <1>9, <1>10, Zenon

-----------------------------------------------------------------------------
(* Every batch keeps the store sound. *)

\* What a batch leaves alone that does not touch the revisions.
LEMMA SameRevisions ==
    ASSUME NEW d, NEW e, DOMAIN e = DOMAIN d, Sound(d),
           e.headers = d.headers, e.heads = d.heads
    PROVE  /\ DOMAIN e = Rows /\ Heads(e) /\ Headers(e)
           /\ \A r : HeadOf(e, r) = HeadOf(d, r)
<1>1. \A p : Revision(d, p) => Revision(e, p)
  BY DEF Revision
<1>. QED
  BY <1>1 DEF Sound, Heads, Headers, HeadOf, HeadPin

LEMMA SameMessages ==
    ASSUME NEW d, NEW e, Sound(d), e.headers = d.headers, e.messages = d.messages,
           e.events = d.events, e.order = d.order, e.epoch = d.epoch, e.marker = d.marker
    PROVE  Told(e) /\ Listed(e) /\ Dated(e)
  BY DEF Sound, Told, Listed, Dated, RedactionEpoch

LEMMA EmptySound == Sound(EmptyDb)
<1>1. DOMAIN EmptyDb = Rows
  BY DEF EmptyDb, Rows
<1>2. /\ DOMAIN EmptyDb.headers = {} /\ DOMAIN EmptyDb.heads = {} /\ DOMAIN EmptyDb.pending = {}
      /\ EmptyDb.payloads = {} /\ DOMAIN EmptyDb.messages = {} /\ DOMAIN EmptyDb.events = {}
      /\ EmptyDb.epoch = 0 /\ EmptyDb.marker = None
      /\ EmptyDb.order = [s \in Sessions |-> <<>>]
  BY DEF EmptyDb
<1>3. Heads(EmptyDb) /\ Headers(EmptyDb) /\ Cleanup(EmptyDb) /\ Chunks(EmptyDb)
  BY <1>2 DEF Heads, Headers, Cleanup, Chunks
<1>4. Told(EmptyDb) /\ Listed(EmptyDb) /\ Dated(EmptyDb)
  BY <1>2 DEF Told, Listed, Dated, RedactionEpoch
<1>. QED
  BY <1>1, <1>3, <1>4 DEF Sound

\* append_history: the pending row of a fresh record.
LEMMA PendingKeepsSound ==
    ASSUME NEW d, Sound(d), NEW pin \in Pins, pin = PinOf(pin[1], 1), pin[1] \notin Used(d),
           NEW e, e = [d EXCEPT !.pending = WithRow(@, pin[1], [pin |-> pin, purge |-> FALSE])]
    PROVE  Sound(e)
<1> DEFINE row == [pin |-> pin, purge |-> FALSE]
<1>1. /\ DOMAIN e = DOMAIN d /\ e.headers = d.headers /\ e.heads = d.heads
      /\ e.payloads = d.payloads /\ e.messages = d.messages /\ e.events = d.events
      /\ e.order = d.order /\ e.epoch = d.epoch /\ e.marker = d.marker
      /\ e.pending = WithRow(d.pending, pin[1], row)
  BY DEF Sound, Rows
<1>2. /\ DOMAIN e = Rows /\ Heads(e) /\ Headers(e)
      /\ \A r : HeadOf(e, r) = HeadOf(d, r)
  BY <1>1, SameRevisions
<1>3. Told(e) /\ Listed(e) /\ Dated(e)
  BY <1>1, SameMessages
<1>4. Cleanup(e)
  <2>1. row \in Pending /\ row.pin = pin /\ row.purge = FALSE
    BY DEF Pending
  <2>2. pin[1] \in Records /\ pin[1] \notin DOMAIN d.heads
    BY PinShape DEF Used
  <2> HIDE DEF row
  <2>3. /\ DOMAIN e.pending = DOMAIN d.pending \cup {pin[1]}
        /\ e.pending[pin[1]] = row
        /\ \A r \in DOMAIN d.pending : r # pin[1] => e.pending[r] = d.pending[r]
    BY <1>1 DEF WithRow
  <2>4. Cleanup(d)
    BY DEF Sound
  <2>5. e.heads = d.heads
    BY <1>1
  <2>6. SUFFICES ASSUME NEW r \in DOMAIN e.pending
                 PROVE  /\ r \in Records /\ e.pending[r] \in Pending
                        /\ e.pending[r].purge => r \in DOMAIN e.heads /\ HeadOf(e, r).state = "Purged"
                        /\ ~e.pending[r].purge =>
                              r \notin DOMAIN e.heads /\ e.pending[r].pin = PinOf(r, 1)
    BY DEF Cleanup
  <2>7. CASE r = pin[1]
    BY <2>1, <2>2, <2>3, <2>5, <2>7
  <2>8. CASE r # pin[1]
    BY <1>2, <2>3, <2>4, <2>5, <2>8 DEF Cleanup
  <2>. QED
    BY <2>7, <2>8
<1>5. Chunks(e)
  <2>1. DOMAIN d.pending \subseteq DOMAIN e.pending
    BY <1>1 DEF WithRow
  <2>. QED
    BY <1>1, <1>2, <2>1 DEF Chunks, Sound
<1>. QED
  BY <1>2, <1>3, <1>4, <1>5 DEF Sound

\* append_history: one more chunk of a pending upload.
LEMMA ChunkKeepsSound ==
    ASSUME NEW d, Sound(d), NEW pin \in Pins, pin = PinOf(pin[1], 1), pin[1] \in DOMAIN d.pending,
           NEW n \in 1..MaxChunks,
           NEW e, e = [d EXCEPT !.payloads = @ \cup {<<pin, n>>}]
    PROVE  Sound(e)
<1>1. /\ DOMAIN e = DOMAIN d /\ e.headers = d.headers /\ e.heads = d.heads
      /\ e.pending = d.pending /\ e.messages = d.messages /\ e.events = d.events
      /\ e.order = d.order /\ e.epoch = d.epoch /\ e.marker = d.marker
      /\ e.payloads = d.payloads \cup {<<pin, n>>}
  BY DEF Sound, Rows
<1>2. /\ DOMAIN e = Rows /\ Heads(e) /\ Headers(e)
      /\ \A r : HeadOf(e, r) = HeadOf(d, r)
  BY <1>1, SameRevisions
<1>3. Told(e) /\ Listed(e) /\ Dated(e)
  BY <1>1, SameMessages
<1>4. Cleanup(e)
  BY <1>1, <1>2 DEF Cleanup, Sound
<1>5. Chunks(e)
  <2>1. pin[2] = 1
    BY DEF PinOf
  <2>2. e.payloads \subseteq Pins \X (1..MaxChunks)
    BY <1>1 DEF Chunks, Sound
  <2>3. \A c \in e.payloads :
           /\ c[1][2] = 1
           /\ c[1] \in DOMAIN e.headers \/ c[1][1] \in DOMAIN e.pending
    BY <1>1, <2>1 DEF Chunks, Sound
  <2>4. \A p \in DOMAIN e.headers :
           HeadOf(e, p[1]).state # "Purged" =>
             \A i \in 1..e.headers[p].payload.chunks : <<PinOf(p[1], 1), i>> \in e.payloads
    BY <1>1, <1>2 DEF Chunks, Sound
  <2>. QED
    BY <2>2, <2>3, <2>4 DEF Chunks
<1>. QED
  BY <1>2, <1>3, <1>4, <1>5 DEF Sound

\* What recovery may remove is a chunk of the record of its row, and that
\* record is purged or none.
LEMMA RemovedChunks ==
    ASSUME NEW d, Sound(d), NEW r \in DOMAIN d.pending
    PROVE  /\ \A c \in d.payloads : c \in ChunksToRemove(d, r) <=> c[1][1] = r
           /\ r \in DOMAIN d.heads => HeadOf(d, r).state = "Purged"
<1>1. /\ d.pending[r] \in Pending
      /\ d.pending[r].purge => r \in DOMAIN d.heads /\ HeadOf(d, r).state = "Purged"
      /\ ~d.pending[r].purge => r \notin DOMAIN d.heads /\ d.pending[r].pin = PinOf(r, 1)
  BY DEF Sound, Cleanup
<1>2. ASSUME NEW c \in d.payloads PROVE c \in ChunksToRemove(d, r) <=> c[1][1] = r
  <2>1. c[1] \in Pins /\ c[1][2] = 1
    BY DEF Sound, Chunks
  <2>2. c[1] = PinOf(c[1][1], 1)
    BY <2>1, PinShape
  <2>3. c[1] = PinOf(r, 1) <=> c[1][1] = r
    BY <2>2 DEF PinOf
  <2>4. CASE d.pending[r].purge
    BY <2>4 DEF ChunksToRemove
  <2>5. CASE ~d.pending[r].purge
    BY <1>1, <2>3, <2>5 DEF ChunksToRemove
  <2>. QED
    BY <2>4, <2>5
<1>. QED
  BY <1>1, <1>2

\* recover_payloads: one row, with all its chunks or with some of them.
LEMMA RecoveryKeepsSound ==
    ASSUME NEW d, Sound(d), NEW r \in DOMAIN d.pending,
           NEW removed \in SUBSET ChunksToRemove(d, r), NEW e,
           \/ e = [d EXCEPT !.payloads = @ \ removed]
           \/ removed = ChunksToRemove(d, r) /\ e = [WithoutPending(d, r) EXCEPT !.payloads = @ \ removed]
    PROVE  Sound(e)
<1>1. /\ DOMAIN e = DOMAIN d /\ e.headers = d.headers /\ e.heads = d.heads
      /\ e.messages = d.messages /\ e.events = d.events
      /\ e.order = d.order /\ e.epoch = d.epoch /\ e.marker = d.marker
      /\ e.payloads = d.payloads \ removed
      /\ \/ e.pending = d.pending
         \/ /\ removed = ChunksToRemove(d, r)
            /\ e.pending = [s \in DOMAIN d.pending \ {r} |-> d.pending[s]]
  <2>1. DOMAIN d = Rows
    BY DEF Sound
  <2>2. CASE e = [d EXCEPT !.payloads = @ \ removed]
    BY <2>1, <2>2 DEF Rows
  <2>3. CASE removed = ChunksToRemove(d, r) /\ e = [WithoutPending(d, r) EXCEPT !.payloads = @ \ removed]
    <3> DEFINE cleared == WithoutPending(d, r)
    <3>1. /\ DOMAIN cleared = Rows
          /\ cleared.pending = [s \in DOMAIN d.pending \ {r} |-> d.pending[s]]
          /\ Keeps(d, cleared, Rows \ {"pending"})
      BY <2>1 DEF WithoutPending, Rows, Keeps
    <3> HIDE DEF cleared
    <3>2. e = [cleared EXCEPT !.payloads = cleared.payloads \ removed]
      BY <2>3 DEF cleared
    <3>3. /\ cleared.headers = d.headers /\ cleared.heads = d.heads
          /\ cleared.messages = d.messages /\ cleared.events = d.events
          /\ cleared.order = d.order /\ cleared.epoch = d.epoch /\ cleared.marker = d.marker
          /\ cleared.payloads = d.payloads
      BY <3>1 DEF Rows, Keeps
    <3>4. /\ DOMAIN e = DOMAIN d /\ e.headers = d.headers /\ e.heads = d.heads
          /\ e.messages = d.messages /\ e.events = d.events
          /\ e.order = d.order /\ e.epoch = d.epoch /\ e.marker = d.marker
          /\ e.payloads = d.payloads \ removed
          /\ e.pending = cleared.pending
      BY <2>1, <3>1, <3>2, <3>3 DEF Rows
    <3>. QED
      BY <2>3, <3>1, <3>4
  <2>. QED
    BY <2>2, <2>3
<1>2. /\ DOMAIN e = Rows /\ Heads(e) /\ Headers(e)
      /\ \A s : HeadOf(e, s) = HeadOf(d, s)
  BY <1>1, SameRevisions
<1>3. Told(e) /\ Listed(e) /\ Dated(e)
  BY <1>1, SameMessages
<1>4. /\ DOMAIN e.pending \subseteq DOMAIN d.pending
      /\ DOMAIN d.pending \ {r} \subseteq DOMAIN e.pending
      /\ \A s \in DOMAIN e.pending : e.pending[s] = d.pending[s]
  BY <1>1
<1>5. Cleanup(e)
  BY <1>1, <1>2, <1>4 DEF Cleanup, Sound
<1>6. ASSUME NEW c \in e.payloads
      PROVE  /\ c[1][2] = 1
             /\ c[1] \in DOMAIN e.headers \/ c[1][1] \in DOMAIN e.pending
  <2>1. c \in d.payloads /\ c \notin removed
    BY <1>1
  <2>2. c[1][2] = 1 /\ (c[1] \in DOMAIN d.headers \/ c[1][1] \in DOMAIN d.pending)
    BY <2>1 DEF Sound, Chunks
  <2>3. CASE e.pending = d.pending
    BY <1>1, <2>2, <2>3
  <2>4. CASE removed = ChunksToRemove(d, r)
    <3>1. c[1][1] # r
      BY <2>1, <2>4, RemovedChunks
    <3>. QED
      BY <1>1, <1>4, <2>2, <3>1
  <2>. QED
    BY <1>1, <2>3, <2>4
<1>7. ASSUME NEW p \in DOMAIN e.headers, HeadOf(e, p[1]).state # "Purged",
             NEW i \in 1..e.headers[p].payload.chunks
      PROVE  <<PinOf(p[1], 1), i>> \in e.payloads
  <2> DEFINE c == <<PinOf(p[1], 1), i>>
  <2>1. c \in d.payloads
    BY <1>1, <1>2, <1>7 DEF Sound, Chunks
  <2>2. p[1] \in DOMAIN d.heads
    BY <1>1 DEF Sound, Heads
  <2>3. p[1] # r
    BY <1>2, <1>7, <2>2, RemovedChunks
  <2>4. c[1][1] = p[1]
    BY DEF PinOf
  <2> HIDE DEF c
  <2>5. c \notin removed
    BY <2>1, <2>3, <2>4, RemovedChunks
  <2>. QED
    BY <1>1, <2>1, <2>5 DEF c
<1>8. e.payloads \subseteq Pins \X (1..MaxChunks)
  BY <1>1 DEF Sound, Chunks
<1>9. Chunks(e)
  BY <1>6, <1>7, <1>8 DEF Chunks
<1>. QED
  BY <1>2, <1>3, <1>5, <1>9 DEF Sound

\* A header that a batch may write over the revisions of d.
NewHeader(d, header) ==
    /\ DOMAIN header = HeaderRows
    /\ header.state \in RecordState
    /\ header.sources \subseteq DOMAIN d.headers
    /\ header.rests \subseteq DOMAIN d.headers
    /\ header.payload \in [revision : {1}, chunks : Sizes]
    /\ header.history \in Entries
    /\ header.checkpoint = None

\* The store e is d with one revision more.
Revised(d, e, pin, header) ==
    /\ DOMAIN e.headers = DOMAIN d.headers \cup {pin} /\ pin \notin DOMAIN d.headers
    /\ e.headers[pin] = header
    /\ \A p \in DOMAIN d.headers : e.headers[p] = d.headers[p]
    /\ DOMAIN e.heads = DOMAIN d.heads \cup {pin[1]}
    /\ e.heads[pin[1]] = pin[2]
    /\ \A r \in DOMAIN d.heads : r # pin[1] => e.heads[r] = d.heads[r]
    /\ HeadOf(e, pin[1]) = header
    /\ \A r \in DOMAIN d.heads : r # pin[1] => HeadOf(e, r) = HeadOf(d, r)

\* put_header: a new record, or the next revision of one.
LEMMA RevisionAdded ==
    ASSUME NEW d, NEW pin, NEW header, NEW e, Heads(d), pin \in Pins,
           pin[2] = IF pin[1] \in DOMAIN d.heads THEN d.heads[pin[1]] + 1 ELSE 1,
           e.headers = WithRow(d.headers, pin, header),
           e.heads = WithRow(d.heads, pin[1], pin[2])
    PROVE  Heads(e) /\ Revised(d, e, pin, header)
<1>1. /\ pin = PinOf(pin[1], pin[2]) /\ pin[1] \in Records
      /\ pin[2] \in Nat /\ 1 <= pin[2] /\ pin[2] <= MaxRevision
  BY PinShape
<1>2. /\ DOMAIN d.heads \subseteq Records
      /\ \A r \in DOMAIN d.heads : d.heads[r] \in 1..MaxRevision
      /\ DOMAIN d.headers = {p \in Pins : p[1] \in DOMAIN d.heads /\ p[2] <= d.heads[p[1]]}
  BY DEF Heads
<1>3. pin \notin DOMAIN d.headers
  BY <1>1, <1>2
<1>4. /\ DOMAIN e.headers = DOMAIN d.headers \cup {pin}
      /\ e.headers[pin] = header
      /\ \A p \in DOMAIN d.headers : e.headers[p] = d.headers[p]
  BY <1>3 DEF WithRow
<1>5. /\ DOMAIN e.heads = DOMAIN d.heads \cup {pin[1]}
      /\ e.heads[pin[1]] = pin[2]
      /\ \A r \in DOMAIN d.heads : r # pin[1] => e.heads[r] = d.heads[r]
  BY DEF WithRow
<1>6. Heads(e)
  <2>1. DOMAIN e.heads \subseteq Records
    BY <1>1, <1>2, <1>5
  <2>2. \A r \in DOMAIN e.heads : e.heads[r] \in 1..MaxRevision
    BY <1>1, <1>2, <1>5
  <2>3. ASSUME NEW p \in Pins
        PROVE  p \in DOMAIN e.headers <=> p[1] \in DOMAIN e.heads /\ p[2] <= e.heads[p[1]]
    <3>1. p = PinOf(p[1], p[2]) /\ p[2] \in Nat /\ 1 <= p[2]
      BY PinShape
    <3>2. p = pin <=> p[1] = pin[1] /\ p[2] = pin[2]
      BY <1>1, <3>1
    <3>3. CASE p[1] # pin[1]
      BY <1>2, <1>4, <1>5, <3>3
    <3>4. CASE p[1] = pin[1] /\ pin[1] \in DOMAIN d.heads
      <4>1. p \in DOMAIN d.headers <=> p[2] <= d.heads[pin[1]]
        BY <1>2, <3>4
      <4>2. d.heads[pin[1]] \in Nat /\ pin[2] = d.heads[pin[1]] + 1
        BY <1>2, <3>4
      <4>. QED
        BY <1>4, <1>5, <3>1, <3>2, <3>4, <4>1, <4>2
    <3>5. CASE p[1] = pin[1] /\ pin[1] \notin DOMAIN d.heads
      BY <1>2, <1>4, <1>5, <3>1, <3>2, <3>5
    <3>. QED
      BY <3>3, <3>4, <3>5
  <2>4. DOMAIN e.headers \subseteq Pins
    BY <1>2, <1>4
  <2>. QED
    BY <2>1, <2>2, <2>3, <2>4 DEF Heads
<1>7. HeadOf(e, pin[1]) = header
  BY <1>1, <1>4, <1>5 DEF HeadOf, HeadPin
<1>8. ASSUME NEW r \in DOMAIN d.heads, r # pin[1] PROVE HeadOf(e, r) = HeadOf(d, r)
  <2>1. HeadPin(e, r) = HeadPin(d, r)
    BY <1>5, <1>8 DEF HeadPin
  <2>2. HeadPin(d, r) \in DOMAIN d.headers
    <3>1. PinOf(r, d.heads[r]) \in Pins /\ PinOf(r, d.heads[r])[1] = r
          /\ PinOf(r, d.heads[r])[2] = d.heads[r]
      BY <1>2, PinIn
    <3>. QED
      BY <1>2, <3>1 DEF HeadPin
  <2>. QED
    BY <1>4, <2>1, <2>2 DEF HeadOf
<1>. QED
  BY <1>3, <1>4, <1>5, <1>6, <1>7, <1>8 DEF Revised

LEMMA NextRevision ==
    ASSUME NEW d, NEW pin, NEW header, NEW e,
           Heads(d), Headers(d), pin \in Pins, NewHeader(d, header),
           pin[2] = IF pin[1] \in DOMAIN d.heads THEN d.heads[pin[1]] + 1 ELSE 1,
           e.headers = WithRow(d.headers, pin, header),
           e.heads = WithRow(d.heads, pin[1], pin[2])
    PROVE  /\ Heads(e) /\ Headers(e)
           /\ Revised(d, e, pin, header)
<1>1. Heads(e) /\ Revised(d, e, pin, header)
  BY RevisionAdded
<1>2. /\ DOMAIN e.headers = DOMAIN d.headers \cup {pin} /\ e.headers[pin] = header
      /\ \A p \in DOMAIN d.headers : e.headers[p] = d.headers[p]
  BY <1>1 DEF Revised
<1>3. Headers(e)
  <2>1. ASSUME NEW p \in DOMAIN d.headers PROVE Revision(e, p)
    BY <1>2 DEF Headers, Revision
  <2>2. Revision(e, pin)
    BY <1>2 DEF Revision, NewHeader
  <2>. QED
    BY <1>2, <2>1, <2>2 DEF Headers
<1>. QED
  BY <1>1, <1>3

LEMMA HeadIsRevision ==
    ASSUME NEW d, Heads(d), NEW r \in DOMAIN d.heads
    PROVE  /\ HeadPin(d, r) \in DOMAIN d.headers
           /\ HeadPin(d, r)[1] = r /\ HeadPin(d, r)[2] = d.heads[r]
           /\ PinOf(r, 1) \in DOMAIN d.headers
           /\ r \in Records /\ d.heads[r] \in Nat /\ 1 <= d.heads[r] /\ d.heads[r] <= MaxRevision
<1>1. r \in Records /\ d.heads[r] \in 1..MaxRevision
  BY DEF Heads
<1>2. /\ PinOf(r, d.heads[r]) \in Pins
      /\ PinOf(r, d.heads[r])[1] = r /\ PinOf(r, d.heads[r])[2] = d.heads[r]
  BY <1>1, PinIn
<1>3. PinOf(r, 1) \in Pins /\ PinOf(r, 1)[1] = r /\ PinOf(r, 1)[2] = 1
  BY <1>1, PinIn
<1>. QED
  BY <1>1, <1>2, <1>3 DEF Heads, HeadPin

LEMMA ReadableStored ==
    ASSUME NEW d, NEW p, Readable(d, p)
    PROVE  p \in DOMAIN d.headers
  BY DEF Readable, Available, SelfAvailable

\* The sources of an event are stored, and so is all they rest on.
LEMMA SourcesStored ==
    ASSUME NEW d, Headers(d), NEW input \in Appends, Admitted(d, input)
    PROVE  /\ CallSources(d, input) \cup input.sources \subseteq DOMAIN d.headers
           /\ Rests(d, CallSources(d, input) \cup input.sources) \subseteq DOMAIN d.headers
<1>1. input.sources \subseteq DOMAIN d.headers
  BY ReadableStored DEF Admitted, ValidHistorySources
<1>2. CallSources(d, input) \subseteq DOMAIN d.headers
  BY ReadableStored DEF Admitted, CallLinked, CallSources
<1> DEFINE sources == CallSources(d, input) \cup input.sources
<1>3. sources \subseteq DOMAIN d.headers
  BY <1>1, <1>2
<1> HIDE DEF sources
<1>4. Rests(d, sources) \subseteq DOMAIN d.headers
  BY <1>3 DEF Rests, Headers, Revision
<1>. QED
  BY <1>3, <1>4 DEF sources

LEMMA KindShape ==
    ASSUME NEW kind \in HistoryKinds
    PROVE  /\ kind.tag \in {"UserMessage", "AssistantStarted", "AssistantFragment",
                            "AssistantTerminal", "ToolCall", "ToolResult"}
           /\ kind.tag \in {"UserMessage", "ToolResult"} => kind.message = None
           /\ kind.ordinal \in Nat
           /\ kind.tag \in {"ToolCall", "ToolResult"} => kind.call \in Calls
           /\ kind.tag \in {"AssistantStarted", "AssistantFragment", "AssistantTerminal"} =>
                 kind.message \in Messages
  BY DEF HistoryKinds, HistoryKind

LEMMA MessageEdits ==
    ASSUME NEW m \in Message
    PROVE  /\ [m EXCEPT !.next = @ + 1] \in Message
           /\ [m EXCEPT !.next = @ + 1].unavailable = m.unavailable
           /\ [m EXCEPT !.terminal = TRUE] \in Message
           /\ [m EXCEPT !.terminal = TRUE].unavailable = m.unavailable
           /\ [m EXCEPT !.unavailable = TRUE] \in Message
           /\ [m EXCEPT !.unavailable = TRUE].unavailable
<1>1. [m EXCEPT !.next = @ + 1] \in Message
  BY DEF Message
<1>2. [m EXCEPT !.terminal = TRUE] \in Message
  BY DEF Message
<1>3. [m EXCEPT !.unavailable = TRUE] \in Message
  BY DEF Message
<1>4. [m EXCEPT !.next = @ + 1].unavailable = m.unavailable
  BY DEF Message
<1>5. [m EXCEPT !.terminal = TRUE].unavailable = m.unavailable
  BY DEF Message
<1>6. [m EXCEPT !.unavailable = TRUE].unavailable
  BY DEF Message
<1>. QED
  BY <1>1, <1>2, <1>3, <1>4, <1>5, <1>6

\* message_transition: the row of the message is or becomes one, and what
\* was hidden stays hidden.
LEMMA MessageMoves ==
    ASSUME NEW d, Sound(d), NEW input \in Appends, Admitted(d, input), Streams(input)
    PROVE  LET key == MessageKey(input)
           IN /\ MessageTransition(d, input) \in Message
              /\ key \in DOMAIN d.messages =>
                    MessageTransition(d, input).unavailable = d.messages[key].unavailable
<1> DEFINE key == MessageKey(input)
<1>1. MessageFollows(d, input)
  BY DEF Admitted
<1>2. CASE input.kind.tag = "AssistantStarted"
  BY <1>1, <1>2 DEF MessageFollows, MessageTransition, Message
<1>3. CASE input.kind.tag \in {"AssistantFragment", "AssistantTerminal"}
  <2>1. key \in DOMAIN d.messages
    BY <1>1, <1>3 DEF MessageFollows
  <2>2. d.messages[key] \in Message
    BY <2>1 DEF Sound, Told
  <2>3. \/ MessageTransition(d, input) = [d.messages[key] EXCEPT !.next = @ + 1]
        \/ MessageTransition(d, input) = [d.messages[key] EXCEPT !.terminal = TRUE]
    <3>1. CASE input.kind.tag = "AssistantFragment"
      BY <3>1 DEF MessageTransition
    <3>2. CASE input.kind.tag = "AssistantTerminal"
      BY <3>2 DEF MessageTransition
    <3>. QED
      BY <1>3, <3>1, <3>2
  <2> HIDE DEF key
  <2>4. /\ MessageTransition(d, input) \in Message
        /\ MessageTransition(d, input).unavailable = d.messages[key].unavailable
    <3>2. PICK m \in Message : m = d.messages[key]
      BY <2>2
    <3>3. CASE MessageTransition(d, input) = [d.messages[key] EXCEPT !.next = @ + 1]
      <4>1. MessageTransition(d, input) = [m EXCEPT !.next = @ + 1]
        BY <3>2, <3>3
      <4>. QED
        BY <3>2, <4>1, MessageEdits
    <3>4. CASE MessageTransition(d, input) = [d.messages[key] EXCEPT !.terminal = TRUE]
      <4>1. MessageTransition(d, input) = [m EXCEPT !.terminal = TRUE]
        BY <3>2, <3>4
      <4>. QED
        BY <3>2, <4>1, MessageEdits
    <3>. QED
      BY <2>3, <3>3, <3>4
  <2>. QED
    BY <2>4 DEF key
<1>. QED
  BY <1>2, <1>3 DEF Streams

\* append_history: the last batch, which makes the event visible.
LEMMA EventKeepsSound ==
    ASSUME NEW d, Sound(d), NEW input \in Appends, Admitted(d, input), NEW size \in Sizes,
           NEW pin \in Pins, pin = PinOf(pin[1], 1), pin[1] \in DOMAIN d.pending,
           ~d.pending[pin[1]].purge, \A i \in 1..size : <<pin, i>> \in d.payloads,
           NEW e, e = HistoryBatch(d, input, size, pin)
    PROVE  Sound(e)
<1> DEFINE key == MessageKey(input)
<1>0. PICK header : header = EventHeader(d, input, size)
  OBVIOUS
<1>1. /\ DOMAIN d = Rows /\ Heads(d) /\ Headers(d) /\ Cleanup(d) /\ Chunks(d) /\ Told(d)
      /\ Listed(d) /\ Dated(d)
  BY DEF Sound
<1>2. /\ DOMAIN e = Rows
      /\ e.headers = WithRow(d.headers, pin, header)
      /\ e.heads = WithRow(d.heads, pin[1], pin[2])
      /\ e.pending = Cleared(d.pending, pin[1])
      /\ e.order = Appended(d.order, input.session, pin[1])
      /\ e.events = WithRow(d.events, EventKey(input), EventRow(input, size, pin))
      /\ e.messages = IF Streams(input)
                      THEN WithRow(d.messages, key, MessageTransition(d, input))
                      ELSE d.messages
      /\ e.payloads = d.payloads /\ e.epoch = d.epoch /\ e.marker = d.marker
  BY <1>0, <1>1, HistoryRows
<1>3. /\ DOMAIN header = HeaderRows
      /\ header.state = "Active"
      /\ header.sources = CallSources(d, input) \cup input.sources
      /\ header.rests = Rests(d, CallSources(d, input) \cup input.sources)
      /\ header.payload = PayloadRow(size)
      /\ header.history = Entry(input.session, input.event, Sequence(d, input.session) + 1, input.kind)
      /\ header.checkpoint = None
  BY <1>0 DEF EventHeader, Header, HeaderRows, Entry, PayloadRow
<1>4. /\ input.session \in Sessions /\ input.event \in 1..MaxEvents
      /\ input.kind \in HistoryKinds
  BY DEF Appends
<1>5. NewHeader(d, header)
  <2>1. Sequence(d, input.session) + 1 \in Nat
    BY <1>1, <1>4, LenProperties DEF Sequence, Listed
  <2>2. header.history \in Entries
    BY <1>3, <1>4, <2>1 DEF Entries, Entry
  <2>. QED
    BY <1>1, <1>3, <2>2, SourcesStored DEF NewHeader, RecordState, PayloadRow
<1>6. pin[1] \in Records /\ pin[2] = 1 /\ pin[1] \notin DOMAIN d.heads
  <2>1. pin[2] = 1
    BY DEF PinOf
  <2>. QED
    BY <1>1, <2>1, PinShape DEF Cleanup
<1> HIDE DEF key
<1>7. /\ Heads(e) /\ Headers(e)
      /\ DOMAIN e.headers = DOMAIN d.headers \cup {pin} /\ pin \notin DOMAIN d.headers
      /\ e.headers[pin] = header
      /\ \A p \in DOMAIN d.headers : e.headers[p] = d.headers[p]
      /\ DOMAIN e.heads = DOMAIN d.heads \cup {pin[1]}
      /\ HeadOf(e, pin[1]) = header
      /\ \A r \in DOMAIN d.heads : r # pin[1] => HeadOf(e, r) = HeadOf(d, r)
  <2>1. pin[2] = IF pin[1] \in DOMAIN d.heads THEN d.heads[pin[1]] + 1 ELSE 1
    BY <1>6
  <2>2. /\ e.headers = WithRow(d.headers, pin, header)
        /\ e.heads = WithRow(d.heads, pin[1], pin[2])
        /\ Heads(d) /\ Headers(d)
    BY <1>1, <1>2
  <2>3. Heads(e) /\ Headers(e) /\ Revised(d, e, pin, header)
    BY <1>5, <2>1, <2>2, NextRevision
  <2>. QED
    BY <2>3 DEF Revised
<1>8. Cleanup(e)
  <2>1. \A r \in DOMAIN e.pending : /\ r \in DOMAIN d.pending /\ r # pin[1]
                                    /\ e.pending[r] = d.pending[r]
    BY <1>2 DEF Cleared
  <2>. QED
    BY <1>1, <1>7, <2>1 DEF Cleanup
<1>9. Chunks(e)
  <2>1. e.payloads \subseteq Pins \X (1..MaxChunks)
    BY <1>1, <1>2 DEF Chunks
  <2>2. ASSUME NEW c \in e.payloads
        PROVE  /\ c[1][2] = 1
               /\ c[1] \in DOMAIN e.headers \/ c[1][1] \in DOMAIN e.pending
    <3>1. /\ c[1] \in Pins /\ c[1][2] = 1
          /\ c[1] \in DOMAIN d.headers \/ c[1][1] \in DOMAIN d.pending
      BY <1>1, <1>2 DEF Chunks
    <3>2. CASE c[1][1] = pin[1]
      <4>1. c[1] = pin
        BY <3>1, <3>2, PinShape
      <4>. QED
        BY <1>7, <3>1, <4>1
    <3>3. CASE c[1][1] # pin[1]
      BY <1>2, <1>7, <3>1, <3>3 DEF Cleared
    <3>. QED
      BY <3>2, <3>3
  <2>3. ASSUME NEW p \in DOMAIN e.headers, HeadOf(e, p[1]).state # "Purged",
               NEW i \in 1..e.headers[p].payload.chunks
        PROVE  <<PinOf(p[1], 1), i>> \in e.payloads
    <3>1. CASE p = pin
      <4>1. i \in 1..size
        BY <1>3, <1>7, <3>1 DEF PayloadRow
      <4>. QED
        BY <1>2, <3>1, <4>1
    <3>2. CASE p \in DOMAIN d.headers
      <4>1. p[1] \in DOMAIN d.heads
        BY <1>1, <3>2 DEF Heads
      <4>2. HeadOf(d, p[1]) = HeadOf(e, p[1])
        BY <1>6, <1>7, <4>1
      <4>. QED
        BY <1>1, <1>2, <1>7, <2>3, <3>2, <4>2 DEF Chunks
    <3>. QED
      BY <1>7, <3>1, <3>2
  <2>. QED
    BY <2>1, <2>2, <2>3 DEF Chunks
<1>10. Told(e)
  <2>1. /\ DOMAIN d.messages \subseteq DOMAIN e.messages
        /\ Streams(input) => key \in DOMAIN e.messages
        /\ \A k \in DOMAIN e.messages :
              \/ k \in DOMAIN d.messages /\ e.messages[k] = d.messages[k]
              \/ Streams(input) /\ e.messages[k] = MessageTransition(d, input)
    <3>1. CASE Streams(input)
      BY <1>2, <3>1 DEF WithRow
    <3>2. CASE ~Streams(input)
      BY <1>2, <3>2
    <3>. QED
      BY <3>1, <3>2
  <2>2. Streams(input) => MessageTransition(d, input) \in Message
    BY MessageMoves
  <2>3. \A k \in DOMAIN e.messages : e.messages[k] \in Message
    BY <1>1, <2>1, <2>2 DEF Told
  <2>4. HasMessage(header.history) => MessageKey(header.history) \in DOMAIN e.messages
    <3>1. header.history.kind = input.kind /\ header.history.session = input.session
      BY <1>3 DEF Entry
    <3>2. MessageKey(header.history) = key /\ HasMessage(header.history) = HasMessage(input)
      BY <3>1 DEF MessageKey, HasMessage, key
    <3>3. CASE Streams(input)
      BY <2>1, <3>2, <3>3
    <3>4. CASE input.kind.tag = "ToolCall"
      <4>1. HasMessage(input) => key \in DOMAIN d.messages
        BY <3>4 DEF Admitted, CallLinked, key
      <4>. QED
        BY <2>1, <3>2, <4>1
    <3>5. CASE input.kind.tag \in {"UserMessage", "ToolResult"}
      BY <1>4, <3>2, <3>5, KindShape DEF HasMessage
    <3>. QED
      BY <1>4, <3>3, <3>4, <3>5, KindShape DEF Streams
  <2>5. \A p \in DOMAIN d.headers :
          HasMessage(d.headers[p].history) => MessageKey(d.headers[p].history) \in DOMAIN e.messages
    BY <1>1, <2>1 DEF Told
  <2>. QED
    BY <1>7, <2>3, <2>4, <2>5 DEF Told
<1>11. Listed(e)
  <2> DEFINE row == EventRow(input, size, pin)
  <2>1. row.pin = pin
    BY DEF EventRow
  <2> HIDE DEF row
  <2>2. e.events = WithRow(d.events, EventKey(input), row)
    BY <1>2 DEF row
  <2>3. \A k \in DOMAIN e.events : \/ k \in DOMAIN d.events /\ e.events[k] = d.events[k]
                                   \/ e.events[k] = row
    BY <2>2 DEF WithRow
  <2>4. Append(d.order[input.session], pin[1]) \in Seq(Records)
    BY <1>1, <1>4, <1>6 DEF Listed
  <2>5. e.order \in [Sessions -> Seq(Records)]
    BY <1>1, <1>2, <2>4 DEF Listed, Appended
  <2>. QED
    BY <1>1, <2>1, <2>3, <2>5 DEF Listed
<1>12. Dated(e)
  BY <1>1, <1>2 DEF Dated, RedactionEpoch
<1>. QED
  BY <1>2, <1>7, <1>8, <1>9, <1>10, <1>11, <1>12 DEF Sound

\* retract, purge: the batch of a change of state.
LEMMA StateKeepsSound ==
    ASSUME NEW d, NEW r, NEW state, NEW e, Sound(d), Revisable(d, r),
           state \in {"Retracted", "Purged"}, e = StateBatch(d, r, state)
    PROVE  /\ Sound(e) /\ NextPin(d, r) \in Pins
           /\ Revised(d, e, NextPin(d, r), Restated(HeadOf(d, r), state))
<1>0. PICK pin : pin = NextPin(d, r)
  OBVIOUS
<1>1. PICK header : header = Restated(HeadOf(d, r), state)
  OBVIOUS
<1>2. /\ DOMAIN d = Rows /\ Heads(d) /\ Headers(d) /\ Cleanup(d) /\ Chunks(d) /\ Told(d)
      /\ Listed(d) /\ Dated(d)
  BY DEF Sound
<1>3. /\ DOMAIN e = Rows
      /\ e.headers = WithRow(d.headers, pin, header)
      /\ e.heads = WithRow(d.heads, pin[1], pin[2])
      /\ e.pending = IF state = "Purged" THEN WithRow(d.pending, pin[1], PurgeRow(pin)) ELSE d.pending
      /\ e.messages = IF header.history # None /\ HasMessage(header.history)
                      THEN Hidden(d.messages, MessageKey(header.history)) ELSE d.messages
      /\ e.epoch = d.epoch + 1
      /\ e.marker \in {Marker(d.epoch + 1, RedactionEpoch(d)), Marker(d.epoch + 1, d.epoch + 1)}
      /\ e.payloads = d.payloads /\ e.order = d.order /\ e.events = d.events
  BY <1>0, <1>1, <1>2, StateRows
<1>4. /\ r \in DOMAIN d.heads /\ HeadOf(d, r).state # "Purged" /\ d.heads[r] < MaxRevision
  BY DEF Revisable, Exists
<1>5. /\ HeadPin(d, r) \in DOMAIN d.headers /\ HeadPin(d, r)[1] = r
      /\ r \in Records /\ d.heads[r] \in Nat /\ 1 <= d.heads[r]
  BY <1>2, <1>4, HeadIsRevision
<1>6. pin \in Pins /\ pin[1] = r /\ pin[2] = d.heads[r] + 1
  BY <1>0, <1>4, <1>5, PinIn DEF NextPin
<1>7. Revision(d, HeadPin(d, r)) /\ HeadOf(d, r) = d.headers[HeadPin(d, r)]
  BY <1>2, <1>5 DEF Headers, HeadOf
<1>8. /\ header.state = state /\ DOMAIN header = HeaderRows
      /\ header.sources = HeadOf(d, r).sources /\ header.rests = HeadOf(d, r).rests
      /\ header.payload = HeadOf(d, r).payload /\ header.history = HeadOf(d, r).history
      /\ header.checkpoint = HeadOf(d, r).checkpoint
  BY <1>1, <1>7 DEF Revision, HeaderRows, Restated
<1>9. NewHeader(d, header)
  BY <1>7, <1>8 DEF NewHeader, Revision, RecordState
<1>10. Heads(e) /\ Headers(e) /\ Revised(d, e, pin, header)
  <2>1. pin[2] = IF pin[1] \in DOMAIN d.heads THEN d.heads[pin[1]] + 1 ELSE 1
    BY <1>4, <1>6
  <2>. QED
    BY <1>2, <1>3, <1>6, <1>9, <2>1, NextRevision
<1>11. /\ DOMAIN e.headers = DOMAIN d.headers \cup {pin} /\ pin \notin DOMAIN d.headers
       /\ e.headers[pin] = header
       /\ \A p \in DOMAIN d.headers : e.headers[p] = d.headers[p]
       /\ DOMAIN e.heads = DOMAIN d.heads
       /\ HeadOf(e, r) = header
       /\ \A s \in DOMAIN d.heads : s # r => HeadOf(e, s) = HeadOf(d, s)
  BY <1>4, <1>6, <1>10 DEF Revised
<1>12. r \notin DOMAIN d.pending
  BY <1>2, <1>4 DEF Cleanup
<1>13. /\ DOMAIN d.pending \subseteq DOMAIN e.pending
       /\ \A s \in DOMAIN e.pending :
             \/ s # r /\ s \in DOMAIN d.pending /\ e.pending[s] = d.pending[s]
             \/ s = r /\ state = "Purged" /\ e.pending[s] = PurgeRow(pin)
  <2>1. CASE state = "Purged"
    BY <1>3, <1>6, <1>12, <2>1 DEF WithRow
  <2>2. CASE state # "Purged"
    BY <1>3, <1>12, <2>2
  <2>. QED
    BY <2>1, <2>2
<1>14. Cleanup(e)
  <2>1. PurgeRow(pin) \in Pending /\ PurgeRow(pin).purge
    BY <1>6 DEF PurgeRow, Pending
  <2> SUFFICES ASSUME NEW s \in DOMAIN e.pending
               PROVE  /\ s \in Records /\ e.pending[s] \in Pending
                      /\ e.pending[s].purge => s \in DOMAIN e.heads /\ HeadOf(e, s).state = "Purged"
                      /\ ~e.pending[s].purge =>
                            s \notin DOMAIN e.heads /\ e.pending[s].pin = PinOf(s, 1)
    BY DEF Cleanup
  <2>2. CASE s # r /\ s \in DOMAIN d.pending /\ e.pending[s] = d.pending[s]
    BY <1>2, <1>11, <2>2 DEF Cleanup
  <2>3. CASE s = r /\ state = "Purged" /\ e.pending[s] = PurgeRow(pin)
    BY <1>4, <1>5, <1>8, <1>11, <2>1, <2>3
  <2>. QED
    BY <1>13, <2>2, <2>3
<1>15. Chunks(e)
  <2>1. e.payloads \subseteq Pins \X (1..MaxChunks)
    BY <1>2, <1>3 DEF Chunks
  <2>2. \A c \in e.payloads :
           /\ c[1][2] = 1
           /\ c[1] \in DOMAIN e.headers \/ c[1][1] \in DOMAIN e.pending
    BY <1>2, <1>3, <1>11, <1>13 DEF Chunks
  <2>3. ASSUME NEW p \in DOMAIN e.headers, HeadOf(e, p[1]).state # "Purged",
               NEW i \in 1..e.headers[p].payload.chunks
        PROVE  <<PinOf(p[1], 1), i>> \in e.payloads
    <3>1. CASE p = pin
      <4>1. /\ HeadOf(d, HeadPin(d, r)[1]).state # "Purged"
            /\ i \in 1..d.headers[HeadPin(d, r)].payload.chunks
        BY <1>4, <1>5, <1>7, <1>8, <1>11, <2>3, <3>1
      <4>2. <<PinOf(HeadPin(d, r)[1], 1), i>> \in d.payloads
        BY <1>2, <1>5, <4>1 DEF Chunks
      <4>. QED
        BY <1>3, <1>5, <1>6, <3>1, <4>2
    <3>2. CASE p \in DOMAIN d.headers
      <4>1. p[1] \in DOMAIN d.heads
        BY <1>2, <3>2 DEF Heads
      <4>2. HeadOf(d, p[1]).state # "Purged"
        BY <1>4, <1>11, <2>3, <4>1
      <4>. QED
        BY <1>2, <1>3, <1>11, <2>3, <3>2, <4>2 DEF Chunks
    <3>. QED
      BY <1>11, <3>1, <3>2
  <2>. QED
    BY <2>1, <2>2, <2>3 DEF Chunks
<1>16. Told(e)
  <2>1. /\ DOMAIN e.messages = DOMAIN d.messages
        /\ \A k \in DOMAIN d.messages : e.messages[k] \in Message
    <3>1. CASE header.history # None /\ HasMessage(header.history)
      <4> DEFINE key == MessageKey(header.history)
      <4>1. key \in DOMAIN d.messages
        BY <1>2, <1>5, <1>7, <1>8, <3>1 DEF Told
      <4>2. d.messages[key] \in Message
        BY <1>2, <4>1 DEF Told
      <4> HIDE DEF key
      <4>3. PICK m \in Message : m = d.messages[key]
        BY <4>2
      <4>4. [m EXCEPT !.unavailable = TRUE] \in Message
        BY MessageEdits
      <4>5. [d.messages[key] EXCEPT !.unavailable = TRUE] \in Message
        BY <4>3, <4>4
      <4>6. e.messages = [d.messages EXCEPT ![key] = [d.messages[key] EXCEPT !.unavailable = TRUE]]
        BY <1>3, <3>1 DEF Hidden, key
      <4> DEFINE m2 == [d.messages[key] EXCEPT !.unavailable = TRUE]
      <4>7. m2 \in Message /\ e.messages = [d.messages EXCEPT ![key] = m2]
        BY <4>5, <4>6
      <4> HIDE DEF m2
      <4>. QED
        BY <1>2, <4>7 DEF Told
    <3>2. CASE ~(header.history # None /\ HasMessage(header.history))
      BY <1>2, <1>3, <3>2 DEF Told
    <3>. QED
      BY <3>1, <3>2
  <2>2. HasMessage(header.history) => MessageKey(header.history) \in DOMAIN d.messages
    BY <1>2, <1>5, <1>7, <1>8 DEF Told
  <2>3. \A p \in DOMAIN e.headers :
          HasMessage(e.headers[p].history) => MessageKey(e.headers[p].history) \in DOMAIN e.messages
    BY <1>2, <1>11, <2>1, <2>2 DEF Told
  <2>. QED
    BY <2>1, <2>3 DEF Told
<1>17. Listed(e)
  BY <1>2, <1>3 DEF Listed
<1>18. Dated(e)
  <2>1. d.epoch \in Nat /\ RedactionEpoch(d) \in 0..d.epoch
    BY <1>2 DEF Dated
  <2>2. \A a, b : Marker(a, b).availability = a /\ Marker(a, b).redaction = b
    BY DEF Marker
  <2>3. e.marker.redaction \in 0..(d.epoch + 1)
    BY <1>3, <2>1, <2>2
  <2>. QED
    BY <1>3, <2>1, <2>3 DEF Dated, RedactionEpoch
<1>19. Sound(e)
  BY <1>3, <1>10, <1>14, <1>15, <1>16, <1>17, <1>18 DEF Sound
<1>. QED
  BY <1>0, <1>1, <1>6, <1>10, <1>19

-----------------------------------------------------------------------------
(* Every action keeps the invariant. *)

\* What an append was admitted on does not depend on chunks or cleanup rows.
LEMMA AdmittedKept ==
    ASSUME NEW d, NEW e, NEW input, Admitted(d, input),
           e.headers = d.headers, e.heads = d.heads, e.messages = d.messages,
           e.events = d.events, e.calls = d.calls, e.results = d.results,
           e.epoch = d.epoch, e.marker = d.marker
    PROVE  Admitted(e, input)
<1>1. RedactionEpoch(e) = RedactionEpoch(d)
  BY DEF RedactionEpoch
<1>2. \A r : HeadPin(e, r) = HeadPin(d, r) /\ HeadOf(e, r) = HeadOf(d, r)
  BY DEF HeadPin, HeadOf
<1>3. \A h : MessageAvailable(d, h) => MessageAvailable(e, h)
  BY DEF MessageAvailable
<1>4. \A c : CheckpointAvailable(d, c, FALSE) => CheckpointAvailable(e, c, FALSE)
  BY <1>1 DEF CheckpointAvailable
<1>5. \A p : SelfAvailable(d, p, FALSE) => SelfAvailable(e, p, FALSE)
  BY <1>2, <1>3, <1>4 DEF SelfAvailable
<1>6. \A p : Readable(d, p) => Readable(e, p)
  BY <1>5 DEF Readable, Available
<1>7. CallLinked(e, input)
  BY <1>2, <1>6 DEF CallLinked, Admitted
<1>8. ValidHistorySources(e, input.sources)
  BY <1>6 DEF ValidHistorySources, Admitted
<1>9. Streams(input) => MessageFollows(e, input)
  BY DEF MessageFollows, Admitted
<1>. QED
  BY <1>7, <1>8, <1>9 DEF Admitted

LEMMA InitInvariant == Init => IInv
<1> SUFFICES ASSUME Init PROVE IInv
  OBVIOUS
<1>1. Sound(db)
  BY EmptySound DEF Init
<1>2. Receipts
  BY DEF Init, InitKernel, Receipts
<1>. QED
  BY <1>1, <1>2 DEF Init, InitKernel, IInv, Uploading, Locked

\* The calls that find the lock free and leave it free.
LEMMA UnlockedKeeps ==
    ASSUME IInv, Sound(db)', Receipts', ~Locked, UNCHANGED <<upload, faults>>
    PROVE  IInv'
  BY DEF IInv, Uploading, Locked

LEMMA BeginAppendKeeps ==
    ASSUME IInv, NEW op, NEW input, NEW size, input \in Appends, size \in Sizes,
           BeginAppend(op, input, size)
    PROVE  IInv'
<1>0. PICK pin : pin = FreshPin(db, "History")
  OBVIOUS
<1>1. /\ ~Locked /\ op \in Ops /\ op \notin DOMAIN operations
      /\ HasRoom(db, "History")
      /\ Admitted(db, input)
      /\ db' = [db EXCEPT !.pending = WithRow(@, pin[1], [pin |-> pin, purge |-> FALSE])]
      /\ upload' = [op |-> op, input |-> input, size |-> size, pin |-> pin, written |-> 0]
      /\ UNCHANGED <<operations, applied, faults>>
  BY <1>0 DEF BeginAppend, Begin, Offered, NotStored, Admitted
<1>2. /\ pin \in Pins /\ pin = PinOf(pin[1], 1)
      /\ pin[1] \in Records /\ pin[1] \notin Used(db)
  BY <1>0, <1>1, FreshPinTyped
<1>3. Sound(db)
  BY DEF IInv
<1>4. Sound(db')
  BY <1>1, <1>2, <1>3, PendingKeepsSound
<1>5. DOMAIN db = Rows
  BY <1>3 DEF Sound
<1>6. /\ db'.headers = db.headers /\ db'.heads = db.heads /\ db'.messages = db.messages
      /\ db'.events = db.events /\ db'.calls = db.calls /\ db'.results = db.results
      /\ db'.epoch = db.epoch /\ db'.marker = db.marker
      /\ db'.pending = WithRow(db.pending, pin[1], [pin |-> pin, purge |-> FALSE])
  BY <1>1, <1>5 DEF Rows
<1>7. Admitted(db', input)
  BY <1>1, <1>6, AdmittedKept
<1>8. pin[1] \in DOMAIN db'.pending /\ ~db'.pending[pin[1]].purge
  BY <1>6 DEF WithRow
<1>9. /\ upload' \in Uploads /\ upload'.op = op /\ upload'.input = input /\ upload'.pin = pin
      /\ upload'.written = 0 /\ upload'.size = size
  BY <1>1, <1>2 DEF Uploads
<1>10. Uploading'
  BY <1>1, <1>2, <1>7, <1>8, <1>9 DEF Uploading
<1>11. Receipts'
  BY <1>1 DEF Receipts, IInv
<1>. QED
  BY <1>1, <1>4, <1>10, <1>11 DEF IInv

LEMMA UploadChunkKeeps ==
    ASSUME IInv, UploadChunk
    PROVE  IInv'
<1>0. PICK n : n = upload.written + 1
  OBVIOUS
<1>1. /\ Locked /\ upload.written < upload.size
      /\ db' = [db EXCEPT !.payloads = @ \cup {<<upload.pin, n>>}]
      /\ upload' = [upload EXCEPT !.written = n]
      /\ UNCHANGED <<operations, applied, faults>>
  BY <1>0 DEF UploadChunk
<1>2. /\ upload \in Uploads /\ upload.op \notin DOMAIN operations
      /\ upload.pin = PinOf(upload.pin[1], 1)
      /\ upload.pin[1] \in DOMAIN db.pending /\ ~db.pending[upload.pin[1]].purge
      /\ \A i \in 1..upload.written : <<upload.pin, i>> \in db.payloads
      /\ Admitted(db, upload.input)
  BY <1>1 DEF IInv, Uploading
<1>3. upload.pin \in Pins /\ upload.written \in Nat /\ upload.size \in Sizes /\ upload.size \in Nat
  BY <1>2 DEF Uploads
<1>4. n \in 1..MaxChunks /\ n \in Nat /\ n <= upload.size
  BY <1>0, <1>1, <1>3, MaxChunksBound
<1>5. Sound(db)
  BY DEF IInv
<1>6. Sound(db')
  BY <1>1, <1>2, <1>3, <1>4, <1>5, ChunkKeepsSound
<1>7. DOMAIN db = Rows
  BY <1>5 DEF Sound
<1>8. /\ db'.headers = db.headers /\ db'.heads = db.heads /\ db'.messages = db.messages
      /\ db'.events = db.events /\ db'.calls = db.calls /\ db'.results = db.results
      /\ db'.epoch = db.epoch /\ db'.marker = db.marker /\ db'.pending = db.pending
      /\ db'.payloads = db.payloads \cup {<<upload.pin, n>>}
  BY <1>1, <1>7 DEF Rows
<1>9. Admitted(db', upload.input)
  BY <1>2, <1>8, AdmittedKept
<1>10. /\ upload' \in Uploads /\ upload'.op = upload.op /\ upload'.input = upload.input
       /\ upload'.pin = upload.pin /\ upload'.written = n /\ upload'.size = upload.size
  BY <1>1, <1>2, <1>4 DEF Uploads
<1>11. \A i \in 1..n : <<upload.pin, i>> \in db'.payloads
  BY <1>0, <1>2, <1>3, <1>8
<1>12. Uploading'
  BY <1>1, <1>2, <1>4, <1>8, <1>9, <1>10, <1>11 DEF Uploading
<1>13. Receipts'
  BY <1>1 DEF Receipts, IInv
<1>. QED
  BY <1>1, <1>6, <1>12, <1>13 DEF IInv

LEMMA AbandonKeeps ==
    ASSUME IInv, AbandonUpload \/ Crash
    PROVE  IInv'
<1>1. upload' = None /\ faults' \in 0..MaxFaults /\ UNCHANGED <<db, operations, applied>>
  BY DEF AbandonUpload, Crash, IInv
<1>2. Uploading'
  BY <1>1 DEF Uploading, Locked
<1>. QED
  BY <1>1, <1>2 DEF IInv, Receipts

\* commit_operation: the first commit under an identifier, which is what
\* the abstract specification calls a decision.
LEMMA CommitDecides ==
    ASSUME Receipts, NEW op, NEW pin, op \in Ops, op \notin DOMAIN operations, pin \in Pins,
           operations' = WithRow(operations, op, pin),
           applied' = [applied EXCEPT ![op] = @ + 1] \/ applied' = applied
    PROVE  Receipts' /\ AMO!Decide(op)
<1>1. /\ DOMAIN operations' = DOMAIN operations \cup {op}
      /\ operations' \in [DOMAIN operations \cup {op} -> Pins]
      /\ \A o \in DOMAIN operations : operations'[o] = operations[o]
  BY DEF Receipts, WithRow
<1>2. applied[op] = 0 /\ applied \in [Ops -> Nat]
  BY DEF Receipts
<1>3. applied' = [applied EXCEPT ![op] = 1] \/ applied' = applied
  BY <1>2
<1>4. applied' \in [Ops -> Nat] /\ \A o \in Ops : o # op => applied'[o] = applied[o]
  BY <1>2, <1>3
<1>5. Receipts'
  BY <1>1, <1>4 DEF Receipts
<1>6. AMO!Decide(op)
  BY <1>1, <1>3 DEF AMO!Decide
<1>. QED
  BY <1>5, <1>6

LEMMA FinishAppendKeeps ==
    ASSUME IInv, FinishAppend
    PROVE  IInv' /\ upload.op \in Ops /\ AMO!Decide(upload.op)
<1>1. /\ Locked /\ upload.written = upload.size
      /\ db' = HistoryBatch(db, upload.input, upload.size, upload.pin)
      /\ operations' = WithRow(operations, upload.op, upload.pin)
      /\ applied' = [applied EXCEPT ![upload.op] = @ + 1]
      /\ upload' = None /\ faults' = faults
  BY DEF FinishAppend, CommitOperation
<1>2. /\ upload \in Uploads /\ upload.op \notin DOMAIN operations
      /\ upload.pin = PinOf(upload.pin[1], 1)
      /\ upload.pin[1] \in DOMAIN db.pending /\ ~db.pending[upload.pin[1]].purge
      /\ \A i \in 1..upload.size : <<upload.pin, i>> \in db.payloads
      /\ Admitted(db, upload.input)
  BY <1>1 DEF IInv, Uploading
<1>3. /\ upload.pin \in Pins /\ upload.op \in Ops /\ upload.size \in Sizes
      /\ upload.input \in Appends
  BY <1>2 DEF Uploads
<1>4. Sound(db) /\ Receipts
  BY DEF IInv
<1>5. Sound(db')
  BY <1>1, <1>2, <1>3, <1>4, EventKeepsSound
<1>6. Receipts' /\ AMO!Decide(upload.op)
  BY <1>1, <1>2, <1>3, <1>4, CommitDecides
<1>7. Uploading'
  BY <1>1 DEF Uploading, Locked
<1>. QED
  BY <1>1, <1>3, <1>5, <1>6, <1>7 DEF IInv

LEMMA AppendAgainKeeps ==
    ASSUME IInv, NEW op, NEW event, AppendAgain(op, event)
    PROVE  IInv' /\ op \in Ops /\ AMO!Decide(op)
<1>1. /\ ~Locked /\ op \in Ops /\ op \notin DOMAIN operations
      /\ event \in DOMAIN db.events
      /\ operations' = WithRow(operations, op, db.events[event].pin)
      /\ UNCHANGED <<db, applied, upload, faults>>
  BY DEF AppendAgain, Begin, Offered, NotStored, CommitReceipt
<1>2. Sound(db) /\ Receipts
  BY DEF IInv
<1>3. db.events[event].pin \in Pins
  BY <1>1, <1>2 DEF Sound, Listed
<1>4. Receipts' /\ AMO!Decide(op)
  BY <1>1, <1>2, <1>3, CommitDecides
<1>5. Sound(db)'
  BY <1>1, <1>2
<1>. QED
  BY <1>1, <1>4, <1>5, UnlockedKeeps

\* recover_payloads takes the rows in key order, so there is a first one.
LEMMA FirstPendingExists ==
    ASSUME NEW d, Cleanup(d), DOMAIN d.pending # {}
    PROVE  FirstPending(d) \in DOMAIN d.pending
<1> DEFINE rows == DOMAIN d.pending
           bytes == {KindByte(r[1]) : r \in rows}
<1>1. \A k \in KindSet : KindByte(k) \in Nat /\ Kinds[KindByte(k)] = k
  <2>1. DOMAIN Kinds \subseteq Nat
    BY DEF Kinds
  <2>2. ASSUME NEW k \in KindSet PROVE \E i \in DOMAIN Kinds : Kinds[i] = k
    BY DEF KindSet
  <2>3. ASSUME NEW k \in KindSet
        PROVE  KindByte(k) \in DOMAIN Kinds /\ Kinds[KindByte(k)] = k
    BY <2>2 DEF KindByte
  <2>. QED
    BY <2>1, <2>3
<1>2. rows \subseteq Records
  BY DEF Cleanup
<1>3. \A r \in rows : KindByte(r[1]) \in Nat /\ r[2] \in Nat /\ r[1] \in KindSet
  BY <1>1, <1>2, RecordShape
<1>4. bytes \subseteq Nat /\ bytes # {}
  BY <1>3
<1>5. PICK b \in bytes : \A c \in bytes : b <= c
  <2> HIDE DEF bytes
  <2>. QED
    BY <1>4, LeastNatural
<1> DEFINE numbers == {r[2] : r \in {s \in rows : KindByte(s[1]) = b}}
<1>6. numbers \subseteq Nat /\ numbers # {}
  BY <1>3, <1>5
<1>7. PICK n \in numbers : \A m \in numbers : n <= m
  <2> HIDE DEF numbers
  <2>. QED
    BY <1>6, LeastNatural
<1>8. PICK r \in rows : KindByte(r[1]) = b /\ r[2] = n
  BY <1>7
<1>9. ASSUME NEW s \in rows PROVE KeyBefore(r, s)
  <2>1. b <= KindByte(s[1]) /\ KindByte(s[1]) \in Nat /\ b \in Nat
    BY <1>3, <1>4, <1>5
  <2>2. CASE KindByte(s[1]) = b
    <3>1. n <= s[2]
      BY <1>7, <2>2
    <3>2. r[1] = s[1]
      BY <1>1, <1>3, <1>8, <2>2
    <3>. QED
      BY <1>8, <3>1, <3>2 DEF KeyBefore
  <2>3. CASE KindByte(s[1]) # b
    BY <1>8, <2>1, <2>3 DEF KeyBefore
  <2>. QED
    BY <2>2, <2>3
<1>. QED
  BY <1>9 DEF FirstPending

LEMMA RecoverKeeps ==
    ASSUME IInv, NEW budget, RecoverPayloads(budget)
    PROVE  IInv' /\ UNCHANGED <<operations, applied>>
<1> DEFINE record == FirstPending(db)
           chunks == ChunksToRemove(db, record)
<1>1. /\ ~Locked /\ DOMAIN db.pending # {} /\ UNCHANGED <<operations, applied, upload, faults>>
      /\ \/ db' = [WithoutPending(db, record) EXCEPT !.payloads = @ \ chunks]
         \/ \E removed \in SUBSET chunks : db' = [db EXCEPT !.payloads = @ \ removed]
  BY DEF RecoverPayloads
<1>2. Sound(db) /\ Receipts
  BY DEF IInv
<1>3. record \in DOMAIN db.pending
  BY <1>1, <1>2, FirstPendingExists DEF Sound
<1> HIDE DEF record
<1>4. Sound(db')
  <2>1. PICK removed \in SUBSET ChunksToRemove(db, record) :
           \/ db' = [db EXCEPT !.payloads = @ \ removed]
           \/ /\ removed = ChunksToRemove(db, record)
              /\ db' = [WithoutPending(db, record) EXCEPT !.payloads = @ \ removed]
    BY <1>1
  <2>. QED
    BY <1>2, <1>3, <2>1, RecoveryKeepsSound
<1>. QED
  BY <1>1, <1>2, <1>4, UnlockedKeeps DEF Receipts

LEMMA ChangeStateKeeps ==
    ASSUME IInv, NEW op, NEW record, NEW state, state \in {"Retracted", "Purged"},
           ChangeState(op, record, state)
    PROVE  IInv' /\ op \in Ops /\ AMO!Decide(op)
<1>1. /\ ~Locked /\ op \in Ops /\ op \notin DOMAIN operations /\ Revisable(db, record)
      /\ db' = StateBatch(db, record, state)
      /\ operations' = WithRow(operations, op, NextPin(db, record))
      /\ applied' = [applied EXCEPT ![op] = @ + 1]
      /\ UNCHANGED <<upload, faults>>
  BY DEF ChangeState, Begin, Offered, NotStored, CommitOperation
<1>2. Sound(db) /\ Receipts
  BY DEF IInv
<1>3. Sound(db') /\ NextPin(db, record) \in Pins
  BY <1>1, <1>2, StateKeepsSound
<1>4. Receipts' /\ AMO!Decide(op)
  BY <1>1, <1>2, <1>3, CommitDecides
<1>. QED
  BY <1>1, <1>3, <1>4, UnlockedKeeps

\* A step keeps the invariant, and decides at most one operation.
LEMMA NextInvariant ==
    ASSUME IInv, [Next]_vars
    PROVE  IInv' /\ ((\E op \in Ops : AMO!Decide(op)) \/ UNCHANGED <<operations, applied>>)
<1>1. ASSUME NEW op \in Ops, NEW session \in Sessions, NEW event \in OfferedEvents(session),
             NEW kind \in HistoryKinds, NEW size \in Sizes, NEW sources \in Cited(db),
             BeginAppend(op, [session |-> session, event |-> event, kind |-> kind,
                              sources |-> sources], size)
      PROVE  IInv' /\ UNCHANGED <<operations, applied>>
  <2> DEFINE input == [session |-> session, event |-> event, kind |-> kind, sources |-> sources]
  <2>1. event \in 1..MaxEvents
    BY DEF OfferedEvents
  <2>2. sources \subseteq Pins
    BY DEF Cited, IInv, Sound, Heads
  <2>3. input \in Appends
    BY <2>1, <2>2 DEF Appends
  <2> HIDE DEF input
  <2>4. BeginAppend(op, input, size)
    BY <1>1 DEF input
  <2>5. IInv'
    BY <2>3, <2>4, BeginAppendKeeps
  <2>. QED
    BY <2>4, <2>5 DEF BeginAppend
<1>2. CASE UploadChunk
  BY <1>2, UploadChunkKeeps DEF UploadChunk
<1>3. CASE AbandonUpload \/ Crash
  BY <1>3, AbandonKeeps DEF AbandonUpload, Crash
<1>4. CASE FinishAppend
  BY <1>4, FinishAppendKeeps
<1>5. ASSUME NEW op \in Ops, NEW event \in DOMAIN db.events, AppendAgain(op, event)
      PROVE  IInv' /\ \E o \in Ops : AMO!Decide(o)
  BY <1>5, AppendAgainKeeps
<1>6. ASSUME NEW budget \in 1..MaxChunks, RecoverPayloads(budget)
      PROVE  IInv' /\ UNCHANGED <<operations, applied>>
  BY <1>6, RecoverKeeps
<1>7. ASSUME NEW op \in Ops, NEW record \in DOMAIN db.heads,
             Retract(op, record) \/ Purge(op, record)
      PROVE  IInv' /\ \E o \in Ops : AMO!Decide(o)
  BY <1>7, ChangeStateKeeps DEF Retract, Purge
<1>8. CASE UNCHANGED vars
  BY <1>8 DEF vars, IInv, Uploading, Locked, Receipts
<1>9. CASE HistoryStep
  BY <1>1, <1>2, <1>3, <1>4, <1>5, <1>6, <1>9 DEF HistoryStep
<1>10. CASE ChangeStep
  BY <1>7, <1>10 DEF ChangeStep
<1>. QED
  BY <1>8, <1>9, <1>10 DEF Next

\* The invariant holds in every reachable state of the history.
THEOREM Invariance == Spec => []IInv
<1>1. IInv /\ [Next]_vars => IInv'
  BY NextInvariant
<1>. QED
  BY InitInvariant, <1>1, PTL DEF Spec

\* append_history, recover_payloads, purge: whatever is interrupted, no chunk
\* of a readable revision is missing, no chunk is left without a record or a
\* cleanup row, and no cleanup row names live data.
THEOREM PayloadsAreExact == Spec => []PayloadsExact
<1>1. IInv => PayloadsExact
  <2> SUFFICES ASSUME IInv PROVE PayloadsExact
    OBVIOUS
  <2>1. Sound(db)
    BY DEF IInv
  <2>2. NoOrphanChunks
    BY <2>1 DEF NoOrphanChunks, Sound, Chunks
  <2>3. ASSUME NEW r \in DOMAIN db.pending PROVE Abandoned(db, r)
    BY <2>1 DEF Sound, Cleanup, Abandoned, Exists
  <2>4. ASSUME NEW p \in DOMAIN db.headers, Readable(db, p),
               NEW i \in 1..db.headers[p].payload.chunks
        PROVE  <<PinOf(p[1], db.headers[p].payload.revision), i>> \in db.payloads
    <3>1. HeadOf(db, p[1]).state # "Purged"
      BY <2>4 DEF Readable, Available, SelfAvailable
    <3>2. db.headers[p].payload.revision = 1
      BY <2>1 DEF Sound, Headers, Revision
    <3>. QED
      BY <2>1, <3>1, <3>2 DEF Sound, Chunks
  <2>. QED
    BY <2>2, <2>3, <2>4 DEF PayloadsExact, CommittedReadable
<1>. QED
  BY Invariance, <1>1, PTL

\* replay, commit_operation: the history implements at-most-once operations.
\* An identifier that is not in the table has had no effects, so the commit
\* that enters it there applies them for the first time.
THEOREM OperationsOnce == Spec => OperationsAtMostOnce
<1>1. Init => AMO!Init
  BY DEF Init, InitKernel, AMO!Init
<1>2. IInv /\ [Next]_vars => [AMO!Next]_(AMO!vars)
  BY NextInvariant DEF AMO!Next, AMO!vars
<1>. QED
  BY Invariance, <1>1, <1>2, PTL DEF Spec, OperationsAtMostOnce, AMO!Spec

-----------------------------------------------------------------------------
(* What can no longer be read. *)

\* A batch that changes no stored revision, revives no purged record and
\* shows no hidden message makes nothing readable again.
StaysHidden(d, e) ==
    /\ \A p \in DOMAIN d.headers : p \in DOMAIN e.headers /\ e.headers[p] = d.headers[p]
    /\ \A r \in DOMAIN d.heads : HeadOf(d, r).state = "Purged" => HeadOf(e, r).state = "Purged"
    /\ \A k \in DOMAIN d.messages : d.messages[k].unavailable => e.messages[k].unavailable

LEMMA HiddenIsUnreadable ==
    ASSUME NEW d, NEW e, Sound(d), StaysHidden(d, e)
    PROVE  \A p \in DOMAIN d.headers : ~Readable(d, p) => ~Readable(e, p)
<1>1. ASSUME NEW p \in DOMAIN d.headers, SelfAvailable(e, p, FALSE)
      PROVE  SelfAvailable(d, p, FALSE)
  <2>1. /\ e.headers[p] = d.headers[p] /\ d.headers[p].checkpoint = None
        /\ p[1] \in DOMAIN d.heads
    BY DEF StaysHidden, Sound, Headers, Revision, Heads
  <2>2. HeadOf(d, p[1]).state # "Purged" /\ d.headers[p].state # "Purged"
    BY <1>1, <2>1 DEF SelfAvailable, StaysHidden
  <2>3. d.headers[p].history # None => MessageAvailable(e, d.headers[p].history)
    BY <1>1, <2>1 DEF SelfAvailable
  <2>4. d.headers[p].history # None => MessageAvailable(d, d.headers[p].history)
    BY <2>3 DEF MessageAvailable, StaysHidden, Sound, Told
  <2>. QED
    BY <2>1, <2>2, <2>4 DEF SelfAvailable
<1>2. ASSUME NEW p \in DOMAIN d.headers, Readable(e, p)
      PROVE  Readable(d, p)
  <2>1. /\ e.headers[p].rests = d.headers[p].rests
        /\ d.headers[p].rests \subseteq DOMAIN d.headers
    BY DEF StaysHidden, Sound, Headers, Revision
  <2>. QED
    BY <1>1, <1>2, <2>1 DEF Readable, Available
<1>. QED
  BY <1>2

LEMMA SameStaysHidden ==
    ASSUME NEW d, NEW e, e.headers = d.headers, e.heads = d.heads, e.messages = d.messages
    PROVE  StaysHidden(d, e)
  BY DEF StaysHidden, HeadOf, HeadPin

LEMMA EventStaysHidden ==
    ASSUME NEW d, NEW input, NEW size, NEW pin, NEW e,
           Sound(d), Sound(e), input \in Appends, Admitted(d, input),
           pin \in Pins, pin[2] = 1, pin[1] \notin DOMAIN d.heads,
           e = HistoryBatch(d, input, size, pin)
    PROVE  StaysHidden(d, e)
<1>0. PICK header : header = EventHeader(d, input, size)
  OBVIOUS
<1>1. DOMAIN d = Rows /\ Heads(d)
  BY DEF Sound
<1>2. /\ e.headers = WithRow(d.headers, pin, header)
      /\ e.heads = WithRow(d.heads, pin[1], pin[2])
      /\ e.messages = IF Streams(input)
                      THEN WithRow(d.messages, MessageKey(input), MessageTransition(d, input))
                      ELSE d.messages
  BY <1>0, <1>1, HistoryRows
<1>3. pin \notin DOMAIN d.headers
  BY <1>1 DEF Heads
<1>4. \A p \in DOMAIN d.headers : p \in DOMAIN e.headers /\ e.headers[p] = d.headers[p]
  BY <1>2, <1>3 DEF WithRow
<1>5. ASSUME NEW r \in DOMAIN d.heads PROVE HeadOf(e, r) = HeadOf(d, r)
  <2>1. e.heads[r] = d.heads[r]
    BY <1>2 DEF WithRow
  <2>2. HeadPin(e, r) = HeadPin(d, r) /\ HeadPin(d, r) \in DOMAIN d.headers
    BY <1>1, <2>1, HeadIsRevision DEF HeadPin
  <2>. QED
    BY <1>4, <2>2 DEF HeadOf
<1>6. ASSUME NEW k \in DOMAIN d.messages PROVE e.messages[k].unavailable = d.messages[k].unavailable
  <2>1. CASE Streams(input) /\ k = MessageKey(input)
    <3>1. MessageTransition(d, input).unavailable = d.messages[MessageKey(input)].unavailable
      BY <2>1, MessageMoves
    <3>2. e.messages[k] = MessageTransition(d, input)
      BY <1>2, <2>1 DEF WithRow
    <3>. QED
      BY <2>1, <3>1, <3>2
  <2>2. CASE Streams(input) /\ k # MessageKey(input)
    BY <1>2, <2>2 DEF WithRow
  <2>3. CASE ~Streams(input)
    BY <1>2, <2>3
  <2>. QED
    BY <2>1, <2>2, <2>3
<1>. QED
  BY <1>4, <1>5, <1>6 DEF StaysHidden

LEMMA StateStaysHidden ==
    ASSUME NEW d, NEW r, NEW state, NEW e, Sound(d), Revisable(d, r),
           state \in {"Retracted", "Purged"}, e = StateBatch(d, r, state)
    PROVE  StaysHidden(d, e)
<1>0. PICK pin : pin = NextPin(d, r)
  OBVIOUS
<1>1. PICK header : header = Restated(HeadOf(d, r), state)
  OBVIOUS
<1>2. DOMAIN d = Rows
  BY DEF Sound
<1>3. e.messages = IF header.history # None /\ HasMessage(header.history)
                   THEN Hidden(d.messages, MessageKey(header.history)) ELSE d.messages
  BY <1>0, <1>1, <1>2, StateRows
<1>4. Revised(d, e, pin, header)
  BY <1>0, <1>1, StateKeepsSound
<1>5. pin[1] = r /\ r \in DOMAIN d.heads /\ HeadOf(d, r).state # "Purged"
  BY <1>0 DEF NextPin, PinOf, Revisable, Exists
<1>6. \A p \in DOMAIN d.headers : p \in DOMAIN e.headers /\ e.headers[p] = d.headers[p]
  BY <1>4 DEF Revised
<1>7. \A s \in DOMAIN d.heads : HeadOf(d, s).state = "Purged" => HeadOf(e, s).state = "Purged"
  BY <1>4, <1>5 DEF Revised
<1>8. ASSUME NEW k \in DOMAIN d.messages, d.messages[k].unavailable
      PROVE  e.messages[k].unavailable
  <2>1. d.messages[k] \in Message
    BY DEF Sound, Told
  <2>2. CASE header.history # None /\ HasMessage(header.history) /\ k = MessageKey(header.history)
    <3>1. e.messages[k] = [d.messages[k] EXCEPT !.unavailable = TRUE]
      BY <1>3, <2>2 DEF Hidden
    <3>2. PICK m \in Message : m = d.messages[k]
      BY <2>1
    <3>3. e.messages[k] = [m EXCEPT !.unavailable = TRUE]
      BY <3>1, <3>2
    <3>. QED
      BY <3>3, MessageEdits
  <2>3. CASE ~(header.history # None /\ HasMessage(header.history) /\ k = MessageKey(header.history))
    <3>1. e.messages[k] = d.messages[k]
      BY <1>3, <2>3 DEF Hidden
    <3>. QED
      BY <1>8, <3>1
  <2>. QED
    BY <2>2, <2>3
<1>. QED
  BY <1>6, <1>7, <1>8 DEF StaysHidden

\* purge, retract, invalidate_message: no later append, upload, recovery or
\* change of state makes readable again what was withdrawn once.
THEOREM UnreadableStays == Spec => UnreadableForever
<1> DEFINE A == \A p \in DOMAIN db.headers : ~Readable(db, p) => ~Readable(db', p)
<1>1. ASSUME IInv, IInv', [Next]_vars PROVE A
  <2>1. Sound(db) /\ Sound(db') /\ DOMAIN db = Rows
    BY <1>1 DEF IInv, Sound
  <2> SUFFICES StaysHidden(db, db')
    BY <2>1, HiddenIsUnreadable
  <2>2. ASSUME db'.headers = db.headers, db'.heads = db.heads, db'.messages = db.messages
        PROVE  StaysHidden(db, db')
    BY <2>2, SameStaysHidden
  <2>3. ASSUME NEW op, NEW input, NEW size, BeginAppend(op, input, size)
        PROVE  StaysHidden(db, db')
    <3>1. PICK pending : db' = [db EXCEPT !.pending = pending]
      BY <2>3 DEF BeginAppend
    <3>. QED
      BY <2>1, <2>2, <3>1 DEF Rows
  <2>4. CASE UploadChunk
    <3>1. PICK payloads : db' = [db EXCEPT !.payloads = payloads]
      BY <2>4 DEF UploadChunk
    <3>. QED
      BY <2>1, <2>2, <3>1 DEF Rows
  <2>5. CASE FinishAppend
    <3>1. /\ Locked /\ upload \in Uploads /\ Admitted(db, upload.input)
          /\ upload.pin = PinOf(upload.pin[1], 1)
          /\ upload.pin[1] \in DOMAIN db.pending /\ ~db.pending[upload.pin[1]].purge
      BY <1>1, <2>5 DEF FinishAppend, IInv, Uploading
    <3>2. db' = HistoryBatch(db, upload.input, upload.size, upload.pin)
      BY <2>5 DEF FinishAppend, CommitOperation
    <3>3. upload.pin \in Pins /\ upload.input \in Appends
      BY <3>1 DEF Uploads
    <3>4. upload.pin[2] = 1
      BY <3>1 DEF PinOf
    <3>5. upload.pin[1] \notin DOMAIN db.heads
      BY <2>1, <3>1 DEF Sound, Cleanup
    <3>. QED
      BY <2>1, <3>1, <3>2, <3>3, <3>4, <3>5, EventStaysHidden
  <2>6. ASSUME NEW budget, RecoverPayloads(budget)
        PROVE  StaysHidden(db, db')
    <3>1. \/ \E payloads : db' = [db EXCEPT !.payloads = payloads]
          \/ \E r, payloads : db' = [WithoutPending(db, r) EXCEPT !.payloads = payloads]
      BY <2>6 DEF RecoverPayloads
    <3>2. CASE \E payloads : db' = [db EXCEPT !.payloads = payloads]
      BY <2>1, <2>2, <3>2 DEF Rows
    <3>3. ASSUME NEW r, NEW payloads, db' = [WithoutPending(db, r) EXCEPT !.payloads = payloads]
          PROVE  StaysHidden(db, db')
      <4>1. PICK pending : WithoutPending(db, r) = [db EXCEPT !.pending = pending]
        BY DEF WithoutPending
      <4>2. db' = [[db EXCEPT !.pending = pending] EXCEPT !.payloads = payloads]
        BY <3>3, <4>1
      <4>. QED
        BY <2>1, <2>2, <4>2 DEF Rows
    <3>. QED
      BY <3>1, <3>2, <3>3
  <2>7. ASSUME NEW op, NEW record, Retract(op, record) \/ Purge(op, record)
        PROVE  StaysHidden(db, db')
    <3>1. PICK state \in {"Retracted", "Purged"} :
             Revisable(db, record) /\ db' = StateBatch(db, record, state)
      BY <2>7 DEF Retract, Purge, ChangeState, CommitOperation
    <3>. QED
      BY <2>1, <3>1, StateStaysHidden
  <2>8. CASE db' = db
    BY <2>2, <2>8
  <2>9. CASE HistoryStep
    <3>1. ASSUME NEW op, NEW event, AppendAgain(op, event) PROVE db' = db
      BY <3>1 DEF AppendAgain, CommitReceipt
    <3>2. CASE AbandonUpload \/ Crash
      BY <2>8, <3>2 DEF AbandonUpload, Crash
    <3>. QED
      BY <2>3, <2>4, <2>5, <2>6, <2>8, <2>9, <3>1, <3>2 DEF HistoryStep
  <2>10. CASE ChangeStep
    BY <2>7, <2>10 DEF ChangeStep
  <2>. QED
    BY <1>1, <2>8, <2>9, <2>10 DEF Next, vars
<1>2. IInv /\ IInv' /\ [Next]_vars => [A]_vars
  BY <1>1
<1> HIDE DEF A
<1>3. Spec => [][A]_vars
  BY Invariance, <1>2, PTL DEF Spec
<1>. QED
  BY <1>3 DEF UnreadableForever, A

-----------------------------------------------------------------------------
(* The history of a session. *)

EntryIn(d, s, i) == d.headers[PinOf(d.order[s][i], 1)].history

\* Every event has its place, and every place its event.
Placed(d) ==
    /\ \A s \in Sessions : \A i \in DOMAIN d.order[s] :
          LET entry == EntryIn(d, s, i)
          IN /\ d.order[s][i] \in DOMAIN d.heads
             /\ entry.session = s /\ entry.sequence = i
             /\ <<s, entry.event>> \in DOMAIN d.events
             /\ d.events[<<s, entry.event>>].pin = PinOf(d.order[s][i], 1)
    /\ \A r \in DOMAIN d.heads :
          LET entry == d.headers[PinOf(r, 1)].history
          IN entry.sequence \in DOMAIN d.order[entry.session] /\ d.order[entry.session][entry.sequence] = r

\* The tables of calls and results say where in the history they are.
CallBefore(d, s, call, n) ==
    \E j \in DOMAIN d.order[s] :
       j < n /\ EntryIn(d, s, j).kind.tag = "ToolCall" /\ EntryIn(d, s, j).kind.call = call
LinkedAt(d, s, i) ==
    LET kind == EntryIn(d, s, i).kind
        key == <<s, kind.call>>
    IN /\ kind.tag = "ToolCall" => key \in DOMAIN d.calls /\ d.calls[key] = d.order[s][i]
       /\ kind.tag = "ToolResult" =>
             /\ key \in DOMAIN d.results /\ d.results[key] = d.order[s][i]
             /\ CallBefore(d, s, kind.call, i)
Linked(d) ==
    \A s \in Sessions :
       /\ \A i \in DOMAIN d.order[s] : LinkedAt(d, s, i)
       /\ \A call \in Calls : <<s, call>> \in DOMAIN d.calls =>
             CallBefore(d, s, call, Len(d.order[s]) + 1)

\* The parts of a message among the first n events of a session.
Parts(d, s, m, tag, n) ==
    {j \in 1..n : EntryIn(d, s, j).kind.tag = tag /\ EntryIn(d, s, j).kind.message = m}

\* The message table counts what the history holds.
CountedAt(d, s, m) ==
    LET key == <<s, m>>
        parts(tag) == Parts(d, s, m, tag, Len(d.order[s]))
    IN /\ key \in DOMAIN d.messages <=> parts("AssistantStarted") # {}
       /\ key \in DOMAIN d.messages =>
             /\ d.messages[key].next = Cardinality(parts("AssistantFragment"))
             /\ d.messages[key].terminal <=> parts("AssistantTerminal") # {}
       /\ key \notin DOMAIN d.messages =>
             parts("AssistantFragment") = {} /\ parts("AssistantTerminal") = {}
Counted(d) == \A s \in Sessions : \A m \in Messages : CountedAt(d, s, m)

\* A message starts, runs through its fragments in order, and ends.
StreamedAt(d, s, i) ==
    LET kind == EntryIn(d, s, i).kind
        before(tag) == Parts(d, s, kind.message, tag, i - 1)
    IN /\ kind.tag = "AssistantStarted" => before("AssistantStarted") = {}
       /\ kind.tag = "AssistantFragment" =>
             Cardinality(before("AssistantFragment")) = kind.ordinal
       /\ kind.tag \in {"AssistantFragment", "AssistantTerminal"} =>
             before("AssistantStarted") # {} /\ before("AssistantTerminal") = {}
Streamed(d) == \A s \in Sessions : \A i \in DOMAIN d.order[s] : StreamedAt(d, s, i)

Written(d) == Placed(d) /\ Linked(d) /\ Counted(d) /\ Streamed(d)

\* Batches that write no event: they add revisions and hide messages at most.
SameHistory(d, e) ==
    /\ e.order = d.order /\ e.events = d.events /\ e.calls = d.calls /\ e.results = d.results
    /\ DOMAIN e.heads = DOMAIN d.heads
    /\ \A p \in DOMAIN d.headers : e.headers[p] = d.headers[p]
    /\ DOMAIN e.messages = DOMAIN d.messages
    /\ \A k \in DOMAIN d.messages :
          e.messages[k].next = d.messages[k].next /\ e.messages[k].terminal = d.messages[k].terminal

LEMMA OrderShape ==
    ASSUME NEW d, Sound(d), NEW s, s \in Sessions
    PROVE  /\ d.order[s] \in Seq(Records) /\ Len(d.order[s]) \in Nat
           /\ DOMAIN d.order[s] = 1..Len(d.order[s])
  BY LenProperties DEF Sound, Listed

LEMMA SameEntries ==
    ASSUME NEW d, NEW e, Sound(d), Written(d), SameHistory(d, e)
    PROVE  /\ \A s \in Sessions : \A i \in DOMAIN d.order[s] : EntryIn(e, s, i) = EntryIn(d, s, i)
           /\ \A r \in DOMAIN d.heads : e.headers[PinOf(r, 1)] = d.headers[PinOf(r, 1)]
<1>1. ASSUME NEW r \in DOMAIN d.heads PROVE e.headers[PinOf(r, 1)] = d.headers[PinOf(r, 1)]
  BY HeadIsRevision DEF Sound, SameHistory
<1>2. ASSUME NEW s \in Sessions, NEW i \in DOMAIN d.order[s]
      PROVE  EntryIn(e, s, i) = EntryIn(d, s, i)
  <2>1. d.order[s][i] \in DOMAIN d.heads /\ e.order[s][i] = d.order[s][i]
    BY DEF Written, Placed, SameHistory
  <2>. QED
    BY <1>1, <2>1 DEF EntryIn
<1>. QED
  BY <1>1, <1>2

\* The parts of a message depend on the entries alone.
LEMMA SameParts ==
    ASSUME NEW d, NEW e, NEW s, NEW m, NEW tag, NEW n, n \in Nat,
           \A i \in 1..n : EntryIn(e, s, i) = EntryIn(d, s, i)
    PROVE  Parts(e, s, m, tag, n) = Parts(d, s, m, tag, n)
  BY DEF Parts

LEMMA SameKeepsWritten ==
    ASSUME NEW d, NEW e, Sound(d), Written(d), SameHistory(d, e)
    PROVE  Written(e)
<1>1. /\ \A s \in Sessions : \A i \in DOMAIN d.order[s] : EntryIn(e, s, i) = EntryIn(d, s, i)
      /\ \A r \in DOMAIN d.heads : e.headers[PinOf(r, 1)] = d.headers[PinOf(r, 1)]
  BY SameEntries
<1>2. /\ e.order = d.order /\ e.events = d.events /\ e.calls = d.calls /\ e.results = d.results
      /\ DOMAIN e.heads = DOMAIN d.heads /\ DOMAIN e.messages = DOMAIN d.messages
      /\ \A k \in DOMAIN d.messages :
            e.messages[k].next = d.messages[k].next /\ e.messages[k].terminal = d.messages[k].terminal
  BY DEF SameHistory
<1>3. Placed(e)
  BY <1>1, <1>2 DEF Written, Placed
<1>4. Linked(e)
  <2>1. ASSUME NEW s \in Sessions, NEW call, NEW n, CallBefore(d, s, call, n)
        PROVE  CallBefore(e, s, call, n)
    BY <1>1, <1>2, <2>1 DEF CallBefore
  <2>2. ASSUME NEW s \in Sessions, NEW i \in DOMAIN d.order[s] PROVE LinkedAt(e, s, i)
    <3>1. LinkedAt(d, s, i) /\ EntryIn(e, s, i) = EntryIn(d, s, i)
      BY <1>1 DEF Written, Linked
    <3>. QED
      BY <1>2, <2>1, <3>1 DEF LinkedAt
  <2>. QED
    BY <1>2, <2>1, <2>2 DEF Written, Linked
<1>5. ASSUME NEW s \in Sessions, NEW m, NEW tag, NEW n \in 0..Len(d.order[s])
      PROVE  Parts(e, s, m, tag, n) = Parts(d, s, m, tag, n)
  <2>1. \A i \in 1..n : EntryIn(e, s, i) = EntryIn(d, s, i)
    BY <1>1, OrderShape
  <2>2. n \in Nat
    OBVIOUS
  <2>. QED
    BY <2>1, <2>2, SameParts
<1>6. Counted(e)
  <2>1. ASSUME NEW s \in Sessions, NEW m \in Messages, NEW tag
        PROVE  Parts(e, s, m, tag, Len(e.order[s])) = Parts(d, s, m, tag, Len(d.order[s]))
    BY <1>2, <1>5, OrderShape
  <2>2. ASSUME NEW s \in Sessions, NEW m \in Messages PROVE CountedAt(e, s, m)
    <3>1. CountedAt(d, s, m)
      BY DEF Written, Counted
    <3>. QED
      BY <1>2, <2>1, <3>1 DEF CountedAt
  <2>. QED
    BY <2>2 DEF Counted
<1>7. Streamed(e)
  <2>1. ASSUME NEW s \in Sessions, NEW i \in DOMAIN d.order[s], NEW m, NEW tag
        PROVE  Parts(e, s, m, tag, i - 1) = Parts(d, s, m, tag, i - 1)
    <3>1. i - 1 \in 0..Len(d.order[s])
      BY OrderShape
    <3>. QED
      BY <1>5, <3>1
  <2>2. ASSUME NEW s \in Sessions, NEW i \in DOMAIN d.order[s] PROVE StreamedAt(e, s, i)
    <3>1. StreamedAt(d, s, i) /\ EntryIn(e, s, i) = EntryIn(d, s, i)
      BY <1>1 DEF Written, Streamed
    <3>. QED
      BY <2>1, <3>1 DEF StreamedAt
  <2>. QED
    BY <1>2, <2>2 DEF Streamed
<1>. QED
  BY <1>3, <1>4, <1>6, <1>7 DEF Written

\* The history e is d with one event more, at the end of its session.
Extended(d, e, input, pin) ==
    LET session == input.session
        n == Len(d.order[session])
        entry == Entry(session, input.event, n + 1, input.kind)
    IN /\ n \in Nat
       /\ DOMAIN e.heads = DOMAIN d.heads \cup {pin[1]} /\ pin[1] \notin DOMAIN d.heads
       /\ \A r \in DOMAIN d.heads : e.headers[PinOf(r, 1)] = d.headers[PinOf(r, 1)]
       /\ e.headers[PinOf(pin[1], 1)].history = entry
       /\ \A s \in Sessions : \A i \in DOMAIN d.order[s] :
             /\ i \in DOMAIN e.order[s] /\ e.order[s][i] = d.order[s][i]
             /\ EntryIn(e, s, i) = EntryIn(d, s, i)
       /\ \A s \in Sessions : s # session =>
             DOMAIN e.order[s] = DOMAIN d.order[s] /\ Len(e.order[s]) = Len(d.order[s])
       /\ DOMAIN e.order[session] = DOMAIN d.order[session] \cup {n + 1}
       /\ DOMAIN d.order[session] = 1..n
       /\ Len(e.order[session]) = n + 1
       /\ e.order[session][n + 1] = pin[1]
       /\ EntryIn(e, session, n + 1) = entry

LEMMA EventExtends ==
    ASSUME NEW d, NEW input, NEW size, NEW pin, NEW e,
           Sound(d), Written(d), input \in Appends,
           pin \in Pins, pin = PinOf(pin[1], 1), pin[1] \notin DOMAIN d.heads,
           e = HistoryBatch(d, input, size, pin)
    PROVE  Extended(d, e, input, pin)
<1>0. PICK header : header = EventHeader(d, input, size)
  OBVIOUS
<1>1. PICK session : session = input.session
  OBVIOUS
<1>2. PICK n : n = Len(d.order[session])
  OBVIOUS
<1>3. DOMAIN d = Rows /\ Heads(d) /\ session \in Sessions
  BY <1>1 DEF Sound, Appends
<1>4. /\ e.headers = WithRow(d.headers, pin, header)
      /\ e.heads = WithRow(d.heads, pin[1], pin[2])
      /\ e.order = Appended(d.order, input.session, pin[1])
  BY <1>0, <1>3, HistoryRows
<1>5. header.history = Entry(session, input.event, n + 1, input.kind)
  BY <1>0, <1>1, <1>2 DEF EventHeader, Header, Entry, Sequence
<1>6. /\ d.order \in [Sessions -> Seq(Records)] /\ d.order[session] \in Seq(Records)
      /\ n \in Nat /\ DOMAIN d.order[session] = 1..n
  BY <1>2, <1>3, OrderShape DEF Sound, Listed
<1>7. pin[1] \in Records
  BY PinShape
<1>8. /\ e.order[session] = Append(d.order[session], pin[1])
      /\ \A s \in Sessions : s # session => e.order[s] = d.order[s]
  BY <1>1, <1>3, <1>4, <1>6 DEF Appended
<1>9. /\ Len(e.order[session]) = n + 1
      /\ DOMAIN e.order[session] = 1..(n + 1)
      /\ e.order[session][n + 1] = pin[1]
      /\ \A i \in 1..n : e.order[session][i] = d.order[session][i]
  <2>1. Append(d.order[session], pin[1]) \in Seq(Records)
    BY <1>6, <1>7
  <2>. QED
    BY <1>2, <1>6, <1>7, <1>8, <2>1, AppendProperties, LenProperties
<1>10. pin \notin DOMAIN d.headers
  BY <1>3 DEF Heads
<1>11. /\ \A p \in DOMAIN d.headers : e.headers[p] = d.headers[p]
       /\ e.headers[pin] = header
  BY <1>4, <1>10 DEF WithRow
<1>12. DOMAIN e.heads = DOMAIN d.heads \cup {pin[1]}
  BY <1>4 DEF WithRow
<1>13. \A r \in DOMAIN d.heads : e.headers[PinOf(r, 1)] = d.headers[PinOf(r, 1)]
  BY <1>3, <1>11, HeadIsRevision
<1>14. e.headers[PinOf(pin[1], 1)].history = Entry(session, input.event, n + 1, input.kind)
  BY <1>5, <1>11
<1>15. ASSUME NEW s \in Sessions, NEW i \in DOMAIN d.order[s]
       PROVE  /\ i \in DOMAIN e.order[s] /\ e.order[s][i] = d.order[s][i]
              /\ EntryIn(e, s, i) = EntryIn(d, s, i)
  <2>1. i \in DOMAIN e.order[s] /\ e.order[s][i] = d.order[s][i]
    <3>1. CASE s = session
      BY <1>6, <1>9, <3>1
    <3>2. CASE s # session
      BY <1>8, <3>2
    <3>. QED
      BY <3>1, <3>2
  <2>2. d.order[s][i] \in DOMAIN d.heads
    BY DEF Written, Placed
  <2>. QED
    BY <1>13, <2>1, <2>2 DEF EntryIn
<1>16. EntryIn(e, session, n + 1) = Entry(session, input.event, n + 1, input.kind)
  BY <1>9, <1>14 DEF EntryIn
<1>17. DOMAIN e.order[session] = DOMAIN d.order[session] \cup {n + 1}
  BY <1>6, <1>9
<1>. QED
  BY <1>1, <1>2, <1>6, <1>8, <1>9, <1>12, <1>13, <1>14, <1>15, <1>16, <1>17 DEF Extended

\* append_history gives an event the next position and enters it in the tables.
LEMMA EventKeepsPlaced ==
    ASSUME NEW d, NEW input, NEW size, NEW pin, NEW e,
           Sound(d), Written(d), input \in Appends, Admitted(d, input),
           pin = PinOf(pin[1], 1), Extended(d, e, input, pin),
           e = HistoryBatch(d, input, size, pin)
    PROVE  Placed(e)
<1>1. PICK session : session = input.session
  OBVIOUS
<1>2. PICK n : n = Len(d.order[session])
  OBVIOUS
<1>3. PICK entry : entry = Entry(session, input.event, n + 1, input.kind)
  OBVIOUS
<1>4. PICK row : row = EventRow(input, size, pin)
  OBVIOUS
<1>5. DOMAIN d = Rows /\ Heads(d) /\ session \in Sessions
  BY <1>1 DEF Sound, Appends
<1>6. e.events = WithRow(d.events, <<session, input.event>>, row)
  BY <1>1, <1>4, <1>5, HistoryRows DEF EventKey
<1>7. /\ entry.session = session /\ entry.event = input.event /\ entry.sequence = n + 1
      /\ row.pin = pin
  BY <1>3, <1>4 DEF Entry, EventRow
<1>8. <<session, input.event>> \notin DOMAIN d.events
  BY <1>1 DEF Admitted, EventKey
<1>9. /\ \A k \in DOMAIN d.events : k \in DOMAIN e.events /\ e.events[k] = d.events[k]
      /\ <<session, input.event>> \in DOMAIN e.events
      /\ e.events[<<session, input.event>>] = row
  BY <1>6, <1>8 DEF WithRow
<1>10. /\ DOMAIN e.heads = DOMAIN d.heads \cup {pin[1]}
       /\ \A r \in DOMAIN d.heads : e.headers[PinOf(r, 1)] = d.headers[PinOf(r, 1)]
       /\ e.headers[PinOf(pin[1], 1)].history = entry
       /\ \A s \in Sessions : \A i \in DOMAIN d.order[s] :
             /\ i \in DOMAIN e.order[s] /\ e.order[s][i] = d.order[s][i]
             /\ EntryIn(e, s, i) = EntryIn(d, s, i)
       /\ \A s \in Sessions : s # session => DOMAIN e.order[s] = DOMAIN d.order[s]
       /\ DOMAIN e.order[session] = DOMAIN d.order[session] \cup {n + 1}
       /\ e.order[session][n + 1] = pin[1]
       /\ EntryIn(e, session, n + 1) = entry
  BY <1>1, <1>2, <1>3 DEF Extended
<1>11. ASSUME NEW s \in Sessions, NEW i \in DOMAIN e.order[s]
       PROVE  /\ e.order[s][i] \in DOMAIN e.heads
              /\ EntryIn(e, s, i).session = s /\ EntryIn(e, s, i).sequence = i
              /\ <<s, EntryIn(e, s, i).event>> \in DOMAIN e.events
              /\ e.events[<<s, EntryIn(e, s, i).event>>].pin = PinOf(e.order[s][i], 1)
  <2>1. CASE i \in DOMAIN d.order[s]
    <3>1. /\ d.order[s][i] \in DOMAIN d.heads
          /\ EntryIn(d, s, i).session = s /\ EntryIn(d, s, i).sequence = i
          /\ <<s, EntryIn(d, s, i).event>> \in DOMAIN d.events
          /\ d.events[<<s, EntryIn(d, s, i).event>>].pin = PinOf(d.order[s][i], 1)
      BY <2>1 DEF Written, Placed
    <3>2. /\ e.order[s][i] = d.order[s][i] /\ EntryIn(e, s, i) = EntryIn(d, s, i)
      BY <1>10, <2>1
    <3>. QED
      BY <1>9, <1>10, <3>1, <3>2
  <2>2. CASE i \notin DOMAIN d.order[s]
    <3>1. s = session /\ i = n + 1
      BY <1>10, <2>2
    <3>. QED
      BY <1>7, <1>9, <1>10, <3>1
  <2>. QED
    BY <2>1, <2>2
<1>12. ASSUME NEW r \in DOMAIN e.heads
       PROVE  LET at == e.headers[PinOf(r, 1)].history
              IN at.sequence \in DOMAIN e.order[at.session] /\ e.order[at.session][at.sequence] = r
  <2>1. CASE r \in DOMAIN d.heads
    <3>1. PICK at : at = d.headers[PinOf(r, 1)].history
      OBVIOUS
    <3>2. at.sequence \in DOMAIN d.order[at.session] /\ d.order[at.session][at.sequence] = r
      BY <2>1, <3>1 DEF Written, Placed
    <3>3. PinOf(r, 1) \in DOMAIN d.headers
      BY <1>5, <2>1, HeadIsRevision
    <3>4. at.session \in Sessions
      BY <3>1, <3>3 DEF Sound, Headers, Revision, Entries
    <3>5. e.headers[PinOf(r, 1)].history = at
      BY <1>10, <2>1, <3>1
    <3>. QED
      BY <1>10, <3>2, <3>4, <3>5
  <2>2. CASE r = pin[1]
    BY <1>7, <1>10, <2>2
  <2>. QED
    BY <1>10, <2>1, <2>2
<1>. QED
  BY <1>11, <1>12 DEF Placed

LEMMA EventKeepsLinked ==
    ASSUME NEW d, NEW input, NEW size, NEW pin, NEW e,
           Sound(d), Written(d), input \in Appends, Admitted(d, input),
           Extended(d, e, input, pin),
           e = HistoryBatch(d, input, size, pin)
    PROVE  Linked(e)
<1>1. PICK session : session = input.session
  OBVIOUS
<1>2. PICK n : n = Len(d.order[session])
  OBVIOUS
<1>3. PICK kind : kind = input.kind
  OBVIOUS
<1>4. DOMAIN d = Rows /\ session \in Sessions /\ kind \in HistoryKinds
  BY <1>1, <1>3 DEF Sound, Appends
<1>5. PICK key : key = <<session, kind.call>>
  OBVIOUS
<1>6. /\ e.calls = IF kind.tag = "ToolCall" THEN WithRow(d.calls, key, pin[1]) ELSE d.calls
      /\ e.results = IF kind.tag = "ToolResult" THEN WithRow(d.results, key, pin[1]) ELSE d.results
  BY <1>1, <1>3, <1>4, <1>5, HistoryRows DEF CallKey
<1>7. /\ kind.tag = "ToolCall" => key \notin DOMAIN d.calls
      /\ kind.tag = "ToolResult" => key \in DOMAIN d.calls /\ key \notin DOMAIN d.results
  BY <1>1, <1>3, <1>5 DEF Admitted, CallLinked, CallKey
<1>8. /\ \A k \in DOMAIN d.calls : k \in DOMAIN e.calls /\ e.calls[k] = d.calls[k]
      /\ \A k \in DOMAIN e.calls : k \in DOMAIN d.calls \/ (kind.tag = "ToolCall" /\ k = key)
      /\ kind.tag = "ToolCall" => key \in DOMAIN e.calls /\ e.calls[key] = pin[1]
  <2>1. CASE kind.tag = "ToolCall"
    BY <1>6, <1>7, <2>1 DEF WithRow
  <2>2. CASE kind.tag # "ToolCall"
    BY <1>6, <2>2
  <2>. QED
    BY <2>1, <2>2
<1>9. /\ \A k \in DOMAIN d.results : k \in DOMAIN e.results /\ e.results[k] = d.results[k]
      /\ kind.tag = "ToolResult" => key \in DOMAIN e.results /\ e.results[key] = pin[1]
  <2>1. CASE kind.tag = "ToolResult"
    BY <1>6, <1>7, <2>1 DEF WithRow
  <2>2. CASE kind.tag # "ToolResult"
    BY <1>6, <2>2
  <2>. QED
    BY <2>1, <2>2
<1>10. /\ n \in Nat
       /\ \A s \in Sessions : \A i \in DOMAIN d.order[s] :
             /\ i \in DOMAIN e.order[s] /\ e.order[s][i] = d.order[s][i]
             /\ EntryIn(e, s, i) = EntryIn(d, s, i)
       /\ \A s \in Sessions : s # session =>
             DOMAIN e.order[s] = DOMAIN d.order[s] /\ Len(e.order[s]) = Len(d.order[s])
       /\ DOMAIN e.order[session] = DOMAIN d.order[session] \cup {n + 1}
       /\ DOMAIN d.order[session] = 1..n
       /\ Len(e.order[session]) = n + 1
       /\ e.order[session][n + 1] = pin[1]
       /\ EntryIn(e, session, n + 1).kind = kind
  BY <1>1, <1>2, <1>3 DEF Extended, Entry
<1>11. ASSUME NEW s \in Sessions, NEW call, NEW m, NEW k, m \in Nat, k \in Nat, m <= k,
              CallBefore(d, s, call, m)
       PROVE  CallBefore(e, s, call, k)
  <2>1. PICK j \in DOMAIN d.order[s] :
           j < m /\ EntryIn(d, s, j).kind.tag = "ToolCall" /\ EntryIn(d, s, j).kind.call = call
    BY <1>11 DEF CallBefore
  <2>2. j \in Nat
    BY OrderShape
  <2>3. j < k
    BY <1>11, <2>1, <2>2
  <2>. QED
    BY <1>10, <2>1, <2>3 DEF CallBefore
<1>12. ASSUME NEW s \in Sessions, NEW i \in DOMAIN e.order[s] PROVE LinkedAt(e, s, i)
  <2>1. CASE i \in DOMAIN d.order[s]
    <3>1. LinkedAt(d, s, i) /\ i \in Nat
      BY <2>1, OrderShape DEF Written, Linked
    <3>2. EntryIn(e, s, i) = EntryIn(d, s, i) /\ e.order[s][i] = d.order[s][i]
      BY <1>10, <2>1
    <3>3. ASSUME NEW call, CallBefore(d, s, call, i) PROVE CallBefore(e, s, call, i)
      <4>1. i <= i
        BY <3>1
      <4>. QED
        BY <1>11, <3>1, <3>3, <4>1
    <3>4. PICK old : old = EntryIn(d, s, i).kind
      OBVIOUS
    <3>5. PICK call : call = <<s, old.call>>
      OBVIOUS
    <3>6. /\ old.tag = "ToolCall" => call \in DOMAIN e.calls /\ e.calls[call] = d.order[s][i]
          /\ old.tag = "ToolResult" =>
                /\ call \in DOMAIN e.results /\ e.results[call] = d.order[s][i]
                /\ CallBefore(e, s, old.call, i)
      BY <1>8, <1>9, <3>1, <3>3, <3>4, <3>5 DEF LinkedAt
    <3>. QED
      BY <3>2, <3>4, <3>5, <3>6 DEF LinkedAt
  <2>2. CASE i \notin DOMAIN d.order[s]
    <3>1. s = session /\ i = n + 1
      BY <1>10, <2>2
    <3>2. kind.tag = "ToolResult" => CallBefore(e, session, kind.call, n + 1)
      <4>1. SUFFICES ASSUME kind.tag = "ToolResult" PROVE CallBefore(e, session, kind.call, n + 1)
        OBVIOUS
      <4>2. kind.call \in Calls /\ <<session, kind.call>> \in DOMAIN d.calls
        BY <1>4, <1>5, <1>7, <4>1, KindShape
      <4>3. CallBefore(d, session, kind.call, n + 1)
        BY <1>2, <1>4, <4>2 DEF Written, Linked
      <4>4. PICK m : m = n + 1
        OBVIOUS
      <4>5. m \in Nat /\ m <= m
        BY <1>10, <4>4
      <4>. QED
        BY <1>4, <1>11, <4>3, <4>4, <4>5
    <3>. QED
      BY <1>5, <1>8, <1>9, <1>10, <3>1, <3>2 DEF LinkedAt
  <2>. QED
    BY <2>1, <2>2
<1>13. ASSUME NEW s \in Sessions, NEW call \in Calls, <<s, call>> \in DOMAIN e.calls
       PROVE  CallBefore(e, s, call, Len(e.order[s]) + 1)
  <2>1. /\ Len(d.order[s]) \in Nat /\ Len(e.order[s]) \in Nat
        /\ Len(d.order[s]) <= Len(e.order[s])
    <3>1. CASE s = session
      BY <1>2, <1>10, <3>1
    <3>2. CASE s # session
      BY <1>10, <3>2, OrderShape
    <3>. QED
      BY <3>1, <3>2
  <2>2. CASE <<s, call>> \in DOMAIN d.calls
    <3>1. CallBefore(d, s, call, Len(d.order[s]) + 1)
      BY <2>2 DEF Written, Linked
    <3>2. PICK m : m = Len(d.order[s]) + 1
      OBVIOUS
    <3>3. PICK k : k = Len(e.order[s]) + 1
      OBVIOUS
    <3>4. m \in Nat /\ k \in Nat /\ m <= k
      BY <2>1, <3>2, <3>3
    <3>. QED
      BY <1>11, <3>1, <3>2, <3>3, <3>4
  <2>3. CASE kind.tag = "ToolCall" /\ <<s, call>> = key
    <3>1. s = session /\ call = kind.call
      BY <1>5, <2>3
    <3>. QED
      BY <1>10, <2>3, <3>1 DEF CallBefore
  <2>. QED
    BY <1>8, <1>13, <2>2, <2>3
<1>. QED
  BY <1>12, <1>13 DEF Linked
\* The parts of a message once the event is there.
PartsGrown(d, e, s, kind, n, m, tag) ==
    /\ IsFiniteSet(Parts(d, s, m, tag, n)) /\ n + 1 \notin Parts(d, s, m, tag, n)
    /\ kind.tag = tag /\ kind.message = m =>
          Parts(e, s, m, tag, n + 1) = Parts(d, s, m, tag, n) \cup {n + 1}
    /\ ~(kind.tag = tag /\ kind.message = m) =>
          Parts(e, s, m, tag, n + 1) = Parts(d, s, m, tag, n)

LEMMA PartsGrow ==
    ASSUME NEW d, NEW e, NEW s, NEW kind, NEW n, NEW m, NEW tag,
           n \in Nat, \A i \in 1..n : EntryIn(e, s, i) = EntryIn(d, s, i),
           EntryIn(e, s, n + 1).kind = kind
    PROVE  PartsGrown(d, e, s, kind, n, m, tag)
<1>1. PICK k : k = n + 1
  OBVIOUS
<1>2. IsFiniteSet(Parts(d, s, m, tag, n))
  <2>1. IsFiniteSet(1..n)
    BY FS_Interval
  <2>2. Parts(d, s, m, tag, n) \subseteq 1..n
    BY DEF Parts
  <2>. QED
    BY <2>1, <2>2, FS_Subset
<1>3. k \notin Parts(d, s, m, tag, n)
  BY <1>1 DEF Parts
<1>4. ASSUME NEW j PROVE j \in 1..k <=> j \in 1..n \/ j = k
  BY <1>1
<1>5. ASSUME kind.tag = tag /\ kind.message = m
      PROVE  Parts(e, s, m, tag, k) = Parts(d, s, m, tag, n) \cup {k}
  BY <1>1, <1>4, <1>5 DEF Parts
<1>6. ASSUME ~(kind.tag = tag /\ kind.message = m)
      PROVE  Parts(e, s, m, tag, k) = Parts(d, s, m, tag, n)
  BY <1>1, <1>4, <1>6 DEF Parts
<1>. QED
  BY <1>1, <1>2, <1>3, <1>5, <1>6 DEF PartsGrown

\* The first events of a session are what they were.
LEMMA PartsStay ==
    ASSUME NEW d, NEW e, NEW input, NEW pin, NEW s, NEW m, NEW tag, NEW n,
           Sound(d), Extended(d, e, input, pin), s \in Sessions, n \in 0..Len(d.order[s])
    PROVE  Parts(e, s, m, tag, n) = Parts(d, s, m, tag, n)
<1>1. \A i \in 1..n : EntryIn(e, s, i) = EntryIn(d, s, i)
  <2>1. \A i \in DOMAIN d.order[s] : EntryIn(e, s, i) = EntryIn(d, s, i)
    BY DEF Extended
  <2>2. Len(d.order[s]) \in Nat /\ DOMAIN d.order[s] = 1..Len(d.order[s])
    BY OrderShape
  <2>. QED
    BY <2>1, <2>2
<1>2. n \in Nat
  OBVIOUS
<1>. QED
  BY <1>1, <1>2, SameParts

\* message_transition, row by row.
LEMMA MessageRow ==
    ASSUME NEW d, NEW input, NEW row, NEW key, Sound(d), input \in Appends, Admitted(d, input),
           Streams(input), key = MessageKey(input), row = MessageTransition(d, input)
    PROVE  /\ input.kind.tag = "AssistantStarted" =>
                 /\ key \notin DOMAIN d.messages
                 /\ row.next = 0 /\ row.terminal = FALSE
           /\ input.kind.tag = "AssistantFragment" =>
                 /\ key \in DOMAIN d.messages /\ ~d.messages[key].terminal
                 /\ d.messages[key].next = input.kind.ordinal
                 /\ row.next = d.messages[key].next + 1
                 /\ row.terminal = d.messages[key].terminal
           /\ input.kind.tag = "AssistantTerminal" =>
                 /\ key \in DOMAIN d.messages /\ ~d.messages[key].terminal
                 /\ row.next = d.messages[key].next /\ row.terminal = TRUE
<1>1. MessageFollows(d, input)
  BY DEF Admitted
<1>2. CASE input.kind.tag = "AssistantStarted"
  BY <1>1, <1>2 DEF MessageFollows, MessageTransition
<1>3. CASE input.kind.tag = "AssistantFragment"
  <2>1. /\ key \in DOMAIN d.messages /\ ~d.messages[key].terminal
        /\ d.messages[key].next = input.kind.ordinal
    BY <1>1, <1>3 DEF MessageFollows
  <2>2. PICK old : old = d.messages[key]
    OBVIOUS
  <2>3. old \in Message
    BY <2>1, <2>2 DEF Sound, Told
  <2>4. row = [old EXCEPT !.next = @ + 1]
    BY <1>3, <2>2 DEF MessageTransition
  <2>5. row.next = old.next + 1
    BY <2>3, <2>4 DEF Message
  <2>6. row.terminal = old.terminal
    BY <2>3, <2>4 DEF Message
  <2>. QED
    BY <1>3, <2>1, <2>2, <2>5, <2>6
<1>4. CASE input.kind.tag = "AssistantTerminal"
  <2>1. key \in DOMAIN d.messages /\ ~d.messages[key].terminal
    BY <1>1, <1>4 DEF MessageFollows
  <2>2. PICK old : old = d.messages[key]
    OBVIOUS
  <2>3. old \in Message
    BY <2>1, <2>2 DEF Sound, Told
  <2>4. row = [old EXCEPT !.terminal = TRUE]
    BY <1>4, <2>2 DEF MessageTransition
  <2>5. row.next = old.next
    BY <2>3, <2>4 DEF Message
  <2>6. row.terminal = TRUE
    BY <2>3, <2>4 DEF Message
  <2>. QED
    BY <1>4, <2>1, <2>2, <2>5, <2>6
<1>. QED
  BY <1>2, <1>3, <1>4 DEF Streams
\* The message table keeps count of the history.
LEMMA EventKeepsCounted ==
    ASSUME NEW d, NEW input, NEW size, NEW pin, NEW e,
           Sound(d), Written(d), input \in Appends, Admitted(d, input),
           Extended(d, e, input, pin),
           e = HistoryBatch(d, input, size, pin)
    PROVE  Counted(e)
<1>1. PICK session : session = input.session
  OBVIOUS
<1>2. PICK n : n = Len(d.order[session])
  OBVIOUS
<1>3. PICK kind : kind = input.kind
  OBVIOUS
<1>4. PICK at : at = MessageKey(input)
  OBVIOUS
<1>5. PICK row : row = MessageTransition(d, input)
  OBVIOUS
<1>6. /\ DOMAIN d = Rows /\ session \in Sessions /\ kind \in HistoryKinds
      /\ at = <<session, kind.message>>
  BY <1>1, <1>3, <1>4 DEF Sound, Appends, MessageKey
<1>7. e.messages = IF Streams(input) THEN WithRow(d.messages, at, row) ELSE d.messages
  <2>1. PICK header : header = EventHeader(d, input, size)
    OBVIOUS
  <2>2. e.messages = IF Streams(input)
                     THEN WithRow(d.messages, MessageKey(input), MessageTransition(d, input))
                     ELSE d.messages
    BY <1>6, <2>1, HistoryRows
  <2>. QED
    BY <1>4, <1>5, <2>2
<1>8. Streams(input) <=> kind.tag \in {"AssistantStarted", "AssistantFragment", "AssistantTerminal"}
  BY <1>3 DEF Streams
<1>9. /\ n \in Nat /\ Len(e.order[session]) = n + 1
      /\ \A s \in Sessions : s # session => Len(e.order[s]) = Len(d.order[s])
  BY <1>1, <1>2 DEF Extended
<1>10. \A m, tag : PartsGrown(d, e, session, kind, n, m, tag)
  <2>1. /\ \A i \in 1..n : EntryIn(e, session, i) = EntryIn(d, session, i)
        /\ EntryIn(e, session, n + 1).kind = kind
    BY <1>1, <1>2, <1>3, <1>6 DEF Extended, Entry
  <2>. QED
    BY <1>9, <2>1, PartsGrow
<1>11. SUFFICES ASSUME NEW s \in Sessions, NEW m \in Messages PROVE CountedAt(e, s, m)
  BY DEF Counted
<1>12. CountedAt(d, s, m)
  BY DEF Written, Counted
<1>13. PICK key : key = <<s, m>>
  OBVIOUS
<1>14. CASE s # session \/ ~Streams(input) \/ kind.message # m
  <2>1. /\ key \in DOMAIN e.messages <=> key \in DOMAIN d.messages
        /\ key \in DOMAIN d.messages => e.messages[key] = d.messages[key]
    <3>1. CASE ~Streams(input)
      BY <1>7, <3>1
    <3>2. CASE Streams(input)
      <4>1. key # at
        BY <1>6, <1>13, <1>14, <3>2
      <4>. QED
        BY <1>7, <3>2, <4>1 DEF WithRow
    <3>. QED
      BY <3>1, <3>2
  <2>2. ASSUME NEW tag \in {"AssistantStarted", "AssistantFragment", "AssistantTerminal"}
        PROVE  Parts(e, s, m, tag, Len(e.order[s])) = Parts(d, s, m, tag, Len(d.order[s]))
    <3>1. CASE s = session
      <4>1. ~(kind.tag = tag /\ kind.message = m)
        BY <1>8, <1>14, <3>1
      <4>2. PartsGrown(d, e, session, kind, n, m, tag)
        BY <1>10
      <4>3. Parts(e, session, m, tag, n + 1) = Parts(d, session, m, tag, n)
        BY <4>1, <4>2 DEF PartsGrown
      <4>. QED
        BY <1>2, <1>9, <3>1, <4>3
    <3>2. CASE s # session
      <4>1. PICK k : k = Len(d.order[s])
        OBVIOUS
      <4>2. k \in 0..Len(d.order[s]) /\ Len(e.order[s]) = k
        BY <1>9, <3>2, <4>1, OrderShape
      <4>. QED
        BY <4>1, <4>2, PartsStay
    <3>. QED
      BY <3>1, <3>2
  <2>. QED
    BY <1>12, <1>13, <2>1, <2>2 DEF CountedAt
<1>15. CASE s = session /\ Streams(input) /\ kind.message = m
  <2>1. key = at /\ key \in DOMAIN e.messages /\ e.messages[key] = row
    BY <1>6, <1>7, <1>13, <1>15 DEF WithRow
  <2>2. PICK started : started = Parts(d, s, m, "AssistantStarted", n)
    OBVIOUS
  <2>3. PICK told : told = Parts(d, s, m, "AssistantFragment", n)
    OBVIOUS
  <2>4. PICK ended : ended = Parts(d, s, m, "AssistantTerminal", n)
    OBVIOUS
  <2>5. /\ key \in DOMAIN d.messages <=> started # {}
        /\ key \in DOMAIN d.messages =>
              /\ d.messages[key].next = Cardinality(told)
              /\ d.messages[key].terminal <=> ended # {}
        /\ key \notin DOMAIN d.messages => told = {} /\ ended = {}
    BY <1>2, <1>12, <1>13, <1>15, <2>2, <2>3, <2>4 DEF CountedAt
  <2>6. PICK k : k = n + 1
    OBVIOUS
  <2>7. /\ Parts(e, s, m, "AssistantStarted", k) =
              IF kind.tag = "AssistantStarted" THEN started \cup {k} ELSE started
        /\ Parts(e, s, m, "AssistantFragment", k) =
              IF kind.tag = "AssistantFragment" THEN told \cup {k} ELSE told
        /\ Parts(e, s, m, "AssistantTerminal", k) =
              IF kind.tag = "AssistantTerminal" THEN ended \cup {k} ELSE ended
        /\ IsFiniteSet(told) /\ k \notin told
    <3>1. /\ IsFiniteSet(told) /\ k \notin told
          /\ \A tag : /\ kind.tag = tag => Parts(e, s, m, tag, k) = Parts(d, s, m, tag, n) \cup {k}
                      /\ kind.tag # tag => Parts(e, s, m, tag, k) = Parts(d, s, m, tag, n)
      BY <1>10, <1>15, <2>3, <2>6 DEF PartsGrown
    <3>. QED
      BY <2>2, <2>3, <2>4, <3>1
  <2>8. /\ kind.tag = "AssistantStarted" =>
              key \notin DOMAIN d.messages /\ row.next = 0 /\ row.terminal = FALSE
        /\ kind.tag = "AssistantFragment" =>
              /\ key \in DOMAIN d.messages
              /\ row.next = d.messages[key].next + 1
              /\ row.terminal = d.messages[key].terminal
        /\ kind.tag = "AssistantTerminal" =>
              /\ key \in DOMAIN d.messages
              /\ row.next = d.messages[key].next /\ row.terminal = TRUE
    <3>1. key = MessageKey(input)
      BY <1>4, <2>1
    <3>. QED
      BY <1>3, <1>5, <1>15, <3>1, MessageRow
  <2>9. /\ Cardinality(told \cup {k}) = Cardinality(told) + 1
        /\ Cardinality({}) = 0
    BY <2>7, FS_AddElement, FS_EmptySet
  <2>10. Len(e.order[s]) = k
    BY <1>9, <1>15, <2>6
  <2>11. SUFFICES /\ Parts(e, s, m, "AssistantStarted", k) # {}
                  /\ row.next = Cardinality(Parts(e, s, m, "AssistantFragment", k))
                  /\ row.terminal <=> Parts(e, s, m, "AssistantTerminal", k) # {}
    BY <1>13, <2>1, <2>10 DEF CountedAt
  <2>12. CASE kind.tag = "AssistantStarted"
    BY <2>5, <2>7, <2>8, <2>9, <2>12
  <2>13. CASE kind.tag = "AssistantFragment"
    BY <2>5, <2>7, <2>8, <2>9, <2>13
  <2>14. CASE kind.tag = "AssistantTerminal"
    BY <2>5, <2>7, <2>8, <2>9, <2>14
  <2>. QED
    BY <1>8, <1>15, <2>12, <2>13, <2>14
<1>. QED
  BY <1>14, <1>15

\* An event comes where message_transition lets it.
LEMMA EventKeepsStreamed ==
    ASSUME NEW d, NEW input, NEW pin, NEW e,
           Sound(d), Written(d), input \in Appends, Admitted(d, input),
           Extended(d, e, input, pin)
    PROVE  Streamed(e)
<1>1. PICK session : session = input.session
  OBVIOUS
<1>2. PICK n : n = Len(d.order[session])
  OBVIOUS
<1>3. PICK kind : kind = input.kind
  OBVIOUS
<1>4. /\ n \in Nat /\ session \in Sessions /\ kind \in HistoryKinds
      /\ \A s \in Sessions : \A i \in DOMAIN d.order[s] : EntryIn(e, s, i) = EntryIn(d, s, i)
      /\ \A s \in Sessions : s # session => DOMAIN e.order[s] = DOMAIN d.order[s]
      /\ DOMAIN e.order[session] = DOMAIN d.order[session] \cup {n + 1}
      /\ EntryIn(e, session, n + 1).kind = kind
  BY <1>1, <1>2, <1>3 DEF Extended, Entry, Appends
<1>5. SUFFICES ASSUME NEW s \in Sessions, NEW i \in DOMAIN e.order[s] PROVE StreamedAt(e, s, i)
  BY DEF Streamed
<1>6. CASE i \in DOMAIN d.order[s]
  <2>1. StreamedAt(d, s, i) /\ EntryIn(e, s, i) = EntryIn(d, s, i)
    BY <1>4, <1>6 DEF Written, Streamed
  <2>2. PICK k : k = i - 1
    OBVIOUS
  <2>3. k \in 0..Len(d.order[s])
    BY <1>6, <2>2, OrderShape
  <2>4. \A m, tag : Parts(e, s, m, tag, k) = Parts(d, s, m, tag, k)
    BY <2>3, PartsStay
  <2>. QED
    BY <2>1, <2>2, <2>4 DEF StreamedAt
<1>7. CASE i \notin DOMAIN d.order[s]
  <2>1. s = session /\ i = n + 1
    BY <1>4, <1>7
  <2>2. i - 1 = n /\ n \in 0..Len(d.order[s])
    BY <1>2, <1>4, <2>1
  <2>3. \A m, tag : Parts(e, s, m, tag, n) = Parts(d, s, m, tag, n)
    BY <2>2, PartsStay
  <2>4. EntryIn(e, s, i).kind = kind
    BY <1>4, <2>1
  <2>5. PICK m : m = kind.message
    OBVIOUS
  <2>6. PICK key : key = <<s, m>>
    OBVIOUS
  <2>7. ASSUME Streams(input)
        PROVE  /\ kind.tag = "AssistantStarted" => key \notin DOMAIN d.messages
               /\ kind.tag = "AssistantFragment" =>
                     /\ key \in DOMAIN d.messages /\ ~d.messages[key].terminal
                     /\ d.messages[key].next = kind.ordinal
               /\ kind.tag = "AssistantTerminal" =>
                     key \in DOMAIN d.messages /\ ~d.messages[key].terminal
    <3>1. key = MessageKey(input)
      BY <1>1, <1>3, <2>1, <2>5, <2>6 DEF MessageKey
    <3>. QED
      BY <1>3, <2>7, <3>1, MessageRow
  <2>8. ASSUME Streams(input) PROVE CountedAt(d, s, m)
    <3>1. m \in Messages
      BY <1>3, <1>4, <2>5, <2>8, KindShape DEF Streams
    <3>. QED
      BY <3>1 DEF Written, Counted
  <2>9. CASE Streams(input)
    <3>1. Len(d.order[s]) = n
      BY <1>2, <2>1
    <3>2. /\ key \in DOMAIN d.messages <=> Parts(d, s, m, "AssistantStarted", n) # {}
          /\ key \in DOMAIN d.messages =>
                /\ d.messages[key].next = Cardinality(Parts(d, s, m, "AssistantFragment", n))
                /\ d.messages[key].terminal <=> Parts(d, s, m, "AssistantTerminal", n) # {}
      BY <2>6, <2>8, <2>9, <3>1 DEF CountedAt
    <3>. QED
      BY <2>2, <2>3, <2>4, <2>5, <2>7, <2>9, <3>2 DEF StreamedAt
  <2>10. CASE ~Streams(input)
    BY <1>3, <2>4, <2>10 DEF StreamedAt, Streams
  <2>. QED
    BY <2>9, <2>10
<1>. QED
  BY <1>6, <1>7
LEMMA EventKeepsWritten ==
    ASSUME NEW d, NEW input, NEW size, NEW pin, NEW e,
           Sound(d), Written(d), input \in Appends, Admitted(d, input),
           pin \in Pins, pin = PinOf(pin[1], 1), pin[1] \notin DOMAIN d.heads,
           e = HistoryBatch(d, input, size, pin)
    PROVE  Written(e)
<1>1. Extended(d, e, input, pin)
  BY EventExtends
<1>2. Placed(e)
  BY <1>1, EventKeepsPlaced
<1>3. Linked(e)
  BY <1>1, EventKeepsLinked
<1>4. Counted(e)
  BY <1>1, EventKeepsCounted
<1>5. Streamed(e)
  BY <1>1, EventKeepsStreamed
<1>. QED
  BY <1>2, <1>3, <1>4, <1>5 DEF Written

\* retract, purge: a revision more, and a message hidden.
LEMMA StateKeepsWritten ==
    ASSUME NEW d, NEW r, NEW state, NEW e, Sound(d), Written(d), Revisable(d, r),
           state \in {"Retracted", "Purged"}, e = StateBatch(d, r, state)
    PROVE  Written(e)
<1>1. PICK pin : pin = NextPin(d, r)
  OBVIOUS
<1>2. PICK header : header = Restated(HeadOf(d, r), state)
  OBVIOUS
<1>3. DOMAIN d = Rows /\ \A k \in DOMAIN d.messages : d.messages[k] \in Message
  BY DEF Sound, Told
<1>4. /\ e.messages = IF header.history # None /\ HasMessage(header.history)
                      THEN Hidden(d.messages, MessageKey(header.history)) ELSE d.messages
      /\ e.order = d.order /\ e.events = d.events /\ e.calls = d.calls /\ e.results = d.results
  BY <1>1, <1>2, <1>3, StateRows
<1>5. Revised(d, e, pin, header)
  BY <1>1, <1>2, StateKeepsSound
<1>6. /\ DOMAIN e.heads = DOMAIN d.heads
      /\ \A p \in DOMAIN d.headers : e.headers[p] = d.headers[p]
  <2>1. pin[1] \in DOMAIN d.heads
    BY <1>1 DEF NextPin, PinOf, Revisable, Exists
  <2>. QED
    BY <1>5, <2>1 DEF Revised
<1>7. ASSUME NEW key
      PROVE  /\ DOMAIN Hidden(d.messages, key) = DOMAIN d.messages
             /\ \A k \in DOMAIN d.messages :
                   /\ Hidden(d.messages, key)[k].next = d.messages[k].next
                   /\ Hidden(d.messages, key)[k].terminal = d.messages[k].terminal
  <2>1. DOMAIN Hidden(d.messages, key) = DOMAIN d.messages
    BY DEF Hidden
  <2>2. ASSUME NEW k \in DOMAIN d.messages
        PROVE  Hidden(d.messages, key)[k].next = d.messages[k].next
    BY <1>3 DEF Hidden, Message
  <2>3. ASSUME NEW k \in DOMAIN d.messages
        PROVE  Hidden(d.messages, key)[k].terminal = d.messages[k].terminal
    BY <1>3 DEF Hidden, Message
  <2>. QED
    BY <2>1, <2>2, <2>3
<1>8. SameHistory(d, e)
  BY <1>4, <1>6, <1>7 DEF SameHistory
<1>. QED
  BY <1>8, SameKeepsWritten

LEMMA EmptyWritten == Written(EmptyDb)
<1>1. /\ DOMAIN EmptyDb.heads = {} /\ DOMAIN EmptyDb.messages = {} /\ DOMAIN EmptyDb.calls = {}
      /\ \A s \in Sessions : EmptyDb.order[s] = <<>>
  BY DEF EmptyDb
<1>2. \A s \in Sessions : DOMAIN EmptyDb.order[s] = {} /\ Len(EmptyDb.order[s]) = 0
  BY <1>1
<1>3. Placed(EmptyDb)
  BY <1>1, <1>2 DEF Placed
<1>4. Linked(EmptyDb)
  BY <1>1, <1>2 DEF Linked
<1>5. Streamed(EmptyDb)
  BY <1>2 DEF Streamed
<1>6. Counted(EmptyDb)
  <2>1. \A s \in Sessions : \A m, tag : Parts(EmptyDb, s, m, tag, Len(EmptyDb.order[s])) = {}
    BY <1>2 DEF Parts
  <2>. QED
    BY <1>1, <2>1 DEF Counted, CountedAt
<1>. QED
  BY <1>3, <1>4, <1>5, <1>6 DEF Written

\* Every step leaves the history well written.
LEMMA NextWritten ==
    ASSUME IInv, Written(db), [Next]_vars
    PROVE  Written(db')
<1>1. Sound(db) /\ DOMAIN db = Rows
  BY DEF IInv, Sound
<1>2. ASSUME db'.order = db.order, db'.events = db.events, db'.calls = db.calls,
             db'.results = db.results, db'.heads = db.heads, db'.headers = db.headers,
             db'.messages = db.messages
      PROVE  Written(db')
  <2>1. SameHistory(db, db')
    BY <1>2 DEF SameHistory
  <2>. QED
    BY <1>1, <2>1, SameKeepsWritten
<1>3. ASSUME NEW op, NEW input, NEW size, BeginAppend(op, input, size)
      PROVE  Written(db')
  <2>1. PICK pending : db' = [db EXCEPT !.pending = pending]
    BY <1>3 DEF BeginAppend
  <2>. QED
    BY <1>1, <1>2, <2>1 DEF Rows
<1>4. CASE UploadChunk
  <2>1. PICK payloads : db' = [db EXCEPT !.payloads = payloads]
    BY <1>4 DEF UploadChunk
  <2>. QED
    BY <1>1, <1>2, <2>1 DEF Rows
<1>5. CASE FinishAppend
  <2>1. /\ Locked /\ upload \in Uploads /\ Admitted(db, upload.input)
        /\ upload.pin = PinOf(upload.pin[1], 1)
        /\ upload.pin[1] \in DOMAIN db.pending /\ ~db.pending[upload.pin[1]].purge
    BY <1>5 DEF FinishAppend, IInv, Uploading
  <2>2. db' = HistoryBatch(db, upload.input, upload.size, upload.pin)
    BY <1>5 DEF FinishAppend, CommitOperation
  <2>3. upload.pin \in Pins /\ upload.input \in Appends
    BY <2>1 DEF Uploads
  <2>4. upload.pin[1] \notin DOMAIN db.heads
    BY <1>1, <2>1 DEF Sound, Cleanup
  <2>. QED
    BY <1>1, <2>1, <2>2, <2>3, <2>4, EventKeepsWritten
<1>6. ASSUME NEW budget, RecoverPayloads(budget)
      PROVE  Written(db')
  <2>1. \/ \E payloads : db' = [db EXCEPT !.payloads = payloads]
        \/ \E r, payloads : db' = [WithoutPending(db, r) EXCEPT !.payloads = payloads]
    BY <1>6 DEF RecoverPayloads
  <2>2. CASE \E payloads : db' = [db EXCEPT !.payloads = payloads]
    BY <1>1, <1>2, <2>2 DEF Rows
  <2>3. ASSUME NEW r, NEW payloads, db' = [WithoutPending(db, r) EXCEPT !.payloads = payloads]
        PROVE  Written(db')
    <3>1. PICK pending : WithoutPending(db, r) = [db EXCEPT !.pending = pending]
      BY DEF WithoutPending
    <3>2. db' = [[db EXCEPT !.pending = pending] EXCEPT !.payloads = payloads]
      BY <2>3, <3>1
    <3>. QED
      BY <1>1, <1>2, <3>2 DEF Rows
  <2>. QED
    BY <2>1, <2>2, <2>3
<1>7. ASSUME NEW op, NEW record, Retract(op, record) \/ Purge(op, record)
      PROVE  Written(db')
  <2>1. PICK state \in {"Retracted", "Purged"} :
           Revisable(db, record) /\ db' = StateBatch(db, record, state)
    BY <1>7 DEF Retract, Purge, ChangeState, CommitOperation
  <2>. QED
    BY <1>1, <2>1, StateKeepsWritten
<1>8. CASE db' = db
  BY <1>2, <1>8
<1>9. CASE HistoryStep
  <2>1. ASSUME NEW op, NEW event, AppendAgain(op, event) PROVE db' = db
    BY <2>1 DEF AppendAgain, CommitReceipt
  <2>2. CASE AbandonUpload \/ Crash
    BY <1>8, <2>2 DEF AbandonUpload, Crash
  <2>. QED
    BY <1>3, <1>4, <1>5, <1>6, <1>8, <1>9, <2>1, <2>2 DEF HistoryStep
<1>10. CASE ChangeStep
  BY <1>7, <1>10 DEF ChangeStep
<1>. QED
  BY <1>8, <1>9, <1>10 DEF Next, vars

\* A session's calls: one call of a name, one result, in that order.
LEMMA WrittenPaired ==
    ASSUME Sound(db), Written(db)
    PROVE  CallsPaired
<1>1. \A s, i : EntryAt(s, i) = EntryIn(db, s, i)
  BY DEF EntryAt, EntryIn, Original
<1>2. ASSUME NEW s \in Sessions, NEW i \in DOMAIN db.order[s], NEW j \in DOMAIN db.order[s],
             db.order[s][i] = db.order[s][j]
      PROVE  i = j
  <2>1. EntryIn(db, s, i).sequence = i /\ EntryIn(db, s, j).sequence = j
    BY DEF Written, Placed
  <2>. QED
    BY <1>2, <2>1 DEF EntryIn
<1>3. ASSUME NEW S, \A i, j \in S : i = j
      PROVE  Cardinality(S) <= 1
  <2>1. CASE S = {}
    BY <2>1, FS_EmptySet
  <2>2. ASSUME NEW i \in S PROVE Cardinality(S) = 1
    <3>1. S = {i}
      BY <1>3
    <3>. QED
      BY <3>1, FS_Singleton
  <2>. QED
    BY <2>1, <2>2
<1>4. SUFFICES ASSUME NEW s \in Sessions, NEW call \in Calls
               PROVE  /\ Cardinality(CallsAt(s, "ToolCall", call)) <= 1
                      /\ Cardinality(CallsAt(s, "ToolResult", call)) <= 1
                      /\ \A j \in CallsAt(s, "ToolResult", call) :
                            \E i \in CallsAt(s, "ToolCall", call) : i < j
                      /\ \A i \in CallsAt(s, "ToolCall", call) :
                            db.calls[<<s, call>>] = db.order[s][i]
                      /\ \A j \in CallsAt(s, "ToolResult", call) :
                            db.results[<<s, call>>] = db.order[s][j]
  BY DEF CallsPaired
<1> DEFINE made == CallsAt(s, "ToolCall", call)
           got == CallsAt(s, "ToolResult", call)
<1>5. \A i \in made : i \in DOMAIN db.order[s] /\ db.calls[<<s, call>>] = db.order[s][i]
  BY <1>1 DEF CallsAt, Written, Linked, LinkedAt
<1>6. \A j \in got : j \in DOMAIN db.order[s] /\ db.results[<<s, call>>] = db.order[s][j]
  BY <1>1 DEF CallsAt, Written, Linked, LinkedAt
<1>7. ASSUME NEW j \in got PROVE \E i \in made : i < j
  <2>1. CallBefore(db, s, call, j)
    BY <1>1 DEF CallsAt, Written, Linked, LinkedAt
  <2>. QED
    BY <1>1, <2>1 DEF CallsAt, CallBefore
<1>8. \A i, j \in made : i = j
  BY <1>2, <1>5
<1>9. \A i, j \in got : i = j
  BY <1>2, <1>6
<1>10. Cardinality(made) <= 1
  BY <1>3, <1>8
<1>11. Cardinality(got) <= 1
  BY <1>3, <1>9
<1>. QED
  BY <1>5, <1>6, <1>7, <1>10, <1>11
LEMMA InvariantTypes == ASSUME IInv PROVE TypeOK
<1>1. Sound(db) /\ Uploading /\ Receipts /\ faults \in 0..MaxFaults
  BY DEF IInv
<1>2. /\ DOMAIN db.headers \subseteq Pins
      /\ \A r \in DOMAIN db.heads : HeadPin(db, r) \in DOMAIN db.headers
  <2>1. ASSUME NEW r \in DOMAIN db.heads PROVE HeadPin(db, r) \in DOMAIN db.headers
    BY <1>1, HeadIsRevision DEF Sound, HeadPin
  <2>. QED
    BY <1>1, <2>1 DEF Sound, Heads
<1>3. \A p \in DOMAIN db.headers :
         db.headers[p].state \in RecordState /\ db.headers[p].sources \subseteq DOMAIN db.headers
  BY <1>1 DEF Sound, Headers, Revision
<1>4. db.payloads \subseteq Pins \X (1..MaxChunks) /\ DOMAIN db.pending \subseteq Records
  BY <1>1 DEF Sound, Chunks, Cleanup
<1>5. /\ \A s \in Sessions : db.order[s] \in Seq(Records)
      /\ db.epoch \in Nat /\ RedactionEpoch(db) \in 0..db.epoch
  BY <1>1, OrderShape DEF Sound, Dated
<1>6. DOMAIN operations \subseteq Ops /\ applied \in [Ops -> Nat]
  BY <1>1 DEF Receipts
<1>7. Locked => upload.written \in 0..upload.size
  BY <1>1 DEF Uploading, Uploads
<1>. QED
  BY <1>1, <1>2, <1>3, <1>4, <1>5, <1>6, <1>7 DEF TypeOK

\* append_history, message_transition, validate_call_link: in every session,
\* for any number of events and whatever is retracted, purged, interrupted or
\* retried, positions have no gap and no event twice, streams run in order
\* and end at most once, and every result follows the one call it answers.
THEOREM HistoriesWellFormed == Spec => []HistoryWellFormed
<1>1. Init => Written(db)
  BY EmptyWritten DEF Init
<1>2. IInv /\ Written(db) /\ [Next]_vars => Written(db)'
  BY NextWritten
<1>3. IInv /\ Written(db) => HistoryWellFormed
  <2> SUFFICES ASSUME IInv, Written(db) PROVE HistoryWellFormed
    OBVIOUS
  <2>1. Sound(db)
    BY DEF IInv
  <2>2. \A s, i : EntryAt(s, i) = EntryIn(db, s, i)
    BY DEF EntryAt, EntryIn, Original
  <2>3. HistoryGapless
    <3>1. ASSUME NEW s \in Sessions, NEW i \in DOMAIN db.order[s], NEW j \in DOMAIN db.order[s],
                 EntryAt(s, i).event = EntryAt(s, j).event
          PROVE  i = j
      <4>1. PinOf(db.order[s][i], 1) = PinOf(db.order[s][j], 1)
        <5>1. PICK event : event = EntryIn(db, s, i).event
          OBVIOUS
        <5>2. event = EntryIn(db, s, j).event
          BY <2>2, <3>1, <5>1
        <5>3. db.events[<<s, event>>].pin = PinOf(db.order[s][i], 1)
          BY <5>1 DEF Written, Placed
        <5>4. db.events[<<s, event>>].pin = PinOf(db.order[s][j], 1)
          BY <5>2 DEF Written, Placed
        <5>. QED
          BY <5>3, <5>4
      <4>2. EntryIn(db, s, i) = EntryIn(db, s, j)
        BY <4>1 DEF EntryIn
      <4>. QED
        BY <4>2 DEF Written, Placed
    <3>2. ASSUME NEW s \in Sessions, NEW i \in DOMAIN db.order[s] PROVE EntryAt(s, i).sequence = i
      BY <2>2 DEF Written, Placed
    <3>3. ASSUME NEW r \in HistoryRecords
          PROVE  \E i \in DOMAIN db.order[Original(r).history.session] :
                    db.order[Original(r).history.session][i] = r
      BY DEF Written, Placed, HistoryRecords, Original
    <3>. QED
      BY <3>1, <3>2, <3>3 DEF HistoryGapless
  <2>4. StreamsInOrder
    BY Zenon DEF StreamsInOrder, Written, Streamed, StreamedAt, Parts, EntryAt, EntryIn, Original
  <2>5. CallsPaired
    BY <2>1, WrittenPaired
  <2>. QED
    BY <2>3, <2>4, <2>5, InvariantTypes DEF HistoryWellFormed
<1>. QED
  BY Invariance, <1>1, <1>2, <1>3, PTL DEF Spec

-----------------------------------------------------------------------------
(* The store of an application. *)

DataKinds == {"Object", "Relation"}

\* A header that may stand in d at a pin.
Proper(d, pin, header) ==
    /\ DOMAIN header = HeaderRows
    /\ header.state \in RecordState
    /\ header.sources \subseteq DOMAIN d.headers
    /\ header.rests \subseteq DOMAIN d.headers
    /\ header.extracted \in BOOLEAN
    /\ pin[1][1] = "History" => header.history # None
    /\ header.checkpoint # None => pin[1][1] = "Checkpoint"

\* Types and actions are found by their names.
Named(d) ==
    \A n \in DOMAIN d.names :
       /\ d.names[n] \in DOMAIN d.heads
       /\ n \in TypeNames => d.names[n][1] = "Type"
       /\ n = "action" => d.names[n][1] = "Action"

Shaped(d) ==
    /\ DOMAIN d = Rows /\ Heads(d) /\ Dated(d) /\ Named(d)
    /\ \A p \in DOMAIN d.headers : Proper(d, p, d.headers[p])
    /\ d.payloads \subseteq Pins \X (1..MaxChunks)
    /\ DOMAIN d.pending \subseteq Records
    /\ d.order \in [Sessions -> Seq(Records)]

\* Search rows: of every live record, and of no other.
Posted(d) ==
    /\ \A r \in DOMAIN d.postings :
          r \in DOMAIN d.heads /\ r[1] \in DataKinds /\ d.postings[r] = HeadPin(d, r)
    /\ \A r \in DOMAIN d.heads :
          (r[1] \in DataKinds /\ HeadOf(d, r).state = "Active") => r \in DOMAIN d.postings

\* Relation rows: one for every end of a live record, and maybe others of
\* older revisions, which extractions leave behind.
Adjacent(d) ==
    /\ \A row \in DOMAIN d.adjacency :
          /\ d.adjacency[row] \in DOMAIN d.headers
          /\ d.adjacency[row][1] = row[2]
          /\ row[2][1] \in DataKinds
          /\ row[1] \in d.headers[d.adjacency[row]].ends
    /\ \A r \in DOMAIN d.heads :
          (r[1] \in DataKinds /\ HeadOf(d, r).state = "Active") =>
             \A x \in HeadOf(d, r).ends :
                <<x, r>> \in DOMAIN d.adjacency /\ d.adjacency[<<x, r>>] = HeadPin(d, r)

\* What was current when a generator read it, dated by the epoch it read.
Summarised(d, s) ==
    /\ s.epoch \in Nat /\ s.epoch <= d.epoch
    /\ \A p \in s.inputs : p \in DOMAIN d.headers /\ p[1][1] # "Type"
    /\ s.epoch = d.epoch =>
          \A p \in s.inputs : d.heads[p[1]] # p[2] =>
             \E q \in DOMAIN d.headers : q[1] = p[1] /\ q[2] > p[2] /\ d.headers[q].extracted
    /\ s.epoch >= RedactionEpoch(d) =>
          \A p \in s.inputs :
             /\ HeadOf(d, p[1]).state # "Purged"
             /\ p[1][1] = "History" => HeadOf(d, p[1]).state = "Active"

Summaries(d) ==
    \A p \in DOMAIN d.headers :
       d.headers[p].checkpoint # None => Summarised(d, d.headers[p].checkpoint)

\* The checkpoints of a session or run: latest is the last of the chain.
Firsts(d) == {p \in DOMAIN d.headers : d.headers[p].checkpoint # None /\ p[2] = 1}
Chained(d) ==
    /\ \A key \in DOMAIN d.latest :
          /\ d.latest[key] \in Firsts(d)
          /\ d.headers[d.latest[key]].checkpoint.key = key
    /\ \A c \in Firsts(d) :
          LET a == d.headers[c].checkpoint
          IN /\ a.key \in DOMAIN d.latest
             /\ a.window \in Nat
             /\ a.window <= d.headers[d.latest[a.key]].checkpoint.window
             /\ a.previous # d.latest[a.key]
             /\ a.previous \in DOMAIN d.headers \cup {None}
    /\ \A c, e \in Firsts(d) :
          LET a == d.headers[c].checkpoint  b == d.headers[e].checkpoint
          IN (c # e /\ a.key = b.key) => a.previous # b.previous /\ a.window # b.window

\* Every live extracted revision is in one receipt.
Extracted(d) ==
    /\ \A id \in DOMAIN d.receipts : d.receipts[id] \subseteq DOMAIN d.headers
    /\ \A p \in DOMAIN d.headers :
          (d.headers[p].extracted /\ d.headers[p].state = "Active") =>
             \E id \in DOMAIN d.receipts : \A i \in DOMAIN d.receipts :
                p \in d.receipts[i] <=> i = id

\* References name nodes, and aliases say so.
Resolved(d) ==
    \A e \in DOMAIN d.entities :
       d.entities[e].node \in DOMAIN d.heads /\ d.entities[e].alias \in {None, d.entities[e].node}

StoreOK(d) ==
    /\ Shaped(d) /\ Posted(d) /\ Adjacent(d) /\ Summaries(d) /\ Chained(d)
    /\ Extracted(d) /\ Resolved(d)

\* The append under way will be the first revision of a new record.
Appending ==
    Locked =>
       /\ upload.op \in Ops /\ upload.op \notin DOMAIN operations
       /\ upload.pin \in Pins /\ upload.pin[2] = 1 /\ upload.pin[1][1] = "History"
       /\ upload.pin[1] \notin DOMAIN db.heads
       /\ upload.size \in Nat /\ upload.size <= MaxChunks
       /\ upload.written \in 0..upload.size
       /\ upload.input.session \in Sessions /\ upload.input.event \in 1..MaxEvents
       /\ upload.input.kind \in HistoryKinds
       /\ CallSources(db, upload.input) \cup upload.input.sources \subseteq DOMAIN db.headers

\* The draft summarises what was current at its epoch, and continues a
\* checkpoint of its chain.
Drafting ==
    draft # None =>
       /\ Summarised(db, draft)
       /\ draft.previous \in DOMAIN db.headers \cup {None}
       /\ draft.key \in Sessions \X CheckpointScopes

\* The harness was told of stored operations only, each once.
Executing ==
    /\ DOMAIN operations \subseteq Ops /\ applied \in [Ops -> Nat]
    /\ faults \in 0..MaxFaults
    /\ ready \subseteq DOMAIN operations
    /\ executed \in [Ops -> Nat]
    /\ \A op \in Ops : executed[op] <= IF op \in DOMAIN operations \ ready THEN 1 ELSE 0
    /\ workload \in Workloads

SessionsIInv == StoreOK(db) /\ Appending /\ Drafting /\ Executing
Intended == \A op \in Ops : (op \in ready \/ executed[op] > 0) => IsExecution(op)

-----------------------------------------------------------------------------
(* The batches, partition by partition. *)

LiveEnds(header) == IF header.state = "Active" THEN header.ends ELSE {}
Adjacency(adjacency, previous, pin, header) ==
    [row \in (DOMAIN adjacency \ (previous \X {pin[1]})) \cup (LiveEnds(header) \X {pin[1]}) |->
        IF row \in LiveEnds(header) \X {pin[1]} THEN pin ELSE adjacency[row]]

\* The partitions that only some batches write.
Tables == {"order", "names", "latest", "entities", "receipts", "started"}

LEMMA PostingRows ==
    ASSUME NEW d, DOMAIN d = Rows, NEW pin, NEW indexed \in BOOLEAN,
           NEW e, e = ReplacePostings(d, pin, indexed)
    PROVE  /\ DOMAIN e = Rows /\ Keeps(d, e, Rows \ {"postings"})
           /\ indexed => e.postings = WithRow(d.postings, pin[1], pin)
           /\ ~indexed => e.postings = Cleared(d.postings, pin[1])
<1> DEFINE rows == (DOMAIN d.postings \ {pin[1]}) \cup (IF indexed THEN {pin[1]} ELSE {})
           postings == [r \in rows |-> IF r = pin[1] THEN pin ELSE d.postings[r]]
<1>1. e = [d EXCEPT !.postings = postings]
  BY DEF ReplacePostings
<1>2. CASE indexed
  <2>1. rows = DOMAIN d.postings \cup {pin[1]}
    BY <1>2
  <2> HIDE DEF rows
  <2>2. postings = WithRow(d.postings, pin[1], pin)
    BY <2>1 DEF WithRow
  <2> HIDE DEF postings
  <2>. QED
    BY <1>1, <1>2, <2>2 DEF Rows, Keeps
<1>3. CASE ~indexed
  <2>1. rows = DOMAIN d.postings \ {pin[1]}
    BY <1>3
  <2> HIDE DEF rows
  <2>2. postings = Cleared(d.postings, pin[1])
    BY <2>1 DEF Cleared
  <2> HIDE DEF postings
  <2>. QED
    BY <1>1, <1>3, <2>2 DEF Rows, Keeps
<1>. QED
  BY <1>2, <1>3

LEMMA AdjacencyRows ==
    ASSUME NEW d, DOMAIN d = Rows, NEW previous, NEW pin, NEW header,
           NEW e, e = ReplaceAdjacency(d, previous, pin, header)
    PROVE  /\ DOMAIN e = Rows /\ Keeps(d, e, Rows \ {"adjacency"})
           /\ e.adjacency = Adjacency(d.adjacency, previous, pin, header)
<1> DEFINE adjacency == Adjacency(d.adjacency, previous, pin, header)
<1>1. e = [d EXCEPT !.adjacency = adjacency]
  BY DEF ReplaceAdjacency, Adjacency, LiveEnds
<1> HIDE DEF adjacency
<1>2. DOMAIN e = Rows /\ Keeps(d, e, Rows \ {"adjacency"}) /\ e.adjacency = adjacency
  BY <1>1 DEF Rows, Keeps
<1>. QED
  BY <1>2 DEF adjacency

LEMMA AdvanceRows ==
    ASSUME NEW d, DOMAIN d = Rows, NEW e, e = AdvanceEpoch(d)
    PROVE  /\ DOMAIN e = Rows /\ Keeps(d, e, Rows \ {"epoch", "marker"})
           /\ e.epoch = d.epoch + 1
           /\ e.marker = Marker(d.epoch + 1, RedactionEpoch(d))
  BY DEF AdvanceEpoch, Rows, Keeps, Marker

LEMMA InvalidateRows ==
    ASSUME NEW d, DOMAIN d = Rows, NEW e, e = InvalidateCheckpoints(d)
    PROVE  /\ DOMAIN e = Rows /\ Keeps(d, e, Rows \ {"marker"})
           /\ e.marker = Marker(d.epoch, d.epoch)
  BY DEF InvalidateCheckpoints, Rows, Keeps, Marker

LEMMA MessageRows ==
    ASSUME NEW d, DOMAIN d = Rows, NEW history, NEW e, e = InvalidateMessage(d, history)
    PROVE  DOMAIN e = Rows /\ Keeps(d, e, Rows \ {"messages"})
<1> DEFINE messages == [d.messages EXCEPT ![MessageKey(history)].unavailable = TRUE]
<1>1. e = IF HasMessage(history) THEN [d EXCEPT !.messages = messages] ELSE d
  BY DEF InvalidateMessage
<1> HIDE DEF messages
<1>. QED
  BY <1>1 DEF Rows, Keeps

LEMMA HeaderPut ==
    ASSUME NEW d, DOMAIN d = Rows, NEW pin, NEW header, NEW e, e = PutHeader(d, pin, header)
    PROVE  /\ DOMAIN e = Rows /\ Keeps(d, e, Rows \ {"headers", "heads"})
           /\ e.headers = WithRow(d.headers, pin, header)
           /\ e.heads = WithRow(d.heads, pin[1], pin[2])
  BY DEF PutHeader, Rows, Keeps

LEMMA PayloadPut ==
    ASSUME NEW d, DOMAIN d = Rows, NEW pin, NEW e, e = PutPayload(d, pin, 1)
    PROVE  /\ DOMAIN e = Rows /\ Keeps(d, e, Rows \ {"payloads"})
           /\ e.payloads = d.payloads \cup {<<pin, 1>>}
<1> DEFINE payloads == d.payloads \cup ({pin} \X (1..1))
<1>1. e = [d EXCEPT !.payloads = payloads]
  BY DEF PutPayload
<1>2. payloads = d.payloads \cup {<<pin, 1>>}
  OBVIOUS
<1> HIDE DEF payloads
<1>. QED
  BY <1>1, <1>2 DEF Rows, Keeps

LEMMA PurgeStaged ==
    ASSUME NEW d, DOMAIN d = Rows, NEW pin, NEW e, e = StagePurge(d, pin)
    PROVE  /\ DOMAIN e = Rows /\ Keeps(d, e, Rows \ {"pending"})
           /\ e.pending = WithRow(d.pending, pin[1], PurgeRow(pin))
  BY DEF StagePurge, Rows, Keeps, PurgeRow

\* Payload and header of one revision; x is d, or d at a later epoch.
LEMMA RevisionPut ==
    ASSUME NEW x, DOMAIN x = Rows, NEW pin, NEW header,
           NEW e, e = PutHeader(PutPayload(x, pin, 1), pin, header)
    PROVE  /\ DOMAIN e = Rows /\ Keeps(x, e, Rows \ {"headers", "heads", "payloads"})
           /\ e.headers = WithRow(x.headers, pin, header)
           /\ e.heads = WithRow(x.heads, pin[1], pin[2])
           /\ e.payloads = x.payloads \cup {<<pin, 1>>}
<1>0. PICK y : y = PutPayload(x, pin, 1)
  OBVIOUS
<1>1. /\ DOMAIN y = Rows /\ Keeps(x, y, Rows \ {"payloads"})
      /\ y.payloads = x.payloads \cup {<<pin, 1>>}
  BY <1>0, PayloadPut
<1>2. /\ DOMAIN e = Rows /\ Keeps(y, e, Rows \ {"headers", "heads"})
      /\ e.headers = WithRow(y.headers, pin, header)
      /\ e.heads = WithRow(y.heads, pin[1], pin[2])
  <2>1. e = PutHeader(y, pin, header) /\ DOMAIN y = Rows
    BY <1>0, <1>1
  <2>2. DOMAIN e = Rows
    BY <2>1, HeaderPut
  <2>3. Keeps(y, e, Rows \ {"headers", "heads"})
    BY <2>1, HeaderPut
  <2>4. e.headers = WithRow(y.headers, pin, header)
    BY <2>1, HeaderPut
  <2>5. e.heads = WithRow(y.heads, pin[1], pin[2])
    BY <2>1, HeaderPut
  <2>. QED
    BY <2>2, <2>3, <2>4, <2>5
<1>3. /\ y.headers = x.headers /\ y.heads = x.heads /\ e.payloads = y.payloads
      /\ Keeps(x, e, Rows \ {"headers", "heads", "payloads"})
  BY <1>1, <1>2 DEF Keeps, Rows
<1>. QED
  BY <1>1, <1>2, <1>3

\* Payload, header and index rows of one revision.
LEMMA RecordPut ==
    ASSUME NEW x, DOMAIN x = Rows, NEW pin, NEW header, NEW previous,
           NEW e, e = RecordBatch(x, pin, header, previous)
    PROVE  /\ DOMAIN e = Rows
           /\ Keeps(x, e, Rows \ {"headers", "heads", "payloads", "postings", "adjacency"})
           /\ e.headers = WithRow(x.headers, pin, header)
           /\ e.heads = WithRow(x.heads, pin[1], pin[2])
           /\ e.payloads = x.payloads \cup {<<pin, 1>>}
           /\ e.postings = WithRow(x.postings, pin[1], pin)
           /\ e.adjacency = Adjacency(x.adjacency, previous, pin, header)
<1>0. PICK y : y = PutHeader(PutPayload(x, pin, 1), pin, header)
  OBVIOUS
<1>1. PICK z : z = ReplacePostings(y, pin, TRUE)
  OBVIOUS
<1>2. e = ReplaceAdjacency(z, previous, pin, header)
  BY <1>0, <1>1 DEF RecordBatch
<1>3. /\ DOMAIN y = Rows /\ Keeps(x, y, Rows \ {"headers", "heads", "payloads"})
      /\ y.headers = WithRow(x.headers, pin, header)
      /\ y.heads = WithRow(x.heads, pin[1], pin[2])
      /\ y.payloads = x.payloads \cup {<<pin, 1>>}
  <2>1. DOMAIN y = Rows
    BY <1>0, RevisionPut
  <2>2. Keeps(x, y, Rows \ {"headers", "heads", "payloads"})
    BY <1>0, RevisionPut
  <2>3. y.headers = WithRow(x.headers, pin, header)
    BY <1>0, RevisionPut
  <2>4. y.heads = WithRow(x.heads, pin[1], pin[2])
    BY <1>0, RevisionPut
  <2>5. y.payloads = x.payloads \cup {<<pin, 1>>}
    BY <1>0, RevisionPut
  <2>. QED
    BY <2>1, <2>2, <2>3, <2>4, <2>5
<1>4. /\ DOMAIN z = Rows /\ Keeps(y, z, Rows \ {"postings"})
      /\ z.postings = WithRow(y.postings, pin[1], pin)
  <2>1. DOMAIN y = Rows /\ TRUE \in BOOLEAN
    BY <1>3
  <2>2. DOMAIN z = Rows
    BY <1>1, <2>1, PostingRows
  <2>3. Keeps(y, z, Rows \ {"postings"})
    BY <1>1, <2>1, PostingRows
  <2>4. z.postings = WithRow(y.postings, pin[1], pin)
    BY <1>1, <2>1, PostingRows
  <2>. QED
    BY <2>2, <2>3, <2>4
<1>5. /\ DOMAIN e = Rows /\ Keeps(z, e, Rows \ {"adjacency"})
      /\ e.adjacency = Adjacency(z.adjacency, previous, pin, header)
  BY <1>2, <1>4, AdjacencyRows
<1>6. /\ y.postings = x.postings /\ z.adjacency = x.adjacency
      /\ e.postings = z.postings
      /\ e.headers = y.headers /\ e.heads = y.heads /\ e.payloads = y.payloads
      /\ Keeps(x, e, Rows \ {"headers", "heads", "payloads", "postings", "adjacency"})
  BY <1>3, <1>4, <1>5 DEF Keeps, Rows
<1>. QED
  BY <1>3, <1>4, <1>5, <1>6

\* A change of state: what StateRows leaves open.
LEMMA StateLinks ==
    ASSUME NEW d, DOMAIN d = Rows, NEW r, NEW state, DOMAIN HeadOf(d, r) = HeaderRows,
           NEW e, e = StateBatch(d, r, state),
           NEW pin, pin = NextPin(d, r),
           NEW header, header = Restated(HeadOf(d, r), state)
    PROVE  /\ e.postings = Cleared(d.postings, pin[1])
           /\ e.adjacency = Adjacency(d.adjacency, HeadOf(d, r).ends, pin, header)
           /\ Keeps(d, e, Tables)
           /\ (state = "Purged" \/ header.history # None) =>
                 e.marker = Marker(d.epoch + 1, d.epoch + 1)
<1>1. PICK advanced : advanced = AdvanceEpoch(d)
  OBVIOUS
<1>2. PICK dated : dated = IF state = "Purged" \/ HeadOf(d, r).history # None
                           THEN InvalidateCheckpoints(advanced) ELSE advanced
  OBVIOUS
<1>3. PICK told : told = IF header.history # None THEN InvalidateMessage(dated, header.history)
                         ELSE dated
  OBVIOUS
<1>4. PICK put : put = PutHeader(told, pin, header)
  OBVIOUS
<1>5. PICK posted : posted = ReplacePostings(put, pin, FALSE)
  OBVIOUS
<1>6. PICK linked : linked = ReplaceAdjacency(posted, HeadOf(d, r).ends, pin, header)
  OBVIOUS

<1>7. e = IF state = "Purged" THEN StagePurge(linked, pin) ELSE linked
  BY <1>1, <1>2, <1>3, <1>4, <1>5, <1>6 DEF StateBatch, Restated
<1>8. /\ DOMAIN advanced = Rows /\ Keeps(d, advanced, Rows \ {"epoch", "marker"})
      /\ advanced.epoch = d.epoch + 1
  BY <1>1, AdvanceRows
<1>9. /\ DOMAIN dated = Rows /\ Keeps(d, dated, Rows \ {"epoch", "marker"})
      /\ (state = "Purged" \/ HeadOf(d, r).history # None) =>
            dated.marker = Marker(d.epoch + 1, d.epoch + 1)
  <2>1. CASE state = "Purged" \/ HeadOf(d, r).history # None
    <3>1. dated = InvalidateCheckpoints(advanced) /\ DOMAIN advanced = Rows
      BY <1>2, <1>8, <2>1
    <3>2. DOMAIN dated = Rows
      BY <3>1, InvalidateRows
    <3>3. Keeps(advanced, dated, Rows \ {"marker"})
      BY <3>1, InvalidateRows
    <3>4. dated.marker = Marker(advanced.epoch, advanced.epoch)
      BY <3>1, InvalidateRows
    <3>. QED
      BY <1>8, <3>2, <3>3, <3>4 DEF Keeps, Rows
  <2>2. CASE ~(state = "Purged" \/ HeadOf(d, r).history # None)
    BY <1>2, <1>8, <2>2
  <2>. QED
    BY <2>1, <2>2
<1>10. /\ DOMAIN told = Rows /\ Keeps(dated, told, Rows \ {"messages"})
  <2>1. CASE header.history # None
    <3>1. told = InvalidateMessage(dated, header.history) /\ DOMAIN dated = Rows
      BY <1>3, <1>9, <2>1
    <3>. QED
      BY <3>1, MessageRows
  <2>2. CASE header.history = None
    BY <1>3, <1>9, <2>2 DEF Keeps
  <2>. QED
    BY <2>1, <2>2
<1>11. DOMAIN put = Rows /\ Keeps(told, put, Rows \ {"headers", "heads"})
  <2>1. DOMAIN told = Rows
    BY <1>10
  <2>2. DOMAIN put = Rows
    BY <1>4, <2>1, HeaderPut
  <2>3. Keeps(told, put, Rows \ {"headers", "heads"})
    BY <1>4, <2>1, HeaderPut
  <2>. QED
    BY <2>2, <2>3
<1>12. /\ DOMAIN posted = Rows /\ Keeps(put, posted, Rows \ {"postings"})
       /\ posted.postings = Cleared(put.postings, pin[1])
  <2>1. DOMAIN put = Rows /\ FALSE \in BOOLEAN
    BY <1>11
  <2>2. DOMAIN posted = Rows
    BY <1>5, <2>1, PostingRows
  <2>3. Keeps(put, posted, Rows \ {"postings"})
    BY <1>5, <2>1, PostingRows
  <2>4. posted.postings = Cleared(put.postings, pin[1])
    BY <1>5, <2>1, PostingRows
  <2>. QED
    BY <2>2, <2>3, <2>4
<1>13. /\ DOMAIN linked = Rows /\ Keeps(posted, linked, Rows \ {"adjacency"})
       /\ linked.adjacency = Adjacency(posted.adjacency, HeadOf(d, r).ends, pin, header)
  BY <1>6, <1>12, AdjacencyRows
<1>14. Keeps(linked, e, Rows \ {"pending"})
  <2>1. CASE state = "Purged"
    BY <1>7, <1>13, <2>1, PurgeStaged
  <2>2. CASE state # "Purged"
    BY <1>7, <2>2 DEF Keeps
  <2>. QED
    BY <2>1, <2>2
<1>15. /\ put.postings = d.postings /\ posted.adjacency = d.adjacency
       /\ e.postings = posted.postings /\ e.adjacency = linked.adjacency
       /\ e.marker = dated.marker
  BY <1>9, <1>10, <1>11, <1>12, <1>13, <1>14 DEF Keeps, Rows
<1>16. Keeps(d, e, Tables)
  BY <1>9, <1>10, <1>11, <1>12, <1>13, <1>14 DEF Keeps, Rows, Tables
<1>17. header.history = HeadOf(d, r).history
  BY DEF Restated, HeaderRows
<1>18. e.postings = Cleared(d.postings, pin[1])
  BY <1>12, <1>15
<1>19. e.adjacency = Adjacency(d.adjacency, HeadOf(d, r).ends, pin, header)
  BY <1>13, <1>15
<1>20. (state = "Purged" \/ header.history # None) => e.marker = Marker(d.epoch + 1, d.epoch + 1)
  BY <1>9, <1>15, <1>17
<1>. QED
  BY <1>16, <1>18, <1>19, <1>20

LEMMA HistoryLinks ==
    ASSUME NEW d, DOMAIN d = Rows, NEW input, NEW size, NEW pin,
           NEW e, e = HistoryBatch(d, input, size, pin)
    PROVE  Keeps(d, e, {"postings", "adjacency", "names", "latest", "entities", "receipts",
                        "started"})
<1>1. PICK put : put = PutHeader(d, pin, EventHeader(d, input, size))
  OBVIOUS
<1>2. PICK cleared : cleared = WithoutPending(put, pin[1])
  OBVIOUS
<1> DEFINE order == [cleared.order EXCEPT ![input.session] = Append(@, pin[1])]
           events == WithRow(cleared.events, EventKey(input),
                             [input |-> input, size |-> size, pin |-> pin])
           linked(rows, tag) ==
               IF input.kind.tag = tag THEN WithRow(rows, CallKey(input), pin[1]) ELSE rows
           calls == linked(cleared.calls, "ToolCall")
           results == linked(cleared.results, "ToolResult")
           messages == IF Streams(input)
                       THEN WithRow(cleared.messages, MessageKey(input), MessageTransition(d, input))
                       ELSE cleared.messages
<1>3. e = [cleared EXCEPT !.order = order, !.events = events, !.calls = calls,
                          !.results = results, !.messages = messages]
  BY <1>1, <1>2 DEF HistoryBatch, EventHeader
<1> HIDE DEF order, events, calls, results, messages
<1>4. DOMAIN put = Rows /\ Keeps(d, put, Rows \ {"headers", "heads"})
  <2>1. DOMAIN put = Rows
    BY <1>1, HeaderPut
  <2>2. Keeps(d, put, Rows \ {"headers", "heads"})
    BY <1>1, HeaderPut
  <2>. QED
    BY <2>1, <2>2
<1>5. DOMAIN cleared = Rows /\ Keeps(put, cleared, Rows \ {"pending"})
  BY <1>2, <1>4 DEF WithoutPending, Rows, Keeps
<1>6. Keeps(cleared, e, Rows \ {"order", "events", "calls", "results", "messages"})
  BY <1>3, <1>5 DEF Rows, Keeps
<1>. QED
  BY <1>4, <1>5, <1>6 DEF Rows, Keeps

-----------------------------------------------------------------------------
(* One revision more. *)

\* The epochs after a batch.
LEMMA EpochAdvanced ==
    ASSUME NEW d, NEW e, Dated(d), e.epoch = d.epoch + 1,
           e.marker \in {Marker(d.epoch + 1, RedactionEpoch(d)),
                         Marker(d.epoch + 1, d.epoch + 1)}
    PROVE  /\ e.epoch \in Nat /\ d.epoch < e.epoch
           /\ RedactionEpoch(d) <= RedactionEpoch(e) /\ RedactionEpoch(e) \in 0..e.epoch
           /\ e.marker = Marker(d.epoch + 1, d.epoch + 1) => RedactionEpoch(e) = e.epoch
<1>1. d.epoch \in Nat /\ RedactionEpoch(d) \in 0..d.epoch
  BY DEF Dated
<1>2. PICK redaction : /\ e.marker = Marker(d.epoch + 1, redaction)
                       /\ redaction \in {RedactionEpoch(d), d.epoch + 1}
  OBVIOUS
<1>3. e.marker.redaction = redaction
  BY <1>2 DEF Marker
<1>4. RedactionEpoch(e) \in {redaction, e.epoch}
  BY <1>3 DEF RedactionEpoch
<1>5. e.marker = Marker(d.epoch + 1, d.epoch + 1) => RedactionEpoch(e) = e.epoch
  BY DEF RedactionEpoch, Marker
<1>. QED
  BY <1>1, <1>2, <1>4, <1>5

SameDates(d, e) == e.epoch = d.epoch /\ e.marker = d.marker

\* The epochs follow a batch that writes this header: a correction of what a
\* checkpoint may summarise makes it outdated, an erasure hides it.
Redated(d, e, pin, header) ==
    /\ e.epoch \in Nat /\ d.epoch <= e.epoch
    /\ RedactionEpoch(d) <= RedactionEpoch(e) /\ RedactionEpoch(e) \in 0..e.epoch
    /\ (pin[1] \in DOMAIN d.heads /\ pin[1][1] # "Type" /\ ~header.extracted) =>
          d.epoch < e.epoch
    /\ header.state = "Retracted" => d.epoch < e.epoch
    /\ (header.state = "Purged" \/ (pin[1][1] = "History" /\ header.state # "Active")) =>
          d.epoch < RedactionEpoch(e)

Live(pin, header) == header.state = "Active" /\ pin[1][1] \in DataKinds

\* Search follows a revision.
Reposted(d, e, pin, header) ==
    /\ \A r \in DOMAIN e.postings :
          IF r = pin[1] THEN Live(pin, header) /\ e.postings[r] = pin
          ELSE r \in DOMAIN d.postings /\ e.postings[r] = d.postings[r]
    /\ Live(pin, header) => pin[1] \in DOMAIN e.postings
    /\ \A r \in DOMAIN d.postings : r # pin[1] => r \in DOMAIN e.postings

Relinked(d, e, pin, header) ==
    /\ \A row \in DOMAIN e.adjacency :
          \/ /\ Live(pin, header) /\ row[2] = pin[1] /\ row[1] \in header.ends
             /\ e.adjacency[row] = pin
          \/ row \in DOMAIN d.adjacency /\ e.adjacency[row] = d.adjacency[row]
    /\ Live(pin, header) => \A x \in header.ends :
          <<x, pin[1]>> \in DOMAIN e.adjacency /\ e.adjacency[<<x, pin[1]>>] = pin
    /\ \A row \in DOMAIN d.adjacency : row[2] # pin[1] =>
          row \in DOMAIN e.adjacency /\ e.adjacency[row] = d.adjacency[row]

\* e is d with one revision more, and whatever follows it.
Wrote(d, e, pin, header) ==
    /\ DOMAIN e = Rows /\ Heads(e) /\ Revised(d, e, pin, header)
    /\ pin \in Pins /\ Proper(d, pin, header)
    /\ pin[2] = IF pin[1] \in DOMAIN d.heads THEN d.heads[pin[1]] + 1 ELSE 1
    /\ pin[1] \in DOMAIN d.heads => HeadOf(d, pin[1]).state # "Purged"
    /\ e.payloads \subseteq d.payloads \cup {<<pin, 1>>}
    /\ DOMAIN e.pending \subseteq DOMAIN d.pending \cup {pin[1]}
    /\ e.order \in [Sessions -> Seq(Records)]
    /\ \A n \in DOMAIN e.names :
          \/ n \in DOMAIN d.names /\ e.names[n] = d.names[n]
          \/ /\ e.names[n] = pin[1]
             /\ n \in TypeNames => pin[1][1] = "Type"
             /\ n = "action" => pin[1][1] = "Action"
    /\ Reposted(d, e, pin, header) /\ Relinked(d, e, pin, header)
    /\ Redated(d, e, pin, header)

\* Some size is at least 1, so a payload of one chunk is within bounds.
LEMMA OneChunk == MaxChunks \in Nat /\ MaxChunks >= 1 /\ 1 \in 1..MaxChunks
<1>1. PICK n \in Sizes : n >= 1
  BY SessionsAssumption
<1>2. n \in Nat /\ n <= MaxChunks /\ MaxChunks \in Nat
  BY MaxChunksBound
<1>. QED
  BY <1>1, <1>2

LEMMA WroteShaped ==
    ASSUME NEW d, NEW e, NEW pin, NEW header, Shaped(d), Wrote(d, e, pin, header)
    PROVE  Shaped(e)
<1>1. /\ DOMAIN e.headers = DOMAIN d.headers \cup {pin}
      /\ e.headers[pin] = header
      /\ \A p \in DOMAIN d.headers : e.headers[p] = d.headers[p]
      /\ DOMAIN e.heads = DOMAIN d.heads \cup {pin[1]}
  BY DEF Wrote, Revised
<1>2. Dated(e)
  <2>1. Redated(d, e, pin, header)
    BY DEF Wrote
  <2>. QED
    BY <2>1 DEF Redated, Dated
<1>3. Named(e)
  <2>1. ASSUME NEW n \in DOMAIN e.names
        PROVE  /\ e.names[n] \in DOMAIN e.heads
               /\ n \in TypeNames => e.names[n][1] = "Type"
               /\ n = "action" => e.names[n][1] = "Action"
    <3>1. CASE n \in DOMAIN d.names /\ e.names[n] = d.names[n]
      BY <1>1, <3>1 DEF Shaped, Named
    <3>2. CASE /\ e.names[n] = pin[1]
               /\ n \in TypeNames => pin[1][1] = "Type"
               /\ n = "action" => pin[1][1] = "Action"
      BY <1>1, <3>2
    <3>. QED
      BY <3>1, <3>2 DEF Wrote
  <2>. QED
    BY <2>1 DEF Named
<1>4. ASSUME NEW p \in DOMAIN e.headers PROVE Proper(e, p, e.headers[p])
  <2>1. CASE p = pin
    <3>1. Proper(d, pin, header)
      BY DEF Wrote
    <3>. QED
      BY <1>1, <2>1, <3>1 DEF Proper
  <2>2. CASE p \in DOMAIN d.headers
    <3>1. Proper(d, p, d.headers[p])
      BY <2>2 DEF Shaped
    <3>. QED
      BY <1>1, <2>2, <3>1 DEF Proper
  <2>. QED
    BY <1>1, <2>1, <2>2
<1>5. e.payloads \subseteq Pins \X (1..MaxChunks)
  <2>1. pin \in Pins /\ e.payloads \subseteq d.payloads \cup {<<pin, 1>>}
    BY DEF Wrote
  <2>2. <<pin, 1>> \in Pins \X (1..MaxChunks)
    BY <2>1, OneChunk
  <2>. QED
    BY <2>1, <2>2 DEF Shaped
<1>6. DOMAIN e.pending \subseteq Records
  <2>1. pin[1] \in Records
    BY PinShape DEF Wrote
  <2>. QED
    BY <2>1 DEF Wrote, Shaped
<1>. QED
  BY <1>2, <1>3, <1>4, <1>5, <1>6 DEF Shaped, Wrote

\* A record's head after the batch, and before it.
LEMMA WroteHeads ==
    ASSUME NEW d, NEW e, NEW pin, NEW header, Heads(d), Wrote(d, e, pin, header)
    PROVE  /\ DOMAIN e.heads = DOMAIN d.heads \cup {pin[1]}
           /\ HeadPin(e, pin[1]) = pin /\ HeadOf(e, pin[1]) = header
           /\ \A r \in DOMAIN d.heads : r # pin[1] =>
                 /\ e.heads[r] = d.heads[r]
                 /\ HeadPin(e, r) = HeadPin(d, r) /\ HeadOf(e, r) = HeadOf(d, r)
           /\ pin \notin DOMAIN d.headers
           /\ DOMAIN e.headers = DOMAIN d.headers \cup {pin} /\ e.headers[pin] = header
           /\ \A p \in DOMAIN d.headers : e.headers[p] = d.headers[p]
<1>1. Revised(d, e, pin, header) /\ pin \in Pins
  BY DEF Wrote
<1>2. e.heads[pin[1]] = pin[2] /\ pin = PinOf(pin[1], pin[2])
  BY <1>1, PinShape DEF Revised
<1>3. HeadPin(e, pin[1]) = pin
  BY <1>2 DEF HeadPin
<1>4. \A r \in DOMAIN d.heads : r # pin[1] => HeadPin(e, r) = HeadPin(d, r)
  BY <1>1 DEF HeadPin, Revised
<1>. QED
  BY <1>1, <1>3, <1>4 DEF Revised

LEMMA WrotePosted ==
    ASSUME NEW d, NEW e, NEW pin, NEW header,
           Shaped(d), Posted(d), Wrote(d, e, pin, header)
    PROVE  Posted(e)
<1>1. /\ DOMAIN e.heads = DOMAIN d.heads \cup {pin[1]}
      /\ HeadPin(e, pin[1]) = pin /\ HeadOf(e, pin[1]) = header
      /\ \A r \in DOMAIN d.heads : r # pin[1] =>
            HeadPin(e, r) = HeadPin(d, r) /\ HeadOf(e, r) = HeadOf(d, r)
  BY WroteHeads DEF Shaped
<1>2. /\ \A r \in DOMAIN e.postings :
          IF r = pin[1] THEN Live(pin, header) /\ e.postings[r] = pin
          ELSE r \in DOMAIN d.postings /\ e.postings[r] = d.postings[r]
      /\ Live(pin, header) => pin[1] \in DOMAIN e.postings
      /\ \A r \in DOMAIN d.postings : r # pin[1] => r \in DOMAIN e.postings
  BY DEF Wrote, Reposted
<1>3. ASSUME NEW r \in DOMAIN e.postings
      PROVE  r \in DOMAIN e.heads /\ r[1] \in DataKinds /\ e.postings[r] = HeadPin(e, r)
  <2>1. CASE r = pin[1]
    BY <1>1, <1>2, <2>1 DEF Live
  <2>2. CASE r # pin[1]
    BY <1>1, <1>2, <2>2 DEF Posted
  <2>. QED
    BY <2>1, <2>2
<1>4. ASSUME NEW r \in DOMAIN e.heads, r[1] \in DataKinds, HeadOf(e, r).state = "Active"
      PROVE  r \in DOMAIN e.postings
  <2>1. CASE r = pin[1]
    BY <1>1, <1>2, <1>4, <2>1 DEF Live
  <2>2. CASE r # pin[1]
    BY <1>1, <1>2, <1>4, <2>2 DEF Posted
  <2>. QED
    BY <2>1, <2>2
<1>. QED
  BY <1>3, <1>4 DEF Posted

LEMMA WroteAdjacent ==
    ASSUME NEW d, NEW e, NEW pin, NEW header,
           Shaped(d), Adjacent(d), Wrote(d, e, pin, header)
    PROVE  Adjacent(e)
<1>1. /\ DOMAIN e.heads = DOMAIN d.heads \cup {pin[1]}
      /\ HeadPin(e, pin[1]) = pin /\ HeadOf(e, pin[1]) = header
      /\ \A r \in DOMAIN d.heads : r # pin[1] =>
            HeadPin(e, r) = HeadPin(d, r) /\ HeadOf(e, r) = HeadOf(d, r)
      /\ DOMAIN e.headers = DOMAIN d.headers \cup {pin} /\ e.headers[pin] = header
      /\ \A p \in DOMAIN d.headers : e.headers[p] = d.headers[p]
  BY WroteHeads DEF Shaped
<1>2. Relinked(d, e, pin, header)
  BY DEF Wrote
<1>3. ASSUME NEW row \in DOMAIN e.adjacency
      PROVE  /\ e.adjacency[row] \in DOMAIN e.headers
             /\ e.adjacency[row][1] = row[2]
             /\ row[2][1] \in DataKinds
             /\ row[1] \in e.headers[e.adjacency[row]].ends
  <2>1. CASE /\ Live(pin, header) /\ row[2] = pin[1] /\ row[1] \in header.ends
             /\ e.adjacency[row] = pin
    BY <1>1, <2>1 DEF Live
  <2>2. CASE row \in DOMAIN d.adjacency /\ e.adjacency[row] = d.adjacency[row]
    BY <1>1, <2>2 DEF Adjacent
  <2>. QED
    BY <1>2, <2>1, <2>2 DEF Relinked
<1>4. ASSUME NEW r \in DOMAIN e.heads, r[1] \in DataKinds, HeadOf(e, r).state = "Active",
             NEW x \in HeadOf(e, r).ends
      PROVE  <<x, r>> \in DOMAIN e.adjacency /\ e.adjacency[<<x, r>>] = HeadPin(e, r)
  <2>1. CASE r = pin[1]
    BY <1>1, <1>2, <1>4, <2>1 DEF Live, Relinked
  <2>2. CASE r # pin[1]
    <3>1. /\ <<x, r>> \in DOMAIN d.adjacency /\ d.adjacency[<<x, r>>] = HeadPin(d, r)
          /\ HeadPin(e, r) = HeadPin(d, r)
      BY <1>1, <1>4, <2>2 DEF Adjacent
    <3>2. <<x, r>>[2] # pin[1]
      BY <2>2
    <3>. QED
      BY <1>2, <3>1, <3>2 DEF Relinked
  <2>. QED
    BY <2>1, <2>2
<1>. QED
  BY <1>3, <1>4 DEF Adjacent

\* A summary stays one: what is corrected after it makes it outdated, and
\* what is erased after it hides it.
LEMMA WroteSummarised ==
    ASSUME NEW d, NEW e, NEW pin, NEW header, NEW s,
           Shaped(d), Summarised(d, s), Wrote(d, e, pin, header)
    PROVE  Summarised(e, s)
<1>1. /\ DOMAIN e.heads = DOMAIN d.heads \cup {pin[1]}
      /\ HeadPin(e, pin[1]) = pin /\ HeadOf(e, pin[1]) = header
      /\ \A r \in DOMAIN d.heads : r # pin[1] =>
            e.heads[r] = d.heads[r] /\ HeadOf(e, r) = HeadOf(d, r)
      /\ DOMAIN e.headers = DOMAIN d.headers \cup {pin} /\ e.headers[pin] = header
      /\ \A p \in DOMAIN d.headers : e.headers[p] = d.headers[p]
  BY WroteHeads DEF Shaped
<1>2. Redated(d, e, pin, header) /\ Dated(d)
  BY DEF Wrote, Shaped
<1>3. /\ e.epoch \in Nat /\ d.epoch \in Nat /\ d.epoch <= e.epoch
      /\ RedactionEpoch(d) \in Nat /\ RedactionEpoch(e) \in Nat
      /\ RedactionEpoch(d) <= RedactionEpoch(e) /\ RedactionEpoch(e) <= e.epoch
      /\ (pin[1] \in DOMAIN d.heads /\ pin[1][1] # "Type" /\ ~header.extracted) =>
            d.epoch < e.epoch
      /\ (header.state = "Purged" \/ (pin[1][1] = "History" /\ header.state # "Active")) =>
            d.epoch < RedactionEpoch(e)
  BY <1>2 DEF Redated, Dated
<1>4. /\ s.epoch \in Nat /\ s.epoch <= d.epoch
      /\ \A p \in s.inputs : p \in DOMAIN d.headers /\ p[1][1] # "Type"
  BY DEF Summarised
<1>5. \A p \in s.inputs : /\ p[1] \in DOMAIN d.heads /\ p[2] \in Nat
                          /\ d.heads[p[1]] \in Nat /\ p[2] <= d.heads[p[1]]
  BY <1>4 DEF Shaped, Heads, Pins
<1>6. ASSUME s.epoch = e.epoch, NEW p \in s.inputs, e.heads[p[1]] # p[2]
      PROVE  \E q \in DOMAIN e.headers : q[1] = p[1] /\ q[2] > p[2] /\ e.headers[q].extracted
  <2>1. s.epoch = d.epoch /\ e.epoch = d.epoch
    BY <1>3, <1>4, <1>6
  <2>2. CASE p[1] = pin[1]
    <3>1. header.extracted
      BY <1>3, <1>4, <1>5, <2>1, <2>2
    <3>2. pin[2] = d.heads[pin[1]] + 1
      BY <1>5, <2>2 DEF Wrote
    <3>3. pin[1] = p[1] /\ pin[2] > p[2]
      BY <1>5, <2>2, <3>2
    <3>. QED
      BY <1>1, <3>1, <3>3
  <2>3. CASE p[1] # pin[1]
    <3>1. d.heads[p[1]] # p[2]
      BY <1>1, <1>5, <1>6, <2>3
    <3>2. PICK q \in DOMAIN d.headers : q[1] = p[1] /\ q[2] > p[2] /\ d.headers[q].extracted
      BY <2>1, <3>1 DEF Summarised
    <3>. QED
      BY <1>1, <3>2
  <2>. QED
    BY <2>2, <2>3
<1>7. ASSUME s.epoch >= RedactionEpoch(e), NEW p \in s.inputs
      PROVE  /\ HeadOf(e, p[1]).state # "Purged"
             /\ p[1][1] = "History" => HeadOf(e, p[1]).state = "Active"
  <2>1. s.epoch >= RedactionEpoch(d)
    BY <1>3, <1>4, <1>7
  <2>2. ~(d.epoch < RedactionEpoch(e))
    BY <1>3, <1>4, <1>7
  <2>3. CASE p[1] = pin[1]
    BY <1>1, <1>3, <2>2, <2>3
  <2>4. CASE p[1] # pin[1]
    <3>1. HeadOf(e, p[1]) = HeadOf(d, p[1])
      BY <1>1, <1>5, <2>4
    <3>. QED
      BY <2>1, <3>1 DEF Summarised
  <2>. QED
    BY <2>3, <2>4
<1>8. s.epoch <= e.epoch
  BY <1>3, <1>4
<1>9. \A p \in s.inputs : p \in DOMAIN e.headers /\ p[1][1] # "Type"
  BY <1>1, <1>4
<1>. QED
  BY <1>4, <1>6, <1>7, <1>8, <1>9 DEF Summarised

LEMMA WroteSummaries ==
    ASSUME NEW d, NEW e, NEW pin, NEW header,
           Shaped(d), Summaries(d), Wrote(d, e, pin, header),
           header.checkpoint # None => Summarised(d, header.checkpoint)
    PROVE  Summaries(e)
<1>1. /\ DOMAIN e.headers = DOMAIN d.headers \cup {pin} /\ e.headers[pin] = header
      /\ \A p \in DOMAIN d.headers : e.headers[p] = d.headers[p]
  BY WroteHeads DEF Shaped
<1>2. ASSUME NEW p \in DOMAIN e.headers, e.headers[p].checkpoint # None
      PROVE  Summarised(d, e.headers[p].checkpoint)
  BY <1>1, <1>2 DEF Summaries
<1>. QED
  BY <1>2, WroteSummarised DEF Summaries

\* The chain of checkpoints is that of the first revisions.
LEMMA WroteChained ==
    ASSUME NEW d, NEW e, NEW pin, NEW header,
           Shaped(d), Chained(d), Wrote(d, e, pin, header),
           header.checkpoint = None \/ pin[2] # 1, e.latest = d.latest
    PROVE  Chained(e)
<1>1. /\ DOMAIN e.headers = DOMAIN d.headers \cup {pin} /\ e.headers[pin] = header
      /\ \A p \in DOMAIN d.headers : e.headers[p] = d.headers[p]
  BY WroteHeads DEF Shaped
<1>2. Firsts(e) = Firsts(d)
  BY <1>1 DEF Firsts
<1>3. Firsts(d) \subseteq DOMAIN d.headers
  BY DEF Firsts
<1>4. \A c \in Firsts(d) : e.headers[c] = d.headers[c]
  BY <1>1, <1>3
<1>5. \A key \in DOMAIN d.latest : d.latest[key] \in Firsts(d)
  BY DEF Chained
<1>6. \A key \in DOMAIN e.latest :
          /\ e.latest[key] \in Firsts(e)
          /\ e.headers[e.latest[key]].checkpoint.key = key
  BY <1>2, <1>4, <1>5 DEF Chained
<1>7. ASSUME NEW c \in Firsts(e)
      PROVE  LET a == e.headers[c].checkpoint
             IN /\ a.key \in DOMAIN e.latest
                /\ a.window \in Nat
                /\ a.window <= e.headers[e.latest[a.key]].checkpoint.window
                /\ a.previous # e.latest[a.key]
                /\ a.previous \in DOMAIN e.headers \cup {None}
  <2> DEFINE a == d.headers[c].checkpoint
  <2>1. /\ a.key \in DOMAIN d.latest
        /\ a.window \in Nat
        /\ a.window <= d.headers[d.latest[a.key]].checkpoint.window
        /\ a.previous # d.latest[a.key]
        /\ a.previous \in DOMAIN d.headers \cup {None}
    BY <1>2 DEF Chained
  <2>2. e.headers[c].checkpoint = a
    BY <1>2, <1>4
  <2>3. e.headers[e.latest[a.key]] = d.headers[d.latest[a.key]]
    BY <1>4, <1>5, <2>1
  <2> HIDE DEF a
  <2>. QED
    BY <1>1, <2>1, <2>2, <2>3
<1>8. ASSUME NEW c \in Firsts(e), NEW f \in Firsts(e), c # f,
             e.headers[c].checkpoint.key = e.headers[f].checkpoint.key
      PROVE  /\ e.headers[c].checkpoint.previous # e.headers[f].checkpoint.previous
             /\ e.headers[c].checkpoint.window # e.headers[f].checkpoint.window
  <2>1. e.headers[c] = d.headers[c] /\ e.headers[f] = d.headers[f]
    BY <1>2, <1>4
  <2>. QED
    BY <1>2, <1>8, <2>1 DEF Chained
<1>. QED
  BY <1>6, <1>7, <1>8 DEF Chained

\* Receipts of extractions stand when no revision is extracted.
LEMMA WroteExtracted ==
    ASSUME NEW d, NEW e, NEW pin, NEW header,
           Shaped(d), Extracted(d), Wrote(d, e, pin, header),
           ~(header.extracted /\ header.state = "Active"), e.receipts = d.receipts
    PROVE  Extracted(e)
<1>1. /\ DOMAIN e.headers = DOMAIN d.headers \cup {pin} /\ e.headers[pin] = header
      /\ \A p \in DOMAIN d.headers : e.headers[p] = d.headers[p]
  BY WroteHeads DEF Shaped
<1>2. ASSUME NEW p \in DOMAIN e.headers, e.headers[p].extracted, e.headers[p].state = "Active"
      PROVE  p \in DOMAIN d.headers /\ d.headers[p].extracted /\ d.headers[p].state = "Active"
  BY <1>1, <1>2
<1>. QED
  BY <1>1, <1>2 DEF Extracted

LEMMA WroteResolved ==
    ASSUME NEW d, NEW e, NEW pin, NEW header,
           Shaped(d), Resolved(d), Wrote(d, e, pin, header), e.entities = d.entities
    PROVE  Resolved(e)
<1>1. DOMAIN e.heads = DOMAIN d.heads \cup {pin[1]}
  BY WroteHeads DEF Shaped
<1>. QED
  BY <1>1 DEF Resolved

\* A revision that is no checkpoint of its own, no extraction and no new
\* reference.
LEMMA WroteKeeps ==
    ASSUME NEW d, NEW e, NEW pin, NEW header, StoreOK(d), Wrote(d, e, pin, header),
           header.checkpoint # None => pin[2] # 1 /\ Summarised(d, header.checkpoint),
           ~(header.extracted /\ header.state = "Active"),
           e.latest = d.latest, e.receipts = d.receipts, e.entities = d.entities
    PROVE  StoreOK(e)
<1>1. /\ Shaped(d) /\ Posted(d) /\ Adjacent(d) /\ Summaries(d) /\ Chained(d)
      /\ Extracted(d) /\ Resolved(d)
  BY DEF StoreOK
<1>2. Shaped(e)
  BY <1>1, WroteShaped
<1>3. Posted(e)
  BY <1>1, WrotePosted
<1>4. Adjacent(e)
  BY <1>1, WroteAdjacent
<1>5. Summaries(e)
  BY <1>1, WroteSummaries
<1>6. Chained(e)
  BY <1>1, WroteChained
<1>7. Extracted(e)
  BY <1>1, WroteExtracted
<1>8. Resolved(e)
  BY <1>1, WroteResolved
<1>. QED
  BY <1>2, <1>3, <1>4, <1>5, <1>6, <1>7, <1>8 DEF StoreOK

\* Batches that write no revision.
LEMMA SameRevisionRows ==
    ASSUME NEW d, NEW e, Shaped(d), Posted(d), Adjacent(d), Summaries(d), Chained(d),
           DOMAIN e = Rows,
           Keeps(d, e, Rows \ {"payloads", "pending", "started", "entities", "receipts"}),
           e.payloads \subseteq Pins \X (1..MaxChunks), DOMAIN e.pending \subseteq Records
    PROVE  Shaped(e) /\ Posted(e) /\ Adjacent(e) /\ Summaries(e) /\ Chained(e)
<1>1. /\ e.headers = d.headers /\ e.heads = d.heads /\ e.epoch = d.epoch
      /\ e.marker = d.marker /\ e.names = d.names /\ e.order = d.order
  BY DEF Keeps, Rows
<1>2. e.postings = d.postings /\ e.adjacency = d.adjacency /\ e.latest = d.latest
  BY DEF Keeps, Rows
<1>3. /\ \A r : HeadPin(e, r) = HeadPin(d, r) /\ HeadOf(e, r) = HeadOf(d, r)
      /\ RedactionEpoch(e) = RedactionEpoch(d)
  BY <1>1 DEF HeadPin, HeadOf, RedactionEpoch
<1>4. Shaped(e)
  <2>1. Heads(e) /\ Dated(e) /\ Named(e)
    BY <1>1, <1>3 DEF Shaped, Heads, Dated, Named
  <2>2. \A p \in DOMAIN e.headers : Proper(e, p, e.headers[p])
    BY <1>1 DEF Shaped, Proper
  <2>. QED
    BY <1>1, <2>1, <2>2 DEF Shaped
<1>5. Posted(e)
  BY <1>1, <1>2, <1>3 DEF Posted
<1>6. Adjacent(e)
  BY <1>1, <1>2, <1>3 DEF Adjacent
<1>7. ASSUME NEW s, Summarised(d, s) PROVE Summarised(e, s)
  BY <1>1, <1>3, <1>7 DEF Summarised
<1>8. Summaries(e)
  BY <1>1, <1>7 DEF Summaries
<1>9. Chained(e)
  <2>1. Firsts(e) = Firsts(d)
    BY <1>1 DEF Firsts
  <2>2. \A key \in DOMAIN e.latest :
           /\ e.latest[key] \in Firsts(e)
           /\ e.headers[e.latest[key]].checkpoint.key = key
    BY <1>1, <1>2, <2>1 DEF Chained
  <2>3. ASSUME NEW c \in Firsts(e)
        PROVE  LET a == e.headers[c].checkpoint
               IN /\ a.key \in DOMAIN e.latest
                  /\ a.window \in Nat
                  /\ a.window <= e.headers[e.latest[a.key]].checkpoint.window
                  /\ a.previous # e.latest[a.key]
                  /\ a.previous \in DOMAIN e.headers \cup {None}
    BY <1>1, <1>2, <2>1 DEF Chained
  <2>4. ASSUME NEW c \in Firsts(e), NEW f \in Firsts(e), c # f,
               e.headers[c].checkpoint.key = e.headers[f].checkpoint.key
        PROVE  /\ e.headers[c].checkpoint.previous # e.headers[f].checkpoint.previous
               /\ e.headers[c].checkpoint.window # e.headers[f].checkpoint.window
    BY <1>1, <2>1, <2>4 DEF Chained
  <2>. QED
    BY <2>2, <2>3, <2>4 DEF Chained
<1>. QED
  BY <1>4, <1>5, <1>6, <1>8, <1>9

LEMMA SameStore ==
    ASSUME NEW d, NEW e, StoreOK(d), DOMAIN e = Rows,
           Keeps(d, e, Rows \ {"payloads", "pending", "started", "entities"}),
           Resolved(e),
           e.payloads \subseteq Pins \X (1..MaxChunks), DOMAIN e.pending \subseteq Records
    PROVE  StoreOK(e)
<1>1. Keeps(d, e, Rows \ {"payloads", "pending", "started", "entities", "receipts"})
  BY DEF Keeps
<1>2. Shaped(e) /\ Posted(e) /\ Adjacent(e) /\ Summaries(e) /\ Chained(e)
  BY <1>1, SameRevisionRows DEF StoreOK
<1>3. e.headers = d.headers /\ e.receipts = d.receipts
  BY DEF Keeps, Rows
<1>4. Extracted(e)
  BY <1>3 DEF StoreOK, Extracted
<1>. QED
  BY <1>2, <1>4 DEF StoreOK

-----------------------------------------------------------------------------
(* The batches write one revision. *)

\* Records that search does not cover.
LEMMA Unsearched ==
    ASSUME NEW d, NEW e, NEW pin, NEW header, Posted(d), Adjacent(d),
           pin[1][1] \notin DataKinds, e.postings = d.postings, e.adjacency = d.adjacency
    PROVE  Reposted(d, e, pin, header) /\ Relinked(d, e, pin, header)
<1>1. pin[1] \notin DOMAIN d.postings /\ ~Live(pin, header)
  BY DEF Posted, Live
<1>2. Reposted(d, e, pin, header)
  BY <1>1 DEF Reposted
<1>3. Relinked(d, e, pin, header)
  BY <1>1 DEF Relinked
<1>. QED
  BY <1>2, <1>3

LEMMA ReplacedRows ==
    ASSUME NEW adjacency, NEW previous, NEW pin, NEW header,
           NEW new, new = Adjacency(adjacency, previous, pin, header)
    PROVE  /\ \A row \in DOMAIN new :
                 \/ /\ header.state = "Active" /\ row[2] = pin[1] /\ row[1] \in header.ends
                    /\ new[row] = pin
                 \/ row \in DOMAIN adjacency /\ new[row] = adjacency[row]
           /\ header.state = "Active" => \A x \in header.ends :
                 <<x, pin[1]>> \in DOMAIN new /\ new[<<x, pin[1]>>] = pin
           /\ \A row \in DOMAIN adjacency : row[2] # pin[1] =>
                 row \in DOMAIN new /\ new[row] = adjacency[row]
<1> DEFINE added == LiveEnds(header) \X {pin[1]}
           kept == DOMAIN adjacency \ (previous \X {pin[1]})
<1>1. /\ DOMAIN new = kept \cup added
      /\ \A row \in added : new[row] = pin
      /\ \A row \in kept : row \notin added => new[row] = adjacency[row]
  BY DEF Adjacency
<1>2. \A row \in added : header.state = "Active" /\ row[2] = pin[1] /\ row[1] \in header.ends
  BY DEF LiveEnds
<1>3. header.state = "Active" => \A x \in header.ends : <<x, pin[1]>> \in added
  BY DEF LiveEnds
<1>4. \A row \in DOMAIN adjacency : row[2] # pin[1] => row \in kept /\ row \notin added
  BY <1>2
<1> HIDE DEF added
<1>5. ASSUME NEW row \in DOMAIN new
      PROVE  \/ /\ header.state = "Active" /\ row[2] = pin[1] /\ row[1] \in header.ends
                /\ new[row] = pin
             \/ row \in DOMAIN adjacency /\ new[row] = adjacency[row]
  <2>1. CASE row \in added
    BY <1>1, <1>2, <2>1
  <2>2. CASE row \notin added
    BY <1>1, <2>2
  <2>. QED
    BY <2>1, <2>2
<1> HIDE DEF kept
<1>. QED
  BY <1>1, <1>3, <1>4, <1>5

\* Records that search covers, and those it no longer does.
LEMMA Searched ==
    ASSUME NEW d, NEW e, NEW pin, NEW header, NEW previous,
           \/ /\ header.state = "Active" /\ pin[1][1] \in DataKinds
              /\ e.postings = WithRow(d.postings, pin[1], pin)
           \/ header.state # "Active" /\ e.postings = Cleared(d.postings, pin[1]),
           e.adjacency = Adjacency(d.adjacency, previous, pin, header)
    PROVE  Reposted(d, e, pin, header) /\ Relinked(d, e, pin, header)
<1>1. Live(pin, header) <=> header.state = "Active"
  BY DEF Live
<1>2. Reposted(d, e, pin, header)
  <2>1. CASE header.state = "Active"
    <3>1. e.postings = WithRow(d.postings, pin[1], pin)
      BY <2>1
    <3>. QED
      BY <1>1, <2>1, <3>1 DEF Reposted, WithRow
  <2>2. CASE header.state # "Active"
    <3>1. e.postings = Cleared(d.postings, pin[1])
      BY <2>2
    <3>. QED
      BY <1>1, <2>2, <3>1 DEF Reposted, Cleared
  <2>. QED
    BY <2>1, <2>2
<1>3. Relinked(d, e, pin, header)
  <2>1. /\ \A row \in DOMAIN e.adjacency :
                 \/ /\ header.state = "Active" /\ row[2] = pin[1] /\ row[1] \in header.ends
                    /\ e.adjacency[row] = pin
                 \/ row \in DOMAIN d.adjacency /\ e.adjacency[row] = d.adjacency[row]
        /\ header.state = "Active" => \A x \in header.ends :
                 <<x, pin[1]>> \in DOMAIN e.adjacency /\ e.adjacency[<<x, pin[1]>>] = pin
        /\ \A row \in DOMAIN d.adjacency : row[2] # pin[1] =>
                 row \in DOMAIN e.adjacency /\ e.adjacency[row] = d.adjacency[row]
    BY ReplacedRows
  <2>. QED
    BY <1>1, <2>1 DEF Relinked
<1>. QED
  BY <1>2, <1>3

\* A pin for a record that is not there yet, or the next revision of one.
NextTo(d, pin) ==
    /\ pin \in Pins
    /\ pin[2] = IF pin[1] \in DOMAIN d.heads THEN d.heads[pin[1]] + 1 ELSE 1
    /\ pin[1] \in DOMAIN d.heads => HeadOf(d, pin[1]).state # "Purged"

LEMMA FreshPins ==
    ASSUME NEW d, NEW kind, HasRoom(d, kind), NEW pin, pin = FreshPin(d, kind)
    PROVE  /\ NextTo(d, pin) /\ pin[1] \notin Used(d) /\ pin[1] \notin DOMAIN d.heads
           /\ pin[1][1] = kind /\ pin[2] = 1 /\ pin[1] \in Records
<1>1. /\ pin \in Pins /\ pin = PinOf(pin[1], 1)
      /\ pin[1] \in Records /\ pin[1][1] = kind /\ pin[1] \notin Used(d)
  BY FreshPinTyped
<1>2. pin[2] = 1
  BY <1>1 DEF PinOf
<1>3. pin[1] \notin DOMAIN d.heads
  BY <1>1 DEF Used
<1>. QED
  BY <1>1, <1>2, <1>3 DEF NextTo

LEMMA NextPins ==
    ASSUME NEW d, NEW record, Heads(d), Revisable(d, record), NEW pin, pin = NextPin(d, record)
    PROVE  /\ NextTo(d, pin) /\ pin[1] = record /\ pin[2] = d.heads[record] + 1 /\ pin[2] # 1
           /\ record \in DOMAIN d.heads /\ HeadPin(d, record) \in DOMAIN d.headers
           /\ HeadPin(d, record)[1] = record
           /\ HeadOf(d, record) = d.headers[HeadPin(d, record)]
<1>1. record \in DOMAIN d.heads /\ HeadOf(d, record).state # "Purged" /\ d.heads[record] < MaxRevision
  BY DEF Revisable, Exists
<1>2. /\ HeadPin(d, record) \in DOMAIN d.headers /\ HeadPin(d, record)[1] = record
      /\ record \in Records /\ d.heads[record] \in Nat /\ 1 <= d.heads[record]
  BY <1>1, HeadIsRevision
<1>3. pin \in Pins /\ pin[1] = record /\ pin[2] = d.heads[record] + 1
  BY <1>1, <1>2, PinIn DEF NextPin
<1>. QED
  BY <1>1, <1>2, <1>3 DEF NextTo, HeadOf

LEMMA IsWrote ==
    ASSUME NEW d, NEW e, NEW pin, NEW header, Shaped(d), NextTo(d, pin),
           Proper(d, pin, header), DOMAIN e = Rows,
           e.headers = WithRow(d.headers, pin, header),
           e.heads = WithRow(d.heads, pin[1], pin[2]),
           e.payloads \subseteq d.payloads \cup {<<pin, 1>>},
           DOMAIN e.pending \subseteq DOMAIN d.pending \cup {pin[1]},
           e.order \in [Sessions -> Seq(Records)],
           \A n \in DOMAIN e.names :
              \/ n \in DOMAIN d.names /\ e.names[n] = d.names[n]
              \/ /\ e.names[n] = pin[1]
                 /\ n \in TypeNames => pin[1][1] = "Type"
                 /\ n = "action" => pin[1][1] = "Action",
           Reposted(d, e, pin, header), Relinked(d, e, pin, header), Redated(d, e, pin, header)
    PROVE  Wrote(d, e, pin, header)
<1>1. Heads(d) /\ pin \in Pins
      /\ pin[2] = IF pin[1] \in DOMAIN d.heads THEN d.heads[pin[1]] + 1 ELSE 1
  BY DEF Shaped, NextTo
<1>2. Heads(e) /\ Revised(d, e, pin, header)
  BY <1>1, RevisionAdded
<1>. QED
  BY <1>2 DEF Wrote, NextTo

\* Names are as they were.
LEMMA SameNames ==
    ASSUME NEW d, NEW e, NEW pin, e.names = d.names
    PROVE  \A n \in DOMAIN e.names :
              \/ n \in DOMAIN d.names /\ e.names[n] = d.names[n]
              \/ /\ e.names[n] = pin[1]
                 /\ n \in TypeNames => pin[1][1] = "Type"
                 /\ n = "action" => pin[1][1] = "Action"
  OBVIOUS

LEMMA NotCorrected ==
    ASSUME NEW d, NEW e, NEW pin, NEW header, Dated(d), SameDates(d, e),
           pin[1] \notin DOMAIN d.heads \/ pin[1][1] = "Type" \/ header.extracted,
           header.state = "Active"
    PROVE  Redated(d, e, pin, header)
<1>1. RedactionEpoch(e) = RedactionEpoch(d)
  BY DEF SameDates, RedactionEpoch
<1>. QED
  BY <1>1 DEF Dated, SameDates, Redated

LEMMA IsCorrected ==
    ASSUME NEW d, NEW e, NEW pin, NEW header, Dated(d), e.epoch = d.epoch + 1,
           e.marker \in {Marker(d.epoch + 1, RedactionEpoch(d)),
                         Marker(d.epoch + 1, d.epoch + 1)},
           (header.state = "Purged" \/ (pin[1][1] = "History" /\ header.state # "Active")) =>
              e.marker = Marker(d.epoch + 1, d.epoch + 1)
    PROVE  Redated(d, e, pin, header)
<1>1. /\ e.epoch \in Nat /\ d.epoch < e.epoch
      /\ RedactionEpoch(d) <= RedactionEpoch(e) /\ RedactionEpoch(e) \in 0..e.epoch
      /\ e.marker = Marker(d.epoch + 1, d.epoch + 1) => RedactionEpoch(e) = e.epoch
  BY EpochAdvanced
<1>2. d.epoch \in Nat
  BY DEF Dated
<1>. QED
  BY <1>1, <1>2 DEF Redated

\* Sources are stored, and so is what they rest on.
LEMMA SourcesStand ==
    ASSUME NEW d, Shaped(d), NEW sources, sources \subseteq DOMAIN d.headers
    PROVE  Rests(d, sources) \subseteq DOMAIN d.headers
  BY DEF Rests, Shaped, Proper

LEMMA ValidStand ==
    ASSUME NEW d, Shaped(d), NEW sources, NEW revised, ValidSources(d, sources, revised)
    PROVE  sources \subseteq DOMAIN d.headers /\ Rests(d, sources) \subseteq DOMAIN d.headers
<1>1. sources \subseteq DOMAIN d.headers
  BY DEF ValidSources, Current, Available, SelfAvailable
<1>. QED
  BY <1>1, SourcesStand

-----------------------------------------------------------------------------
(* What a step of the store carries over, and what it promises. *)

Carries(d, e) ==
    /\ DOMAIN d.headers \subseteq DOMAIN e.headers
    /\ \A s : Summarised(d, s) => Summarised(e, s)

\* The write of an Object, Relation, Action or Checkpoint is current.
Standing(e, p) ==
    (/\ p[1][1] \in {"Object", "Relation", "Action", "Checkpoint"}
     /\ e.headers[p].state = "Active" /\ ~e.headers[p].extracted
     /\ p[2] > 1 => ~RestsOnCheckpoint(e, p))
    => Current(e, p)

NewCurrent(d, e) == \A p \in DOMAIN e.headers \ DOMAIN d.headers : Standing(e, p)

SameEntities(d, e) ==
    /\ \A x, y \in DOMAIN d.entities :
          d.entities[x].node = d.entities[y].node => e.entities[x].node = e.entities[y].node
    /\ \A x \in DOMAIN e.entities : e.entities[x].node \in DOMAIN e.heads

Fits(d, e) == StoreOK(e) /\ Carries(d, e) /\ NewCurrent(d, e) /\ SameEntities(d, e)

LEMMA WroteCarries ==
    ASSUME NEW d, NEW e, NEW pin, NEW header, Shaped(d), Wrote(d, e, pin, header)
    PROVE  Carries(d, e)
<1>1. DOMAIN d.headers \subseteq DOMAIN e.headers
  BY WroteHeads DEF Shaped
<1>2. ASSUME NEW s, Summarised(d, s) PROVE Summarised(e, s)
  BY <1>2, WroteSummarised
<1>. QED
  BY <1>1, <1>2 DEF Carries

LEMMA WroteNew ==
    ASSUME NEW d, NEW e, NEW pin, NEW header, Shaped(d), Wrote(d, e, pin, header),
           Standing(e, pin)
    PROVE  NewCurrent(d, e)
<1>1. DOMAIN e.headers = DOMAIN d.headers \cup {pin}
  BY WroteHeads DEF Shaped
<1>. QED
  BY <1>1 DEF NewCurrent

LEMMA EntitiesKept ==
    ASSUME NEW d, NEW e, Resolved(e), e.entities = d.entities
    PROVE  SameEntities(d, e)
  BY DEF SameEntities, Resolved

LEMMA WroteFits ==
    ASSUME NEW d, NEW e, NEW pin, NEW header, StoreOK(d), Wrote(d, e, pin, header),
           header.checkpoint # None => pin[2] # 1 /\ Summarised(d, header.checkpoint),
           ~(header.extracted /\ header.state = "Active"),
           e.latest = d.latest, e.receipts = d.receipts, e.entities = d.entities,
           Standing(e, pin)
    PROVE  Fits(d, e)
<1>1. StoreOK(e)
  BY WroteKeeps
<1>2. Shaped(d) /\ Resolved(e)
  BY <1>1 DEF StoreOK
<1>3. Carries(d, e)
  BY <1>2, WroteCarries
<1>4. NewCurrent(d, e)
  BY <1>2, WroteNew
<1>5. SameEntities(d, e)
  BY <1>2, EntitiesKept
<1>. QED
  BY <1>1, <1>3, <1>4, <1>5 DEF Fits

\* Batches that write no revision: at most references change.
LEMMA SameCarries ==
    ASSUME NEW d, NEW e, e.headers = d.headers, e.heads = d.heads, e.epoch = d.epoch,
           e.marker = d.marker
    PROVE  Carries(d, e) /\ NewCurrent(d, e)
<1>1. /\ \A r : HeadOf(e, r) = HeadOf(d, r)
      /\ RedactionEpoch(e) = RedactionEpoch(d)
  BY DEF HeadPin, HeadOf, RedactionEpoch
<1>2. ASSUME NEW s, Summarised(d, s) PROVE Summarised(e, s)
  BY <1>1, <1>2 DEF Summarised
<1>3. NewCurrent(d, e)
  BY DEF NewCurrent
<1>. QED
  BY <1>2, <1>3 DEF Carries

LEMMA SameFits ==
    ASSUME NEW d, NEW e, StoreOK(d), DOMAIN e = Rows,
           Keeps(d, e, Rows \ {"payloads", "pending", "started"}),
           e.payloads \subseteq Pins \X (1..MaxChunks), DOMAIN e.pending \subseteq Records
    PROVE  Fits(d, e)
<1>1. /\ e.headers = d.headers /\ e.heads = d.heads /\ e.epoch = d.epoch
      /\ e.marker = d.marker /\ e.entities = d.entities
  BY DEF Keeps, Rows
<1>2. StoreOK(e)
  <2>1. Keeps(d, e, Rows \ {"payloads", "pending", "started", "entities"})
    BY DEF Keeps
  <2>2. Resolved(e)
    BY <1>1 DEF StoreOK, Resolved
  <2>. QED
    BY <2>1, <2>2, SameStore
<1>3. Carries(d, e) /\ NewCurrent(d, e)
  BY <1>1, SameCarries
<1>4. SameEntities(d, e)
  BY <1>1, <1>2, EntitiesKept DEF StoreOK
<1>. QED
  BY <1>2, <1>3, <1>4 DEF Fits

\* A store that did not change.
LEMMA UnchangedFits ==
    ASSUME NEW d, StoreOK(d)
    PROVE  Fits(d, d)
<1>1. Carries(d, d) /\ NewCurrent(d, d)
  BY SameCarries
<1>2. SameEntities(d, d)
  BY EntitiesKept DEF StoreOK
<1>. QED
  BY <1>1, <1>2 DEF Fits

-----------------------------------------------------------------------------
(* What is written is current. *)

\* Sources that were found current, with all they rest on.
LEMMA ValidSelf ==
    ASSUME NEW d, NEW sources, NEW revised, ValidSources(d, sources, revised)
    PROVE  \A p \in Rests(d, sources) : SelfAvailable(d, p, TRUE) /\ p[1] # revised
<1>1. ASSUME NEW p \in Rests(d, sources) PROVE SelfAvailable(d, p, TRUE)
  <2>1. CASE p \in sources
    BY <2>1 DEF ValidSources, Current, Available
  <2>2. CASE p \notin sources
    <3>1. PICK q \in sources : p \in d.headers[q].rests
      BY <2>2 DEF Rests
    <3>. QED
      BY <3>1 DEF ValidSources, Current, Available
  <2>. QED
    BY <2>1, <2>2
<1>. QED
  BY <1>1 DEF ValidSources

LEMMA WroteStanding ==
    ASSUME NEW d, NEW e, NEW pin, NEW header, Shaped(d), Wrote(d, e, pin, header),
           header.history = None,
           \A p \in header.rests : SelfAvailable(d, p, TRUE) /\ p[1] # pin[1],
           e.messages = d.messages,
           pin[2] = 1 => e.epoch = d.epoch,
           header.checkpoint # None => header.checkpoint.epoch = e.epoch
    PROVE  Standing(e, pin)
<1>1. /\ DOMAIN e.heads = DOMAIN d.heads \cup {pin[1]}
      /\ HeadPin(e, pin[1]) = pin /\ HeadOf(e, pin[1]) = header
      /\ \A r \in DOMAIN d.heads : r # pin[1] =>
            e.heads[r] = d.heads[r] /\ HeadOf(e, r) = HeadOf(d, r)
      /\ DOMAIN e.headers = DOMAIN d.headers \cup {pin} /\ e.headers[pin] = header
      /\ \A p \in DOMAIN d.headers : e.headers[p] = d.headers[p]
  BY WroteHeads DEF Shaped
<1>2. SUFFICES ASSUME header.state = "Active", pin[2] > 1 => ~RestsOnCheckpoint(e, pin)
               PROVE  Current(e, pin)
  BY <1>1 DEF Standing
<1>3. e.heads[pin[1]] = pin[2] /\ pin[2] \in Nat /\ pin[2] >= 1
  BY PinShape DEF Wrote, Revised
<1>4. SelfAvailable(e, pin, TRUE)
  BY <1>1, <1>2, <1>3 DEF SelfAvailable, CheckpointAvailable
<1>5. ASSUME NEW p \in header.rests PROVE SelfAvailable(e, p, TRUE)
  <2>1. SelfAvailable(d, p, TRUE) /\ p[1] # pin[1] /\ p \in DOMAIN d.headers
    BY <1>5 DEF SelfAvailable
  <2>2. p[1] \in DOMAIN d.heads /\ Proper(d, p, d.headers[p])
    BY <2>1 DEF Shaped, Heads
  <2>3. e.headers[p] = d.headers[p] /\ p \in DOMAIN e.headers
        /\ HeadOf(e, p[1]) = HeadOf(d, p[1]) /\ e.heads[p[1]] = d.heads[p[1]]
    BY <1>1, <2>1, <2>2
  <2>4. \A h : MessageAvailable(d, h) => MessageAvailable(e, h)
    BY DEF MessageAvailable
  <2>5. d.headers[p].checkpoint # None => e.epoch = d.epoch
    <3>1. SUFFICES ASSUME d.headers[p].checkpoint # None, pin[2] > 1 PROVE FALSE
      BY <1>3
    <3>2. p[1][1] = "Checkpoint"
      BY <2>2, <3>1 DEF Proper
    <3>. QED
      BY <1>1, <1>2, <1>5, <3>1, <3>2 DEF RestsOnCheckpoint
  <2>. QED
    BY <2>1, <2>3, <2>4, <2>5 DEF SelfAvailable, CheckpointAvailable
<1>. QED
  BY <1>1, <1>4, <1>5 DEF Current, Available

LEMMA StandingKept ==
    ASSUME NEW d, NEW e, Keeps(d, e, {"headers", "heads", "epoch", "marker", "messages"}),
           NEW p, Standing(d, p)
    PROVE  Standing(e, p)
<1>1. /\ e.headers = d.headers /\ e.heads = d.heads /\ e.epoch = d.epoch
      /\ e.marker = d.marker /\ e.messages = d.messages
  BY DEF Keeps
<1>2. /\ \A r : HeadOf(e, r) = HeadOf(d, r)
      /\ RedactionEpoch(e) = RedactionEpoch(d)
      /\ \A h : MessageAvailable(e, h) <=> MessageAvailable(d, h)
  BY <1>1 DEF HeadPin, HeadOf, RedactionEpoch, MessageAvailable
<1>3. \A q : SelfAvailable(e, q, TRUE) <=> SelfAvailable(d, q, TRUE)
  BY <1>1, <1>2 DEF SelfAvailable, CheckpointAvailable
<1>4. Current(e, p) <=> Current(d, p)
  BY <1>1, <1>3 DEF Current, Available
<1>. QED
  BY <1>1, <1>4 DEF Standing, RestsOnCheckpoint

-----------------------------------------------------------------------------
(* Batches of one revision, at the epoch of the store or the next. *)

\* x is the store a batch starts from: a correction advances the epoch first.
Started(d, x, pin, header) ==
    \/ x = AdvanceEpoch(d) /\ pin[2] # 1
    \/ /\ x = d
       /\ pin[1] \notin DOMAIN d.heads \/ pin[1][1] = "Type" \/ header.extracted

LEMMA StartedRows ==
    ASSUME NEW d, DOMAIN d = Rows, Dated(d), NEW x, NEW pin, NEW header, header.state = "Active",
           Started(d, x, pin, header)
    PROVE  /\ DOMAIN x = Rows /\ Keeps(d, x, Rows \ {"epoch", "marker"})
           /\ \A e : (e.epoch = x.epoch /\ e.marker = x.marker) =>
                 /\ Redated(d, e, pin, header)
                 /\ pin[2] = 1 => e.epoch = d.epoch
<1>1. CASE x = AdvanceEpoch(d) /\ pin[2] # 1
  <2>1. /\ DOMAIN x = Rows /\ Keeps(d, x, Rows \ {"epoch", "marker"})
        /\ x.epoch = d.epoch + 1
        /\ x.marker = Marker(d.epoch + 1, RedactionEpoch(d))
    BY <1>1, AdvanceRows
  <2>2. ASSUME NEW e, e.epoch = x.epoch, e.marker = x.marker
        PROVE  Redated(d, e, pin, header)
    BY <2>1, <2>2, IsCorrected DEF Live
  <2>. QED
    BY <1>1, <2>1, <2>2
<1>2. CASE x = d /\ (pin[1] \notin DOMAIN d.heads \/ pin[1][1] = "Type" \/ header.extracted)
  <2>1. ASSUME NEW e, e.epoch = x.epoch, e.marker = x.marker
        PROVE  Redated(d, e, pin, header)
    BY <1>2, <2>1, NotCorrected DEF SameDates
  <2>. QED
    BY <1>2, <2>1 DEF Keeps
<1>. QED
  BY <1>1, <1>2 DEF Started

\* Payload and header of a record that search does not cover.
LEMMA PlainWrote ==
    ASSUME NEW d, Shaped(d), Posted(d), Adjacent(d), NEW x, NEW pin, NEW header,
           header.state = "Active", Started(d, x, pin, header),
           NextTo(d, pin), pin[1][1] \notin DataKinds, Proper(d, pin, header),
           NEW y, y = PutHeader(PutPayload(x, pin, 1), pin, header),
           NEW e, DOMAIN e = Rows, Keeps(y, e, Rows \ {"names", "latest"}),
           e.names = y.names \/ (\E n \in {"action"} \cup TypeNames :
              /\ e.names = WithRow(y.names, n, pin[1])
              /\ n \in TypeNames => pin[1][1] = "Type"
              /\ n = "action" => pin[1][1] = "Action")
    PROVE  /\ Wrote(d, e, pin, header)
           /\ Keeps(d, e, {"messages", "receipts", "entities"})
           /\ y.names = d.names /\ y.latest = d.latest
           /\ pin[2] = 1 => e.epoch = d.epoch
<1>0. DOMAIN d = Rows /\ Dated(d)
  BY DEF Shaped
<1>1a. DOMAIN x = Rows
  BY <1>0, StartedRows
<1>1b. Keeps(d, x, Rows \ {"epoch", "marker"})
  BY <1>0, StartedRows
<1>1c. (e.epoch = x.epoch /\ e.marker = x.marker) => Redated(d, e, pin, header)
  BY <1>0, StartedRows
<1>1d. (e.epoch = x.epoch /\ e.marker = x.marker) => (pin[2] = 1 => e.epoch = d.epoch)
  BY <1>0, StartedRows
<1>2. DOMAIN y = Rows
  BY <1>1a, RevisionPut
<1>3. Keeps(x, y, Rows \ {"headers", "heads", "payloads"})
  BY <1>1a, RevisionPut
<1>4. y.headers = WithRow(x.headers, pin, header)
  BY <1>1a, RevisionPut
<1>5. y.heads = WithRow(x.heads, pin[1], pin[2])
  BY <1>1a, RevisionPut
<1>6. y.payloads = x.payloads \cup {<<pin, 1>>}
  BY <1>1a, RevisionPut
<1>7. /\ x.headers = d.headers /\ x.heads = d.heads /\ x.payloads = d.payloads
      /\ e.headers = y.headers /\ e.heads = y.heads /\ e.payloads = y.payloads
      /\ e.epoch = x.epoch /\ e.marker = x.marker
      /\ e.pending = d.pending /\ e.order = d.order
  BY <1>1b, <1>3 DEF Keeps, Rows
<1>8. /\ e.postings = d.postings /\ e.adjacency = d.adjacency
      /\ y.names = d.names /\ y.latest = d.latest
      /\ Keeps(d, e, {"messages", "receipts", "entities"})
  BY <1>1b, <1>3 DEF Keeps, Rows
<1>9. \A n \in DOMAIN e.names :
              \/ n \in DOMAIN d.names /\ e.names[n] = d.names[n]
              \/ /\ e.names[n] = pin[1]
                 /\ n \in TypeNames => pin[1][1] = "Type"
                 /\ n = "action" => pin[1][1] = "Action"
  <2>1. CASE e.names = y.names
    BY <1>8, <2>1, SameNames
  <2>2. CASE e.names # y.names
    <3>1. PICK n : /\ e.names = WithRow(y.names, n, pin[1])
                   /\ n \in TypeNames => pin[1][1] = "Type"
                   /\ n = "action" => pin[1][1] = "Action"
      BY <2>2
    <3>. QED
      BY <1>8, <3>1 DEF WithRow
  <2>. QED
    BY <2>1, <2>2
<1>10. Reposted(d, e, pin, header) /\ Relinked(d, e, pin, header)
  BY <1>8, Unsearched
<1>11. /\ e.headers = WithRow(d.headers, pin, header)
       /\ e.heads = WithRow(d.heads, pin[1], pin[2])
       /\ e.payloads \subseteq d.payloads \cup {<<pin, 1>>}
       /\ DOMAIN e.pending \subseteq DOMAIN d.pending \cup {pin[1]}
       /\ e.order \in [Sessions -> Seq(Records)]
  BY <1>4, <1>5, <1>6, <1>7 DEF Shaped
<1>12. Redated(d, e, pin, header)
  BY <1>1c, <1>7
<1>13. Wrote(d, e, pin, header)
  BY <1>9, <1>10, <1>11, <1>12, IsWrote
<1>. QED
  BY <1>1d, <1>7, <1>8, <1>13

\* Payload, header and index rows of an object or a relation.
LEMMA RecordWrote ==
    ASSUME NEW d, Shaped(d), NEW x, NEW pin, NEW header, NEW previous,
           header.state = "Active", Started(d, x, pin, header),
           NextTo(d, pin), pin[1][1] \in DataKinds, Proper(d, pin, header),
           NEW y, y = RecordBatch(x, pin, header, previous),
           NEW e, DOMAIN e = Rows, Keeps(y, e, Rows \ {"entities", "receipts", "started"})
    PROVE  /\ Wrote(d, e, pin, header)
           /\ Keeps(d, e, {"messages", "latest", "names"})
           /\ Keeps(d, y, {"entities", "receipts"})
           /\ e.epoch = x.epoch /\ e.marker = x.marker
           /\ pin[2] = 1 => e.epoch = d.epoch
<1>0. DOMAIN d = Rows /\ Dated(d)
  BY DEF Shaped
<1>1a. DOMAIN x = Rows
  BY <1>0, StartedRows
<1>1b. Keeps(d, x, Rows \ {"epoch", "marker"})
  BY <1>0, StartedRows
<1>1c. (e.epoch = x.epoch /\ e.marker = x.marker) => Redated(d, e, pin, header)
  BY <1>0, StartedRows
<1>1d. (e.epoch = x.epoch /\ e.marker = x.marker) => (pin[2] = 1 => e.epoch = d.epoch)
  BY <1>0, StartedRows
<1>2. DOMAIN y = Rows
  BY <1>1a, RecordPut
<1>3. Keeps(x, y, Rows \ {"headers", "heads", "payloads", "postings", "adjacency"})
  BY <1>1a, RecordPut
<1>4. y.headers = WithRow(x.headers, pin, header)
  BY <1>1a, RecordPut
<1>5. y.heads = WithRow(x.heads, pin[1], pin[2])
  BY <1>1a, RecordPut
<1>6. y.payloads = x.payloads \cup {<<pin, 1>>}
  BY <1>1a, RecordPut
<1>7. y.postings = WithRow(x.postings, pin[1], pin)
  BY <1>1a, RecordPut
<1>8. y.adjacency = Adjacency(x.adjacency, previous, pin, header)
  BY <1>1a, RecordPut
<1>9. /\ x.headers = d.headers /\ x.heads = d.heads /\ x.payloads = d.payloads
      /\ x.postings = d.postings /\ x.adjacency = d.adjacency
      /\ e.headers = y.headers /\ e.heads = y.heads /\ e.payloads = y.payloads
      /\ e.postings = y.postings /\ e.adjacency = y.adjacency
  BY <1>1b, <1>3 DEF Keeps, Rows
<1>10. /\ e.epoch = x.epoch /\ e.marker = x.marker
       /\ e.pending = d.pending /\ e.order = d.order /\ e.names = d.names
       /\ Keeps(d, e, {"messages", "latest", "names"})
       /\ Keeps(d, y, {"entities", "receipts"})
  BY <1>1b, <1>3 DEF Keeps, Rows
<1>11. /\ e.headers = WithRow(d.headers, pin, header)
       /\ e.heads = WithRow(d.heads, pin[1], pin[2])
       /\ e.payloads \subseteq d.payloads \cup {<<pin, 1>>}
       /\ DOMAIN e.pending \subseteq DOMAIN d.pending \cup {pin[1]}
       /\ e.order \in [Sessions -> Seq(Records)]
  BY <1>4, <1>5, <1>6, <1>9, <1>10 DEF Shaped
<1>12. /\ e.postings = WithRow(d.postings, pin[1], pin)
       /\ e.adjacency = Adjacency(d.adjacency, previous, pin, header)
  BY <1>7, <1>8, <1>9
<1>13. Reposted(d, e, pin, header) /\ Relinked(d, e, pin, header)
  BY <1>12, Searched
<1>14. Redated(d, e, pin, header)
  BY <1>1c, <1>10
<1>15. \A n \in DOMAIN e.names :
              \/ n \in DOMAIN d.names /\ e.names[n] = d.names[n]
              \/ /\ e.names[n] = pin[1]
                 /\ n \in TypeNames => pin[1][1] = "Type"
                 /\ n = "action" => pin[1][1] = "Action"
  BY <1>10, SameNames
<1>16. Wrote(d, e, pin, header)
  BY <1>11, <1>13, <1>14, <1>15, IsWrote
<1>. QED
  BY <1>1d, <1>10, <1>16

-----------------------------------------------------------------------------
(* Types, objects, relations and references. *)

LEMMA TypeFits ==
    ASSUME NEW d, StoreOK(d), NEW name \in TypeNames, NEW pin, NextTo(d, pin),
           pin[1][1] = "Type", NEW e, e = TypeBatch(d, pin, name)
    PROVE  Fits(d, e)
<1>1. PICK header : header = Header(d, {}, 1, pin[2])
  OBVIOUS
<1>2. PICK y : y = PutHeader(PutPayload(d, pin, 1), pin, header)
  OBVIOUS
<1>3. e = [y EXCEPT !.names = WithRow(@, name, pin[1])]
  BY <1>1, <1>2 DEF TypeBatch
<1>4. /\ DOMAIN header = HeaderRows /\ header.state = "Active"
      /\ header.sources = {} /\ header.rests = Rests(d, {})
      /\ header.extracted = FALSE /\ header.history = None /\ header.checkpoint = None
  BY <1>1 DEF Header, HeaderRows
<1>5. Rests(d, {}) = {}
  BY DEF Rests
<1>6. Proper(d, pin, header)
  BY <1>4, <1>5 DEF Proper, RecordState
<1>7. DOMAIN d = Rows /\ Shaped(d) /\ Posted(d) /\ Adjacent(d)
  BY DEF StoreOK, Shaped
<1>8. DOMAIN y = Rows
  BY <1>2, <1>7, RevisionPut
<1>9. DOMAIN e = Rows /\ Keeps(y, e, Rows \ {"names", "latest"}) /\ e.latest = y.latest
      /\ e.names = WithRow(y.names, name, pin[1])
  BY <1>3, <1>8 DEF Rows, Keeps
<1>10. Started(d, d, pin, header)
  BY DEF Started
<1>11. e.names = y.names \/ (\E n \in {"action"} \cup TypeNames :
              /\ e.names = WithRow(y.names, n, pin[1])
              /\ n \in TypeNames => pin[1][1] = "Type"
              /\ n = "action" => pin[1][1] = "Action")
  BY <1>9 DEF TypeNames
<1>12. pin[1][1] \notin DataKinds
  BY DEF DataKinds
<1>13. /\ Wrote(d, e, pin, header)
       /\ Keeps(d, e, {"messages", "receipts", "entities"})
       /\ y.latest = d.latest
  BY <1>2, <1>4, <1>6, <1>7, <1>9, <1>10, <1>11, <1>12, PlainWrote
<1>14. e.receipts = d.receipts /\ e.entities = d.entities /\ e.latest = d.latest
  BY <1>9, <1>13 DEF Keeps
<1>15. Standing(e, pin)
  BY DEF Standing
<1>. QED
  BY <1>4, <1>13, <1>14, <1>15, WroteFits

\* The sources of a new revision: all current, none resting on the record.
Rested(d, pin, sources) ==
    \A p \in Rests(d, sources) : SelfAvailable(d, p, TRUE) /\ p[1] # pin[1]

LEMMA FreshRested ==
    ASSUME NEW d, Shaped(d), NEW pin, pin[1] \notin DOMAIN d.heads, NEW sources, NEW revised,
           ValidSources(d, sources, revised)
    PROVE  Rested(d, pin, sources)
<1>1. \A p \in Rests(d, sources) : SelfAvailable(d, p, TRUE)
  BY ValidSelf
<1>2. \A p \in DOMAIN d.headers : p[1] \in DOMAIN d.heads
  BY DEF Shaped, Heads
<1>. QED
  BY <1>1, <1>2 DEF Rested, SelfAvailable

LEMMA NextRested ==
    ASSUME NEW d, NEW pin, NEW sources, ValidSources(d, sources, pin[1])
    PROVE  Rested(d, pin, sources)
  BY ValidSelf DEF Rested

\* Any object or relation that is written outside an extraction.
LEMMA DataFits ==
    ASSUME NEW d, StoreOK(d), NEW x, NEW pin, NEW header, NEW type, NEW sources, NEW ends,
           NEW previous, header = DataHeader(d, pin, type, sources, ends),
           Started(d, x, pin, header), NextTo(d, pin), pin[1][1] \in DataKinds,
           sources \subseteq DOMAIN d.headers, Rested(d, pin, sources),
           NEW e, e = RecordBatch(x, pin, header, previous)
    PROVE  Fits(d, e) /\ Wrote(d, e, pin, header) /\ e.entities = d.entities
<1>1. /\ DOMAIN header = HeaderRows /\ header.state = "Active"
      /\ header.sources = sources /\ header.rests = Rests(d, sources)
      /\ header.extracted = FALSE /\ header.history = None /\ header.checkpoint = None
  BY DEF DataHeader, Header, HeaderRows
<1>2. Shaped(d) /\ DOMAIN d = Rows /\ Dated(d)
  BY DEF StoreOK, Shaped
<1>3. header.rests \subseteq DOMAIN d.headers
  BY <1>1, <1>2, SourcesStand
<1>4. Proper(d, pin, header)
  BY <1>1, <1>3 DEF Proper, RecordState, DataKinds
<1>5. DOMAIN x = Rows
  BY <1>1, <1>2, StartedRows
<1>6. DOMAIN e = Rows
  BY <1>5, RecordPut
<1>7. Keeps(e, e, Rows \ {"entities", "receipts", "started"})
  BY DEF Keeps
<1>8. /\ Wrote(d, e, pin, header)
      /\ Keeps(d, e, {"messages", "latest", "names"})
      /\ Keeps(d, e, {"entities", "receipts"})
      /\ pin[2] = 1 => e.epoch = d.epoch
  <2>1. /\ Shaped(d) /\ header.state = "Active" /\ Started(d, x, pin, header)
        /\ NextTo(d, pin) /\ pin[1][1] \in DataKinds /\ Proper(d, pin, header)
        /\ e = RecordBatch(x, pin, header, previous)
        /\ DOMAIN e = Rows /\ Keeps(e, e, Rows \ {"entities", "receipts", "started"})
    BY <1>1, <1>2, <1>4, <1>6, <1>7
  <2>2. Wrote(d, e, pin, header)
    BY ONLY <2>1, RecordWrote
  <2>3. Keeps(d, e, {"messages", "latest", "names"})
    BY ONLY <2>1, RecordWrote
  <2>4. Keeps(d, e, {"entities", "receipts"})
    BY ONLY <2>1, RecordWrote
  <2>5. pin[2] = 1 => e.epoch = d.epoch
    <3>1. e.epoch = x.epoch /\ e.marker = x.marker
      BY ONLY <2>1, RecordWrote
    <3>. QED
      BY <1>1, <1>2, <3>1, StartedRows
  <2>. QED
    BY <2>2, <2>3, <2>4, <2>5
<1>9. /\ e.receipts = d.receipts /\ e.entities = d.entities /\ e.latest = d.latest
      /\ e.messages = d.messages
  BY <1>8 DEF Keeps
<1>10. Standing(e, pin)
  <2>1. \A p \in header.rests : SelfAvailable(d, p, TRUE) /\ p[1] # pin[1]
    BY <1>1 DEF Rested
  <2>. QED
    BY <1>1, <1>2, <1>8, <1>9, <2>1, WroteStanding
<1>11. Fits(d, e)
  BY <1>1, <1>8, <1>9, <1>10, WroteFits
<1>. QED
  BY <1>8, <1>9, <1>11

LEMMA TypesFit ==
    ASSUME StoreOK(db), NEW op, NEW name \in TypeNames,
           DefineType(op, name) \/ ReviseType(op, name)
    PROVE  Fits(db, db')
<1>1. Shaped(db) /\ Heads(db) /\ Named(db)
  BY DEF StoreOK, Shaped
<1>2. CASE DefineType(op, name)
  <2>1. PICK pin : pin = FreshPin(db, "Type")
    OBVIOUS
  <2>2. HasRoom(db, "Type") /\ db' = TypeBatch(db, pin, name)
    BY <1>2, <2>1 DEF DefineType, CommitOperation
  <2>3. NextTo(db, pin) /\ pin[1][1] = "Type"
    BY <2>1, <2>2, FreshPins
  <2>. QED
    BY <2>2, <2>3, TypeFits
<1>3. CASE ReviseType(op, name)
  <2>1. PICK record : record = db.names[name]
    OBVIOUS
  <2>2. PICK pin : pin = NextPin(db, record)
    OBVIOUS
  <2>3. Revisable(db, record) /\ name \in DOMAIN db.names /\ db' = TypeBatch(db, pin, name)
    BY <1>3, <2>1, <2>2 DEF ReviseType, CommitOperation
  <2>4. NextTo(db, pin) /\ pin[1] = record
    BY <1>1, <2>2, <2>3, NextPins
  <2>5. pin[1][1] = "Type"
    BY <1>1, <2>1, <2>3, <2>4 DEF Named
  <2>. QED
    BY <2>3, <2>4, <2>5, TypeFits
<1>. QED
  BY <1>2, <1>3

LEMMA SavesFit ==
    ASSUME StoreOK(db), NEW op, NEW kind \in DataKinds, NEW type, NEW sources, NEW ends,
           SaveData(op, kind, type, sources, ends)
    PROVE  Fits(db, db')
<1>1. Shaped(db)
  BY DEF StoreOK
<1>2. PICK pin : pin = FreshPin(db, kind)
  OBVIOUS
<1>3. PICK header : header = DataHeader(db, pin, type, sources, ends)
  OBVIOUS
<1>4. /\ HasRoom(db, kind) /\ ValidSources(db, sources, None)
      /\ db' = RecordBatch(db, pin, header, {})
  BY <1>2, <1>3 DEF SaveData, ValidData, CommitOperation
<1>5. NextTo(db, pin) /\ pin[1][1] \in DataKinds /\ pin[1] \notin DOMAIN db.heads
  BY <1>2, <1>4, FreshPins
<1>6. Rested(db, pin, sources)
  BY <1>1, <1>4, <1>5, FreshRested
<1>7. sources \subseteq DOMAIN db.headers
  BY <1>1, <1>4, ValidStand
<1>8. Started(db, db, pin, header)
  BY <1>5 DEF Started
<1>9. PICK previous : previous = {}
  OBVIOUS
<1>10. db' = RecordBatch(db, pin, header, previous)
  BY <1>4, <1>9
<1>. QED
  BY <1>3, <1>5, <1>6, <1>7, <1>8, <1>10, DataFits

LEMMA RevisionsFit ==
    ASSUME StoreOK(db), NEW op, NEW record, record[1] \in DataKinds,
           NEW type, NEW sources, NEW ends, ReviseData(op, record, type, sources, ends)
    PROVE  Fits(db, db')
<1>1. Shaped(db) /\ Heads(db)
  BY DEF StoreOK, Shaped
<1>2. PICK pin : pin = NextPin(db, record)
  OBVIOUS
<1>3. PICK header : header = DataHeader(db, pin, type, sources, ends)
  OBVIOUS
<1>4. PICK x : x = AdvanceEpoch(db)
  OBVIOUS
<1>5. PICK previous : previous = HeadOf(db, record).ends
  OBVIOUS
<1>6. /\ Revisable(db, record) /\ ValidSources(db, sources, record)
      /\ db' = RecordBatch(x, pin, header, previous)
  BY <1>2, <1>3, <1>4, <1>5 DEF ReviseData, ValidData, CommitOperation
<1>7. NextTo(db, pin) /\ pin[1] = record /\ pin[2] # 1
  BY <1>1, <1>2, <1>6, NextPins
<1>8. Rested(db, pin, sources)
  BY <1>6, <1>7, NextRested
<1>9. sources \subseteq DOMAIN db.headers
  BY <1>1, <1>6, ValidStand
<1>10. Started(db, x, pin, header)
  BY <1>4, <1>7 DEF Started
<1>. QED
  BY <1>3, <1>6, <1>7, <1>8, <1>9, <1>10, DataFits

\* References are a partition of their own.
LEMMA ReferencesFit ==
    ASSUME NEW d, NEW e, StoreOK(d), DOMAIN e = Rows, Keeps(d, e, Rows \ {"entities"}),
           Resolved(e), SameEntities(d, e)
    PROVE  Fits(d, e)
<1>1. /\ e.headers = d.headers /\ e.heads = d.heads /\ e.epoch = d.epoch
      /\ e.marker = d.marker /\ e.names = d.names /\ e.order = d.order
      /\ e.payloads = d.payloads /\ e.pending = d.pending
  BY DEF Keeps, Rows
<1>2. Carries(d, e) /\ NewCurrent(d, e)
  BY <1>1, SameCarries
<1>3. Keeps(d, e, Rows \ {"payloads", "pending", "started", "entities"})
  BY DEF Keeps
<1>4. e.payloads \subseteq Pins \X (1..MaxChunks) /\ DOMAIN e.pending \subseteq Records
  BY <1>1 DEF StoreOK, Shaped
<1>5. StoreOK(e)
  BY <1>3, <1>4, SameStore
<1>. QED
  BY <1>2, <1>5 DEF Fits

LEMMA ResolvesFit ==
    ASSUME StoreOK(db), NEW op, NEW entity, ResolveEntity(op, entity)
    PROVE  Fits(db, db')
<1>1. Shaped(db) /\ Resolved(db)
  BY DEF StoreOK
<1>2. PICK pin : pin = FreshPin(db, "Object")
  OBVIOUS
<1>3. PICK type : type = HeadPin(db, db.names["note"])
  OBVIOUS
<1>4. PICK empty : empty = {}
  OBVIOUS
<1>5. PICK header : header = DataHeader(db, pin, type, empty, empty)
  OBVIOUS
<1>6. PICK y : y = RecordBatch(db, pin, header, empty)
  OBVIOUS
<1>7. /\ HasRoom(db, "Object") /\ entity \notin DOMAIN db.entities
      /\ db' = [y EXCEPT !.entities = WithRow(@, entity, [node |-> pin[1], alias |-> None])]
  BY <1>2, <1>3, <1>4, <1>5, <1>6 DEF ResolveEntity, CommitOperation
<1>8. NextTo(db, pin) /\ pin[1][1] = "Object" /\ pin[1] \notin DOMAIN db.heads
  BY <1>2, <1>7, FreshPins
<1>9. Rested(db, pin, empty) /\ empty \subseteq DOMAIN db.headers
  BY <1>4 DEF Rested, Rests
<1>10. Started(db, db, pin, header)
  BY <1>8 DEF Started
<1>11. Fits(db, y) /\ Wrote(db, y, pin, header) /\ y.entities = db.entities
  <2>1. pin[1][1] \in DataKinds
    BY <1>8 DEF DataKinds
  <2>. QED
    BY <1>5, <1>6, <1>8, <1>9, <1>10, <2>1, DataFits
<1>12. /\ DOMAIN db' = Rows /\ Keeps(y, db', Rows \ {"entities"})
       /\ db'.entities = WithRow(y.entities, entity, [node |-> pin[1], alias |-> None])
  <2>1. DOMAIN y = Rows
    BY <1>11 DEF Wrote
  <2>. QED
    BY <1>7, <2>1 DEF Keeps, Rows
<1>13. StoreOK(y) /\ Carries(db, y) /\ NewCurrent(db, y)
  BY <1>11 DEF Fits
<1>14. \A x \in DOMAIN y.entities : x # entity /\ db'.entities[x] = y.entities[x]
  BY <1>7, <1>11, <1>12 DEF WithRow
<1>15. db'.heads = y.heads /\ db'.headers = y.headers
  BY <1>12 DEF Keeps, Rows
<1>16. Resolved(db')
  <2>1. Resolved(y)
    BY <1>13 DEF StoreOK
  <2>2. pin[1] \in DOMAIN y.heads
    <3>1. Heads(db)
      BY <1>1 DEF Shaped
    <3>. QED
      BY <1>11, <3>1, WroteHeads
  <2>3. DOMAIN db'.entities = DOMAIN y.entities \cup {entity}
    BY <1>12 DEF WithRow
  <2>4. db'.entities[entity].node = pin[1] /\ db'.entities[entity].alias = None
    BY <1>12 DEF WithRow
  <2>. QED
    BY <1>14, <1>15, <2>1, <2>2, <2>3, <2>4 DEF Resolved
<1>17. SameEntities(y, db')
  BY <1>14, <1>16 DEF SameEntities, Resolved
<1>18. Fits(y, db')
  BY <1>12, <1>13, <1>16, <1>17, ReferencesFit
<1>19. Carries(db, db')
  BY <1>13, <1>18 DEF Fits, Carries
<1>20. NewCurrent(db, db')
  <2>1. Keeps(y, db', {"headers", "heads", "epoch", "marker", "messages"})
    BY <1>12 DEF Keeps, Rows
  <2>. QED
    BY <1>13, <1>15, <2>1, StandingKept DEF NewCurrent
<1>21. SameEntities(db, db')
  BY <1>11, <1>17 DEF SameEntities
<1>. QED
  BY <1>18, <1>19, <1>20, <1>21 DEF Fits

LEMMA AliasesFit ==
    ASSUME StoreOK(db), NEW op, NEW primary, NEW alias, AddEntityAlias(op, primary, alias)
    PROVE  Fits(db, db')
<1>1. DOMAIN db = Rows /\ Resolved(db)
  BY DEF StoreOK, Shaped
<1>2. PICK node : node = db.entities[primary].node
  OBVIOUS
<1>3. /\ primary \in DOMAIN db.entities /\ alias \notin DOMAIN db.entities
      /\ db' = [db EXCEPT !.entities = WithRow(@, alias, [node |-> node, alias |-> node])]
  BY <1>2 DEF AddEntityAlias, CommitOperation
<1>4. /\ DOMAIN db' = Rows /\ Keeps(db, db', Rows \ {"entities"})
      /\ db'.entities = WithRow(db.entities, alias, [node |-> node, alias |-> node])
      /\ db'.heads = db.heads
  BY <1>1, <1>3 DEF Keeps, Rows
<1>5. /\ DOMAIN db'.entities = DOMAIN db.entities \cup {alias}
      /\ db'.entities[alias].node = node /\ db'.entities[alias].alias = node
      /\ \A x \in DOMAIN db.entities : db'.entities[x] = db.entities[x]
  BY <1>3, <1>4 DEF WithRow
<1>6. node \in DOMAIN db.heads
  BY <1>1, <1>2, <1>3 DEF Resolved
<1>7. Resolved(db')
  BY <1>1, <1>4, <1>5, <1>6 DEF Resolved
<1>8. SameEntities(db, db')
  BY <1>5, <1>7 DEF SameEntities, Resolved
<1>. QED
  BY <1>4, <1>7, <1>8, ReferencesFit

\* An alias is of its own node, so a merge moves every reference to it.
LEMMA MergesFit ==
    ASSUME StoreOK(db), NEW op, NEW source, NEW target, MergeEntities(op, source, target)
    PROVE  Fits(db, db')
<1>1. DOMAIN db = Rows /\ Resolved(db) /\ Heads(db)
  BY DEF StoreOK, Shaped
<1>2. PICK from : from = db.entities[source].node
  OBVIOUS
<1>3. PICK to : to = db.entities[target].node
  OBVIOUS
<1>4. /\ source \in DOMAIN db.entities /\ target \in DOMAIN db.entities
      /\ db' = [db EXCEPT !.entities = [e \in DOMAIN @ |-> MergedRow(@[e], from, to)]]
  BY <1>2, <1>3 DEF MergeEntities, CommitOperation
<1> DEFINE merged == [e \in DOMAIN db.entities |-> MergedRow(db.entities[e], from, to)]
<1>5. db' = [db EXCEPT !.entities = merged]
  BY <1>4
<1>6. /\ DOMAIN merged = DOMAIN db.entities
      /\ \A e \in DOMAIN db.entities : merged[e] = MergedRow(db.entities[e], from, to)
  OBVIOUS
<1> HIDE DEF merged
<1>7. /\ DOMAIN db' = Rows /\ Keeps(db, db', Rows \ {"entities"})
      /\ db'.entities = merged /\ db'.heads = db.heads
  BY <1>1, <1>5 DEF Keeps, Rows
<1>8. from \in DOMAIN db.heads /\ to \in DOMAIN db.heads /\ from # None
  BY <1>1, <1>2, <1>3, <1>4, NoneAssumption DEF Resolved, Heads
<1>9. ASSUME NEW e \in DOMAIN db.entities
      PROVE  /\ merged[e].node = IF db.entities[e].node = from THEN to ELSE db.entities[e].node
             /\ merged[e].alias \in {None, merged[e].node}
  <2>1. db.entities[e].alias \in {None, db.entities[e].node}
    BY <1>1 DEF Resolved
  <2>2. merged[e] = MergedRow(db.entities[e], from, to)
    BY <1>6
  <2>3. CASE db.entities[e].node = from
    <3>1. merged[e] = [node |-> to, alias |-> to]
      BY <2>2, <2>3 DEF MergedRow
    <3>. QED
      BY <2>3, <3>1
  <2>4. CASE db.entities[e].node # from
    <3>1. merged[e] = db.entities[e]
      BY <1>8, <2>1, <2>2, <2>4 DEF MergedRow
    <3>. QED
      BY <2>1, <2>4, <3>1
  <2>. QED
    BY <2>3, <2>4
<1>10. Resolved(db')
  <2>1. \A e \in DOMAIN db.entities :
           merged[e].node \in DOMAIN db.heads /\ merged[e].alias \in {None, merged[e].node}
    BY <1>1, <1>8, <1>9 DEF Resolved
  <2>. QED
    BY <1>6, <1>7, <2>1 DEF Resolved
<1>11. SameEntities(db, db')
  BY <1>6, <1>7, <1>9, <1>10 DEF SameEntities, Resolved
<1>. QED
  BY <1>7, <1>10, <1>11, ReferencesFit

-----------------------------------------------------------------------------
(* Actions. *)

\* Any revision of an action or of an execution.
LEMMA ActionFits ==
    ASSUME NEW d, StoreOK(d), NEW x, NEW pin, NEW header,
           DOMAIN header = HeaderRows, header.state = "Active", header.extracted = FALSE,
           header.history = None, header.checkpoint = None,
           header.sources \subseteq DOMAIN d.headers,
           header.rests \subseteq DOMAIN d.headers,
           Started(d, x, pin, header), NextTo(d, pin),
           pin[1][1] \in {"Action", "ActionExecution"},
           pin[1][1] = "Action" =>
              \A p \in header.rests : SelfAvailable(d, p, TRUE) /\ p[1] # pin[1],
           NEW y, y = PutHeader(PutPayload(x, pin, 1), pin, header),
           NEW e, DOMAIN e = Rows, Keeps(y, e, Rows \ {"names"}),
           e.names = y.names \/ (/\ e.names = WithRow(y.names, "action", pin[1])
                                 /\ pin[1][1] = "Action")
    PROVE  Fits(d, e)
<1>1. Shaped(d) /\ Posted(d) /\ Adjacent(d)
  BY DEF StoreOK
<1>2. Proper(d, pin, header)
  BY DEF Proper, RecordState
<1>3. Keeps(y, e, Rows \ {"names", "latest"}) /\ e.latest = y.latest
  BY DEF Keeps, Rows
<1>4. e.names = y.names \/ (\E n \in {"action"} \cup TypeNames :
              /\ e.names = WithRow(y.names, n, pin[1])
              /\ n \in TypeNames => pin[1][1] = "Type"
              /\ n = "action" => pin[1][1] = "Action")
  BY DEF TypeNames
<1>5. pin[1][1] \notin DataKinds
  BY DEF DataKinds
<1>6. /\ Wrote(d, e, pin, header)
      /\ Keeps(d, e, {"messages", "receipts", "entities"}) /\ y.latest = d.latest
      /\ pin[2] = 1 => e.epoch = d.epoch
  <2>1. /\ Shaped(d) /\ Posted(d) /\ Adjacent(d) /\ header.state = "Active"
        /\ Started(d, x, pin, header) /\ NextTo(d, pin) /\ pin[1][1] \notin DataKinds
        /\ Proper(d, pin, header) /\ y = PutHeader(PutPayload(x, pin, 1), pin, header)
        /\ DOMAIN e = Rows /\ Keeps(y, e, Rows \ {"names", "latest"})
    BY <1>1, <1>2, <1>3, <1>5
  <2>2. Wrote(d, e, pin, header)
    BY ONLY <2>1, <1>4, PlainWrote
  <2>3. Keeps(d, e, {"messages", "receipts", "entities"})
    BY ONLY <2>1, <1>4, PlainWrote
  <2>4. y.latest = d.latest
    BY ONLY <2>1, <1>4, PlainWrote
  <2>5. pin[2] = 1 => e.epoch = d.epoch
    BY ONLY <2>1, <1>4, PlainWrote
  <2>. QED
    BY <2>2, <2>3, <2>4, <2>5
<1>9. /\ e.receipts = d.receipts /\ e.entities = d.entities /\ e.latest = d.latest
      /\ e.messages = d.messages
  BY <1>3, <1>6 DEF Keeps
<1>10. Standing(e, pin)
  <2>1. CASE pin[1][1] = "Action"
    <3>1. \A p \in header.rests : SelfAvailable(d, p, TRUE) /\ p[1] # pin[1]
      BY <2>1
    <3>. QED
      BY <1>1, <1>6, <1>9, <3>1, WroteStanding
  <2>2. CASE pin[1][1] # "Action"
    BY <2>2 DEF Standing
  <2>. QED
    BY <2>1, <2>2
<1>. QED
  BY <1>6, <1>9, <1>10, WroteFits

LEMMA ActionsDefined ==
    ASSUME StoreOK(db), NEW op, NEW type, NEW sources, DefineAction(op, type, sources)
    PROVE  Fits(db, db')
<1>1. Shaped(db) /\ DOMAIN db = Rows
  BY DEF StoreOK, Shaped
<1>2. PICK pin : pin = FreshPin(db, "Action")
  OBVIOUS
<1>3. PICK header : header = ActionHeader(pin, type, sources, None)
  OBVIOUS
<1>4. PICK y : y = PutHeader(PutPayload(db, pin, 1), pin, header)
  OBVIOUS
<1>5. /\ HasRoom(db, "Action") /\ ValidSources(db, sources, None)
      /\ db' = [y EXCEPT !.names = WithRow(@, "action", pin[1])]
  BY <1>2, <1>3, <1>4 DEF DefineAction, CommitOperation, ActionBatch
<1>6. NextTo(db, pin) /\ pin[1][1] = "Action" /\ pin[1] \notin DOMAIN db.heads
  BY <1>2, <1>5, FreshPins
<1>7. /\ DOMAIN header = HeaderRows /\ header.state = "Active"
      /\ header.sources = sources /\ header.rests = Rests(db, sources)
      /\ header.extracted = FALSE /\ header.history = None /\ header.checkpoint = None
  BY <1>3 DEF ActionHeader, Header, HeaderRows
<1>8. header.sources \subseteq DOMAIN db.headers /\ header.rests \subseteq DOMAIN db.headers
  BY <1>1, <1>5, <1>7, ValidStand
<1>9. \A p \in header.rests : SelfAvailable(db, p, TRUE) /\ p[1] # pin[1]
  <2>1. Rested(db, pin, sources)
    BY <1>1, <1>5, <1>6, FreshRested
  <2>. QED
    BY <1>7, <2>1 DEF Rested
<1>10. Started(db, db, pin, header)
  BY <1>6 DEF Started
<1>11. DOMAIN y = Rows
  BY <1>1, <1>4, RevisionPut
<1>12. /\ DOMAIN db' = Rows /\ Keeps(y, db', Rows \ {"names"})
       /\ db'.names = WithRow(y.names, "action", pin[1])
  BY <1>5, <1>11 DEF Keeps, Rows
<1>. QED
  BY <1>4, <1>6, <1>7, <1>8, <1>9, <1>10, <1>12, ActionFits

LEMMA ActionsRevised ==
    ASSUME StoreOK(db), NEW op, NEW type, NEW sources, ReviseAction(op, type, sources)
    PROVE  Fits(db, db')
<1>1. Shaped(db) /\ DOMAIN db = Rows /\ Heads(db) /\ Dated(db) /\ Named(db)
  BY DEF StoreOK, Shaped
<1>2. PICK record : record = ActionRecord(db)
  OBVIOUS
<1>3. PICK pin : pin = NextPin(db, record)
  OBVIOUS
<1>4. PICK header : header = ActionHeader(pin, type, sources, None)
  OBVIOUS
<1>5. PICK x : x = AdvanceEpoch(db)
  OBVIOUS
<1>6. /\ Revisable(db, record) /\ "action" \in DOMAIN db.names
      /\ ValidSources(db, sources, record)
      /\ db' = PutHeader(PutPayload(x, pin, 1), pin, header)
  BY <1>2, <1>3, <1>4, <1>5 DEF ReviseAction, CommitOperation, ActionBatch
<1>7. NextTo(db, pin) /\ pin[1] = record /\ pin[2] # 1
  BY <1>1, <1>3, <1>6, NextPins
<1>8. pin[1][1] = "Action"
  BY <1>1, <1>2, <1>6, <1>7 DEF Named, ActionRecord
<1>9. /\ DOMAIN header = HeaderRows /\ header.state = "Active"
      /\ header.sources = sources /\ header.rests = Rests(db, sources)
      /\ header.extracted = FALSE /\ header.history = None /\ header.checkpoint = None
  BY <1>4 DEF ActionHeader, Header, HeaderRows
<1>10. header.sources \subseteq DOMAIN db.headers /\ header.rests \subseteq DOMAIN db.headers
  BY <1>1, <1>6, <1>9, ValidStand
<1>11. \A p \in header.rests : SelfAvailable(db, p, TRUE) /\ p[1] # pin[1]
  <2>1. Rested(db, pin, sources)
    BY <1>6, <1>7, NextRested
  <2>. QED
    BY <1>9, <2>1 DEF Rested
<1>12. Started(db, x, pin, header)
  BY <1>5, <1>7 DEF Started
<1>13. DOMAIN db' = Rows
  <2>1. DOMAIN x = Rows
    BY <1>1, <1>5, AdvanceRows
  <2>. QED
    BY <1>6, <2>1, RevisionPut
<1>14. Keeps(db', db', Rows \ {"names"})
  BY DEF Keeps
<1>. QED
  BY <1>6, <1>7, <1>8, <1>9, <1>10, <1>11, <1>12, <1>13, <1>14, ActionFits

LEMMA ActionsPrepared ==
    ASSUME StoreOK(db), NEW op, NEW target, PrepareAction(op, target)
    PROVE  /\ Fits(db, db')
           /\ \E pin : /\ operations' = WithRow(operations, op, pin)
                       /\ pin[1][1] = "ActionExecution"
<1>1. Shaped(db) /\ DOMAIN db = Rows
  BY DEF StoreOK, Shaped
<1>2. PICK pin : pin = FreshPin(db, "ActionExecution")
  OBVIOUS
<1>3. PICK action : action = HeadPin(db, ActionRecord(db))
  OBVIOUS
<1>4. PICK header : header = ActionHeader(pin, None, {action, target}, "Prepared")
  OBVIOUS
<1>5. /\ HasRoom(db, "ActionExecution") /\ Current(db, action) /\ Current(db, target)
      /\ db' = PutHeader(PutPayload(db, pin, 1), pin, header)
      /\ operations' = WithRow(operations, op, pin)
  BY <1>2, <1>3, <1>4 DEF PrepareAction, CommitOperation, ActionBatch
<1>6. NextTo(db, pin) /\ pin[1][1] = "ActionExecution" /\ pin[1] \notin DOMAIN db.heads
  BY <1>2, <1>5, FreshPins
<1>7. /\ DOMAIN header = HeaderRows /\ header.state = "Active"
      /\ header.sources = {action, target} /\ header.rests = Rests(db, {action, target})
      /\ header.extracted = FALSE /\ header.history = None /\ header.checkpoint = None
  BY <1>4 DEF ActionHeader, Header, HeaderRows
<1>8. {action, target} \subseteq DOMAIN db.headers
  BY <1>5 DEF Current, Available, SelfAvailable
<1>9. header.sources \subseteq DOMAIN db.headers /\ header.rests \subseteq DOMAIN db.headers
  BY <1>1, <1>7, <1>8, SourcesStand
<1>10. Started(db, db, pin, header)
  BY <1>6 DEF Started
<1>11. DOMAIN db' = Rows
  BY <1>1, <1>5, RevisionPut
<1>12. Keeps(db', db', Rows \ {"names"})
  BY DEF Keeps
<1>13. Fits(db, db')
  BY <1>5, <1>6, <1>7, <1>9, <1>10, <1>11, <1>12, ActionFits
<1>. QED
  BY <1>5, <1>6, <1>13

LEMMA ActionsFinished ==
    ASSUME StoreOK(db), NEW op, NEW record, NEW sources, FinishAction(op, record, sources)
    PROVE  Fits(db, db')
<1>1. Shaped(db) /\ DOMAIN db = Rows /\ Heads(db) /\ Dated(db)
  BY DEF StoreOK, Shaped
<1>2. PICK pin : pin = NextPin(db, record)
  OBVIOUS
<1>3. PICK cited : cited = HeadOf(db, record).sources \cup sources
  OBVIOUS
<1>4. PICK header : header = ActionHeader(pin, None, cited, "Settled")
  OBVIOUS
<1>5. PICK x : x = AdvanceEpoch(db)
  OBVIOUS
<1>6. /\ Revisable(db, record) /\ record[1] = "ActionExecution"
      /\ ValidSources(db, sources, record)
      /\ db' = PutHeader(PutPayload(x, pin, 1), pin, header)
  BY <1>2, <1>3, <1>4, <1>5 DEF FinishAction, CommitOperation, ActionBatch
<1>7. /\ NextTo(db, pin) /\ pin[1] = record /\ pin[2] # 1
      /\ HeadPin(db, record) \in DOMAIN db.headers
      /\ HeadOf(db, record) = db.headers[HeadPin(db, record)]
  BY <1>1, <1>2, <1>6, NextPins
<1>8. /\ DOMAIN header = HeaderRows /\ header.state = "Active"
      /\ header.sources = cited /\ header.rests = Rests(db, cited)
      /\ header.extracted = FALSE /\ header.history = None /\ header.checkpoint = None
  BY <1>4 DEF ActionHeader, Header, HeaderRows
<1>9. cited \subseteq DOMAIN db.headers
  <2>1. sources \subseteq DOMAIN db.headers
    BY <1>1, <1>6, ValidStand
  <2>2. HeadOf(db, record).sources \subseteq DOMAIN db.headers
    BY <1>1, <1>7 DEF Shaped, Proper
  <2>. QED
    BY <1>3, <2>1, <2>2
<1>10. header.sources \subseteq DOMAIN db.headers /\ header.rests \subseteq DOMAIN db.headers
  BY <1>1, <1>8, <1>9, SourcesStand
<1>11. Started(db, x, pin, header)
  BY <1>5, <1>7 DEF Started
<1>12. DOMAIN db' = Rows
  <2>1. DOMAIN x = Rows
    BY <1>1, <1>5, AdvanceRows
  <2>. QED
    BY <1>6, <2>1, RevisionPut
<1>13. Keeps(db', db', Rows \ {"names"})
  BY DEF Keeps
<1>14. pin[1][1] = "ActionExecution"
  BY <1>6, <1>7
<1>. QED
  BY <1>6, <1>7, <1>8, <1>10, <1>11, <1>12, <1>13, <1>14, ActionFits

-----------------------------------------------------------------------------
(* Changes of state, and events. *)

LEMMA StatesFit ==
    ASSUME StoreOK(db), NEW op, NEW record, NEW state, state \in {"Retracted", "Purged"},
           ChangeState(op, record, state)
    PROVE  Fits(db, db')
<1>1. /\ Shaped(db) /\ DOMAIN db = Rows /\ Heads(db) /\ Dated(db) /\ Named(db)
      /\ Summaries(db)
  BY DEF StoreOK, Shaped
<1>2. PICK pin : pin = NextPin(db, record)
  OBVIOUS
<1>3. PICK previous : previous = HeadOf(db, record)
  OBVIOUS
<1>4. PICK header : header = Restated(previous, state)
  OBVIOUS
<1>5. Revisable(db, record) /\ db' = StateBatch(db, record, state)
  BY DEF ChangeState, CommitOperation
<1>6. /\ NextTo(db, pin) /\ pin[1] = record /\ pin[2] # 1
      /\ HeadPin(db, record) \in DOMAIN db.headers /\ HeadPin(db, record)[1] = record
      /\ previous = db.headers[HeadPin(db, record)]
  BY <1>1, <1>2, <1>3, <1>5, NextPins
<1>7. Proper(db, HeadPin(db, record), previous)
  BY <1>1, <1>6 DEF Shaped
<1>8. /\ DOMAIN header = HeaderRows /\ header.state = state
      /\ header.sources = previous.sources /\ header.rests = previous.rests
      /\ header.extracted = previous.extracted /\ header.history = previous.history
      /\ header.checkpoint = previous.checkpoint /\ header.ends = previous.ends
  BY <1>4, <1>7 DEF Restated, Proper, HeaderRows
<1>9. Proper(db, pin, header)
  BY <1>6, <1>7, <1>8 DEF Proper, RecordState
<1>10. DOMAIN HeadOf(db, record) = HeaderRows
  BY <1>3, <1>7 DEF Proper
<1>11. header = Restated(HeadOf(db, record), state)
  BY <1>3, <1>4
<1>12. DOMAIN db' = Rows
  BY <1>1, <1>2, <1>5, <1>11, StateRows
<1>13. db'.headers = WithRow(db.headers, pin, header)
  BY <1>1, <1>2, <1>5, <1>11, StateRows
<1>14. db'.heads = WithRow(db.heads, pin[1], pin[2])
  BY <1>1, <1>2, <1>5, <1>11, StateRows
<1>15. DOMAIN db'.pending \subseteq DOMAIN db.pending \cup {pin[1]}
  <2>1. db'.pending = IF state = "Purged"
                          THEN WithRow(db.pending, pin[1], PurgeRow(pin))
                          ELSE db.pending
    BY <1>1, <1>2, <1>5, <1>11, StateRows
  <2>. QED
    BY <2>1 DEF WithRow
<1>16. db'.epoch = db.epoch + 1
  BY <1>1, <1>2, <1>5, <1>11, StateRows
<1>17. db'.marker \in {Marker(db.epoch + 1, RedactionEpoch(db)),
                       Marker(db.epoch + 1, db.epoch + 1)}
  BY <1>1, <1>2, <1>5, <1>11, StateRows
<1>18. db'.payloads = db.payloads
  BY <1>1, <1>2, <1>5, <1>11, StateRows
<1>19. db'.postings = Cleared(db.postings, pin[1])
  BY <1>1, <1>2, <1>5, <1>10, <1>11, StateLinks
<1>20. db'.adjacency = Adjacency(db.adjacency, HeadOf(db, record).ends, pin, header)
  BY <1>1, <1>2, <1>5, <1>10, <1>11, StateLinks
<1>21. Keeps(db, db', Tables)
  BY <1>1, <1>2, <1>5, <1>10, <1>11, StateLinks
<1>22. (state = "Purged" \/ header.history # None) =>
                 db'.marker = Marker(db.epoch + 1, db.epoch + 1)
  BY <1>1, <1>2, <1>5, <1>10, <1>11, StateLinks
<1>23. /\ db'.order = db.order /\ db'.names = db.names /\ db'.latest = db.latest
       /\ db'.entities = db.entities /\ db'.receipts = db.receipts
  BY <1>21 DEF Keeps, Tables
<1>24. Reposted(db, db', pin, header) /\ Relinked(db, db', pin, header)
  <2>1. header.state # "Active"
    BY <1>8
  <2>. QED
    BY <1>19, <1>20, <2>1, Searched
<1>25. Redated(db, db', pin, header)
  <2>1. (header.state = "Purged" \/ (pin[1][1] = "History" /\ header.state # "Active")) =>
              db'.marker = Marker(db.epoch + 1, db.epoch + 1)
    BY <1>8, <1>9, <1>22 DEF Proper
  <2>. QED
    BY <1>1, <1>16, <1>17, <2>1, IsCorrected
<1>26. \A n \in DOMAIN db'.names :
              \/ n \in DOMAIN db.names /\ db'.names[n] = db.names[n]
              \/ /\ db'.names[n] = pin[1]
                 /\ n \in TypeNames => pin[1][1] = "Type"
                 /\ n = "action" => pin[1][1] = "Action"
  BY <1>23
<1>27. Wrote(db, db', pin, header)
  <2>1. db'.payloads \subseteq db.payloads \cup {<<pin, 1>>}
        /\ db'.order \in [Sessions -> Seq(Records)]
    BY <1>1, <1>18, <1>23 DEF Shaped
  <2>. QED
    BY <1>1, <1>6, <1>9, <1>12, <1>13, <1>14, <1>15, <1>24, <1>25, <1>26, <2>1, IsWrote
<1>28. header.checkpoint # None => Summarised(db, header.checkpoint)
  BY <1>1, <1>6, <1>8 DEF Summaries
<1>29. Standing(db', pin)
  <2>1. db'.headers[pin].state # "Active"
    BY <1>8, <1>13 DEF WithRow
  <2>. QED
    BY <2>1 DEF Standing
<1>30. header.state # "Active"
  BY <1>8
<1>. QED
  BY <1>6, <1>23, <1>27, <1>28, <1>29, <1>30, WroteFits

LEMMA EventsFit ==
    ASSUME NEW d, StoreOK(d), NEW input, NEW size, NEW pin \in Pins, pin[2] = 1,
           pin[1][1] = "History", pin[1] \notin DOMAIN d.heads,
           input.session \in Sessions, input.event \in 1..MaxEvents,
           input.kind \in HistoryKinds,
           CallSources(d, input) \cup input.sources \subseteq DOMAIN d.headers,
           NEW e, e = HistoryBatch(d, input, size, pin)
    PROVE  Fits(d, e)
<1>1. Shaped(d) /\ DOMAIN d = Rows /\ Dated(d) /\ Posted(d) /\ Adjacent(d)
  BY DEF StoreOK, Shaped
<1>2. PICK cited : cited = CallSources(d, input) \cup input.sources
  OBVIOUS
<1>3. PICK header : header = EventHeader(d, input, size)
  OBVIOUS
<1>4. PICK entry : entry = Entry(input.session, input.event,
                                 Sequence(d, input.session) + 1, input.kind)
  OBVIOUS
<1>5. /\ DOMAIN header = HeaderRows /\ header.state = "Active"
      /\ header.sources = cited /\ header.rests = Rests(d, cited)
      /\ header.extracted = FALSE /\ header.history = entry /\ header.checkpoint = None
  BY <1>2, <1>3, <1>4 DEF EventHeader, Entry, Header, HeaderRows
<1>6. entry # None
  <2>1. d.order[input.session] \in Seq(Records)
    BY <1>1 DEF Shaped
  <2>2. Sequence(d, input.session) + 1 \in Nat
    BY <2>1 DEF Sequence
  <2>3. entry \in Entries
    BY <1>4, <2>2 DEF Entry, Entries
  <2>. QED
    BY <2>3, NoneAssumption
<1>7. Rests(d, cited) \subseteq DOMAIN d.headers
  BY <1>1, <1>2, SourcesStand
<1>8. Proper(d, pin, header)
  BY <1>2, <1>5, <1>6, <1>7 DEF Proper, RecordState
<1>9. NextTo(d, pin)
  BY DEF NextTo
<1>10. DOMAIN e = Rows
  BY <1>1, <1>3, HistoryRows
<1>11. e.headers = WithRow(d.headers, pin, header)
  BY <1>1, <1>3, HistoryRows
<1>12. e.heads = WithRow(d.heads, pin[1], pin[2])
  BY <1>1, <1>3, HistoryRows
<1>13. e.pending = Cleared(d.pending, pin[1])
  BY <1>1, <1>3, HistoryRows
<1>14. e.order = Appended(d.order, input.session, pin[1])
  BY <1>1, <1>3, HistoryRows
<1>15. e.payloads = d.payloads /\ e.epoch = d.epoch /\ e.marker = d.marker
  BY <1>1, <1>3, HistoryRows
<1>16. Keeps(d, e, {"postings", "adjacency", "names", "latest", "entities", "receipts",
                    "started"})
  BY <1>1, HistoryLinks
<1>17. /\ e.postings = d.postings /\ e.adjacency = d.adjacency /\ e.names = d.names
       /\ e.latest = d.latest /\ e.entities = d.entities /\ e.receipts = d.receipts
  BY <1>16 DEF Keeps
<1>18. pin[1][1] \notin DataKinds
  BY DEF DataKinds
<1>19. Reposted(d, e, pin, header) /\ Relinked(d, e, pin, header)
  BY <1>1, <1>17, <1>18, Unsearched
<1>20. Redated(d, e, pin, header)
  BY <1>1, <1>5, <1>15, NotCorrected DEF SameDates
<1>21. DOMAIN e.pending \subseteq DOMAIN d.pending \cup {pin[1]}
  BY <1>13 DEF Cleared
<1>22. e.order \in [Sessions -> Seq(Records)]
  <2>1. pin[1] \in Records
    BY PinShape
  <2>2. d.order \in [Sessions -> Seq(Records)]
    BY <1>1 DEF Shaped
  <2>3. Append(d.order[input.session], pin[1]) \in Seq(Records)
    BY <2>1, <2>2
  <2>. QED
    BY <1>14, <2>2, <2>3 DEF Appended
<1>23. \A n \in DOMAIN e.names :
              \/ n \in DOMAIN d.names /\ e.names[n] = d.names[n]
              \/ /\ e.names[n] = pin[1]
                 /\ n \in TypeNames => pin[1][1] = "Type"
                 /\ n = "action" => pin[1][1] = "Action"
  BY <1>17
<1>24. Wrote(d, e, pin, header)
  <2>1. e.payloads \subseteq d.payloads \cup {<<pin, 1>>}
    BY <1>15
  <2>. QED
    BY <1>1, <1>8, <1>9, <1>10, <1>11, <1>12, <1>19, <1>20, <1>21, <1>22, <1>23, <2>1, IsWrote
<1>25. Standing(e, pin)
  BY DEF Standing
<1>. QED
  BY <1>5, <1>17, <1>24, <1>25, WroteFits

-----------------------------------------------------------------------------
(* Checkpoints. *)

\* A new checkpoint continues the chain from the last one.
LEMMA ChainGrows ==
    ASSUME NEW d, NEW e, NEW pin, NEW header, NEW key,
           Shaped(d), Chained(d), Wrote(d, e, pin, header), pin[2] = 1,
           header.checkpoint # None, header.checkpoint.key = key,
           header.checkpoint.previous = LatestCheckpoint(d, key),
           header.checkpoint.previous \in DOMAIN d.headers \cup {None},
           header.checkpoint.window =
              IF header.checkpoint.previous = None THEN 1
              ELSE d.headers[header.checkpoint.previous].checkpoint.window + 1,
           e.latest = WithRow(d.latest, key, pin)
    PROVE  Chained(e)
<1>1. /\ DOMAIN e.headers = DOMAIN d.headers \cup {pin} /\ e.headers[pin] = header
      /\ \A p \in DOMAIN d.headers : e.headers[p] = d.headers[p]
      /\ pin \notin DOMAIN d.headers
  BY WroteHeads DEF Shaped
<1>2. pin # None /\ \A p \in DOMAIN d.headers : p # None
  BY NoneAssumption DEF Wrote, Shaped, Heads
<1>3. Firsts(e) = Firsts(d) \cup {pin} /\ Firsts(d) \subseteq DOMAIN d.headers
  BY <1>1 DEF Firsts
<1>4. \A c \in Firsts(d) : e.headers[c] = d.headers[c] /\ c # pin
  BY <1>1, <1>3
<1>5. \A k \in DOMAIN d.latest :
          /\ d.latest[k] \in Firsts(d)
          /\ d.headers[d.latest[k]].checkpoint.key = k
  BY DEF Chained
<1>6. /\ DOMAIN e.latest = DOMAIN d.latest \cup {key} /\ e.latest[key] = pin
      /\ \A k \in DOMAIN d.latest : k # key => e.latest[k] = d.latest[k]
  BY DEF WithRow
<1>7. PICK new : new = header.checkpoint
  OBVIOUS
<1>8. PICK previous : previous = new.previous
  OBVIOUS
<1>9. \A k \in DOMAIN e.latest :
          /\ e.latest[k] \in Firsts(e)
          /\ e.headers[e.latest[k]].checkpoint.key = k
  BY <1>1, <1>3, <1>4, <1>5, <1>6
<1>10. ASSUME NEW c \in Firsts(d)
       PROVE  /\ d.headers[c].checkpoint.key \in DOMAIN d.latest
              /\ d.headers[c].checkpoint.window \in Nat
              /\ d.headers[c].checkpoint.window
                    <= d.headers[d.latest[d.headers[c].checkpoint.key]].checkpoint.window
              /\ d.headers[c].checkpoint.previous # d.latest[d.headers[c].checkpoint.key]
              /\ d.headers[c].checkpoint.previous \in DOMAIN d.headers \cup {None}
  BY DEF Chained
\* Where the chain has a last checkpoint, the new one follows it.
<1>11. key \in DOMAIN d.latest =>
          /\ previous = d.latest[key] /\ previous \in Firsts(d)
          /\ d.headers[previous].checkpoint.window \in Nat
          /\ new.window = d.headers[previous].checkpoint.window + 1
  <2>1. SUFFICES ASSUME key \in DOMAIN d.latest
                 PROVE  /\ previous = d.latest[key] /\ previous \in Firsts(d)
                        /\ d.headers[previous].checkpoint.window \in Nat
                        /\ new.window = d.headers[previous].checkpoint.window + 1
    OBVIOUS
  <2>2. previous = d.latest[key] /\ previous \in Firsts(d)
    BY <1>5, <1>7, <1>8, <2>1 DEF LatestCheckpoint
  <2>3. previous # None
    BY <1>2, <1>3, <2>2
  <2>. QED
    BY <1>7, <1>8, <1>10, <2>2, <2>3
<1>12. key \notin DOMAIN d.latest => previous = None /\ new.window = 1
  BY <1>7, <1>8 DEF LatestCheckpoint
<1>13. new.window \in Nat
  BY <1>11, <1>12
<1>14. ASSUME NEW c \in Firsts(e)
       PROVE  LET a == e.headers[c].checkpoint
              IN /\ a.key \in DOMAIN e.latest
                 /\ a.window \in Nat
                 /\ a.window <= e.headers[e.latest[a.key]].checkpoint.window
                 /\ a.previous # e.latest[a.key]
                 /\ a.previous \in DOMAIN e.headers \cup {None}
  <2>1. PICK a : a = e.headers[c].checkpoint
    OBVIOUS
  <2>2. CASE c = pin
    <3>1. a = new /\ a.key = key /\ e.headers[e.latest[a.key]].checkpoint = new
      BY <1>1, <1>6, <1>7, <2>1, <2>2
    <3>2. a.previous # pin /\ a.previous \in DOMAIN e.headers \cup {None}
      BY <1>1, <1>2, <1>7, <3>1
    <3>. QED
      BY <1>6, <1>13, <2>1, <3>1, <3>2
  <2>3. CASE c # pin
    <3>1. c \in Firsts(d) /\ a = d.headers[c].checkpoint
      BY <1>3, <1>4, <2>1, <2>3
    <3>2. /\ a.key \in DOMAIN d.latest /\ a.window \in Nat
          /\ a.window <= d.headers[d.latest[a.key]].checkpoint.window
          /\ a.previous # d.latest[a.key]
          /\ a.previous \in DOMAIN d.headers \cup {None}
      BY <1>10, <3>1
    <3>3. CASE a.key = key
      <4>1. a.window <= d.headers[previous].checkpoint.window
        BY <1>11, <3>2, <3>3
      <4>2. a.window <= new.window
        BY <1>11, <3>2, <3>3, <4>1
      <4>3. e.headers[e.latest[a.key]].checkpoint = new
        BY <1>1, <1>6, <1>7, <3>3
      <4>. QED
        BY <1>1, <1>2, <1>6, <2>1, <3>2, <3>3, <4>2, <4>3
    <3>4. CASE a.key # key
      <4>1. e.latest[a.key] = d.latest[a.key]
        BY <1>6, <3>2, <3>4
      <4>2. e.headers[e.latest[a.key]] = d.headers[d.latest[a.key]]
        BY <1>4, <1>5, <3>2, <4>1
      <4>. QED
        BY <1>1, <1>6, <2>1, <3>2, <4>1, <4>2
    <3>. QED
      BY <3>3, <3>4
  <2>. QED
    BY <2>2, <2>3
\* Two checkpoints with one parent, or in one window.
<1>15. ASSUME NEW c \in Firsts(d), d.headers[c].checkpoint.key = key
       PROVE  /\ d.headers[c].checkpoint.previous # previous
              /\ d.headers[c].checkpoint.window # new.window
  <2>1. PICK a : a = d.headers[c].checkpoint
    OBVIOUS
  <2>2. /\ key \in DOMAIN d.latest /\ a.window \in Nat
        /\ a.window <= d.headers[d.latest[key]].checkpoint.window
        /\ a.previous # d.latest[key]
    BY <1>10, <1>15, <2>1
  <2>. QED
    BY <1>11, <2>1, <2>2
<1>16. ASSUME NEW c \in Firsts(e), NEW f \in Firsts(e), c # f,
              e.headers[c].checkpoint.key = e.headers[f].checkpoint.key
       PROVE  /\ e.headers[c].checkpoint.previous # e.headers[f].checkpoint.previous
              /\ e.headers[c].checkpoint.window # e.headers[f].checkpoint.window
  <2>1. CASE c = pin
    BY <1>1, <1>3, <1>4, <1>7, <1>8, <1>15, <1>16, <2>1
  <2>2. CASE f = pin
    BY <1>1, <1>3, <1>4, <1>7, <1>8, <1>15, <1>16, <2>2
  <2>3. CASE c # pin /\ f # pin
    <3>1. /\ c \in Firsts(d) /\ f \in Firsts(d)
          /\ e.headers[c] = d.headers[c] /\ e.headers[f] = d.headers[f]
      BY <1>3, <1>4, <2>3
    <3>. QED
      BY <1>16, <3>1 DEF Chained
  <2>. QED
    BY <2>1, <2>2, <2>3
<1>. QED
  BY <1>9, <1>14, <1>16 DEF Chained

LEMMA CheckpointsFit ==
    ASSUME StoreOK(db), Drafting, NEW op, NEW sequence, NEW sources,
           SaveCheckpoint(op, sequence, sources)
    PROVE  Fits(db, db')
<1>1. /\ Shaped(db) /\ DOMAIN db = Rows /\ Dated(db) /\ Posted(db) /\ Adjacent(db)
      /\ Chained(db) /\ Summaries(db) /\ Extracted(db) /\ Resolved(db)
  BY DEF StoreOK, Shaped
<1>2. PICK pin : pin = FreshPin(db, "Checkpoint")
  OBVIOUS
<1>3. PICK cited : cited = sources \cup {HeadPin(db, db.order[draft.key[1]][sequence])}
  OBVIOUS
<1>4. PICK window : window = IF draft.previous = None THEN 1
                             ELSE db.headers[draft.previous].checkpoint.window + 1
  OBVIOUS
<1>5. PICK summary : summary = [epoch |-> db.epoch, window |-> window,
                                previous |-> draft.previous, key |-> draft.key,
                                inputs |-> draft.inputs]
  OBVIOUS
<1>6. PICK header : header = [Header(db, cited, 1, 1) EXCEPT !.checkpoint = summary]
  OBVIOUS
<1>7. PICK y : y = PutHeader(PutPayload(db, pin, 1), pin, header)
  OBVIOUS
<1>8. /\ draft # None /\ HasRoom(db, "Checkpoint") /\ DraftIsCurrent
      /\ ValidSources(db, cited, None)
      /\ db' = [y EXCEPT !.latest = WithRow(@, draft.key, pin)]
  BY <1>2, <1>3, <1>4, <1>5, <1>6, <1>7 DEF SaveCheckpoint, CommitOperation
<1>9. /\ NextTo(db, pin) /\ pin[1][1] = "Checkpoint" /\ pin[1] \notin DOMAIN db.heads
      /\ pin[2] = 1
  BY <1>2, <1>8, FreshPins
<1>10. /\ DOMAIN header = HeaderRows /\ header.state = "Active"
       /\ header.sources = cited /\ header.rests = Rests(db, cited)
       /\ header.extracted = FALSE /\ header.history = None /\ header.checkpoint = summary
  BY <1>6 DEF Header, HeaderRows
<1>11. cited \subseteq DOMAIN db.headers /\ Rests(db, cited) \subseteq DOMAIN db.headers
  BY <1>1, <1>8, ValidStand
<1>12. Proper(db, pin, header)
  BY <1>9, <1>10, <1>11 DEF Proper, RecordState
<1>13. Started(db, db, pin, header)
  BY <1>9 DEF Started
<1>14. DOMAIN y = Rows
  BY <1>1, <1>7, RevisionPut
<1>15. /\ DOMAIN db' = Rows /\ Keeps(y, db', Rows \ {"names", "latest"})
       /\ db'.names = y.names /\ db'.latest = WithRow(y.latest, draft.key, pin)
  BY <1>8, <1>14 DEF Keeps, Rows
<1>16. /\ Wrote(db, db', pin, header)
       /\ Keeps(db, db', {"messages", "receipts", "entities"}) /\ y.latest = db.latest
       /\ db'.epoch = db.epoch
  <2>1. /\ Shaped(db) /\ Posted(db) /\ Adjacent(db) /\ header.state = "Active"
        /\ Started(db, db, pin, header) /\ NextTo(db, pin) /\ pin[1][1] \notin DataKinds
        /\ Proper(db, pin, header) /\ y = PutHeader(PutPayload(db, pin, 1), pin, header)
        /\ DOMAIN db' = Rows /\ Keeps(y, db', Rows \ {"names", "latest"})
        /\ db'.names = y.names
    BY <1>1, <1>7, <1>9, <1>10, <1>12, <1>13, <1>15 DEF DataKinds
  <2>2. Wrote(db, db', pin, header)
    BY ONLY <2>1, PlainWrote
  <2>3. Keeps(db, db', {"messages", "receipts", "entities"})
    BY ONLY <2>1, PlainWrote
  <2>4. y.latest = db.latest
    BY ONLY <2>1, PlainWrote
  <2>5. pin[2] = 1 => db'.epoch = db.epoch
    BY ONLY <2>1, PlainWrote
  <2>. QED
    BY <1>9, <2>2, <2>3, <2>4, <2>5
<1>17. /\ db'.receipts = db.receipts /\ db'.entities = db.entities
       /\ db'.messages = db.messages /\ db'.latest = WithRow(db.latest, draft.key, pin)
  BY <1>15, <1>16 DEF Keeps
<1>18. /\ summary.epoch = db.epoch /\ summary.epoch = draft.epoch
       /\ summary.inputs = draft.inputs /\ summary.key = draft.key
       /\ summary.previous = draft.previous /\ summary.window = window
       /\ draft.previous = LatestCheckpoint(db, draft.key)
  BY <1>5, <1>8 DEF DraftIsCurrent
<1>19. Summarised(db, summary) /\ draft.previous \in DOMAIN db.headers \cup {None}
  <2>1. Summarised(db, draft) /\ draft.previous \in DOMAIN db.headers \cup {None}
    BY <1>8 DEF Drafting
  <2>. QED
    BY <1>18, <2>1 DEF Summarised
<1>20. window \in Nat
  <2>1. CASE draft.previous = None
    BY <1>4, <2>1
  <2>2. CASE draft.previous # None
    <3>1. draft.previous = db.latest[draft.key] /\ draft.key \in DOMAIN db.latest
      BY <1>18, <2>2 DEF LatestCheckpoint
    <3>2. draft.previous \in Firsts(db)
      BY <1>1, <3>1 DEF Chained
    <3>3. db.headers[draft.previous].checkpoint.window \in Nat
      BY <1>1, <3>2 DEF Chained
    <3>. QED
      BY <1>4, <2>2, <3>3
  <2>. QED
    BY <2>1, <2>2
<1>21. summary # None
  <2>1. DOMAIN db.headers \subseteq Pins
    BY <1>1 DEF Heads, Shaped
  <2>2. summary.inputs \subseteq DOMAIN db.headers /\ db.epoch \in Nat
    BY <1>1, <1>19 DEF Summarised, Dated
  <2>3. draft.inputs \subseteq Pins /\ draft.previous \in Pins \cup {None}
    BY <1>18, <1>19, <2>1, <2>2
  <2>4. draft.key \in Sessions \X CheckpointScopes
    BY <1>8 DEF Drafting
  <2>5. summary \in Summary
    BY <1>5, <1>20, <2>2, <2>3, <2>4 DEF Summary
  <2>. QED
    BY <2>5, SessionsAssumption
<1>22. Shaped(db')
  BY <1>1, <1>16, WroteShaped
<1>23. Posted(db')
  BY <1>1, <1>16, WrotePosted
<1>24. Adjacent(db')
  BY <1>1, <1>16, WroteAdjacent
<1>25. Summaries(db')
  BY <1>1, <1>10, <1>16, <1>19, WroteSummaries
<1>26. Chained(db')
  <2>1. PICK key : key = draft.key
    OBVIOUS
  <2>2. /\ header.checkpoint # None /\ header.checkpoint.key = key
        /\ header.checkpoint.previous = LatestCheckpoint(db, key)
        /\ header.checkpoint.previous \in DOMAIN db.headers \cup {None}
        /\ db'.latest = WithRow(db.latest, key, pin)
    BY <1>10, <1>17, <1>18, <1>19, <1>21, <2>1
  <2>3. header.checkpoint.window =
           IF header.checkpoint.previous = None THEN 1
           ELSE db.headers[header.checkpoint.previous].checkpoint.window + 1
    BY <1>4, <1>10, <1>18
  <2>. QED
    BY <1>1, <1>9, <1>16, <2>2, <2>3, ChainGrows
<1>27. Extracted(db')
  BY <1>1, <1>10, <1>16, <1>17, WroteExtracted
<1>28. Resolved(db')
  BY <1>1, <1>16, <1>17, WroteResolved
<1>29. Standing(db', pin)
  <2>1. Rested(db, pin, cited)
    BY <1>1, <1>8, <1>9, FreshRested
  <2>2. \A p \in header.rests : SelfAvailable(db, p, TRUE) /\ p[1] # pin[1]
    BY <1>10, <2>1 DEF Rested
  <2>. QED
    BY <1>1, <1>10, <1>16, <1>17, <1>18, <2>2, WroteStanding
<1>30. Carries(db, db')
  BY <1>1, <1>16, WroteCarries
<1>31. NewCurrent(db, db')
  BY <1>1, <1>16, <1>29, WroteNew
<1>32. SameEntities(db, db')
  BY <1>17, <1>28, EntitiesKept
<1>. QED
  BY <1>22, <1>23, <1>24, <1>25, <1>26, <1>27, <1>28, <1>30, <1>31, <1>32 DEF Fits, StoreOK

-----------------------------------------------------------------------------
(* The steps of history and recovery. *)

LEMMA BeginsFit ==
    ASSUME StoreOK(db), NEW op, NEW input, NEW size, BeginAppend(op, input, size)
    PROVE  Fits(db, db')
<1>1. Shaped(db) /\ DOMAIN db = Rows
  BY DEF StoreOK, Shaped
<1>2. PICK pin : pin = FreshPin(db, "History")
  OBVIOUS
<1>3. PICK row : row = [pin |-> pin, purge |-> FALSE]
  OBVIOUS
<1>4. HasRoom(db, "History") /\ db' = [db EXCEPT !.pending = WithRow(@, pin[1], row)]
  BY <1>2, <1>3 DEF BeginAppend
<1>5. pin[1] \in Records
  BY <1>2, <1>4, FreshPins
<1>6. /\ DOMAIN db' = Rows /\ Keeps(db, db', Rows \ {"payloads", "pending", "started"})
      /\ db'.payloads = db.payloads /\ db'.pending = WithRow(db.pending, pin[1], row)
  BY <1>1, <1>4 DEF Keeps, Rows
<1>7. db'.payloads \subseteq Pins \X (1..MaxChunks) /\ DOMAIN db'.pending \subseteq Records
  BY <1>1, <1>5, <1>6 DEF Shaped, WithRow
<1>. QED
  BY <1>6, <1>7, SameFits

LEMMA UploadsFit ==
    ASSUME StoreOK(db), Appending, UploadChunk
    PROVE  Fits(db, db')
<1>1. Shaped(db) /\ DOMAIN db = Rows
  BY DEF StoreOK, Shaped
<1>2. PICK chunk : chunk = <<upload.pin, upload.written + 1>>
  OBVIOUS
<1>3. db' = [db EXCEPT !.payloads = @ \cup {chunk}]
  BY <1>2 DEF UploadChunk
<1>4. chunk \in Pins \X (1..MaxChunks)
  BY <1>2, MaxChunksBound DEF UploadChunk, Appending
<1>5. /\ DOMAIN db' = Rows /\ Keeps(db, db', Rows \ {"payloads", "pending", "started"})
      /\ db'.pending = db.pending /\ db'.payloads = db.payloads \cup {chunk}
  BY <1>1, <1>3 DEF Keeps, Rows
<1>6. db'.payloads \subseteq Pins \X (1..MaxChunks) /\ DOMAIN db'.pending \subseteq Records
  BY <1>1, <1>4, <1>5 DEF Shaped
<1>. QED
  BY <1>5, <1>6, SameFits

LEMMA FinishesFit ==
    ASSUME StoreOK(db), Appending, FinishAppend
    PROVE  Fits(db, db')
<1>1. Locked /\ db' = HistoryBatch(db, upload.input, upload.size, upload.pin)
  BY DEF FinishAppend, CommitOperation
<1>2. /\ upload.pin \in Pins /\ upload.pin[2] = 1 /\ upload.pin[1][1] = "History"
      /\ upload.pin[1] \notin DOMAIN db.heads
      /\ upload.input.session \in Sessions /\ upload.input.event \in 1..MaxEvents
      /\ upload.input.kind \in HistoryKinds
      /\ CallSources(db, upload.input) \cup upload.input.sources \subseteq DOMAIN db.headers
  BY <1>1 DEF Appending
<1>. QED
  BY <1>1, <1>2, EventsFit

LEMMA RecoveriesFit ==
    ASSUME StoreOK(db), NEW budget, RecoverPayloads(budget)
    PROVE  Fits(db, db')
<1>1. Shaped(db) /\ DOMAIN db = Rows
  BY DEF StoreOK, Shaped
<1>2. PICK record : record = FirstPending(db)
  OBVIOUS
<1>3. PICK chunks : chunks = ChunksToRemove(db, record)
  OBVIOUS
<1>4. \/ db' = [WithoutPending(db, record) EXCEPT !.payloads = @ \ chunks]
      \/ \E removed : db' = [db EXCEPT !.payloads = @ \ removed]
  BY <1>2, <1>3 DEF RecoverPayloads
<1>5. CASE db' = [WithoutPending(db, record) EXCEPT !.payloads = @ \ chunks]
  <2>1. PICK cleared : cleared = WithoutPending(db, record)
    OBVIOUS
  <2>2. /\ DOMAIN cleared = Rows /\ Keeps(db, cleared, Rows \ {"pending"})
        /\ cleared.pending = Cleared(db.pending, record)
    BY <1>1, <2>1 DEF WithoutPending, Cleared, Keeps, Rows
  <2>3. db' = [cleared EXCEPT !.payloads = @ \ chunks]
    BY <1>5, <2>1
  <2>4. /\ DOMAIN db' = Rows /\ Keeps(cleared, db', Rows \ {"payloads"})
        /\ db'.payloads = cleared.payloads \ chunks
    BY <2>2, <2>3 DEF Keeps, Rows
  <2>5. /\ Keeps(db, db', Rows \ {"payloads", "pending", "started"})
        /\ db'.payloads \subseteq db.payloads /\ db'.pending = Cleared(db.pending, record)
    BY <2>2, <2>4 DEF Keeps, Rows
  <2>6. db'.payloads \subseteq Pins \X (1..MaxChunks) /\ DOMAIN db'.pending \subseteq Records
    BY <1>1, <2>5 DEF Shaped, Cleared
  <2>. QED
    BY <2>4, <2>5, <2>6, SameFits
<1>6. CASE \E removed : db' = [db EXCEPT !.payloads = @ \ removed]
  <2>1. PICK removed : db' = [db EXCEPT !.payloads = @ \ removed]
    BY <1>6
  <2>2. /\ DOMAIN db' = Rows /\ Keeps(db, db', Rows \ {"payloads", "pending", "started"})
        /\ db'.payloads \subseteq db.payloads /\ db'.pending = db.pending
    BY <1>1, <2>1 DEF Keeps, Rows
  <2>3. db'.payloads \subseteq Pins \X (1..MaxChunks) /\ DOMAIN db'.pending \subseteq Records
    BY <1>1, <2>2 DEF Shaped
  <2>. QED
    BY <2>2, <2>3, SameFits
<1>. QED
  BY <1>4, <1>5, <1>6

\* A marker of an extraction comes or goes.
LEMMA MarkersFit ==
    ASSUME StoreOK(db), NEW id, ExtractionFails(id) \/ ExtractionReplayed(id)
    PROVE  Fits(db, db')
<1>1. Shaped(db) /\ DOMAIN db = Rows
  BY DEF StoreOK, Shaped
<1>2. PICK started : db' = [db EXCEPT !.started = started]
  BY DEF ExtractionFails, ExtractionReplayed
<1>3. /\ DOMAIN db' = Rows /\ Keeps(db, db', Rows \ {"payloads", "pending", "started"})
      /\ db'.payloads = db.payloads /\ db'.pending = db.pending
  BY <1>1, <1>2 DEF Keeps, Rows
<1>4. db'.payloads \subseteq Pins \X (1..MaxChunks) /\ DOMAIN db'.pending \subseteq Records
  BY <1>1, <1>3 DEF Shaped
<1>. QED
  BY <1>3, <1>4, SameFits

\* history.rs as a whole.
LEMMA HistoriesFit ==
    ASSUME StoreOK(db), Appending, Next
    PROVE  Fits(db, db')
<1>1. CASE \E op \in Ops : \E session \in Sessions :
             \E event \in OfferedEvents(session), kind \in HistoryKinds,
                size \in Sizes, sources \in Cited(db) :
                BeginAppend(op, [session |-> session, event |-> event, kind |-> kind,
                                 sources |-> sources], size)
  BY <1>1, BeginsFit
<1>2. CASE \E op \in Ops, event \in DOMAIN db.events : AppendAgain(op, event)
  <2>1. db' = db
    BY <1>2 DEF AppendAgain, CommitReceipt
  <2>. QED
    BY <2>1, UnchangedFits
<1>3. CASE UploadChunk
  BY <1>3, UploadsFit
<1>4. CASE AbandonUpload \/ Crash
  <2>1. db' = db
    BY <1>4 DEF AbandonUpload, Crash
  <2>. QED
    BY <2>1, UnchangedFits
<1>5. CASE FinishAppend
  BY <1>5, FinishesFit
<1>6. CASE \E budget \in 1..MaxChunks : RecoverPayloads(budget)
  BY <1>6, RecoveriesFit
<1>7. CASE ChangeStep
  <2>1. PICK op, record : Retract(op, record) \/ Purge(op, record)
    BY <1>7 DEF ChangeStep
  <2>2. PICK state \in {"Retracted", "Purged"} : ChangeState(op, record, state)
    BY <2>1 DEF Retract, Purge
  <2>. QED
    BY <2>2, StatesFit
<1>. QED
  BY <1>1, <1>2, <1>3, <1>4, <1>5, <1>6, <1>7 DEF Next, HistoryStep

-----------------------------------------------------------------------------
(* Extraction transactions: one revision after the other, on the batch so   *)
(* far.                                                                    *)

Extracting(d, items, sources, n, so) ==
    IF n = 0 THEN [batch |-> d, pins |-> {}]
    ELSE [batch |-> WriteItem(d, so.batch, items[n], sources).batch,
          pins |-> so.pins \cup {WriteItem(d, so.batch, items[n], sources).pin}]

Extends(d, items, sources, so, k) ==
    so = [n \in 0..k |-> Extracting(d, items, sources, n, so[n - 1])]

\* There is such a function of the items so far, however many they are.
LEMMA ExtractionRuns ==
    ASSUME NEW d, NEW items, NEW sources, NEW k \in Nat
    PROVE  \E so : Extends(d, items, sources, so, k)
<1> DEFINE P(n) == \E so : Extends(d, items, sources, so, n)
<1>1. SUFFICES ASSUME ~P(k) PROVE FALSE
  OBVIOUS
<1>2. PICK S \in SUBSET Nat : S = {n \in Nat : ~P(n)}
  OBVIOUS
<1>3. PICK least \in S : \A n \in S : least <= n
  BY <1>1, <1>2, LeastNatural
<1>4. least # 0
  <2>1. SUFFICES ASSUME least = 0 PROVE P(least)
    BY <1>2, <1>3
  <2>2. PICK so : so = [n \in 0..0 |-> [batch |-> d, pins |-> {}]]
    OBVIOUS
  <2>3. so = [n \in 0..0 |-> Extracting(d, items, sources, n, so[n - 1])]
    BY <2>2 DEF Extracting
  <2>4. Extends(d, items, sources, so, 0)
    BY <2>3 DEF Extends
  <2>. QED
    BY <2>1, <2>4
<1>5. least - 1 \in Nat /\ P(least - 1)
  BY <1>2, <1>3, <1>4
<1>6. PICK so : Extends(d, items, sources, so, least - 1)
  BY <1>5
<1>7. PICK last : last = Extracting(d, items, sources, least, so[least - 1])
  OBVIOUS
<1>8. PICK longer : longer = [n \in 0..least |-> IF n = least THEN last ELSE so[n]]
  OBVIOUS
<1>9. least \in Nat
  BY <1>3
<1>10. ASSUME NEW n \in 0..least
       PROVE  longer[n] = Extracting(d, items, sources, n, longer[n - 1])
  <2>1. CASE n = least
    <3>1. longer[n] = last /\ longer[least - 1] = so[least - 1]
      BY <1>4, <1>8, <1>9, <2>1
    <3>. QED
      BY <1>7, <2>1, <3>1
  <2>2. CASE n # least
    <3>1. longer[n] = so[n] /\ n \in 0..(least - 1)
      BY <1>8, <1>9, <2>2
    <3>2. so[n] = Extracting(d, items, sources, n, so[n - 1])
      BY <1>6, <3>1 DEF Extends
    <3>3. CASE n = 0
      BY <3>1, <3>2, <3>3 DEF Extracting
    <3>4. CASE n # 0
      <4>1. n - 1 \in 0..least /\ n - 1 # least
        BY <1>9, <3>1, <3>4
      <4>2. longer[n - 1] = so[n - 1]
        BY <1>8, <4>1
      <4>. QED
        BY <3>1, <3>2, <4>2
    <3>. QED
      BY <3>3, <3>4
  <2>. QED
    BY <2>1, <2>2
<1>11. Extends(d, items, sources, longer, least)
  BY <1>8, <1>10 DEF Extends
<1>. QED
  BY <1>2, <1>3, <1>11

LEMMA ExtractionUnfolds ==
    ASSUME NEW d, NEW items, NEW sources, Len(items) \in Nat
    PROVE  \E so : /\ ExtractionBatch(d, items, sources) = so[Len(items)]
                   /\ Extends(d, items, sources, so, Len(items))
<1> DEFINE so == CHOOSE f : f = [n \in 0..Len(items) |->
                                    Extracting(d, items, sources, n, f[n - 1])]
<1>1. so = [n \in 0..Len(items) |-> Extracting(d, items, sources, n, so[n - 1])]
  <2>1. \E f : Extends(d, items, sources, f, Len(items))
    BY ExtractionRuns
  <2>. QED
    BY <2>1 DEF Extends
<1>2. ExtractionBatch(d, items, sources) = so[Len(items)]
  BY DEF ExtractionBatch, Extracting
<1>. QED
  BY <1>1, <1>2 DEF Extends

\* The creations among the first items.
Made(items, kind, n) == {i \in Creations(items, kind) : i <= n}

\* The batch after n items: a store, with revisions of the extraction only
\* besides those of d, and room for what the other items create.
Grown(d, b, pins) ==
    /\ Shaped(b) /\ Posted(b) /\ Adjacent(b) /\ Summaries(b) /\ Chained(b) /\ Resolved(b)
    /\ Carries(d, b) /\ Keeps(d, b, {"entities", "receipts"})
    /\ DOMAIN b.headers = DOMAIN d.headers \cup pins /\ pins \cap DOMAIN d.headers = {}
    /\ \A p \in pins : b.headers[p].extracted
    /\ \A p \in DOMAIN d.headers : b.headers[p] = d.headers[p]
    /\ DOMAIN d.heads \subseteq DOMAIN b.heads

Unrevised(d, b, items, n) ==
    \A r \in DOMAIN d.heads : (\A i \in 1..n : items[i].record # r) => b.heads[r] = d.heads[r]

Roomy(d, b, items, n) ==
    \A kind \in DataKinds :
       Cardinality(FreshIds(d, kind)) <= Cardinality(FreshIds(b, kind)) + Cardinality(Made(items, kind, n))

LEMMA FreshFinite ==
    ASSUME NEW d, NEW kind
    PROVE  /\ IsFiniteSet(FreshIds(d, kind)) /\ Cardinality(FreshIds(d, kind)) \in Nat
           /\ HasRoom(d, kind) <=> Cardinality(FreshIds(d, kind)) > 0
<1>1. CASE kind \in KindSet
  <2>1. Limit[kind] \in Nat
    BY <1>1
  <2>2. PICK ids : ids = {kind} \X (1..Limit[kind])
    OBVIOUS
  <2>3. IsFiniteSet({kind}) /\ IsFiniteSet(1..Limit[kind])
    <3>1. 1 \in Int /\ Limit[kind] \in Int
      BY <2>1
    <3>. QED
      BY <3>1, FS_Singleton, FS_Interval
  <2>4. IsFiniteSet(ids)
    BY <2>2, <2>3, FS_Product
  <2>5. ASSUME NEW r \in FreshIds(d, kind) PROVE r \in ids
    <3>1. r \in Records /\ r[1] = kind
      BY DEF FreshIds
    <3>2. PICK k \in KindSet : r \in {k} \X (1..Limit[k])
      BY <3>1 DEF Records
    <3>3. k = kind
      BY <3>1, <3>2
    <3>. QED
      BY <2>2, <3>2, <3>3
  <2>6. FreshIds(d, kind) \in SUBSET ids
    BY <2>5
  <2>7. IsFiniteSet(FreshIds(d, kind))
    BY <2>4, <2>6, FS_Subset
  <2>. QED
    BY <2>7, FS_CardinalityType, FS_EmptySet DEF HasRoom
<1>2. CASE kind \notin KindSet
  <2>1. FreshIds(d, kind) = {}
    BY <1>2 DEF FreshIds, Records
  <2>. QED
    BY <2>1, FS_EmptySet DEF HasRoom
<1>. QED
  BY <1>1, <1>2

LEMMA MadeFinite ==
    ASSUME NEW items, NEW length \in Nat, DOMAIN items = 1..length, NEW kind, NEW n \in Nat
    PROVE  /\ IsFiniteSet(Made(items, kind, n)) /\ Cardinality(Made(items, kind, n)) \in Nat
           /\ IsFiniteSet(Creations(items, kind)) /\ Cardinality(Creations(items, kind)) \in Nat
<1>1. IsFiniteSet(1..length)
  BY FS_Interval
<1>2. Creations(items, kind) \in SUBSET (1..length) /\ Made(items, kind, n) \in SUBSET (1..length)
  BY DEF Creations, Made
<1>3. IsFiniteSet(Made(items, kind, n)) /\ IsFiniteSet(Creations(items, kind))
  BY <1>1, <1>2, FS_Subset
<1>. QED
  BY <1>3, FS_CardinalityType

\* The next creation is not made yet.
LEMMA MadeNext ==
    ASSUME NEW items, NEW length \in Nat, DOMAIN items = 1..length, NEW kind, NEW n \in Nat,
           n + 1 \in 1..length
    PROVE  /\ n + 1 \in Creations(items, kind) =>
                 /\ Cardinality(Made(items, kind, n + 1)) = Cardinality(Made(items, kind, n)) + 1
                 /\ Cardinality(Made(items, kind, n)) < Cardinality(Creations(items, kind))
           /\ n + 1 \notin Creations(items, kind) =>
                 Cardinality(Made(items, kind, n + 1)) = Cardinality(Made(items, kind, n))
<1>1. PICK before : before = Made(items, kind, n)
  OBVIOUS
<1>2. PICK after : after = Made(items, kind, n + 1)
  OBVIOUS
<1>3. PICK all : all = Creations(items, kind)
  OBVIOUS
<1>4. /\ IsFiniteSet(before) /\ Cardinality(before) \in Nat
      /\ IsFiniteSet(all) /\ Cardinality(all) \in Nat
      /\ all \subseteq 1..length
  BY <1>1, <1>3, MadeFinite DEF Creations
<1>5. CASE n + 1 \in all
  <2>1. after = before \cup {n + 1} /\ n + 1 \notin before
    BY <1>1, <1>2, <1>3, <1>4, <1>5 DEF Made
  <2>2. IsFiniteSet(after) /\ Cardinality(after) = Cardinality(before) + 1
    BY <1>4, <2>1, FS_AddElement
  <2>3. after \in SUBSET all
    BY <1>2, <1>3 DEF Made
  <2>4. Cardinality(after) <= Cardinality(all)
    BY <1>4, <2>3, FS_Subset
  <2>. QED
    BY <1>1, <1>2, <1>3, <1>4, <1>5, <2>2, <2>4
<1>6. CASE n + 1 \notin all
  <2>1. after = before
    BY <1>1, <1>2, <1>3, <1>4, <1>6 DEF Made
  <2>. QED
    BY <1>1, <1>2, <1>3, <1>6, <2>1
<1>. QED
  BY <1>5, <1>6

\* A revision takes at most its own identifier.
LEMMA FreshAfter ==
    ASSUME NEW d, NEW e, NEW pin, NEW header, Heads(d), Wrote(d, e, pin, header), NEW kind
    PROVE  /\ Cardinality(FreshIds(d, kind)) <= Cardinality(FreshIds(e, kind)) + 1
           /\ (pin[1] \in DOMAIN d.heads \/ pin[1][1] # kind) =>
                 Cardinality(FreshIds(d, kind)) <= Cardinality(FreshIds(e, kind))
<1>1. PICK before : before = FreshIds(d, kind)
  OBVIOUS
<1>2. PICK after : after = FreshIds(e, kind)
  OBVIOUS
<1>3. /\ IsFiniteSet(before) /\ Cardinality(before) \in Nat
      /\ IsFiniteSet(after) /\ Cardinality(after) \in Nat
  BY <1>1, <1>2, FreshFinite
<1>4. Used(e) \subseteq Used(d) \cup {pin[1]}
  <2>1. DOMAIN e.heads = DOMAIN d.heads \cup {pin[1]}
    BY WroteHeads
  <2>2. DOMAIN e.pending \subseteq DOMAIN d.pending \cup {pin[1]}
    BY DEF Wrote
  <2>3. \A c \in e.payloads : c \in d.payloads \/ c[1] = pin
    BY DEF Wrote
  <2>. QED
    BY <2>1, <2>2, <2>3 DEF Used
<1>5. before \ {pin[1]} \in SUBSET after
  BY <1>1, <1>2, <1>4 DEF FreshIds
<1>6. Cardinality(before \ {pin[1]}) <= Cardinality(after)
  BY <1>3, <1>5, FS_Subset
<1>7. Cardinality(before \ {pin[1]}) =
         IF pin[1] \in before THEN Cardinality(before) - 1 ELSE Cardinality(before)
  BY <1>3, FS_RemoveElement
<1>8. (pin[1] \in DOMAIN d.heads \/ pin[1][1] # kind) => pin[1] \notin before
  BY <1>1 DEF FreshIds, Used
<1>. QED
  BY <1>1, <1>2, <1>3, <1>6, <1>7, <1>8

LEMMA ItemShape ==
    ASSUME NEW d, Heads(d), NEW item \in Items(d)
    PROVE  /\ item.kind \in DataKinds
           /\ item.record # None =>
                 /\ item.record \in DOMAIN d.heads /\ item.record[1] = item.kind
                 /\ Revisable(d, item.record)
<1>1. item.record = None \/ (item.record \in DOMAIN d.heads /\ item.record[1] = item.kind
                             /\ item.kind \in DataKinds /\ Revisable(d, item.record))
  BY DEF Items, Item, DataKinds
<1>2. item.kind \in DataKinds
  BY DEF Items, Item, DataKinds
<1>. QED
  BY <1>1, <1>2

\* The pin an item writes: new in the batch, or the next of a record that no
\* earlier item revises.
LEMMA ItemPin ==
    ASSUME NEW d, Shaped(d), NEW b, NEW pins, Grown(d, b, pins),
           NEW items, NEW length \in Nat, items \in [1..length -> Items(d)], RevisesOnce(items),
           NEW n \in Nat, n + 1 \in 1..length, Unrevised(d, b, items, n), Roomy(d, b, items, n),
           \A kind \in DataKinds :
              Cardinality(Creations(items, kind)) <= Cardinality(FreshIds(d, kind)),
           NEW item, item = items[n + 1],
           NEW pin, pin = IF item.record = None THEN FreshPin(b, item.kind)
                          ELSE NextPin(d, item.record)
    PROVE  /\ NextTo(b, pin) /\ pin[1][1] = item.kind /\ pin[1][1] \in DataKinds
           /\ item.record # None => pin[1] = item.record /\ pin[1] \in DOMAIN b.heads
           /\ item.record = None => pin[1] \notin DOMAIN b.heads
<1>1. /\ item \in Items(d) /\ Heads(d) /\ DOMAIN items = 1..length
      /\ item.kind \in DataKinds
      /\ item.record # None => /\ item.record \in DOMAIN d.heads /\ item.record[1] = item.kind
                               /\ Revisable(d, item.record)
  <2>1. item \in Items(d) /\ Heads(d) /\ DOMAIN items = 1..length
    BY DEF Shaped
  <2>. QED
    BY <2>1, ItemShape
<1>2. CASE item.record = None
  <2>1. PICK kind : kind = item.kind
    OBVIOUS
  <2>2. n + 1 \in Creations(items, kind)
    BY <1>1, <1>2, <2>1 DEF Creations
  <2>3. Cardinality(Made(items, kind, n)) < Cardinality(Creations(items, kind))
    BY <1>1, <2>2, MadeNext
  <2>4. Cardinality(FreshIds(d, kind)) <= Cardinality(FreshIds(b, kind)) + Cardinality(Made(items, kind, n))
    BY <1>1, <2>1 DEF Roomy
  <2>5. Cardinality(Creations(items, kind)) <= Cardinality(FreshIds(d, kind))
    BY <1>1, <2>1
  <2>6. /\ Cardinality(Made(items, kind, n)) \in Nat /\ Cardinality(Creations(items, kind)) \in Nat
        /\ Cardinality(FreshIds(d, kind)) \in Nat /\ Cardinality(FreshIds(b, kind)) \in Nat
    BY <1>1, MadeFinite, FreshFinite
  <2>7. Cardinality(FreshIds(b, kind)) > 0
    BY <2>3, <2>4, <2>5, <2>6
  <2>8. HasRoom(b, kind)
    BY <2>7, FreshFinite
  <2>9. pin = FreshPin(b, kind)
    BY <1>2, <2>1
  <2>10. NextTo(b, pin) /\ pin[1][1] = kind /\ pin[1] \notin DOMAIN b.heads
    BY <2>8, <2>9, FreshPins
  <2>. QED
    BY <1>1, <1>2, <2>1, <2>10
<1>3. CASE item.record # None
  <2>1. PICK r : r = item.record
    OBVIOUS
  <2>2. r \in DOMAIN d.heads /\ r[1] = item.kind /\ Revisable(d, r) /\ pin = NextPin(d, r)
    BY <1>1, <1>3, <2>1
  <2>3. /\ NextTo(d, pin) /\ pin[1] = r /\ pin[2] = d.heads[r] + 1
        /\ HeadPin(d, r) \in DOMAIN d.headers
    BY <1>1, <2>2, NextPins
  <2>4. \A i \in 1..n : items[i].record # r
    <3>1. SUFFICES ASSUME NEW i \in 1..n, items[i].record = r PROVE FALSE
      OBVIOUS
    <3>2. i \in DOMAIN items /\ n + 1 \in DOMAIN items /\ i # n + 1
      BY <1>1, <3>1
    <3>. QED
      BY <1>3, <2>1, <3>1, <3>2 DEF RevisesOnce
  <2>5. b.heads[r] = d.heads[r]
    BY <2>2, <2>4 DEF Unrevised
  <2>6. /\ \A p \in DOMAIN d.headers : b.headers[p] = d.headers[p]
        /\ DOMAIN d.heads \subseteq DOMAIN b.heads
    BY DEF Grown
  <2>7. HeadOf(b, r) = HeadOf(d, r) /\ r \in DOMAIN b.heads
    BY <2>2, <2>3, <2>5, <2>6 DEF HeadOf, HeadPin
  <2>8. NextTo(b, pin)
    BY <2>2, <2>3, <2>5, <2>7 DEF NextTo
  <2>. QED
    BY <1>1, <1>3, <2>1, <2>2, <2>3, <2>7, <2>8
<1>. QED
  BY <1>2, <1>3

\* An item writes one extracted revision.
LEMMA ItemWrites ==
    ASSUME NEW d, Shaped(d), NEW b, NEW pins, Grown(d, b, pins), NEW item,
           NEW sources, sources \subseteq DOMAIN d.headers,
           NEW pin, NextTo(b, pin), pin[1][1] \in DataKinds,
           pin = IF item.record = None THEN FreshPin(b, item.kind) ELSE NextPin(d, item.record),
           NEW one, one = WriteItem(d, b, item, sources)
    PROVE  \E header :
              /\ one.pin = pin /\ Wrote(b, one.batch, pin, header)
              /\ header.extracted /\ header.checkpoint = None
              /\ Keeps(b, one.batch, {"latest", "entities", "receipts"})
<1>1. PICK header : header = [DataHeader(d, pin, ItemType(d, item), sources, item.ends) EXCEPT
                                !.extracted = TRUE]
  OBVIOUS
<1>2. /\ DOMAIN header = HeaderRows /\ header.state = "Active"
      /\ header.sources = sources /\ header.rests = Rests(d, sources)
      /\ header.extracted = TRUE /\ header.history = None /\ header.checkpoint = None
  BY <1>1 DEF DataHeader, Header, HeaderRows
<1>3. one.pin = pin /\ one.batch = RecordBatch(b, pin, header, {})
  BY <1>1 DEF WriteItem
<1>4. Shaped(b) /\ DOMAIN d.headers \subseteq DOMAIN b.headers
  BY DEF Grown
<1>5. Proper(b, pin, header)
  <2>1. header.rests \subseteq DOMAIN d.headers
    BY <1>2, SourcesStand
  <2>. QED
    BY <1>2, <1>4, <2>1 DEF Proper, RecordState, DataKinds
<1>6. Started(b, b, pin, header)
  BY <1>2 DEF Started
<1>7. PICK e : e = one.batch
  OBVIOUS
<1>8. PICK previous : previous = {}
  OBVIOUS
<1>9. e = RecordBatch(b, pin, header, previous)
  BY <1>3, <1>7, <1>8
<1>10. DOMAIN e = Rows
  BY <1>4, <1>9, RecordPut DEF Shaped
<1>11. Keeps(e, e, Rows \ {"entities", "receipts", "started"})
  BY DEF Keeps
<1>12. /\ Shaped(b) /\ header.state = "Active" /\ Started(b, b, pin, header)
       /\ NextTo(b, pin) /\ pin[1][1] \in DataKinds /\ Proper(b, pin, header)
       /\ e = RecordBatch(b, pin, header, previous)
       /\ DOMAIN e = Rows /\ Keeps(e, e, Rows \ {"entities", "receipts", "started"})
  BY <1>2, <1>4, <1>5, <1>6, <1>9, <1>10, <1>11
<1>13. Wrote(b, e, pin, header)
  BY ONLY <1>12, RecordWrote
<1>14. Keeps(b, e, {"messages", "latest", "names"})
  BY ONLY <1>12, RecordWrote
<1>15. Keeps(b, e, {"entities", "receipts"})
  BY ONLY <1>12, RecordWrote
<1>16. Keeps(b, e, {"latest", "entities", "receipts"})
  BY <1>14, <1>15 DEF Keeps
<1>. QED
  BY <1>2, <1>3, <1>7, <1>13, <1>16

LEMMA CarriesOn ==
    ASSUME NEW d, NEW b, NEW e, Carries(d, b), Carries(b, e)
    PROVE  Carries(d, e)
  BY DEF Carries

LEMMA GrownOn ==
    ASSUME NEW d, NEW b, NEW pins, Grown(d, b, pins), NEW e, NEW pin, NEW header,
           Wrote(b, e, pin, header), header.extracted, header.checkpoint = None,
           Keeps(b, e, {"latest", "entities", "receipts"}),
           NEW more, more = pins \cup {pin}
    PROVE  Grown(d, e, more)
<1>1. /\ Shaped(b) /\ Posted(b) /\ Adjacent(b) /\ Summaries(b) /\ Chained(b) /\ Resolved(b)
      /\ Carries(d, b) /\ Keeps(d, b, {"entities", "receipts"})
  BY DEF Grown
<1>2. /\ DOMAIN b.headers = DOMAIN d.headers \cup pins /\ pins \cap DOMAIN d.headers = {}
      /\ \A p \in pins : b.headers[p].extracted
      /\ \A p \in DOMAIN d.headers : b.headers[p] = d.headers[p]
      /\ DOMAIN d.heads \subseteq DOMAIN b.heads
  BY DEF Grown
<1>3. e.latest = b.latest /\ e.entities = b.entities /\ Keeps(d, e, {"entities", "receipts"})
  BY <1>1 DEF Keeps
<1>4. Shaped(e)
  BY <1>1, WroteShaped
<1>5. Posted(e)
  BY <1>1, WrotePosted
<1>6. Adjacent(e)
  BY <1>1, WroteAdjacent
<1>7. Summaries(e)
  BY <1>1, WroteSummaries
<1>8. Chained(e)
  BY <1>1, <1>3, WroteChained
<1>9. Resolved(e)
  BY <1>1, <1>3, WroteResolved
<1>10. Carries(d, e)
  BY <1>1, WroteCarries, CarriesOn
<1>11. /\ DOMAIN e.heads = DOMAIN b.heads \cup {pin[1]} /\ pin \notin DOMAIN b.headers
       /\ DOMAIN e.headers = DOMAIN b.headers \cup {pin} /\ e.headers[pin] = header
       /\ \A p \in DOMAIN b.headers : e.headers[p] = b.headers[p]
  BY <1>1, WroteHeads DEF Shaped
<1>12. /\ DOMAIN e.headers = DOMAIN d.headers \cup more /\ more \cap DOMAIN d.headers = {}
       /\ \A p \in more : e.headers[p].extracted
       /\ \A p \in DOMAIN d.headers : e.headers[p] = d.headers[p]
       /\ DOMAIN d.heads \subseteq DOMAIN e.heads
  BY <1>2, <1>11
<1>. QED
  BY <1>3, <1>4, <1>5, <1>6, <1>7, <1>8, <1>9, <1>10, <1>12 DEF Grown

LEMMA ItemGrows ==
    ASSUME NEW d, Shaped(d), NEW b, NEW pins, Grown(d, b, pins),
           NEW items, NEW length \in Nat, items \in [1..length -> Items(d)], RevisesOnce(items),
           NEW n \in Nat, n + 1 \in 1..length, Unrevised(d, b, items, n), Roomy(d, b, items, n),
           \A kind \in DataKinds :
              Cardinality(Creations(items, kind)) <= Cardinality(FreshIds(d, kind)),
           NEW sources, sources \subseteq DOMAIN d.headers,
           NEW one, one = WriteItem(d, b, items[n + 1], sources),
           NEW more, more = pins \cup {one.pin}
    PROVE  /\ Grown(d, one.batch, more) /\ Unrevised(d, one.batch, items, n + 1)
           /\ Roomy(d, one.batch, items, n + 1)
<1>1. PICK item : item = items[n + 1]
  OBVIOUS
<1>2. PICK pin : pin = IF item.record = None THEN FreshPin(b, item.kind)
                       ELSE NextPin(d, item.record)
  OBVIOUS
<1>3. /\ NextTo(b, pin) /\ pin[1][1] = item.kind /\ pin[1][1] \in DataKinds
      /\ item.record # None => pin[1] = item.record /\ pin[1] \in DOMAIN b.heads
      /\ item.record = None => pin[1] \notin DOMAIN b.heads
  <2>1. NextTo(b, pin)
    BY <1>1, <1>2, ItemPin
  <2>2. pin[1][1] = item.kind /\ pin[1][1] \in DataKinds
    BY <1>1, <1>2, ItemPin
  <2>3. item.record # None => pin[1] = item.record /\ pin[1] \in DOMAIN b.heads
    BY <1>1, <1>2, ItemPin
  <2>4. item.record = None => pin[1] \notin DOMAIN b.heads
    BY <1>1, <1>2, ItemPin
  <2>. QED
    BY <2>1, <2>2, <2>3, <2>4
<1>4. one = WriteItem(d, b, item, sources)
  BY <1>1
<1>5. PICK header :
         /\ one.pin = pin /\ Wrote(b, one.batch, pin, header)
         /\ header.extracted /\ header.checkpoint = None
         /\ Keeps(b, one.batch, {"latest", "entities", "receipts"})
  BY <1>2, <1>3, <1>4, ItemWrites
<1>6. PICK e : e = one.batch
  OBVIOUS
<1>7. more = pins \cup {pin} /\ Wrote(b, e, pin, header) /\ header.extracted
      /\ header.checkpoint = None /\ Keeps(b, e, {"latest", "entities", "receipts"})
  BY <1>5, <1>6
<1>8. Grown(d, e, more)
  BY <1>7, GrownOn
<1>9. /\ Heads(b) /\ DOMAIN items = 1..length
      /\ DOMAIN d.heads \subseteq DOMAIN b.heads
  BY DEF Grown, Shaped
<1>10. \A r \in DOMAIN b.heads : r # pin[1] => e.heads[r] = b.heads[r]
  BY <1>7, <1>9, WroteHeads
<1>11. Unrevised(d, e, items, n + 1)
  <2>1. SUFFICES ASSUME NEW r \in DOMAIN d.heads, \A i \in 1..(n + 1) : items[i].record # r
                 PROVE  e.heads[r] = d.heads[r]
    BY DEF Unrevised
  <2>2. b.heads[r] = d.heads[r]
    BY <2>1 DEF Unrevised
  <2>3. r # pin[1]
    <3>1. CASE item.record # None
      <4>1. n + 1 \in 1..(n + 1)
        OBVIOUS
      <4>. QED
        BY <1>1, <1>3, <2>1, <3>1, <4>1
    <3>2. CASE item.record = None
      BY <1>3, <1>9, <3>2
    <3>. QED
      BY <3>1, <3>2
  <2>. QED
    BY <1>9, <1>10, <2>2, <2>3
<1>12. ASSUME NEW kind \in DataKinds
       PROVE  Cardinality(FreshIds(d, kind))
                 <= Cardinality(FreshIds(e, kind)) + Cardinality(Made(items, kind, n + 1))
  <2>1. /\ Cardinality(Made(items, kind, n)) \in Nat
        /\ Cardinality(FreshIds(d, kind)) \in Nat /\ Cardinality(FreshIds(b, kind)) \in Nat
        /\ Cardinality(FreshIds(e, kind)) \in Nat
    BY <1>9, MadeFinite, FreshFinite
  <2>2. Cardinality(FreshIds(d, kind)) <= Cardinality(FreshIds(b, kind)) + Cardinality(Made(items, kind, n))
    BY DEF Roomy
  <2>3. CASE n + 1 \in Creations(items, kind)
    <3>1. Cardinality(Made(items, kind, n + 1)) = Cardinality(Made(items, kind, n)) + 1
      BY <1>9, <2>3, MadeNext
    <3>2. Cardinality(FreshIds(b, kind)) <= Cardinality(FreshIds(e, kind)) + 1
      BY <1>7, <1>9, FreshAfter
    <3>. QED
      BY <2>1, <2>2, <3>1, <3>2
  <2>4. CASE n + 1 \notin Creations(items, kind)
    <3>1. Cardinality(Made(items, kind, n + 1)) = Cardinality(Made(items, kind, n))
      BY <1>9, <2>4, MadeNext
    <3>2. pin[1] \in DOMAIN b.heads \/ pin[1][1] # kind
      BY <1>1, <1>3, <1>9, <2>4 DEF Creations
    <3>3. Cardinality(FreshIds(b, kind)) <= Cardinality(FreshIds(e, kind))
      BY <1>7, <1>9, <3>2, FreshAfter
    <3>. QED
      BY <2>1, <2>2, <3>1, <3>3
  <2>. QED
    BY <2>3, <2>4
<1>13. Roomy(d, e, items, n + 1)
  BY <1>12 DEF Roomy
<1>. QED
  BY <1>6, <1>8, <1>11, <1>13

\* After every item the batch is what it should be.
LEMMA ExtractionGrows ==
    ASSUME NEW d, StoreOK(d), NEW items, NEW length \in Nat,
           items \in [1..length -> Items(d)], RevisesOnce(items),
           \A kind \in DataKinds :
              Cardinality(Creations(items, kind)) <= Cardinality(FreshIds(d, kind)),
           NEW sources, sources \subseteq DOMAIN d.headers,
           NEW so, Extends(d, items, sources, so, length)
    PROVE  Grown(d, so[length].batch, so[length].pins)
<1> DEFINE P(n) == /\ Grown(d, so[n].batch, so[n].pins)
                   /\ Unrevised(d, so[n].batch, items, n) /\ Roomy(d, so[n].batch, items, n)
<1>1. SUFFICES ASSUME ~P(length) PROVE FALSE
  OBVIOUS
<1> HIDE DEF P
<1>2. PICK S : S = {n \in 0..length : ~P(n)}
  OBVIOUS
<1>3. S # {} /\ S \subseteq Nat
  BY <1>1, <1>2
<1>4. PICK least \in S : \A n \in S : least <= n
  BY <1>3, LeastNatural
<1>5. least \in 0..length /\ ~P(least)
  BY <1>2, <1>4
<1>6. Shaped(d) /\ DOMAIN items = 1..length
  BY DEF StoreOK
<1>7. P(0)
  <2>1. so[0] = [batch |-> d, pins |-> {}]
    BY DEF Extends, Extracting
  <2>2. PICK none : none = so[0].pins
    OBVIOUS
  <2>3. so[0].batch = d /\ none = {}
    BY <2>1, <2>2
  <2>4. Carries(d, d)
    BY SameCarries
  <2>5. Grown(d, d, none)
    BY <2>3, <2>4 DEF StoreOK, Grown, Keeps
  <2>6. Unrevised(d, d, items, 0)
    BY DEF Unrevised
  <2>7. Roomy(d, d, items, 0)
    <3>1. ASSUME NEW kind \in DataKinds
          PROVE  Cardinality(FreshIds(d, kind)) <= Cardinality(FreshIds(d, kind))
                                                  + Cardinality(Made(items, kind, 0))
      <4>1. Cardinality(FreshIds(d, kind)) \in Nat /\ Cardinality(Made(items, kind, 0)) \in Nat
        BY <1>6, FreshFinite, MadeFinite
      <4>. QED
        BY <4>1
    <3>. QED
      BY <3>1 DEF Roomy
  <2>. QED
    BY <2>2, <2>3, <2>5, <2>6, <2>7 DEF P
<1>8. PICK n \in Nat : least = n + 1
  <2>1. least # 0
    BY <1>5, <1>7
  <2>2. least - 1 \in Nat /\ least = (least - 1) + 1
    BY <1>5, <2>1
  <2>. QED
    BY <2>2
<1>9. n \in 0..length /\ n + 1 \in 0..length /\ n + 1 \in 1..length
  BY <1>5, <1>8
<1>10. P(n)
  BY <1>2, <1>4, <1>8, <1>9
<1>11. PICK b : b = so[n].batch
  OBVIOUS
<1>12. PICK pins : pins = so[n].pins
  OBVIOUS
<1>13. PICK one : one = WriteItem(d, b, items[n + 1], sources)
  OBVIOUS
<1>14. so[n + 1] = [batch |-> one.batch, pins |-> pins \cup {one.pin}]
  <2>1. so[n + 1] = Extracting(d, items, sources, n + 1, so[(n + 1) - 1])
    BY <1>9 DEF Extends
  <2>2. (n + 1) - 1 = n /\ n + 1 # 0
    OBVIOUS
  <2>. QED
    BY <1>11, <1>12, <1>13, <2>1, <2>2 DEF Extracting
<1>15. PICK more : more = pins \cup {one.pin}
  OBVIOUS
<1>16. Grown(d, b, pins) /\ Unrevised(d, b, items, n) /\ Roomy(d, b, items, n)
  BY <1>10, <1>11, <1>12 DEF P
<1>17. Grown(d, one.batch, more)
  BY <1>6, <1>9, <1>13, <1>15, <1>16, ItemGrows
<1>18. Unrevised(d, one.batch, items, n + 1) /\ Roomy(d, one.batch, items, n + 1)
  BY <1>6, <1>9, <1>13, <1>15, <1>16, ItemGrows
<1>19. so[n + 1].batch = one.batch /\ so[n + 1].pins = more
  BY <1>14, <1>15
<1>. QED
  BY <1>5, <1>8, <1>17, <1>18, <1>19 DEF P

\* The receipt takes the new revisions.
LEMMA ReceiptFits ==
    ASSUME NEW d, StoreOK(d), NEW b, NEW pins, Grown(d, b, pins), NEW id, id \notin DOMAIN d.receipts,
           NEW started,
           NEW e, e = [b EXCEPT !.receipts = WithRow(@, id, pins), !.started = started]
    PROVE  Fits(d, e)
<1>1. /\ Shaped(b) /\ Posted(b) /\ Adjacent(b) /\ Summaries(b) /\ Chained(b) /\ Resolved(b)
      /\ Carries(d, b) /\ b.entities = d.entities /\ b.receipts = d.receipts
      /\ DOMAIN b = Rows
  BY DEF Grown, Keeps, Shaped
<1>2. /\ DOMAIN b.headers = DOMAIN d.headers \cup pins /\ pins \cap DOMAIN d.headers = {}
      /\ \A p \in pins : b.headers[p].extracted
      /\ \A p \in DOMAIN d.headers : b.headers[p] = d.headers[p]
  BY DEF Grown
<1>3. PICK receipts : receipts = WithRow(d.receipts, id, pins)
  OBVIOUS
<1>4. /\ DOMAIN e = Rows /\ Keeps(b, e, Rows \ {"receipts", "started"})
      /\ e.receipts = receipts
  BY <1>1, <1>3 DEF Rows, Keeps
<1>5. /\ e.headers = b.headers /\ e.heads = b.heads /\ e.epoch = b.epoch /\ e.marker = b.marker
      /\ e.entities = d.entities /\ e.payloads = b.payloads /\ e.pending = b.pending
      /\ Keeps(b, e, Rows \ {"payloads", "pending", "started", "entities", "receipts"})
  BY <1>1, <1>4 DEF Rows, Keeps
<1>6. Shaped(e) /\ Posted(e) /\ Adjacent(e) /\ Summaries(e) /\ Chained(e)
  <2>1. e.payloads \subseteq Pins \X (1..MaxChunks) /\ DOMAIN e.pending \subseteq Records
    BY <1>1, <1>5 DEF Shaped
  <2>2. /\ Shaped(b) /\ Posted(b) /\ Adjacent(b) /\ Summaries(b) /\ Chained(b)
        /\ DOMAIN e = Rows
        /\ Keeps(b, e, Rows \ {"payloads", "pending", "started", "entities", "receipts"})
        /\ e.payloads \subseteq Pins \X (1..MaxChunks) /\ DOMAIN e.pending \subseteq Records
    BY <1>1, <1>4, <1>5, <2>1
  <2>. QED
    BY ONLY <2>2, SameRevisionRows
<1>7. Resolved(e)
  BY <1>1, <1>5 DEF Resolved
<1>8. Extracted(d)
  BY DEF StoreOK
<1>9. /\ DOMAIN receipts = DOMAIN d.receipts \cup {id} /\ receipts[id] = pins
      /\ \A i \in DOMAIN d.receipts : receipts[i] = d.receipts[i]
  BY <1>3 DEF WithRow
<1>10. \A i \in DOMAIN d.receipts : d.receipts[i] \subseteq DOMAIN d.headers
  BY <1>8 DEF Extracted
<1>11. Extracted(e)
  <2>1. \A i \in DOMAIN receipts : receipts[i] \subseteq DOMAIN e.headers
    BY <1>2, <1>5, <1>9, <1>10
  <2>2. ASSUME NEW p \in DOMAIN e.headers, e.headers[p].extracted, e.headers[p].state = "Active"
        PROVE  \E i \in DOMAIN receipts : \A j \in DOMAIN receipts : p \in receipts[j] <=> j = i
    <3>1. CASE p \in pins
      <4>1. \A j \in DOMAIN receipts : p \in receipts[j] <=> j = id
        BY <1>2, <1>9, <1>10, <3>1
      <4>. QED
        BY <1>9, <4>1
    <3>2. CASE p \in DOMAIN d.headers
      <4>1. d.headers[p].extracted /\ d.headers[p].state = "Active"
        BY <1>2, <1>5, <2>2, <3>2
      <4>2. PICK i \in DOMAIN d.receipts : \A j \in DOMAIN d.receipts : p \in d.receipts[j] <=> j = i
        BY <1>8, <3>2, <4>1 DEF Extracted
      <4>3. \A j \in DOMAIN receipts : p \in receipts[j] <=> j = i
        BY <1>2, <1>9, <3>2, <4>2
      <4>. QED
        BY <1>9, <4>3
    <3>. QED
      BY <1>2, <1>5, <2>2, <3>1, <3>2
  <2>. QED
    BY <1>4, <2>1, <2>2 DEF Extracted
<1>12. StoreOK(e)
  BY <1>6, <1>7, <1>11 DEF StoreOK
<1>13. Carries(d, e)
  BY <1>1, <1>5, SameCarries, CarriesOn
<1>14. NewCurrent(d, e)
  <2>1. ASSUME NEW p \in DOMAIN e.headers \ DOMAIN d.headers PROVE Standing(e, p)
    BY <1>2, <1>5, <2>1 DEF Standing
  <2>. QED
    BY <2>1 DEF NewCurrent
<1>15. SameEntities(d, e)
  BY <1>5, <1>7, EntitiesKept
<1>. QED
  BY <1>12, <1>13, <1>14, <1>15 DEF Fits

LEMMA ExtractionsFit ==
    ASSUME StoreOK(db), NEW id, NEW length \in Nat, NEW items,
           items \in [1..length -> Items(db)], RevisesOnce(items),
           NEW sources, sources \subseteq DOMAIN db.headers,
           ExtractionTransaction(id, items, sources)
    PROVE  Fits(db, db')
<1>1. \A kind \in DataKinds :
         Cardinality(Creations(items, kind)) <= Cardinality(FreshIds(db, kind))
  BY DEF ExtractionTransaction, DataKinds
<1>2. Len(items) = length
  <2>1. items \in Seq(Items(db))
    OBVIOUS
  <2>. QED
    OBVIOUS
<1>3. PICK so : /\ ExtractionBatch(db, items, sources) = so[length]
                /\ Extends(db, items, sources, so, length)
  BY <1>2, ExtractionUnfolds
<1>4. PICK b : b = so[length].batch
  OBVIOUS
<1>5. PICK pins : pins = so[length].pins
  OBVIOUS
<1>6. Grown(db, b, pins)
  BY <1>1, <1>3, <1>4, <1>5, ExtractionGrows
<1>7. PICK started : started = b.started \ {id}
  OBVIOUS
<1>8. /\ id \notin DOMAIN db.receipts
      /\ db' = [b EXCEPT !.receipts = WithRow(@, id, pins), !.started = started]
  BY <1>3, <1>4, <1>5, <1>7 DEF ExtractionTransaction, NotExtracted
<1>. QED
  BY <1>6, <1>8, ReceiptFits

-----------------------------------------------------------------------------
(* Every step of the application.                                          *)

LEMMA CitationsStand ==
    ASSUME NEW sources \in Citations(db) \cup {{}}
    PROVE  sources \subseteq DOMAIN db.headers
  BY DEF Citations, CurrentPins

LEMMA RecordsFit ==
    ASSUME StoreOK(db), Appending, RecordStep
    PROVE  Fits(db, db')
<1>1. CASE \E op \in Ops : TypeStep(op)
  <2>1. PICK op \in Ops, name \in TypeNames :
           DefineType(op, name) \/ DefineTypeAgain(op, name) \/ ReviseType(op, name)
    BY <1>1 DEF TypeStep
  <2>2. CASE DefineType(op, name) \/ ReviseType(op, name)
    BY <2>2, TypesFit
  <2>3. CASE DefineTypeAgain(op, name)
    <3>1. db' = db
      BY <2>3 DEF DefineTypeAgain, CommitReceipt
    <3>. QED
      BY <3>1, UnchangedFits
  <2>. QED
    BY <2>1, <2>2, <2>3
<1>2. CASE \E op \in Ops : ObjectStep(op)
  <2>0. PICK ends : ends = {}
    OBVIOUS
  <2>1. PICK op \in Ops, sources \in Citations(db), type \in TypePins(db, "note") :
           \/ SaveData(op, "Object", type, sources, ends)
           \/ \E record \in Endpoints(db) : ReviseData(op, record, type, sources, ends)
    BY <1>2, <2>0 DEF ObjectStep
  <2>2. CASE SaveData(op, "Object", type, sources, ends)
    <3>1. PICK kind \in DataKinds : SaveData(op, kind, type, sources, ends)
      BY <2>2 DEF DataKinds
    <3>. QED
      BY <3>1, SavesFit
  <2>3. CASE \E record \in Endpoints(db) : ReviseData(op, record, type, sources, ends)
    <3>1. PICK record \in Endpoints(db) : ReviseData(op, record, type, sources, ends)
      BY <2>3
    <3>2. record[1] \in DataKinds
      BY DEF Endpoints, DataKinds
    <3>. QED
      BY <3>1, <3>2, RevisionsFit
  <2>. QED
    BY <2>1, <2>2, <2>3
<1>3. CASE \E op \in Ops : RelationStep(op)
  <2>1. PICK op \in Ops, sources \in Citations(db), type \in TypePins(db, "link"),
             ends \in EndChoices(db) :
           \/ SaveData(op, "Relation", type, sources, ends)
           \/ \E record \in {r \in DOMAIN db.heads : r[1] = "Relation"} :
                 ReviseData(op, record, type, sources, ends)
    BY <1>3 DEF RelationStep
  <2>2. CASE SaveData(op, "Relation", type, sources, ends)
    <3>1. PICK kind \in DataKinds : SaveData(op, kind, type, sources, ends)
      BY <2>2 DEF DataKinds
    <3>. QED
      BY <3>1, SavesFit
  <2>3. CASE \E record \in {r \in DOMAIN db.heads : r[1] = "Relation"} :
                ReviseData(op, record, type, sources, ends)
    <3>1. PICK record : record[1] = "Relation" /\ ReviseData(op, record, type, sources, ends)
      BY <2>3
    <3>2. record[1] \in DataKinds
      BY <3>1 DEF DataKinds
    <3>. QED
      BY <3>1, <3>2, RevisionsFit
  <2>. QED
    BY <2>1, <2>2, <2>3
<1>4. CASE \E op \in Ops : EntityStep(op)
  <2>1. PICK op \in Ops : EntityStep(op)
    BY <1>4
  <2>2. \/ \E entity : ResolveEntity(op, entity)
        \/ \E primary, other : AddEntityAlias(op, primary, other)
        \/ \E primary, other : MergeEntities(op, primary, other)
    BY <2>1 DEF EntityStep
  <2>. QED
    BY <2>2, ResolvesFit, AliasesFit, MergesFit
<1>5. CASE ExtractionStep
  <2>1. PICK id : \/ ExtractionFails(id) \/ ExtractionReplayed(id)
                  \/ \E length \in 1..MaxBatch :
                     \E items \in {x \in [1..length -> Items(db)] : RevisesOnce(x)} :
                     \E sources \in Citations(db) \cup {{}} :
                        ExtractionTransaction(id, items, sources)
    BY <1>5 DEF ExtractionStep
  <2>2. CASE ExtractionFails(id) \/ ExtractionReplayed(id)
    BY <2>2, MarkersFit
  <2>3. CASE \E length \in 1..MaxBatch :
             \E items \in {x \in [1..length -> Items(db)] : RevisesOnce(x)} :
             \E sources \in Citations(db) \cup {{}} :
                ExtractionTransaction(id, items, sources)
    <3>1. PICK length \in 1..MaxBatch :
             \E items \in {x \in [1..length -> Items(db)] : RevisesOnce(x)} :
             \E sources \in Citations(db) \cup {{}} :
                ExtractionTransaction(id, items, sources)
      BY <2>3
    <3>2. PICK items \in [1..length -> Items(db)], sources \in Citations(db) \cup {{}} :
             RevisesOnce(items) /\ ExtractionTransaction(id, items, sources)
      BY <3>1
    <3>3. sources \subseteq DOMAIN db.headers
      BY CitationsStand
    <3>4. length \in Nat
      OBVIOUS
    <3>. QED
      BY <3>2, <3>3, <3>4, ExtractionsFit
  <2>. QED
    BY <2>1, <2>2, <2>3
<1>6. CASE Next
  BY <1>6, HistoriesFit
<1>. QED
  BY <1>1, <1>2, <1>3, <1>4, <1>5, <1>6 DEF RecordStep

LEMMA StepsFit ==
    ASSUME StoreOK(db), Appending, Drafting, SessionsNext
    PROVE  Fits(db, db')
<1>1. CASE CheckpointStep
  <2>1. CASE \E session \in Sessions, scope \in CheckpointScopes : ReadContext(session, scope)
    <3>1. db' = db
      BY <2>1 DEF ReadContext, vars
    <3>. QED
      BY <3>1, UnchangedFits
  <2>2. CASE \E op, n, sources : SaveCheckpoint(op, n, sources)
    BY <2>2, CheckpointsFit
  <2>. QED
    BY <1>1, <2>1, <2>2 DEF CheckpointStep
<1>2. CASE ActionStep
  <2>1. CASE \E op, type, sources : DefineAction(op, type, sources)
    BY <2>1, ActionsDefined
  <2>2. CASE \E op, type, sources : ReviseAction(op, type, sources)
    BY <2>2, ActionsRevised
  <2>3. CASE \E op, target : PrepareAction(op, target)
    BY <2>3, ActionsPrepared
  <2>4. CASE \E op, record, sources : FinishAction(op, record, sources)
    BY <2>4, ActionsFinished
  <2>5. CASE \/ \E op, type, sources : DefineActionAgain(op, type, sources)
             \/ \E op : PrepareAgain(op) \/ ExecuteAction(op)
             \/ HarnessStops
    <3>1. db' = db
      BY <2>5 DEF DefineActionAgain, CommitReceipt, PrepareAgain, ExecuteAction, HarnessStops, vars
    <3>. QED
      BY <3>1, UnchangedFits
  <2>. QED
    BY <1>2, <2>1, <2>2, <2>3, <2>4, <2>5 DEF ActionStep
<1>. QED
  BY <1>1, <1>2, RecordsFit DEF SessionsNext

-----------------------------------------------------------------------------
(* Appends, drafts and executions. *)

\* What an append's sources are found by.
LEMMA SameCallSources ==
    ASSUME NEW d, NEW e, NEW input, e.calls = d.calls, e.heads = d.heads
    PROVE  CallSources(e, input) = CallSources(d, input)
  BY DEF CallSources, HeadPin

LEMMA BeginAppending ==
    ASSUME StoreOK(db), NEW op, NEW input, NEW size \in Sizes, BeginAppend(op, input, size),
           input.session \in Sessions, input.event \in 1..MaxEvents, input.kind \in HistoryKinds
    PROVE  Appending'
<1>1. PICK pin : pin = FreshPin(db, "History")
  OBVIOUS
<1>2. PICK row : row = [pin |-> pin, purge |-> FALSE]
  OBVIOUS
<1>3. /\ op \in Ops /\ op \notin DOMAIN operations /\ HasRoom(db, "History")
      /\ CallLinked(db, input) /\ ValidHistorySources(db, input.sources)
      /\ db' = [db EXCEPT !.pending = WithRow(@, pin[1], row)]
      /\ upload' = [op |-> op, input |-> input, size |-> size, pin |-> pin, written |-> 0]
      /\ operations' = operations
  BY <1>1, <1>2 DEF BeginAppend, Begin, Offered, NotStored
<1>4. pin \in Pins /\ pin[2] = 1 /\ pin[1][1] = "History" /\ pin[1] \notin DOMAIN db.heads
  BY <1>1, <1>3, FreshPins DEF NextTo
<1>5. db'.heads = db.heads /\ db'.headers = db.headers /\ db'.calls = db.calls
  BY <1>3 DEF StoreOK, Shaped, Rows
<1>6. size \in Nat /\ size <= MaxChunks
  BY MaxChunksBound
<1>7. CallSources(db, input) \cup input.sources \subseteq DOMAIN db.headers
  BY <1>3, ReadableStored DEF CallLinked, CallSources, ValidHistorySources
<1>8. CallSources(db', input) = CallSources(db, input)
  BY <1>5, SameCallSources
<1>9. /\ upload'.op = op /\ upload'.input = input /\ upload'.size = size /\ upload'.pin = pin
      /\ upload'.written = 0
  BY <1>3
<1>. QED
  BY <1>3, <1>4, <1>5, <1>6, <1>7, <1>8, <1>9 DEF Appending

LEMMA UploadAppending ==
    ASSUME StoreOK(db), Appending, UploadChunk
    PROVE  Appending'
<1>1. PICK n : n = upload.written + 1
  OBVIOUS
<1>2. PICK chunk : chunk = <<upload.pin, n>>
  OBVIOUS
<1>3. /\ Locked /\ upload.written < upload.size
      /\ db' = [db EXCEPT !.payloads = @ \cup {chunk}]
      /\ upload' = [upload EXCEPT !.written = n] /\ operations' = operations
  BY <1>1, <1>2 DEF UploadChunk
<1>4. db'.heads = db.heads /\ db'.headers = db.headers /\ db'.calls = db.calls
  BY <1>3 DEF StoreOK, Shaped, Rows
<1>5. CallSources(db', upload.input) = CallSources(db, upload.input)
  BY <1>4, SameCallSources
<1>6. upload.size \in Nat /\ upload.written \in 0..upload.size
  BY <1>3 DEF Appending
<1>7. /\ upload'.op = upload.op /\ upload'.input = upload.input /\ upload'.size = upload.size
      /\ upload'.pin = upload.pin
  BY <1>3
<1>8. upload'.written \in 0..upload.size
  BY <1>1, <1>3, <1>6
<1>. QED
  BY <1>3, <1>4, <1>5, <1>7, <1>8 DEF Appending

\* What a step may do to the operations, to the lock, and to the harness.
Books ==
    \/ operations' = operations /\ applied' = applied
    \/ \E op \in Ops : \E pin :
          /\ operations' = WithRow(operations, op, pin)
          /\ applied' = applied \/ applied' = [applied EXCEPT ![op] = @ + 1]
          /\ op \in DOMAIN operations => "entities" \in workload.calls

LEMMA HistoryBooks ==
    ASSUME Appending, Next
    PROVE  Books /\ (faults \in 0..MaxFaults => faults' \in 0..MaxFaults)
<1>1. CASE \/ \E op, input, size : BeginAppend(op, input, size)
           \/ UploadChunk \/ \E budget : RecoverPayloads(budget)
  BY <1>1 DEF BeginAppend, UploadChunk, RecoverPayloads, Books
<1>2. CASE AbandonUpload \/ Crash
  BY <1>2 DEF AbandonUpload, Crash, Books
<1>3. CASE FinishAppend
  <2>1. upload.op \in Ops /\ upload.op \notin DOMAIN operations
    BY <1>3 DEF FinishAppend, Appending
  <2>2. /\ operations' = WithRow(operations, upload.op, upload.pin)
        /\ applied' = [applied EXCEPT ![upload.op] = @ + 1] /\ faults' = faults
    BY <1>3 DEF FinishAppend, CommitOperation
  <2>. QED
    BY <2>1, <2>2 DEF Books
<1>4. CASE \E op, event : AppendAgain(op, event)
  BY <1>4 DEF AppendAgain, CommitReceipt, Begin, Offered, NotStored, Books
<1>5. CASE \E op, record, state : ChangeState(op, record, state)
  BY <1>5 DEF ChangeState, CommitOperation, Begin, Offered, NotStored, Books
<1>. QED
  BY <1>1, <1>2, <1>3, <1>4, <1>5 DEF Next, HistoryStep, ChangeStep, Retract, Purge

LEMMA RecordBooks ==
    ASSUME Appending, RecordStep
    PROVE  Books /\ (faults \in 0..MaxFaults => faults' \in 0..MaxFaults)
<1>1. CASE \E op \in Ops : TypeStep(op)
  BY <1>1 DEF TypeStep, DefineType, DefineTypeAgain, ReviseType, CommitOperation, CommitReceipt,
     Begin, Offered, NotStored, Books
<1>2. CASE \E op \in Ops : ObjectStep(op) \/ RelationStep(op)
  <2>1. \/ \E op, kind, type, sources, ends : SaveData(op, kind, type, sources, ends)
        \/ \E op, record, type, sources, ends : ReviseData(op, record, type, sources, ends)
    BY <1>2 DEF ObjectStep, RelationStep
  <2>2. CASE \E op, kind, type, sources, ends : SaveData(op, kind, type, sources, ends)
    BY <2>2 DEF SaveData, CommitOperation, Begin, Offered, NotStored, Books
  <2>3. CASE \E op, record, type, sources, ends : ReviseData(op, record, type, sources, ends)
    BY <2>3 DEF ReviseData, CommitOperation, Begin, Offered, NotStored, Books
  <2>. QED
    BY <2>1, <2>2, <2>3
<1>3. CASE "entities" \in workload.calls /\ \E op \in Ops : EntityStep(op)
  <2>1. \/ \E op, entity : ResolveEntity(op, entity)
        \/ \E op, primary, other : AddEntityAlias(op, primary, other)
        \/ \E op, primary, other : MergeEntities(op, primary, other)
    BY <1>3 DEF EntityStep
  <2>2. CASE \E op, entity : ResolveEntity(op, entity)
    BY <2>2 DEF ResolveEntity, CommitOperation, Begin, Offered, NotStored, Books
  <2>3. CASE \E op, primary, other : AddEntityAlias(op, primary, other)
    BY <1>3, <2>3 DEF AddEntityAlias, CommitOperation, Unchecked, Offered, Books
  <2>4. CASE \E op, primary, other : MergeEntities(op, primary, other)
    BY <1>3, <2>4 DEF MergeEntities, CommitOperation, Unchecked, Offered, Books
  <2>. QED
    BY <2>1, <2>2, <2>3, <2>4
<1>4. CASE ExtractionStep
  <2>1. \/ \E id : ExtractionFails(id) \/ ExtractionReplayed(id)
        \/ \E id, items, sources : ExtractionTransaction(id, items, sources)
    BY <1>4 DEF ExtractionStep
  <2>2. CASE \E id : ExtractionFails(id)
    <3>1. /\ faults < MaxFaults /\ faults' = faults + 1
          /\ operations' = operations /\ applied' = applied
      BY <2>2 DEF ExtractionFails
    <3>. QED
      BY <3>1 DEF Books
  <2>3. CASE \E id : ExtractionReplayed(id)
    <3>1. faults' = faults /\ operations' = operations /\ applied' = applied
      BY <2>3 DEF ExtractionReplayed
    <3>. QED
      BY <3>1 DEF Books
  <2>4. CASE \E id, items, sources : ExtractionTransaction(id, items, sources)
    <3>1. faults' = faults /\ operations' = operations /\ applied' = applied
      <4>1. PICK id, items, sources : ExtractionTransaction(id, items, sources)
        BY <2>4
      <4>2. UNCHANGED <<operations, applied, upload, faults>>
        BY <4>1 DEF ExtractionTransaction
      <4>. QED
        BY <4>2
    <3>. QED
      BY <3>1 DEF Books
  <2>. QED
    BY <2>1, <2>2, <2>3, <2>4
<1>5. CASE Next
  BY <1>5, HistoryBooks
<1>. QED
  BY <1>1, <1>2, <1>3, <1>4, <1>5 DEF RecordStep

LEMMA HistoryAppending ==
    ASSUME StoreOK(db), Appending, Next
    PROVE  Appending'
<1>1. CASE \E op \in Ops : \E session \in Sessions :
             \E event \in OfferedEvents(session), kind \in HistoryKinds,
                size \in Sizes, sources \in Cited(db) :
                BeginAppend(op, [session |-> session, event |-> event, kind |-> kind,
                                 sources |-> sources], size)
  <2>0. PICK op \in Ops, session \in Sessions :
             \E event \in OfferedEvents(session), kind \in HistoryKinds,
                size \in Sizes, sources \in Cited(db) :
                BeginAppend(op, [session |-> session, event |-> event, kind |-> kind,
                                 sources |-> sources], size)
    BY <1>1
  <2>1. PICK event \in OfferedEvents(session), kind \in HistoryKinds, size \in Sizes,
             sources \in Cited(db) :
                BeginAppend(op, [session |-> session, event |-> event, kind |-> kind,
                                 sources |-> sources], size)
    BY <2>0
  <2>2. PICK input : input = [session |-> session, event |-> event, kind |-> kind,
                              sources |-> sources]
    OBVIOUS
  <2>3. /\ BeginAppend(op, input, size) /\ input.session \in Sessions
        /\ input.event \in 1..MaxEvents /\ input.kind \in HistoryKinds
    BY <2>1, <2>2 DEF OfferedEvents
  <2>. QED
    BY <2>3, BeginAppending
<1>2. CASE UploadChunk
  BY <1>2, UploadAppending
<1>3. CASE \/ \E op, event : AppendAgain(op, event)
           \/ AbandonUpload \/ FinishAppend \/ Crash
           \/ \E budget : RecoverPayloads(budget)
           \/ \E op, record, state : ChangeState(op, record, state)
  <2>1. upload' = None
    BY <1>3 DEF AppendAgain, AbandonUpload, FinishAppend, Crash, RecoverPayloads, ChangeState,
       Begin, Locked
  <2>. QED
    BY <2>1 DEF Appending, Locked
<1>. QED
  BY <1>1, <1>2, <1>3 DEF Next, HistoryStep, ChangeStep, Retract, Purge

LEMMA StepAppending ==
    ASSUME StoreOK(db), Appending, SessionsNext
    PROVE  Appending'
<1>1. CASE upload' = None
  BY <1>1 DEF Appending, Locked
<1>2. CASE CheckpointStep
  <2>1. upload' = None
    BY <1>2 DEF CheckpointStep, ReadContext, SaveCheckpoint, Begin, Locked, vars
  <2>. QED
    BY <1>1, <2>1
<1>3. CASE ActionStep
  <2>1. CASE \/ \E op : PrepareAgain(op)
             \/ \E op, type, sources : \/ DefineAction(op, type, sources)
                                       \/ DefineActionAgain(op, type, sources)
                                       \/ ReviseAction(op, type, sources)
             \/ \E op, target : PrepareAction(op, target)
             \/ \E op, record, sources : FinishAction(op, record, sources)
    <3>1. upload' = None
      BY <2>1 DEF PrepareAgain, DefineAction, DefineActionAgain, ReviseAction, PrepareAction,
         FinishAction, Begin, Locked, vars
    <3>. QED
      BY <1>1, <3>1
  <2>2. CASE HarnessStops \/ \E op : ExecuteAction(op)
    <3>1. db' = db /\ upload' = upload /\ operations' = operations
      BY <2>2 DEF HarnessStops, ExecuteAction, vars
    <3>. QED
      BY <3>1 DEF Appending, Locked, CallSources, HeadPin
  <2>. QED
    BY <1>3, <2>1, <2>2 DEF ActionStep
<1>4. CASE RecordStep
  <2>1. CASE Next
    BY <2>1, HistoryAppending
  <2>2. CASE \E op \in Ops : Begin(op) /\ (TypeStep(op) \/ ObjectStep(op) \/ RelationStep(op))
    <3>1. upload' = None
      BY <2>2 DEF TypeStep, ObjectStep, RelationStep, DefineType, DefineTypeAgain, ReviseType,
         SaveData, ReviseData, Begin, Locked
    <3>. QED
      BY <1>1, <3>1
  <2>3. CASE \E op \in Ops : EntityStep(op)
    <3>1. upload' = None
      BY <2>3 DEF EntityStep, ResolveEntity, AddEntityAlias, MergeEntities, Begin, Unchecked, Locked
    <3>. QED
      BY <1>1, <3>1
  <2>4. CASE ExtractionStep
    <3>1. \/ \E id : ExtractionFails(id) \/ ExtractionReplayed(id)
          \/ \E id, items, sources : ExtractionTransaction(id, items, sources)
      BY <2>4 DEF ExtractionStep
    <3>2. CASE \E id : ExtractionFails(id) \/ ExtractionReplayed(id)
      <4>1. upload' = None
        BY <3>2 DEF ExtractionFails, ExtractionReplayed, Locked
      <4>. QED
        BY <1>1, <4>1
    <3>3. CASE \E id, items, sources : ExtractionTransaction(id, items, sources)
      <4>1. PICK id, items, sources : ExtractionTransaction(id, items, sources)
        BY <3>3
      <4>2. upload' = None
        <5>1. ~Locked /\ UNCHANGED <<operations, applied, upload, faults>>
          BY <4>1 DEF ExtractionTransaction
        <5>. QED
          BY <5>1 DEF Locked
      <4>. QED
        BY <1>1, <4>2
    <3>. QED
      BY <3>1, <3>2, <3>3
  <2>. QED
    BY <1>4, <2>1, <2>2, <2>3, <2>4 DEF RecordStep
<1>. QED
  BY <1>2, <1>3, <1>4 DEF SessionsNext

LEMMA StepDrafting ==
    ASSUME StoreOK(db), Drafting, SessionsNext, Fits(db, db')
    PROVE  Drafting'
<1>1. CASE draft' = draft
  <2>1. Carries(db, db')
    BY DEF Fits
  <2>. QED
    BY <1>1, <2>1 DEF Drafting, Carries
<1>2. CASE \E session \in Sessions, scope \in CheckpointScopes : ReadContext(session, scope)
  <2>1. PICK session \in Sessions, scope \in CheckpointScopes : ReadContext(session, scope)
    BY <1>2
  <2>2. PICK key : key = CheckpointKey(session, scope)
    OBVIOUS
  <2>3. /\ draft' = [epoch |-> db.epoch, inputs |-> CurrentPins(db), key |-> key,
                     previous |-> LatestCheckpoint(db, key)]
        /\ db' = db
    BY <2>1, <2>2 DEF ReadContext, vars
  <2>4. key \in Sessions \X CheckpointScopes
    BY <2>2 DEF CheckpointKey
  <2>5. LatestCheckpoint(db, key) \in DOMAIN db.headers \cup {None}
    BY DEF LatestCheckpoint, StoreOK, Chained, Firsts
  <2>6. \A p \in CurrentPins(db) :
           /\ p \in DOMAIN db.headers /\ p[1][1] # "Type" /\ db.heads[p[1]] = p[2]
           /\ HeadOf(db, p[1]).state = "Active"
    BY DEF CurrentPins, Current, Available, SelfAvailable
  <2>7. /\ draft'.epoch = db.epoch /\ draft'.inputs = CurrentPins(db)
        /\ draft'.key = key /\ draft'.previous = LatestCheckpoint(db, key)
    BY <2>3
  <2>8. db.epoch \in Nat
    BY DEF StoreOK, Shaped, Dated
  <2>9. Summarised(db, draft')
    BY <2>6, <2>7, <2>8 DEF Summarised
  <2>. QED
    BY <2>3, <2>4, <2>5, <2>7, <2>9 DEF Drafting
<1>3. draft' = draft \/ \E session \in Sessions, scope \in CheckpointScopes : ReadContext(session, scope)
  <2>1. CASE CheckpointStep
    BY <2>1 DEF CheckpointStep, SaveCheckpoint, sessionVars
  <2>2. CASE ActionStep
    BY <2>2 DEF ActionStep, DefineAction, DefineActionAgain, ReviseAction, PrepareAction,
       FinishAction, PrepareAgain, ExecuteAction, HarnessStops, sessionVars
  <2>3. CASE RecordStep
    BY <2>3 DEF RecordStep, sessionVars
  <2>. QED
    BY <2>1, <2>2, <2>3 DEF SessionsNext
<1>. QED
  BY <1>1, <1>2, <1>3

\* Steps that leave the harness alone.
Quiet == Books /\ UNCHANGED <<ready, executed, workload>>
            /\ (faults \in 0..MaxFaults => faults' \in 0..MaxFaults)

LEMMA QuietSteps ==
    ASSUME Appending, SessionsNext
    PROVE  \/ Quiet
           \/ "actions" \in workload.calls /\ \E op, target : PrepareAction(op, target)
           \/ "actions" \in workload.calls /\ (HarnessStops \/ \E op : ExecuteAction(op))
<1>1. CASE RecordStep
  <2>1. UNCHANGED <<ready, executed, workload>>
    BY <1>1 DEF RecordStep, sessionVars
  <2>2. Books /\ (faults \in 0..MaxFaults => faults' \in 0..MaxFaults)
    BY <1>1, RecordBooks
  <2>. QED
    BY <2>1, <2>2 DEF Quiet
<1>2. CASE CheckpointStep
  <2>1. CASE \E session \in Sessions, scope \in CheckpointScopes : ReadContext(session, scope)
    BY <2>1 DEF ReadContext, vars, Quiet, Books
  <2>2. CASE \E op, n, sources : SaveCheckpoint(op, n, sources)
    BY <2>2 DEF SaveCheckpoint, sessionVars, CommitOperation, Begin, Offered, NotStored,
       Quiet, Books
  <2>. QED
    BY <1>2, <2>1, <2>2 DEF CheckpointStep
<1>3. CASE "actions" \in workload.calls /\ ActionStep
  <2>1. CASE \E op, type, sources : DefineAction(op, type, sources)
    BY <2>1 DEF DefineAction, sessionVars, CommitOperation, Begin, Offered, NotStored,
       Quiet, Books
  <2>2. CASE \E op, type, sources : DefineActionAgain(op, type, sources)
    BY <2>2 DEF DefineActionAgain, sessionVars, CommitReceipt, Begin, Offered, NotStored,
       Quiet, Books
  <2>3. CASE \E op, type, sources : ReviseAction(op, type, sources)
    BY <2>3 DEF ReviseAction, sessionVars, CommitOperation, Begin, Offered, NotStored,
       Quiet, Books
  <2>4. CASE \E op, record, sources : FinishAction(op, record, sources)
    BY <2>4 DEF FinishAction, sessionVars, CommitOperation, Begin, Offered, NotStored,
       Quiet, Books
  <2>5. CASE \E op : PrepareAgain(op)
    BY <2>5 DEF PrepareAgain, IsExecution, AlreadyPresent, vars, Quiet, Books
  <2>. QED
    BY <1>3, <2>1, <2>2, <2>3, <2>4, <2>5 DEF ActionStep
<1>. QED
  BY <1>1, <1>2, <1>3 DEF SessionsNext

\* An operation that was recorded stays recorded; only references to
\* entities overwrite its row.
LEMMA BooksGrow ==
    ASSUME DOMAIN operations \subseteq Ops, applied \in [Ops -> Nat], Books
    PROVE  /\ DOMAIN operations \subseteq DOMAIN operations' /\ DOMAIN operations' \subseteq Ops
           /\ applied' \in [Ops -> Nat]
           /\ "entities" \notin workload.calls =>
                 \A o \in DOMAIN operations : operations'[o] = operations[o]
<1>1. CASE operations' = operations /\ applied' = applied
  BY <1>1
<1>2. CASE operations' # operations \/ applied' # applied
  <2>1. PICK op \in Ops : \E pin :
            /\ operations' = WithRow(operations, op, pin)
            /\ applied' = applied \/ applied' = [applied EXCEPT ![op] = @ + 1]
            /\ op \in DOMAIN operations => "entities" \in workload.calls
    BY <1>2 DEF Books
  <2>2. PICK pin :
            /\ operations' = WithRow(operations, op, pin)
            /\ applied' = applied \/ applied' = [applied EXCEPT ![op] = @ + 1]
            /\ op \in DOMAIN operations => "entities" \in workload.calls
    BY <2>1
  <2>3. /\ DOMAIN operations' = DOMAIN operations \cup {op}
        /\ \A o \in DOMAIN operations : o # op => operations'[o] = operations[o]
    BY <2>2 DEF WithRow
  <2>4. applied' \in [Ops -> Nat]
    BY <2>2
  <2>. QED
    BY <2>2, <2>3, <2>4
<1>. QED
  BY <1>1, <1>2

LEMMA QuietExecuting ==
    ASSUME Executing, Quiet
    PROVE  Executing'
<1>1. /\ DOMAIN operations \subseteq DOMAIN operations' /\ DOMAIN operations' \subseteq Ops
      /\ applied' \in [Ops -> Nat]
  BY BooksGrow DEF Executing, Quiet
<1>2. ready' = ready /\ executed' = executed /\ workload' = workload /\ faults' \in 0..MaxFaults
  BY DEF Executing, Quiet
<1>3. \A op \in Ops : executed[op] \in Nat
                      /\ executed[op] <= IF op \in DOMAIN operations \ ready THEN 1 ELSE 0
  BY DEF Executing
<1>4. \A op \in Ops : executed[op] <= IF op \in DOMAIN operations' \ ready THEN 1 ELSE 0
  <2>1. SUFFICES ASSUME NEW op \in Ops
                 PROVE  executed[op] <= IF op \in DOMAIN operations' \ ready THEN 1 ELSE 0
    OBVIOUS
  <2>2. CASE op \in DOMAIN operations \ ready
    BY <1>1, <1>3, <2>2
  <2>3. CASE op \notin DOMAIN operations \ ready
    BY <1>3, <2>3
  <2>. QED
    BY <2>2, <2>3
<1>. QED
  BY <1>1, <1>2, <1>4 DEF Executing

LEMMA PrepareExecuting ==
    ASSUME Executing, NEW op, NEW target, PrepareAction(op, target)
    PROVE  /\ Executing' /\ op \in Ops /\ op \notin DOMAIN operations
           /\ ready' \in {ready, ready \cup {op}}
           /\ executed' = executed /\ workload' = workload
<1>1. PICK pin : /\ operations' = WithRow(operations, op, pin)
                 /\ applied' = [applied EXCEPT ![op] = @ + 1]
  BY DEF PrepareAction, CommitOperation
<1>2. op \in Ops /\ op \notin DOMAIN operations
  BY DEF PrepareAction, Begin, Offered, NotStored
<1>3. /\ ready' \in {ready, ready \cup {op}} /\ executed' = executed /\ workload' = workload
      /\ faults' \in 0..MaxFaults
  BY DEF PrepareAction, Executing
<1>4. DOMAIN operations' = DOMAIN operations \cup {op} /\ applied' \in [Ops -> Nat]
  <2>1. DOMAIN operations' = DOMAIN operations \cup {op}
    BY <1>1 DEF WithRow
  <2>2. applied \in [Ops -> Nat]
    BY DEF Executing
  <2>3. applied' \in [Ops -> Nat]
    BY <1>1, <1>2, <2>2
  <2>. QED
    BY <2>1, <2>3
<1>5. /\ DOMAIN operations \subseteq Ops /\ ready \subseteq DOMAIN operations
      /\ executed \in [Ops -> Nat] /\ workload \in Workloads
      /\ \A o \in Ops : executed[o] <= IF o \in DOMAIN operations \ ready THEN 1 ELSE 0
  BY DEF Executing
<1>6. ready' \subseteq DOMAIN operations'
  BY <1>3, <1>4, <1>5
<1>7. ASSUME NEW o \in Ops
      PROVE  executed[o] <= IF o \in DOMAIN operations' \ ready' THEN 1 ELSE 0
  <2>1. CASE o = op
    <3>1. executed[o] \in Nat /\ executed[o] <= 0
      BY <1>2, <1>5, <2>1
    <3>. QED
      BY <3>1
  <2>2. CASE o # op
    <3>1. o \in DOMAIN operations' \ ready' <=> o \in DOMAIN operations \ ready
      BY <1>3, <1>4, <2>2
    <3>. QED
      BY <1>5, <3>1
  <2>. QED
    BY <2>1, <2>2
<1>. QED
  BY <1>2, <1>3, <1>4, <1>5, <1>6, <1>7 DEF Executing

LEMMA HarnessExecuting ==
    ASSUME Executing, HarnessStops \/ \E op : ExecuteAction(op)
    PROVE  /\ Executing' /\ operations' = operations /\ workload' = workload
           /\ \A o \in Ops : (o \in ready' \/ executed'[o] > 0) => (o \in ready \/ executed[o] > 0)
<1>1. /\ DOMAIN operations \subseteq Ops /\ ready \subseteq DOMAIN operations
      /\ executed \in [Ops -> Nat] /\ workload \in Workloads /\ applied \in [Ops -> Nat]
      /\ faults \in 0..MaxFaults
      /\ \A o \in Ops : executed[o] <= IF o \in DOMAIN operations \ ready THEN 1 ELSE 0
  BY DEF Executing
<1>2. CASE HarnessStops
  <2>1. /\ ready' = {} /\ faults' \in 0..MaxFaults /\ operations' = operations
        /\ applied' = applied /\ executed' = executed /\ workload' = workload
    BY <1>1, <1>2 DEF HarnessStops
  <2>2. ASSUME NEW o \in Ops PROVE executed[o] <= IF o \in DOMAIN operations \ {} THEN 1 ELSE 0
    <3>1. executed[o] \in Nat /\ executed[o] <= IF o \in DOMAIN operations \ ready THEN 1 ELSE 0
      BY <1>1
    <3>. QED
      BY <3>1
  <2>. QED
    BY <1>1, <2>1, <2>2 DEF Executing
<1>3. CASE \E op : ExecuteAction(op)
  <2>1. PICK op : ExecuteAction(op)
    BY <1>3
  <2>2. /\ op \in ready /\ ready' = ready \ {op} /\ executed' = [executed EXCEPT ![op] = @ + 1]
        /\ faults' = faults /\ operations' = operations
        /\ applied' = applied /\ workload' = workload
    BY <2>1 DEF ExecuteAction, vars
  <2>3. ASSUME NEW o \in Ops
        PROVE  /\ executed'[o] \in Nat
               /\ executed'[o] <= IF o \in DOMAIN operations \ ready' THEN 1 ELSE 0
               /\ (o \in ready' \/ executed'[o] > 0) => (o \in ready \/ executed[o] > 0)
    <3>1. executed[o] \in Nat /\ executed[o] <= IF o \in DOMAIN operations \ ready THEN 1 ELSE 0
      BY <1>1
    <3>2. CASE o = op
      <4>1. executed[o] = 0 /\ executed'[o] = executed[o] + 1
        BY <1>1, <2>2, <3>1, <3>2
      <4>2. o \in DOMAIN operations \ ready'
        BY <1>1, <2>2, <3>2
      <4>. QED
        BY <2>2, <3>2, <4>1, <4>2
    <3>3. CASE o # op
      <4>1. executed'[o] = executed[o] /\ (o \in ready' <=> o \in ready)
        BY <1>1, <2>2, <3>3
      <4>. QED
        BY <3>1, <4>1
    <3>. QED
      BY <3>2, <3>3
  <2>4. executed' \in [Ops -> Nat]
    BY <1>1, <2>2
  <2>5. ready' \subseteq DOMAIN operations
    BY <1>1, <2>2
  <2>. QED
    BY <1>1, <2>2, <2>3, <2>4, <2>5 DEF Executing
<1>. QED
  BY <1>2, <1>3

\* A workload without actions leaves the harness idle.
Idle == "actions" \notin workload.calls => ready = {} /\ \A op \in Ops : executed[op] = 0

LEMMA StepExecuting ==
    ASSUME Appending, Executing, SessionsNext
    PROVE  Executing' /\ workload' = workload
<1>1. CASE \E op, target : PrepareAction(op, target)
  BY <1>1, PrepareExecuting
<1>2. CASE HarnessStops \/ \E op : ExecuteAction(op)
  BY <1>2, HarnessExecuting
<1>3. CASE Quiet
  <2>1. Executing'
    BY <1>3, QuietExecuting
  <2>. QED
    BY <1>3, <2>1 DEF Quiet
<1>. QED
  BY <1>1, <1>2, <1>3, QuietSteps

\* What the harness was told is stored, unless an alias took its row.
LEMMA StepIntended ==
    ASSUME StoreOK(db), Appending, Executing, Intended, Idle, SessionsNext,
           ~({"entities", "actions"} \subseteq workload.calls)
    PROVE  Intended' /\ Idle'
<1>1. /\ DOMAIN operations \subseteq Ops /\ ready \subseteq DOMAIN operations
      /\ applied \in [Ops -> Nat] /\ executed \in [Ops -> Nat]
      /\ \A o \in Ops : executed[o] <= IF o \in DOMAIN operations \ ready THEN 1 ELSE 0
  BY DEF Executing
<1>2. CASE "actions" \in workload.calls /\ \E op, target : PrepareAction(op, target)
  <2>1. PICK op, target : PrepareAction(op, target)
    BY <1>2
  <2>2. /\ op \in Ops /\ op \notin DOMAIN operations /\ ready' \in {ready, ready \cup {op}}
        /\ executed' = executed /\ workload' = workload
    BY <2>1, PrepareExecuting
  <2>3. PICK pin : operations' = WithRow(operations, op, pin) /\ pin[1][1] = "ActionExecution"
    BY <2>1, ActionsPrepared
  <2>4. /\ DOMAIN operations' = DOMAIN operations \cup {op} /\ operations'[op] = pin
        /\ \A o \in DOMAIN operations : o # op => operations'[o] = operations[o]
    BY <2>3 DEF WithRow
  <2>5. ASSUME NEW o \in Ops, o \in ready' \/ executed'[o] > 0
        PROVE  o \in DOMAIN operations' /\ operations'[o][1][1] = "ActionExecution"
    <3>1. CASE o = op
      BY <2>3, <2>4, <3>1
    <3>2. CASE o # op
      <4>1. IsExecution(o)
        BY <2>2, <2>5, <3>2 DEF Intended
      <4>. QED
        BY <2>4, <3>2, <4>1 DEF IsExecution
    <3>. QED
      BY <3>1, <3>2
  <2>6. Intended'
    BY <2>5 DEF Intended, IsExecution
  <2>. QED
    BY <1>2, <2>2, <2>6 DEF Idle
<1>3. CASE "actions" \in workload.calls /\ (HarnessStops \/ \E op : ExecuteAction(op))
  <2>1. /\ operations' = operations /\ workload' = workload
        /\ \A o \in Ops : (o \in ready' \/ executed'[o] > 0) => (o \in ready \/ executed[o] > 0)
    BY <1>3, HarnessExecuting
  <2>. QED
    BY <1>3, <2>1 DEF Intended, Idle, IsExecution
<1>4. CASE Quiet
  <2>1. ready' = ready /\ executed' = executed /\ workload' = workload
    BY <1>4 DEF Quiet
  <2>2. /\ DOMAIN operations \subseteq DOMAIN operations'
        /\ "entities" \notin workload.calls =>
              \A o \in DOMAIN operations : operations'[o] = operations[o]
    BY <1>1, <1>4, BooksGrow DEF Quiet
  <2>3. Idle'
    BY <2>1 DEF Idle
  <2>4. ASSUME NEW o \in Ops, o \in ready' \/ executed'[o] > 0
        PROVE  o \in DOMAIN operations' /\ operations'[o][1][1] = "ActionExecution"
    <3>1. o \in ready \/ executed[o] > 0
      BY <2>1, <2>4
    <3>2. "entities" \notin workload.calls
      <4>1. SUFFICES ASSUME "entities" \in workload.calls PROVE FALSE
        OBVIOUS
      <4>2. ready = {} /\ executed[o] = 0
        BY <4>1 DEF Idle
      <4>. QED
        BY <3>1, <4>2
    <3>3. o \in DOMAIN operations /\ operations[o][1][1] = "ActionExecution"
      BY <3>1 DEF Intended, IsExecution
    <3>. QED
      BY <2>2, <3>2, <3>3
  <2>5. Intended'
    BY <2>4 DEF Intended, IsExecution
  <2>. QED
    BY <2>3, <2>5
<1>. QED
  BY <1>2, <1>3, <1>4, QuietSteps

-----------------------------------------------------------------------------
(* The store an application starts with. *)

LEMMA EmptyStore == StoreOK(EmptyDb)
<1>1. DOMAIN EmptyDb = Rows /\ Heads(EmptyDb) /\ Dated(EmptyDb)
  BY EmptySound DEF Sound
<1>2. /\ DOMAIN EmptyDb.headers = {} /\ DOMAIN EmptyDb.heads = {} /\ DOMAIN EmptyDb.pending = {}
      /\ EmptyDb.payloads = {} /\ DOMAIN EmptyDb.names = {} /\ DOMAIN EmptyDb.postings = {}
      /\ DOMAIN EmptyDb.adjacency = {} /\ DOMAIN EmptyDb.latest = {}
      /\ DOMAIN EmptyDb.entities = {} /\ DOMAIN EmptyDb.receipts = {}
      /\ EmptyDb.order = [s \in Sessions |-> <<>>]
  BY DEF EmptyDb
<1>3. EmptyDb.order \in [Sessions -> Seq(Records)]
  BY <1>2
<1> PICK d : d = EmptyDb
  OBVIOUS
<1>4. Shaped(d)
  BY <1>1, <1>2, <1>3 DEF Shaped, Named
<1>5. Posted(d) /\ Adjacent(d) /\ Summaries(d)
  BY <1>2 DEF Posted, Adjacent, Summaries
<1>6. Chained(d) /\ Extracted(d) /\ Resolved(d)
  BY <1>2 DEF Chained, Firsts, Extracted, Resolved
<1>. QED
  BY <1>4, <1>5, <1>6 DEF StoreOK

LEMMA FirstPin ==
    ASSUME NEW kind \in KindSet, NEW n \in Nat, 1 <= n, n <= Limit[kind],
           NEW pin, pin = PinOf(<<kind, n>>, 1)
    PROVE  /\ pin \in Pins /\ pin[1] = <<kind, n>> /\ pin[1][1] = kind /\ pin[1][2] = n
           /\ pin[2] = 1
<1>1. <<kind, n>> \in Records
  BY DEF Records
<1>2. 1 \in 1..MaxRevision
  OBVIOUS
<1>. QED
  BY <1>1, <1>2, PinIn

LEMMA PayloadStored ==
    ASSUME NEW d, StoreOK(d), NEW pin \in Pins, NEW e, e = PutPayload(d, pin, 1)
    PROVE  StoreOK(e) /\ e.heads = d.heads /\ e.headers = d.headers
<1>1. DOMAIN d = Rows /\ d.payloads \subseteq Pins \X (1..MaxChunks) /\ DOMAIN d.pending \subseteq Records
  BY DEF StoreOK, Shaped
<1>2. /\ DOMAIN e = Rows /\ Keeps(d, e, Rows \ {"payloads"})
      /\ e.payloads = d.payloads \cup {<<pin, 1>>}
  BY <1>1, PayloadPut
<1>3. /\ Keeps(d, e, Rows \ {"payloads", "pending", "started"}) /\ e.heads = d.heads
      /\ e.headers = d.headers /\ e.pending = d.pending
  BY <1>2 DEF Keeps, Rows
<1>4. e.payloads \subseteq Pins \X (1..MaxChunks)
  BY <1>1, <1>2, OneChunk
<1>5. Fits(d, e)
  BY <1>1, <1>2, <1>3, <1>4, SameFits
<1>. QED
  BY <1>3, <1>5 DEF Fits

LEMMA TypeStored ==
    ASSUME NEW d, StoreOK(d), NEW name \in TypeNames, NEW pin \in Pins, pin[2] = 1,
           pin[1] \notin DOMAIN d.heads, pin[1][1] = "Type", NEW e, e = TypeBatch(d, pin, name)
    PROVE  /\ StoreOK(e) /\ DOMAIN e.heads = DOMAIN d.heads \cup {pin[1]}
           /\ DOMAIN d.headers \subseteq DOMAIN e.headers
<1>1. NextTo(d, pin) /\ DOMAIN d = Rows
  BY DEF NextTo, StoreOK, Shaped
<1>2. Fits(d, e)
  BY <1>1, TypeFits
<1>3. PICK header : header = Header(d, {}, 1, pin[2])
  OBVIOUS
<1>4. PICK y : y = PutHeader(PutPayload(d, pin, 1), pin, header)
  OBVIOUS
<1>5. y.heads = WithRow(d.heads, pin[1], pin[2])
  BY <1>1, <1>4, RevisionPut
<1>6. e.heads = y.heads
  BY <1>3, <1>4 DEF TypeBatch
<1>. QED
  BY <1>2, <1>5, <1>6 DEF Fits, Carries, WithRow

LEMMA ObjectStored ==
    ASSUME NEW d, StoreOK(d), NEW pin \in Pins, pin[2] = 1, pin[1] \notin DOMAIN d.heads,
           pin[1][1] \in DataKinds, NEW type, NEW ends,
           NEW sources, sources \subseteq DOMAIN d.headers,
           NEW e, e = RecordBatch(d, pin, DataHeader(d, pin, type, sources, ends), {})
    PROVE  /\ StoreOK(e) /\ pin \in DOMAIN e.headers
           /\ DOMAIN e.heads = DOMAIN d.heads \cup {pin[1]}
<1>1. Shaped(d) /\ NextTo(d, pin) /\ Heads(d)
  BY DEF NextTo, StoreOK, Shaped
<1>2. PICK header : header = DataHeader(d, pin, type, sources, ends)
  OBVIOUS
<1>3. /\ DOMAIN header = HeaderRows /\ header.state = "Active"
      /\ header.sources = sources /\ header.rests = Rests(d, sources)
      /\ header.extracted = FALSE /\ header.history = None /\ header.checkpoint = None
  BY <1>2 DEF DataHeader, Header, HeaderRows
<1>4. header.rests \subseteq DOMAIN d.headers
  BY <1>1, <1>3, SourcesStand
<1>5. Proper(d, pin, header)
  BY <1>3, <1>4 DEF Proper, RecordState, DataKinds
<1>6. Started(d, d, pin, header)
  BY DEF Started
<1>7. PICK previous : previous = {}
  OBVIOUS
<1>8. e = RecordBatch(d, pin, header, previous)
  BY <1>2, <1>7
<1>9. DOMAIN e = Rows /\ Keeps(e, e, Rows \ {"entities", "receipts", "started"})
  BY <1>1, <1>8, RecordPut DEF Shaped, Keeps
<1>10. /\ Shaped(d) /\ header.state = "Active" /\ Started(d, d, pin, header)
       /\ NextTo(d, pin) /\ pin[1][1] \in DataKinds /\ Proper(d, pin, header)
       /\ e = RecordBatch(d, pin, header, previous)
       /\ DOMAIN e = Rows /\ Keeps(e, e, Rows \ {"entities", "receipts", "started"})
  BY <1>1, <1>3, <1>5, <1>6, <1>8, <1>9
<1>11. Wrote(d, e, pin, header)
  BY ONLY <1>10, RecordWrote
<1>12. Keeps(d, e, {"messages", "latest", "names"})
  BY ONLY <1>10, RecordWrote
<1>13. Keeps(d, e, {"entities", "receipts"})
  BY ONLY <1>10, RecordWrote
<1>14. e.latest = d.latest /\ e.receipts = d.receipts /\ e.entities = d.entities
  BY <1>12, <1>13 DEF Keeps
<1>15. StoreOK(e)
  BY <1>3, <1>11, <1>14, WroteKeeps
<1>. QED
  BY <1>1, <1>11, <1>15, WroteHeads

LEMMA SeededStore == StoreOK(Seeded)
<1> DEFINE first(kind) == PinOf(<<kind, 1>>, 1)
           second(kind) == PinOf(<<kind, 2>>, 1)
<1>1. PICK message :
         message = [session |-> CHOOSE s \in Sessions : TRUE, event |-> 1, sources |-> {},
                    kind |-> [tag |-> "UserMessage", message |-> None, call |-> None,
                              ordinal |-> 0]]
  OBVIOUS
<1>2. PICK paid : paid = PutPayload(EmptyDb, first("History"), 1)
  OBVIOUS
<1>3. PICK told : told = HistoryBatch(paid, message, 1, first("History"))
  OBVIOUS
<1>4. PICK noted : noted = TypeBatch(told, first("Type"), "note")
  OBVIOUS
<1>5. PICK typed : typed = TypeBatch(noted, second("Type"), "link")
  OBVIOUS
<1>6. PICK one : one = RecordBatch(typed, first("Object"),
                          DataHeader(typed, first("Object"), first("Type"),
                                     {first("History")}, {}), {})
  OBVIOUS
<1>7. PICK two : two = RecordBatch(one, second("Object"),
                          DataHeader(one, second("Object"), first("Type"),
                                     {first("Object")}, {}), {})
  OBVIOUS
<1>8. Seeded = two
  BY <1>1, <1>2, <1>3, <1>4, <1>5, <1>6, <1>7 DEF Seeded
<1>9. PICK event : event = first("History")
  OBVIOUS
<1>10. PICK note : note = first("Type")
  OBVIOUS
<1>11. PICK link : link = second("Type")
  OBVIOUS
<1>12. PICK object : object = first("Object")
  OBVIOUS
<1>13. PICK other : other = second("Object")
  OBVIOUS
<1>14. /\ Limit["History"] \in Nat /\ Limit["Type"] \in Nat /\ Limit["Object"] \in Nat
       /\ {"History", "Type", "Object"} \subseteq KindSet
  BY DEF KindSet, Kinds
<1>15. /\ event \in Pins /\ event[1] = <<"History", 1>> /\ event[1][1] = "History" /\ event[2] = 1
  BY <1>9, <1>14, SessionsAssumption, FirstPin
<1>16. /\ note \in Pins /\ note[1] = <<"Type", 1>> /\ note[1][1] = "Type" /\ note[2] = 1
  BY <1>10, <1>14, SessionsAssumption, FirstPin
<1>17. /\ link \in Pins /\ link[1] = <<"Type", 2>> /\ link[1][1] = "Type" /\ link[2] = 1
  BY <1>11, <1>14, SessionsAssumption, FirstPin
<1>18. /\ object \in Pins /\ object[1] = <<"Object", 1>> /\ object[1][1] = "Object"
       /\ object[2] = 1
  BY <1>12, <1>14, SessionsAssumption, FirstPin
<1>19. /\ other \in Pins /\ other[1] = <<"Object", 2>> /\ other[1][1] = "Object"
       /\ other[2] = 1
  BY <1>13, <1>14, SessionsAssumption, FirstPin
<1>20. StoreOK(paid) /\ DOMAIN paid.heads = {} /\ DOMAIN paid.headers = {}
  <2>1. DOMAIN EmptyDb.heads = {} /\ DOMAIN EmptyDb.headers = {}
    BY DEF EmptyDb
  <2>2. PICK d : d = EmptyDb
    OBVIOUS
  <2>3. StoreOK(d) /\ paid = PutPayload(d, event, 1)
    BY <2>2, <1>2, <1>9, EmptyStore
  <2>4. StoreOK(paid) /\ paid.heads = d.heads /\ paid.headers = d.headers
    BY <2>3, <1>15, PayloadStored
  <2>. QED
    BY <2>1, <2>2, <2>4
<1>21. /\ StoreOK(told) /\ DOMAIN told.heads = {event[1]} /\ event \in DOMAIN told.headers
  <2>1. message.session \in Sessions /\ message.event \in 1..MaxEvents
    BY <1>1, SessionsAssumption
  <2>2. message.kind \in HistoryKinds /\ message.kind.tag = "UserMessage" /\ message.sources = {}
    BY <1>1 DEF HistoryKinds, HistoryKind
  <2>3. CallSources(paid, message) \cup message.sources \subseteq DOMAIN paid.headers
    BY <2>2 DEF CallSources
  <2>4. PICK size : size = 1
    OBVIOUS
  <2>5. told = HistoryBatch(paid, message, size, event)
    BY <1>3, <1>9, <2>4
  <2>6. Fits(paid, told)
    BY <1>15, <1>20, <2>1, <2>2, <2>3, <2>5, EventsFit
  <2>7. PICK header : header = EventHeader(paid, message, size)
    OBVIOUS
  <2>8. DOMAIN paid = Rows
    BY <1>20 DEF StoreOK, Shaped
  <2>9. /\ told.headers = WithRow(paid.headers, event, header)
        /\ told.heads = WithRow(paid.heads, event[1], event[2])
    BY <2>5, <2>7, <2>8, HistoryRows
  <2>. QED
    BY <1>20, <2>6, <2>9 DEF Fits, WithRow
<1>22. /\ StoreOK(noted) /\ DOMAIN noted.heads = {event[1], note[1]}
       /\ event \in DOMAIN noted.headers
  <2>1. note[1] \notin DOMAIN told.heads /\ "note" \in TypeNames
    BY <1>15, <1>16, <1>21 DEF TypeNames
  <2>2. PICK name : name = "note"
    OBVIOUS
  <2>3. noted = TypeBatch(told, note, name)
    BY <1>4, <1>10, <2>2
  <2>4. /\ StoreOK(told) /\ name \in TypeNames /\ note \in Pins /\ note[2] = 1
        /\ note[1] \notin DOMAIN told.heads /\ note[1][1] = "Type"
        /\ noted = TypeBatch(told, note, name)
    BY <1>16, <1>21, <2>1, <2>2, <2>3
  <2>5. StoreOK(noted) /\ DOMAIN told.headers \subseteq DOMAIN noted.headers
    BY ONLY <2>4, TypeStored
  <2>6. DOMAIN noted.heads = DOMAIN told.heads \cup {note[1]}
    BY ONLY <2>4, TypeStored
  <2>. QED
    BY <1>21, <2>5, <2>6
<1>23. /\ StoreOK(typed) /\ DOMAIN typed.heads = {event[1], note[1], link[1]}
       /\ event \in DOMAIN typed.headers
  <2>1. link[1] \notin DOMAIN noted.heads /\ "link" \in TypeNames
    BY <1>15, <1>16, <1>17, <1>22 DEF TypeNames
  <2>2. PICK name : name = "link"
    OBVIOUS
  <2>3. typed = TypeBatch(noted, link, name)
    BY <1>5, <1>11, <2>2
  <2>4. /\ StoreOK(noted) /\ name \in TypeNames /\ link \in Pins /\ link[2] = 1
        /\ link[1] \notin DOMAIN noted.heads /\ link[1][1] = "Type"
        /\ typed = TypeBatch(noted, link, name)
    BY <1>17, <1>22, <2>1, <2>2, <2>3
  <2>5. StoreOK(typed) /\ DOMAIN noted.headers \subseteq DOMAIN typed.headers
    BY ONLY <2>4, TypeStored
  <2>6. DOMAIN typed.heads = DOMAIN noted.heads \cup {link[1]}
    BY ONLY <2>4, TypeStored
  <2>. QED
    BY <1>22, <2>5, <2>6
<1>24. /\ StoreOK(one) /\ object \in DOMAIN one.headers
       /\ DOMAIN one.heads = {event[1], note[1], link[1], object[1]}
  <2>1. object[1] \notin DOMAIN typed.heads /\ object[1][1] \in DataKinds
    BY <1>15, <1>16, <1>17, <1>18, <1>23 DEF DataKinds
  <2>2. PICK sources : sources = {event}
    OBVIOUS
  <2>3. PICK ends : ends = {}
    OBVIOUS
  <2>4. one = RecordBatch(typed, object, DataHeader(typed, object, note, sources, ends), {})
    BY <1>6, <1>9, <1>10, <1>12, <2>2, <2>3
  <2>5. sources \subseteq DOMAIN typed.headers
    BY <1>23, <2>2
  <2>6. /\ StoreOK(typed) /\ object \in Pins /\ object[2] = 1
        /\ object[1] \notin DOMAIN typed.heads /\ object[1][1] \in DataKinds
        /\ sources \subseteq DOMAIN typed.headers
        /\ one = RecordBatch(typed, object, DataHeader(typed, object, note, sources, ends), {})
    BY <1>18, <1>23, <2>1, <2>4, <2>5
  <2>7. StoreOK(one) /\ object \in DOMAIN one.headers
    BY ONLY <2>6, ObjectStored
  <2>8. DOMAIN one.heads = DOMAIN typed.heads \cup {object[1]}
    BY ONLY <2>6, ObjectStored
  <2>. QED
    BY <1>23, <2>7, <2>8
<1>25. StoreOK(two)
  <2>1. other[1] \notin DOMAIN one.heads /\ other[1][1] \in DataKinds
    BY <1>15, <1>16, <1>17, <1>18, <1>19, <1>24 DEF DataKinds
  <2>2. PICK sources : sources = {object}
    OBVIOUS
  <2>3. PICK ends : ends = {}
    OBVIOUS
  <2>4. two = RecordBatch(one, other, DataHeader(one, other, note, sources, ends), {})
    BY <1>7, <1>10, <1>12, <1>13, <2>2, <2>3
  <2>5. sources \subseteq DOMAIN one.headers
    BY <1>24, <2>2
  <2>. QED
    BY <1>19, <1>24, <2>1, <2>4, <2>5, ObjectStored
<1>. QED
  BY <1>8, <1>25

-----------------------------------------------------------------------------
(* The invariant of the sessions. *)

LEMMA InitSessions == SessionsInit => SessionsIInv /\ Intended /\ Idle
<1> SUFFICES ASSUME SessionsInit PROVE SessionsIInv /\ Intended /\ Idle
  OBVIOUS
<1>1. StoreOK(db)
  BY SeededStore DEF SessionsInit
<1>2. /\ DOMAIN operations = {} /\ applied = [op \in Ops |-> 0] /\ upload = None /\ faults = 0
      /\ draft = None /\ ready = {} /\ executed = [op \in Ops |-> 0] /\ workload \in Workloads
  BY DEF SessionsInit, InitKernel
<1>3. Appending /\ Drafting
  BY <1>2 DEF Appending, Drafting, Locked
<1>4. Executing
  BY <1>2 DEF Executing
<1>5. Intended /\ Idle
  BY <1>2 DEF Intended, Idle
<1>. QED
  BY <1>1, <1>3, <1>4, <1>5 DEF SessionsIInv

LEMMA NextSessions ==
    ASSUME SessionsIInv, [SessionsNext]_allVars
    PROVE  SessionsIInv'
<1>1. StoreOK(db) /\ Appending /\ Drafting /\ Executing
  BY DEF SessionsIInv
<1>2. CASE SessionsNext
  <2>1. Fits(db, db')
    BY <1>1, <1>2, StepsFit
  <2>2. Appending' /\ Drafting'
    BY <1>1, <1>2, <2>1, StepAppending, StepDrafting
  <2>3. Executing'
    BY <1>1, <1>2, StepExecuting
  <2>. QED
    BY <2>1, <2>2, <2>3 DEF SessionsIInv, Fits
<1>3. CASE UNCHANGED allVars
  <2>1. /\ UNCHANGED <<db, operations, applied, upload, faults>>
        /\ UNCHANGED <<draft, ready, executed, workload>>
    BY <1>3 DEF allVars, vars, sessionVars
  <2>2. Appending' /\ Drafting'
    BY <1>1, <2>1 DEF Appending, Drafting, Locked
  <2>3. Executing'
    BY <1>1, <2>1 DEF Executing
  <2>. QED
    BY <1>1, <2>1, <2>2, <2>3 DEF SessionsIInv
<1>. QED
  BY <1>2, <1>3

\* The store holds together, and no draft, append or execution contradicts it.
THEOREM SessionsInvariance == SessionsSpec => []SessionsIInv
<1>1. SessionsInit => SessionsIInv
  BY InitSessions
<1>2. SessionsIInv /\ [SessionsNext]_allVars => SessionsIInv'
  BY NextSessions
<1>. QED
  BY <1>1, <1>2, PTL DEF SessionsSpec

-----------------------------------------------------------------------------
(* What the invariant says of search and checkpoints. *)

LEMMA HeadOfRecord ==
    ASSUME NEW d, Heads(d), NEW r \in DOMAIN d.heads
    PROVE  /\ HeadPin(d, r) \in DOMAIN d.headers /\ HeadPin(d, r)[1] = r
           /\ HeadOf(d, r) = d.headers[HeadPin(d, r)]
<1>1. r \in Records /\ d.heads[r] \in 1..MaxRevision
  BY DEF Heads
<1>2. HeadPin(d, r) \in Pins /\ HeadPin(d, r)[1] = r /\ HeadPin(d, r)[2] = d.heads[r]
  BY <1>1, PinIn DEF HeadPin
<1>. QED
  BY <1>1, <1>2 DEF Heads, HeadOf

\* Only the head of a live record is current.
LEMMA CurrentHead ==
    ASSUME NEW d, Heads(d), NEW p, Current(d, p)
    PROVE  /\ p \in DOMAIN d.headers /\ p[1] \in DOMAIN d.heads /\ p = HeadPin(d, p[1])
           /\ HeadOf(d, p[1]).state = "Active"
<1>1. SelfAvailable(d, p, TRUE)
  BY DEF Current, Available
<1>2. /\ p \in DOMAIN d.headers /\ HeadOf(d, p[1]).state = "Active" /\ d.heads[p[1]] = p[2]
  BY <1>1 DEF SelfAvailable
<1>3. p \in Pins /\ p[1] \in DOMAIN d.heads
  BY <1>2 DEF Heads
<1>. QED
  BY <1>2, <1>3, PinShape DEF HeadPin

LEMMA SearchFollows ==
    ASSUME StoreOK(db)
    PROVE  SearchExact
<1>1. Heads(db) /\ Posted(db) /\ Adjacent(db)
  BY DEF StoreOK, Shaped
<1>2. \A r : r \in DataRecords <=> r \in DOMAIN db.heads /\ r[1] \in DataKinds
  BY DEF DataRecords, DataKinds
<1>3. ASSUME NEW p PROVE CurrentCandidate(db, p) => Current(db, p)
  BY DEF CurrentCandidate
<1> DEFINE pins == {HeadPin(db, r) : r \in DataRecords}
<1>4. FoundByText(db) = {p \in pins : CurrentCandidate(db, p)}
  <2>1. ASSUME NEW r \in DOMAIN db.postings PROVE db.postings[r] \in pins
    BY <1>1, <1>2 DEF Posted
  <2>2. ASSUME NEW r \in DataRecords, CurrentCandidate(db, HeadPin(db, r))
        PROVE  r \in DOMAIN db.postings /\ db.postings[r] = HeadPin(db, r)
    <3>1. r \in DOMAIN db.heads /\ r[1] \in DataKinds
      BY <1>2
    <3>2. HeadOf(db, r).state = "Active"
      BY <1>1, <1>3, <2>2, <3>1, HeadOfRecord, CurrentHead
    <3>. QED
      BY <1>1, <3>1, <3>2 DEF Posted
  <2>. QED
    BY <2>1, <2>2 DEF FoundByText
<1>5. ASSUME NEW e \in Endpoints(db)
      PROVE  Relations(db, e) =
                {p \in pins : e \in db.headers[p].ends /\ CurrentCandidate(db, p)}
  <2>1. ASSUME NEW row \in DOMAIN db.adjacency, row[1] = e,
               CurrentCandidate(db, db.adjacency[row])
        PROVE  db.adjacency[row] \in pins /\ e \in db.headers[db.adjacency[row]].ends
    <3>1. /\ db.adjacency[row][1] = row[2] /\ row[2][1] \in DataKinds
          /\ row[1] \in db.headers[db.adjacency[row]].ends
      BY <1>1 DEF Adjacent
    <3>2. /\ db.adjacency[row][1] \in DOMAIN db.heads
          /\ db.adjacency[row] = HeadPin(db, db.adjacency[row][1])
      BY <1>1, <1>3, <2>1, CurrentHead
    <3>3. row[2] \in DataRecords
      BY <1>2, <3>1, <3>2
    <3>. QED
      BY <2>1, <3>1, <3>2, <3>3
  <2>2. ASSUME NEW r \in DataRecords, CurrentCandidate(db, HeadPin(db, r)),
               e \in db.headers[HeadPin(db, r)].ends
        PROVE  \E row \in DOMAIN db.adjacency : row[1] = e /\ db.adjacency[row] = HeadPin(db, r)
    <3>1. r \in DOMAIN db.heads /\ r[1] \in DataKinds
      BY <1>2
    <3>2. HeadOf(db, r).state = "Active" /\ HeadOf(db, r) = db.headers[HeadPin(db, r)]
      BY <1>1, <1>3, <2>2, <3>1, HeadOfRecord, CurrentHead
    <3>3. <<e, r>> \in DOMAIN db.adjacency /\ db.adjacency[<<e, r>>] = HeadPin(db, r)
      BY <1>1, <2>2, <3>1, <3>2 DEF Adjacent
    <3>. QED
      BY <3>3
  <2>. QED
    BY <2>1, <2>2 DEF Relations
<1>. QED
  BY <1>4, <1>5 DEF SearchExact

\* replace_postings, replace_adjacency, current_candidate: for any number of
\* records, revisions, extractions and corrections, search finds every current
\* record and every relation of one, and nothing else.
THEOREM SearchIsExact == SessionsSpec => []SearchExact
<1>1. SessionsIInv => SearchExact
  BY SearchFollows DEF SessionsIInv
<1>. QED
  BY SessionsInvariance, <1>1, PTL

LEMMA SessionsTyped ==
    ASSUME SessionsIInv
    PROVE  SessionsTypeOK
<1>1. StoreOK(db) /\ Appending /\ Executing
  BY DEF SessionsIInv
<1>2. Shaped(db) /\ Posted(db) /\ Adjacent(db) /\ Heads(db) /\ Dated(db)
  BY <1>1 DEF StoreOK, Shaped
<1>3. /\ DOMAIN db.headers \subseteq Pins
      /\ \A r \in DOMAIN db.heads : HeadPin(db, r) \in DOMAIN db.headers
  BY <1>2, HeadOfRecord DEF Heads
<1>4. \A p \in DOMAIN db.headers :
         db.headers[p].state \in RecordState /\ db.headers[p].sources \subseteq DOMAIN db.headers
  BY <1>2 DEF Shaped, Proper
<1>5. /\ db.payloads \subseteq Pins \X (1..MaxChunks) /\ DOMAIN db.pending \subseteq Records
      /\ \A s \in Sessions : db.order[s] \in Seq(Records)
      /\ db.epoch \in Nat /\ RedactionEpoch(db) \in 0..db.epoch
  BY <1>2 DEF Shaped, Dated
<1>6. /\ DOMAIN operations \subseteq Ops /\ applied \in [Ops -> Nat] /\ faults \in 0..MaxFaults
      /\ ready \subseteq DOMAIN operations /\ executed \in [Ops -> Nat] /\ workload \in Workloads
  BY <1>1 DEF Executing
<1>7. Locked => upload.written \in 0..upload.size
  BY <1>1 DEF Appending
<1>8. TypeOK
  BY <1>3, <1>4, <1>5, <1>6, <1>7 DEF TypeOK
<1>9. DOMAIN db.postings \subseteq DOMAIN db.heads
  BY <1>2 DEF Posted
<1>10. ASSUME NEW row \in DOMAIN db.adjacency PROVE row[2] \in DOMAIN db.heads
  BY <1>2 DEF Adjacent, Heads
<1>. QED
  BY <1>6, <1>8, <1>9, <1>10 DEF SessionsTypeOK

LEMMA CheckpointsFollow ==
    ASSUME StoreOK(db)
    PROVE  CheckpointCurrent /\ CheckpointRedacted /\ CheckpointChain
<1>1. Summaries(db) /\ Chained(db)
  BY DEF StoreOK
<1>2. ASSUME NEW c \in Checkpoints
      PROVE  /\ Summarised(db, db.headers[c].checkpoint)
             /\ Inputs(c) = db.headers[c].checkpoint.inputs
             /\ Current(db, c) => db.headers[c].checkpoint.epoch = db.epoch
             /\ Readable(db, c) => db.headers[c].checkpoint.epoch >= RedactionEpoch(db)
  <2>1. c \in DOMAIN db.headers /\ db.headers[c].checkpoint # None
    BY DEF Checkpoints
  <2>2. Summarised(db, db.headers[c].checkpoint)
    BY <1>1, <2>1 DEF Summaries
  <2>3. Current(db, c) => db.headers[c].checkpoint.epoch = db.epoch
    BY <2>1 DEF Current, Available, SelfAvailable, CheckpointAvailable
  <2>4. Readable(db, c) => db.headers[c].checkpoint.epoch >= RedactionEpoch(db)
    BY <2>1 DEF Readable, Available, SelfAvailable, CheckpointAvailable
  <2>. QED
    BY <2>2, <2>3, <2>4 DEF Inputs
<1>3. CheckpointCurrent
  <2> SUFFICES ASSUME NEW c \in Checkpoints, Current(db, c), NEW p \in Inputs(c), Corrected(p)
               PROVE  RevisedByExtraction(p)
    BY DEF CheckpointCurrent
  <2>. QED
    BY <1>2 DEF Summarised, Corrected, RevisedByExtraction
<1>4. CheckpointRedacted
  <2> SUFFICES ASSUME NEW c \in Checkpoints, Readable(db, c), NEW p \in Inputs(c)
               PROVE  /\ HeadOf(db, p[1]).state # "Purged"
                      /\ p[1][1] = "History" => HeadOf(db, p[1]).state = "Active"
    BY DEF CheckpointRedacted
  <2>. QED
    BY <1>2 DEF Summarised
<1>5. CheckpointChain
  <2>1. {x \in Checkpoints : x[2] = 1} = Firsts(db)
    BY DEF Checkpoints, Firsts
  <2>. QED
    BY <1>1, <2>1 DEF CheckpointChain, Chained
<1>. QED
  BY <1>3, <1>4, <1>5

\* save_checkpoint, validate_current: a current checkpoint summarises nothing
\* corrected since, a readable one nothing purged or withdrawn, and the
\* checkpoints of a session or run form one chain, for any number of
\* generators, corrections and erasures between reading and saving.
THEOREM CheckpointsAreSound == SessionsSpec => []CheckpointsSound
<1>1. SessionsIInv => CheckpointsSound
  BY SessionsTyped, CheckpointsFollow DEF SessionsIInv, CheckpointsSound
<1>. QED
  BY SessionsInvariance, <1>1, PTL

\* validate_sources, write_data, write_action, save_checkpoint: whatever is
\* written is current, so no revision removes what it rests on.
THEOREM WritesAreCurrent == SessionsSpec => WrittenIsCurrent
<1> DEFINE A == \A p \in DOMAIN db'.headers \ DOMAIN db.headers :
                   (/\ p[1][1] \in {"Object", "Relation", "Action", "Checkpoint"}
                    /\ db'.headers[p].state = "Active" /\ ~db'.headers[p].extracted
                    /\ p[2] > 1 => ~RestsOnCheckpoint(db', p))
                   => Current(db', p)
<1>1. SessionsIInv /\ [SessionsNext]_allVars => [A]_allVars
  <2> SUFFICES ASSUME SessionsIInv, SessionsNext PROVE A
    OBVIOUS
  <2>1. Fits(db, db')
    BY StepsFit DEF SessionsIInv
  <2>. QED
    BY <2>1 DEF Fits, NewCurrent, Standing
<1> HIDE DEF A
<1>2. SessionsSpec => [][A]_allVars
  BY SessionsInvariance, <1>1, PTL DEF SessionsSpec
<1>. QED
  BY <1>2 DEF WrittenIsCurrent, A

\* resolve_or_create_entity, merge_entities: what once names the same entity
\* does so for ever, through any aliases and merges, and names a node.
THEOREM EntitiesStaySame == SessionsSpec => SameEntityStays
<1> DEFINE A == /\ \A e, f \in DOMAIN db.entities :
                      db.entities[e].node = db.entities[f].node =>
                         db'.entities[e].node = db'.entities[f].node
                /\ \A e \in DOMAIN db'.entities : db'.entities[e].node \in DOMAIN db'.heads
<1>1. SessionsIInv /\ [SessionsNext]_allVars => [A]_vars
  <2>1. ASSUME SessionsIInv, SessionsNext PROVE A
    <3>1. Fits(db, db')
      BY <2>1, StepsFit DEF SessionsIInv
    <3>. QED
      BY <3>1 DEF Fits, SameEntities
  <2>2. UNCHANGED allVars => UNCHANGED vars
    BY DEF allVars
  <2>. QED
    BY <2>1, <2>2
<1> HIDE DEF A
<1>2. SessionsSpec => [][A]_vars
  BY SessionsInvariance, <1>1, PTL DEF SessionsSpec
<1>. QED
  BY <1>2 DEF SameEntityStays, A

-----------------------------------------------------------------------------
(* Retries. *)

LEMMA OnceExtracted ==
    ASSUME StoreOK(db)
    PROVE  ExtractionsExact
<1>1. Extracted(db)
  BY DEF StoreOK
<1>2. ASSUME NEW p \in DOMAIN db.headers, db.headers[p].extracted,
             db.headers[p].state = "Active"
      PROVE  Cardinality({id \in DOMAIN db.receipts : p \in db.receipts[id]}) = 1
  <2>1. PICK id \in DOMAIN db.receipts :
           \A i \in DOMAIN db.receipts : p \in db.receipts[i] <=> i = id
    BY <1>1, <1>2 DEF Extracted
  <2>2. {i \in DOMAIN db.receipts : p \in db.receipts[i]} = {id}
    BY <2>1
  <2>. QED
    BY <2>2, FS_Singleton
<1>. QED
  BY <1>1, <1>2 DEF ExtractionsExact, Extracted

\* extraction_transaction: whatever is repeated, refused or interrupted, each
\* extracted revision was written by one transaction, and a transaction that
\* left a receipt wrote all of its revisions.
THEOREM ExtractionsAreExact == SessionsSpec => []ExtractionsExact
<1>1. SessionsIInv => ExtractionsExact
  BY OnceExtracted DEF SessionsIInv
<1>. QED
  BY SessionsInvariance, <1>1, PTL

\* prepare_action_once: an action is executed at most once, whatever the
\* application calls.
THEOREM ExecutedAtMostOnce == SessionsSpec => [](\A op \in Ops : executed[op] <= 1)
<1>1. SessionsIInv => \A op \in Ops : executed[op] <= 1
  BY DEF SessionsIInv, Executing
<1>. QED
  BY SessionsInvariance, <1>1, PTL

\* No application both merges entities and executes actions.  Merges do not
\* look their operation up, and may replace the receipt of an execution.
SeparateWorkloads == \A w \in Workloads : ~({"entities", "actions"} \subseteq w.calls)

\* prepare_action_once, extraction_transaction: whatever is lost, retried or
\* restarted, an action is executed at most once and never without its durable
\* intent, and an extraction has no second effect.
THEOREM RetriesHaveNoEffect ==
    ASSUME SeparateWorkloads
    PROVE  SessionsSpec => []RetriedOnce
<1> DEFINE I == SessionsIInv /\ Intended /\ Idle
<1>1. SessionsInit => I
  BY InitSessions
<1>2. I /\ [SessionsNext]_allVars => I'
  <2>1. ASSUME I, SessionsNext PROVE I'
    <3>1. workload \in Workloads
      BY <2>1 DEF SessionsIInv, Executing
    <3>2. ~({"entities", "actions"} \subseteq workload.calls)
      BY <3>1 DEF SeparateWorkloads
    <3>3. SessionsIInv'
      BY <2>1, NextSessions
    <3>. QED
      BY <2>1, <3>2, <3>3, StepIntended DEF SessionsIInv
  <2>2. ASSUME I, UNCHANGED allVars PROVE I'
    <3>1. SessionsIInv'
      BY <2>2, NextSessions
    <3>2. UNCHANGED <<operations, ready, executed, workload>>
      BY <2>2 DEF allVars, vars, sessionVars
    <3>. QED
      BY <2>2, <3>1, <3>2 DEF Intended, Idle, IsExecution
  <2>. QED
    BY <2>1, <2>2
<1>3. I => RetriedOnce
  <2> SUFFICES ASSUME I PROVE RetriedOnce
    OBVIOUS
  <2>1. ExtractionsExact
    BY OnceExtracted DEF SessionsIInv
  <2>2. ASSUME NEW op \in Ops, executed[op] > 0 PROVE executed[op] = 1 /\ IsExecution(op)
    <3>1. IsExecution(op)
      BY <2>2 DEF Intended
    <3>2. executed[op] \in Nat /\ executed[op] <= 1
      BY DEF SessionsIInv, Executing
    <3>. QED
      BY <2>2, <3>1, <3>2
  <2>. QED
    BY <2>1, <2>2 DEF RetriedOnce, ActionExecutedOnce
<1> HIDE DEF I
<1>. QED
  BY <1>1, <1>2, <1>3, PTL DEF SessionsSpec

==============================================================================
