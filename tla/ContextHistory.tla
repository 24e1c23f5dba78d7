--------------------------- MODULE ContextHistory ---------------------------
(***************************************************************************)
(* The history of the context store (crates/mmdb/src/context/history.rs):  *)
(* append-only events with a position in their session, streamed assistant *)
(* messages, tool calls and their results, and payloads uploaded chunk by  *)
(* chunk.                                                                  *)
(*                                                                         *)
(* An append commits a pending row, then every chunk, then the batch that  *)
(* makes the event visible.  It holds the write lock throughout, so only a *)
(* crash or a failing reader can come between; recovery removes what they  *)
(* leave behind.  A payload is its number of chunks: two payloads of       *)
(* different length are different content.                                 *)
(***************************************************************************)
EXTENDS ContextKernel

CONSTANTS
    MaxEvents,     \* event identities 1..MaxEvents of a session
    Messages,      \* identities of assistant messages
    Calls,         \* identities of tool calls
    MaxFragments,  \* fragments of one message
    Sizes,         \* the chunks payloads have
    MaxCited       \* sources of one event

ASSUME HistoryAssumption ==
    /\ MaxEvents \in Nat /\ MaxFragments \in Nat
    /\ Sizes \subseteq Nat /\ \E n \in Sizes : \A m \in Sizes : m <= n

HistoryKind(tag, messages, calls, ordinals) ==
    [tag : {tag}, message : messages, call : calls, ordinal : ordinals]

HistoryKinds ==
    HistoryKind("UserMessage", {None}, {None}, {0})
    \cup HistoryKind("AssistantStarted", Messages, {None}, {0})
    \cup HistoryKind("AssistantFragment", Messages, {None}, 0..(MaxFragments - 1))
    \cup HistoryKind("AssistantTerminal", Messages, {None}, {0})
    \cup HistoryKind("ToolCall", Messages \cup {None}, Calls, {0})
    \cup HistoryKind("ToolResult", {None}, Calls, {0})

\* What an event's header keeps of it.
Entries == [session : Sessions, event : 1..MaxEvents, sequence : Nat, kind : HistoryKinds]

\* Absence is none of the values that may be there.
ASSUME NoneAssumption == None \notin Records \cup Pins \cup Entries

MaxChunks == CHOOSE n \in Sizes : \A m \in Sizes : m <= n

\* Mutant: erased events no longer count.
SequenceLive(d, session) ==
    Cardinality({i \in DOMAIN d.order[session] : HeadOf(d, d.order[session][i]).state # "Purged"})

Sequence(d, session) == Len(d.order[session])
CallKey(input) == <<input.session, input.kind.call>>
EventKey(input) == <<input.session, input.event>>
-----------------------------------------------------------------------------
(* What an append checks before it writes. *)

\* A call names a message that still stands and has an identity of its own;
\* a result follows a readable call and is its only one.
CallLinked(d, input) ==
    /\ input.kind.tag = "ToolCall" =>
          /\ HasMessage(input) =>
                /\ MessageKey(input) \in DOMAIN d.messages
                /\ ~d.messages[MessageKey(input)].unavailable
          /\ CallKey(input) \notin DOMAIN d.calls
    /\ input.kind.tag = "ToolResult" =>
          /\ CallKey(input) \in DOMAIN d.calls
          /\ Readable(d, HeadPin(d, d.calls[CallKey(input)]))
          /\ CallKey(input) \notin DOMAIN d.results

\* A result rests on its call.
CallSources(d, input) ==
    IF input.kind.tag = "ToolResult" THEN {HeadPin(d, d.calls[CallKey(input)])} ELSE {}

Streams(input) ==
    input.kind.tag \in {"AssistantStarted", "AssistantFragment", "AssistantTerminal"}

\* A message starts once, its fragments come in order, its end comes once.
MessageFollows(d, input) ==
    LET key == MessageKey(input)
    IN CASE input.kind.tag = "AssistantStarted" -> key \notin DOMAIN d.messages
         [] input.kind.tag = "AssistantFragment" ->
              /\ key \in DOMAIN d.messages /\ ~d.messages[key].terminal
              /\ d.messages[key].next = input.kind.ordinal
         [] input.kind.tag = "AssistantTerminal" ->
              key \in DOMAIN d.messages /\ ~d.messages[key].terminal

MessageTransition(d, input) ==
    LET old == d.messages[MessageKey(input)]
    IN CASE input.kind.tag = "AssistantStarted" ->
              [next |-> 0, terminal |-> FALSE, unavailable |-> FALSE]
         [] input.kind.tag = "AssistantFragment" -> [old EXCEPT !.next = @ + 1]
         [] input.kind.tag = "AssistantTerminal" -> [old EXCEPT !.terminal = TRUE]
-----------------------------------------------------------------------------
(* Appending. *)

\* The pending row is durable before the first chunk is.  A caller's
\* expected position only refuses an append, and is left out.
BeginAppend(op, input, size) ==
    /\ Begin(op)
    /\ EventKey(input) \notin DOMAIN db.events
    /\ HasRoom(db, "History")
    /\ CallLinked(db, input)
    /\ ValidHistorySources(db, input.sources)
    /\ Streams(input) => MessageFollows(db, input)
    /\ LET pin == FreshPin(db, "History")
       IN /\ db' = [db EXCEPT !.pending = WithRow(@, pin[1], [pin |-> pin, purge |-> FALSE])]
          /\ upload' = [op |-> op, input |-> input, size |-> size, pin |-> pin, written |-> 0]
    /\ UNCHANGED <<operations, applied, faults>>

UploadChunk ==
    /\ Locked /\ upload.written < upload.size
    /\ db' = [db EXCEPT !.payloads = @ \cup {<<upload.pin, upload.written + 1>>}]
    /\ upload' = [upload EXCEPT !.written = @ + 1]
    /\ UNCHANGED <<operations, applied, faults>>

\* The reader, or one of the batches, fails: the call returns an error.
AbandonUpload ==
    /\ Locked /\ faults < MaxFaults
    /\ upload' = None /\ faults' = faults + 1
    /\ UNCHANGED <<db, operations, applied>>

\* Mutant: the pending row stays.
WithoutPendingKept(d, record) == d

WithoutPending(d, record) ==
    [d EXCEPT !.pending = [r \in DOMAIN @ \ {record} |-> @[r]]]

HistoryBatch(d, input, size, pin) ==
    LET sequence == Sequence(d, input.session) + 1
        header == [Header(d, CallSources(d, input) \cup input.sources, size, 1) EXCEPT
                     !.history = [session |-> input.session, event |-> input.event,
                                  sequence |-> sequence, kind |-> input.kind]]
        linked(rows, tag) ==
            IF input.kind.tag = tag THEN WithRow(rows, CallKey(input), pin[1]) ELSE rows
    IN [WithoutPending(PutHeader(d, pin, header), pin[1]) EXCEPT
          !.order[input.session] = Append(@, pin[1]),
          !.events = WithRow(@, EventKey(input), [input |-> input, size |-> size, pin |-> pin]),
          !.calls = linked(@, "ToolCall"),
          !.results = linked(@, "ToolResult"),
          !.messages = IF Streams(input)
                       THEN WithRow(@, MessageKey(input), MessageTransition(d, input)) ELSE @]

\* The whole payload is stored: the event becomes visible.
FinishAppend ==
    /\ Locked /\ upload.written = upload.size
    /\ CommitOperation(upload.op, upload.pin,
                       HistoryBatch(db, upload.input, upload.size, upload.pin))
    /\ upload' = None
    /\ UNCHANGED faults

\* Another operation brings an event that is stored already.
AppendAgain(op, event) ==
    /\ Begin(op)
    /\ event \in DOMAIN db.events
    /\ CommitReceipt(op, db.events[event].pin)
    /\ UNCHANGED <<upload, faults>>
-----------------------------------------------------------------------------
(* Recovery of payloads. *)

KindByte(kind) == CHOOSE i \in DOMAIN Kinds : Kinds[i] = kind
KeyBefore(r, s) ==
    \/ KindByte(r[1]) < KindByte(s[1])
    \/ r[1] = s[1] /\ r[2] <= s[2]
FirstPending(d) == CHOOSE r \in DOMAIN d.pending : \A s \in DOMAIN d.pending : KeyBefore(r, s)

\* An upload that never became a record, or a record that is purged.
Abandoned(d, record) ==
    IF d.pending[record].purge
    THEN Exists(d, record) /\ HeadOf(d, record).state = "Purged"
    ELSE ~Exists(d, record)

\* A purge removes the chunks of every revision.
ChunksToRemove(d, record) ==
    {c \in d.payloads : IF d.pending[record].purge THEN c[1][1] = record
                        ELSE c[1] = d.pending[record].pin}

\* One row of a recovery: at most budget chunks, and the row once none is
\* left.  Rows are taken in key order, each in a batch of its own.
RecoverPayloads(budget) ==
    /\ ~Locked /\ DOMAIN db.pending # {}
    /\ LET record == FirstPending(db)
           chunks == ChunksToRemove(db, record)
       IN /\ Abandoned(db, record)
          /\ IF Cardinality(chunks) <= budget
             THEN db' = [WithoutPending(db, record) EXCEPT !.payloads = @ \ chunks]
             ELSE \E removed \in SUBSET chunks :
                     /\ Cardinality(removed) = budget
                     /\ db' = [db EXCEPT !.payloads = @ \ removed]
    /\ UNCHANGED <<operations, applied, upload, faults>>

\* The process stops during an append, and the store is opened again; at
\* any other time nothing is lost with it.
Crash ==
    /\ Locked /\ faults < MaxFaults
    /\ upload' = None /\ faults' = faults + 1
    /\ UNCHANGED <<db, operations, applied>>
-----------------------------------------------------------------------------
\* Callers name a fresh event, or one of an earlier append.
OfferedEvents(session) ==
    {e \in 1..MaxEvents : e <= Cardinality({k \in DOMAIN db.events : k[1] = session}) + 1}

Cited(d) == {s \in SUBSET {p \in DOMAIN d.headers : Readable(d, p)} : Cardinality(s) <= MaxCited}

HistoryStep ==
    \/ \E op \in Ops :
          /\ Begin(op)
          /\ \/ \E session \in Sessions :
                \E event \in OfferedEvents(session), kind \in HistoryKinds,
                   size \in Sizes, sources \in Cited(db) :
                   BeginAppend(op, [session |-> session, event |-> event, kind |-> kind,
                                    sources |-> sources], size)
             \/ \E event \in DOMAIN db.events : AppendAgain(op, event)
    \/ UploadChunk \/ AbandonUpload \/ FinishAppend
    \/ \E budget \in 1..MaxChunks : RecoverPayloads(budget)
    \/ Crash

ChangeStep ==
    \E op \in Ops : Begin(op) /\ \E record \in DOMAIN db.heads :
        Retract(op, record) \/ Purge(op, record)

Init == db = EmptyDb /\ InitKernel
Next == HistoryStep \/ ChangeStep

\* An upload proceeds until it ends one way or the other; the application
\* keeps calling recover_payloads.
Fairness ==
    /\ WF_vars(UploadChunk \/ FinishAppend)
    /\ WF_vars(\E budget \in 1..MaxChunks : RecoverPayloads(budget))

Spec == Init /\ [][Next]_vars /\ Fairness
-----------------------------------------------------------------------------
(* Properties. *)

HistoryRecords == {r \in DOMAIN db.heads : r[1] = "History"}
Original(record) == db.headers[PinOf(record, 1)]
EntryAt(session, i) == Original(db.order[session][i]).history

TypeOK ==
    /\ DOMAIN db.headers \subseteq Pins
    /\ \A r \in DOMAIN db.heads : HeadPin(db, r) \in DOMAIN db.headers
    /\ \A p \in DOMAIN db.headers :
          /\ db.headers[p].state \in RecordState
          /\ db.headers[p].sources \subseteq DOMAIN db.headers
    /\ db.payloads \subseteq Pins \X (1..MaxChunks)
    /\ DOMAIN db.pending \subseteq Records
    /\ \A s \in Sessions : db.order[s] \in Seq(Records)
    /\ db.epoch \in Nat /\ RedactionEpoch(db) \in 0..db.epoch
    /\ DOMAIN operations \subseteq Ops
    /\ applied \in [Ops -> Nat]
    /\ Locked => upload.written \in 0..upload.size
    /\ faults \in 0..MaxFaults

\* append_history, recover_payloads: whatever is interrupted, every stored
\* chunk belongs to a committed record or to a row that recovery will find.
NoOrphanChunks ==
    \A c \in db.payloads : c[1] \in DOMAIN db.headers \/ c[1][1] \in DOMAIN db.pending

\* recover_payloads, "never live committed data": cleanup rows name no live
\* record, so recovery never stops with an error, and every revision that may
\* be read has its whole payload.
CommittedReadable ==
    /\ \A r \in DOMAIN db.pending :
          Abandoned(db, r) \/ (Locked /\ upload.pin[1] = r)
    /\ \A p \in DOMAIN db.headers :
          Readable(db, p) =>
             LET payload == db.headers[p].payload
             IN \A i \in 1..payload.chunks : <<PinOf(p[1], payload.revision), i>> \in db.payloads

\* Payload chunks: none is lost and none is left behind, whichever batch of
\* append_history, purge or recover_payloads was the last one.
PayloadsExact == NoOrphanChunks /\ CommittedReadable

\* append_history: the positions of a session have no gap and no event is
\* there twice, whatever operations brought it.
HistoryGapless ==
    /\ \A s \in Sessions : \A i \in DOMAIN db.order[s] :
          /\ EntryAt(s, i).sequence = i
          /\ \A j \in DOMAIN db.order[s] : EntryAt(s, i).event = EntryAt(s, j).event => i = j
    /\ \A r \in HistoryRecords :
          \E i \in DOMAIN db.order[Original(r).history.session] :
             db.order[Original(r).history.session][i] = r

\* message_transition: in the order of the session a message starts, runs
\* through its fragments one by one, and ends at most once, after them.
StreamsInOrder ==
    \A s \in Sessions : \A i \in DOMAIN db.order[s] :
       LET entry == EntryAt(s, i)
           before(tag) == {j \in 1..(i - 1) : /\ EntryAt(s, j).kind.tag = tag
                                              /\ EntryAt(s, j).kind.message = entry.kind.message}
       IN /\ entry.kind.tag = "AssistantStarted" => before("AssistantStarted") = {}
          /\ entry.kind.tag = "AssistantFragment" =>
                Cardinality(before("AssistantFragment")) = entry.kind.ordinal
          /\ entry.kind.tag \in {"AssistantFragment", "AssistantTerminal"} =>
                before("AssistantStarted") # {} /\ before("AssistantTerminal") = {}

CallsAt(s, tag, call) ==
    {j \in DOMAIN db.order[s] : EntryAt(s, j).kind.tag = tag /\ EntryAt(s, j).kind.call = call}

\* validate_call_link, tool_history: a result stands after exactly one call
\* of its session and is the only one; the pair that tool_history returns is
\* the pair in the history.
CallsPaired ==
    \A s \in Sessions : \A call \in Calls :
       LET made == CallsAt(s, "ToolCall", call)  got == CallsAt(s, "ToolResult", call)
       IN /\ Cardinality(made) <= 1 /\ Cardinality(got) <= 1
          /\ \A j \in got : \E i \in made : i < j
          /\ \A i \in made : db.calls[<<s, call>>] = db.order[s][i]
          /\ \A j \in got : db.results[<<s, call>>] = db.order[s][j]

\* A session's history reads like one: gapless positions, streams in order,
\* calls paired with their results.
HistoryWellFormed == TypeOK /\ HistoryGapless /\ StreamsInOrder /\ CallsPaired

\* purge, retract, invalidate_message: what can no longer be read, because it,
\* a source or a part of its message was withdrawn, is never readable again.
UnreadableForever ==
    [][\A p \in DOMAIN db.headers : ~Readable(db, p) => ~Readable(db', p)]_vars

\* replay and commit_operation implement at-most-once operations.
AMO == INSTANCE AtMostOnce WITH Receipts <- Pins, receipt <- operations, effects <- applied

\* append_history, retract, purge: an operation identifier decides one
\* receipt, and its effects happen at most once, across faults and retries.
OperationsAtMostOnce == AMO!Spec

\* recover_payloads: an application that keeps calling it is left with no
\* abandoned upload and no chunk of a purged record.
PendingDrains == <>[](DOMAIN db.pending = {} /\ \A c \in db.payloads :
                        HeadOf(db, c[1][1]).state # "Purged")
=============================================================================
