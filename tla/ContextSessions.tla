--------------------------- MODULE ContextSessions ---------------------------
(***************************************************************************)
(* The working side of the context store: checkpoints that summarise a     *)
(* session (checkpoints.rs) and actions a harness executes (actions.rs),   *)
(* on top of history and records.                                          *)
(*                                                                         *)
(* A checkpoint is generated outside the store, from whatever was current  *)
(* when its epoch was read.  The harness that executes actions is outside  *)
(* too: it acts only on the answer that its preparation was the first.     *)
(***************************************************************************)
EXTENDS ContextRecords

CONSTANTS
    CheckpointScopes,   \* "Session", and "Run" for the runs of a session
    Workloads           \* what an application calls, and how often at most

VARIABLES
    workload,   \* the calls of this application
    draft,      \* the checkpoint under generation
    ready,      \* operations the harness was told to execute
    executed    \* how often the harness executed each operation

\* What a checkpoint's header keeps of it.
Summary ==
    [epoch : Nat, window : Nat, previous : Pins \cup {None},
     key : Sessions \X CheckpointScopes, inputs : SUBSET Pins]

\* There is room for the store an application starts with, and absence is no
\* summary.
ASSUME SessionsAssumption ==
    /\ Sessions # {} /\ \E n \in Sizes : n >= 1
    /\ MaxEvents >= 1
    /\ Limit["History"] >= 1 /\ Limit["Type"] >= 2 /\ Limit["Object"] >= 2
    /\ None \notin Summary

sessionVars == <<draft, ready, executed, workload>>
allVars == <<vars, sessionVars>>
-----------------------------------------------------------------------------
(* Checkpoints. *)

CheckpointKey(session, scope) == <<session, scope>>
LatestCheckpoint(d, key) == IF key \in DOMAIN d.latest THEN d.latest[key] ELSE None

\* The generator reads the epoch, and then what it summarises: everything
\* current, listed among the sources later or not.
ReadContext(session, scope) ==
    /\ ~Locked /\ Work < workload.most
    /\ draft' = [epoch |-> db.epoch, inputs |-> CurrentPins(db),
                 key |-> CheckpointKey(session, scope),
                 previous |-> LatestCheckpoint(db, CheckpointKey(session, scope))]
    /\ UNCHANGED <<vars, ready, executed, workload>>

\* Mutant: the epoch is not compared.
DraftIsCurrentParentOnly == LatestCheckpoint(db, draft.key) = draft.previous

\* Nothing was corrected since, and nobody else advanced the chain.
DraftIsCurrent ==
    db.epoch = draft.epoch /\ LatestCheckpoint(db, draft.key) = draft.previous

SaveCheckpoint(op, sequence, sources) ==
    /\ draft # None /\ Begin(op) /\ HasRoom(db, "Checkpoint")
    /\ DraftIsCurrent
    /\ sequence \in DOMAIN db.order[draft.key[1]]
    /\ LET anchor == HeadPin(db, db.order[draft.key[1]][sequence])
           pin == FreshPin(db, "Checkpoint")
           window == IF draft.previous = None THEN 1
                     ELSE db.headers[draft.previous].checkpoint.window + 1
           header == [Header(db, sources \cup {anchor}, 1, 1) EXCEPT
                        !.checkpoint = [epoch |-> db.epoch, window |-> window,
                                        previous |-> draft.previous, key |-> draft.key,
                                        inputs |-> draft.inputs]]
       IN /\ ValidSources(db, sources \cup {anchor}, None)
          /\ CommitOperation(op, pin,
                [PutHeader(PutPayload(db, pin, 1), pin, header) EXCEPT
                   !.latest = WithRow(@, draft.key, pin)])
    /\ UNCHANGED <<upload, faults, sessionVars>>
-----------------------------------------------------------------------------
(* Actions. *)

\* Action definitions are not indexed for search.
ActionBatch(d, pin, header) == PutHeader(PutPayload(d, pin, 1), pin, header)

ActionHeader(pin, type, sources, status) ==
    [Header(db, sources, 1, pin[2]) EXCEPT !.type = type, !.status = status]

\* The record of the one action there is a name for.
ActionRecord(d) == d.names["action"]

DefineAction(op, type, sources) ==
    /\ Begin(op) /\ "action" \notin DOMAIN db.names /\ HasRoom(db, "Action")
    /\ ValidSources(db, sources, None)
    /\ LET pin == FreshPin(db, "Action")
       IN CommitOperation(op, pin,
             [ActionBatch(db, pin, ActionHeader(pin, type, sources, None)) EXCEPT
                !.names = WithRow(@, "action", pin[1])])
    /\ UNCHANGED <<upload, faults, sessionVars>>

DefineActionAgain(op, type, sources) ==
    /\ Begin(op) /\ "action" \in DOMAIN db.names
    /\ ValidSources(db, sources, None)
    /\ LET head == HeadPin(db, ActionRecord(db))
       IN /\ Readable(db, head)
          /\ db.headers[head].type = type /\ db.headers[head].sources = sources
          /\ CommitReceipt(op, head)
    /\ UNCHANGED <<upload, faults, sessionVars>>

ReviseAction(op, type, sources) ==
    /\ Begin(op) /\ "action" \in DOMAIN db.names
    /\ Revisable(db, ActionRecord(db)) /\ Readable(db, HeadPin(db, ActionRecord(db)))
    /\ ValidSources(db, sources, ActionRecord(db))
    /\ LET pin == NextPin(db, ActionRecord(db))
       IN CommitOperation(op, pin,
             ActionBatch(AdvanceEpoch(db), pin, ActionHeader(pin, type, sources, None)))
    /\ UNCHANGED <<upload, faults, sessionVars>>

\* The durable intent.  Its answer reaches the harness, or is lost with the
\* harness or the commit's acknowledgement.
PrepareAction(op, target) ==
    /\ Begin(op) /\ "action" \in DOMAIN db.names /\ HasRoom(db, "ActionExecution")
    /\ LET action == HeadPin(db, ActionRecord(db))
           pin == FreshPin(db, "ActionExecution")
       IN /\ Current(db, action) /\ Current(db, target) /\ target[1][1] = "Object"
          /\ db.headers[target].type = db.headers[action].type
          /\ CommitOperation(op, pin,
                ActionBatch(db, pin, ActionHeader(pin, None, {action, target}, "Prepared")))
    /\ \/ ready' = ready \cup {op} /\ faults' = faults
       \/ faults < MaxFaults /\ faults' = faults + 1 /\ ready' = ready
    /\ UNCHANGED <<upload, draft, executed, workload>>

IsExecution(op) == op \in DOMAIN operations /\ operations[op][1][1] = "ActionExecution"

\* Mutant: only an outcome counts.
AlreadyPresentSettled(op) == HeadOf(db, operations[op][1]).status # "Prepared"

\* A stored operation is reported as present, whatever became of it.
AlreadyPresent(op) == op \in DOMAIN operations

\* The harness prepares the same operation again.
PrepareAgain(op) ==
    /\ ~Locked /\ IsExecution(op)
    /\ ready' = IF AlreadyPresent(op) THEN ready ELSE ready \cup {op}
    /\ UNCHANGED <<vars, draft, executed, workload>>

\* external: the harness acts.
ExecuteAction(op) ==
    /\ op \in ready
    /\ ready' = ready \ {op}
    /\ executed' = [executed EXCEPT ![op] = @ + 1]
    /\ UNCHANGED <<vars, draft, workload>>

\* external: the harness stops and forgets what it was told.
HarnessStops ==
    /\ faults < MaxFaults /\ ready # {}
    /\ ready' = {} /\ faults' = faults + 1
    /\ UNCHANGED <<db, operations, applied, upload, draft, executed, workload>>

\* An outcome, whichever it is, is recorded once.  The target may have changed since: its pin
\* stays among the sources.
FinishAction(op, record, sources) ==
    /\ Begin(op) /\ record[1] = "ActionExecution" /\ Revisable(db, record)
    /\ HeadOf(db, record).status = "Prepared"
    /\ ValidSources(db, sources, record)
    /\ LET pin == NextPin(db, record)
       IN CommitOperation(op, pin,
             ActionBatch(AdvanceEpoch(db), pin,
                ActionHeader(pin, None, HeadOf(db, record).sources \cup sources, "Settled")))
    /\ UNCHANGED <<upload, faults, sessionVars>>
-----------------------------------------------------------------------------
\* The store of an application that has defined its types, recorded a
\* message, noted an object from it and derived a second from the first.
Seeded ==
    LET first(kind) == PinOf(<<kind, 1>>, 1)
        second(kind) == PinOf(<<kind, 2>>, 1)
        message == [session |-> CHOOSE s \in Sessions : TRUE, event |-> 1, sources |-> {},
                    kind |-> [tag |-> "UserMessage", message |-> None, call |-> None,
                              ordinal |-> 0]]
        told == HistoryBatch(PutPayload(EmptyDb, first("History"), 1), message, 1,
                             first("History"))
        typed == TypeBatch(TypeBatch(told, first("Type"), "note"), second("Type"), "link")
        object(d, pin, source) ==
            RecordBatch(d, pin, DataHeader(d, pin, first("Type"), {source}, {}), {})
    IN object(object(typed, first("Object"), first("History")),
              second("Object"), first("Object"))

SessionsInit ==
    /\ db = Seeded /\ InitKernel
    /\ draft = None /\ ready = {} /\ executed = [op \in Ops |-> 0]
    /\ workload \in Workloads

CheckpointStep ==
    \/ \E session \in Sessions, scope \in CheckpointScopes : ReadContext(session, scope)
    \/ \E op \in Ops :
         /\ Begin(op) /\ Work < workload.most
         /\ \E sources \in Citations(db) \cup {{}}, n \in 1..Limit["History"] :
               SaveCheckpoint(op, n, sources)

ActionStep ==
    \/ \E op \in Ops :
         /\ Begin(op) /\ Work < workload.most
         /\ \/ \E type \in TypePins(db, "note"), sources \in Citations(db) :
                 \/ DefineAction(op, type, sources) \/ DefineActionAgain(op, type, sources)
                 \/ ReviseAction(op, type, sources)
            \/ \E target \in CurrentPins(db) : PrepareAction(op, target)
            \/ \E record \in DOMAIN db.heads, sources \in Citations(db) :
                 FinishAction(op, record, sources)
    \/ \E op \in Ops : PrepareAgain(op) \/ ExecuteAction(op)
    \/ HarnessStops

RecordStep ==
    /\ \/ \E op \in Ops :
            /\ Begin(op) /\ Work < workload.most
            /\ \/ "types" \in workload.calls /\ TypeStep(op)
               \/ "objects" \in workload.calls /\ ObjectStep(op)
               \/ "relations" \in workload.calls /\ RelationStep(op)
       \/ /\ "entities" \in workload.calls /\ Work < workload.most
          /\ \E op \in Ops : EntityStep(op)
       \/ "extraction" \in workload.calls /\ Work < workload.most /\ ExtractionStep
       \/ Next /\ Work' <= workload.most
    /\ UNCHANGED sessionVars

SessionsNext ==
    \/ "checkpoints" \in workload.calls /\ CheckpointStep
    \/ "actions" \in workload.calls /\ ActionStep
    \/ RecordStep

SessionsSpec == SessionsInit /\ [][SessionsNext]_allVars
-----------------------------------------------------------------------------
(* Properties. *)

SessionsTypeOK ==
    /\ TypeOK
    /\ DOMAIN db.postings \cup {row[2] : row \in DOMAIN db.adjacency} \subseteq DOMAIN db.heads
    /\ ready \subseteq DOMAIN operations
    /\ executed \in [Ops -> Nat]
    /\ workload \in Workloads

Checkpoints == {p \in DOMAIN db.headers : db.headers[p].checkpoint # None}
Inputs(p) == db.headers[p].checkpoint.inputs
Corrected(p) == db.heads[p[1]] # p[2]

\* The epoch does not count the revisions of an extraction transaction.
RevisedByExtraction(p) ==
    \E q \in DOMAIN db.headers : q[1] = p[1] /\ q[2] > p[2] /\ db.headers[q].extracted

\* save_checkpoint, "A correction invalidates older checkpoints for current
\* recovery": a checkpoint that passes validate_current summarises nothing
\* that was revised, retracted or purged since, unless by an extraction.
CheckpointCurrent ==
    \A c \in Checkpoints : Current(db, c) =>
       \A p \in Inputs(c) : Corrected(p) => RevisedByExtraction(p)

\* "Purge or history withdrawal also hides older payloads, including unlisted
\* inputs to a summary": whoever reads a checkpoint reads nothing derived from
\* a purged record or a withdrawn event.
CheckpointRedacted ==
    \A c \in Checkpoints : Readable(db, c) =>
       \A p \in Inputs(c) :
          /\ HeadOf(db, p[1]).state # "Purged"
          /\ p[1][1] = "History" => HeadOf(db, p[1]).state = "Active"

\* save_checkpoint: the checkpoints of a session or run form one chain, also
\* when two generators start from the same parent.
CheckpointChain ==
    \A c, e \in {x \in Checkpoints : x[2] = 1} :
       LET a == db.headers[c].checkpoint  b == db.headers[e].checkpoint
       IN (c # e /\ a.key = b.key) => a.previous # b.previous /\ a.window # b.window

\* save_checkpoint and latest_checkpoint: one chain per session, whose current
\* members are not outdated and whose readable members show nothing withdrawn.
CheckpointsSound ==
    SessionsTypeOK /\ CheckpointCurrent /\ CheckpointRedacted /\ CheckpointChain

\* A revision rests on a checkpoint that its own write made out of date.
RestsOnCheckpoint(d, pin) ==
    \E p \in d.headers[pin].rests : p[1][1] = "Checkpoint"

\* validate_sources, write_data, write_action, save_checkpoint: what was just
\* written is current, so a revision never takes away what it rests on.  A
\* revision that cites a checkpoint is the exception: it advances the epoch.
WrittenIsCurrent ==
    [][\A p \in DOMAIN db'.headers \ DOMAIN db.headers :
          (/\ p[1][1] \in {"Object", "Relation", "Action", "Checkpoint"}
           /\ db'.headers[p].state = "Active" /\ ~db'.headers[p].extracted
           /\ p[2] > 1 => ~RestsOnCheckpoint(db', p))
          => Current(db', p)]_allVars

\* prepare_action_once: whatever is lost, retried or restarted, an action is
\* executed at most once, and never without its durable intent.
ActionExecutedOnce ==
    \A op \in Ops : executed[op] > 0 => executed[op] = 1 /\ IsExecution(op)

\* Repeating an extraction or an action after a crash or a lost answer has no
\* second effect.
RetriedOnce == ExtractionsExact /\ ActionExecutedOnce
=============================================================================
