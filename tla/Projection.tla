------------------------------ MODULE Projection ------------------------------
(***************************************************************************)
(* Embedding projections (runtime.rs): a node is projected by the          *)
(* embedding profiles of the memory profile.  A task marks the projection  *)
(* row Pending under the node mutation lock, calls the embedding client    *)
(* without it, and takes the lock again to install the answer, if the      *)
(* profile, the content and the attempt are still the ones it was asked    *)
(* for.  Callers rewrite and delete the node, change the memory profile    *)
(* and stop the process in between.                                        *)
(*                                                                         *)
(* One node is modelled.  A vector and a searchable text are told apart by *)
(* where they come from: a caller, or a client asked under an embedding    *)
(* profile (its fingerprint) about a content.  A section that holds the    *)
(* lock advances one durable write at a time where a crash in between can  *)
(* be told from a crash before or after.                                   *)
(***************************************************************************)
EXTENDS Integers, Sequences, FiniteSets

CONSTANTS
    Ids,            \* identifiers of embedding profiles
    Fps,            \* fingerprints: the versions of an embedding profile
    Models, Model,  \* the model each identifier's profiles name
    Contents,       \* contents of the node
    Supported,      \* the pairs of identifier and content that a profile supports
    Tasks,          \* concurrent ingest, ingest_blob and retry_projection calls
    MaxAttempts, MaxEdits, MaxProfiles, MaxCrashes,
    None, Caller

ASSUME ProjectionAssumption ==
    /\ Model \in [Ids -> Models]
    /\ Supported \subseteq Ids \X Contents
    /\ {MaxAttempts, MaxEdits, MaxProfiles, MaxCrashes} \subseteq Nat
    /\ {None, Caller} \cap (Fps \cup Contents \cup Tasks) = {}
    /\ {"insert", "delete"} \cap (Tasks \cup {None}) = {}

VARIABLES
    node,       \* durable: the node row, or None
    vec,        \* durable: the vector stored for the node under each model
    profile,    \* durable: the fingerprint of each configured embedding profile
    status,     \* durable: the projection rows
    doc,        \* durable: the lexical document of the node, or None
    open,       \* is the database open?
    tasks,      \* the calls in progress
    lock,       \* the call inside a section that holds node_mutation_lock
    abandoned,  \* history: rows whose call stopped before finishing them
    edits, profiles, crashes

vars == <<node, vec, profile, status, doc, open, tasks, lock, abandoned,
          edits, profiles, crashes>>
bounds == <<edits, profiles, crashes>>
------------------------------------------------------------------------------
(* Data. *)

\* Where a vector or a searchable text comes from.
Answer(id, fp, content) == <<id, fp, content>>
Answers == Ids \X Fps \X Contents
Vectors == Answers \cup {Caller, None}

\* MemoryNode: its content and its embedding under each model.
MemoryNode == [content : Contents, embeddings : [Models -> Vectors]]

\* MemoryProfile: validate_profile refuses two profiles of one model.
MemoryProfile == [Ids -> Fps \cup {None}]
ValidProfile(p) ==
    \A i, j \in Ids : i # j /\ p[i] # None /\ p[j] # None => Model[i] # Model[j]

\* ProjectionStatus: None, or the attempt, what it was asked for and its state.
Status == [fp : Fps, content : Contents, state : {"Pending", "Ready", "Failed"},
           attempts : Nat, text : {None} \cup Answers]
Pending(fp, content, attempts) ==
    [fp |-> fp, content |-> content, state |-> "Pending", attempts |-> attempts,
     text |-> None]

\* None is told apart from the rows it stands for the absence of.
ASSUME NoneAssumption ==
    /\ None \notin MemoryNode /\ None \notin Status
    /\ None \notin Answers /\ None \notin Ids \X Fps

\* The embedding profiles of a memory profile, as a set of pairs.
Configured(p) == {<<id, p[id]>> : id \in {i \in Ids : p[i] # None}}
Supports(id, content) == <<id, content>> \in Supported

AttemptsOf(id) == IF status[id] = None THEN 0 ELSE status[id].attempts
Holds(s, state) == s # None /\ s.state = state

\* Mutant of IsCurrentFor: the profile's fingerprint is not compared.
IsCurrentForAnyVersion(s, id, p, n) ==
    /\ n # None /\ Holds(s, "Ready") /\ p[id] # None
    /\ s.content = n.content
    /\ n.embeddings[Model[id]] # None

\* ProjectionStatus::is_current_for
IsCurrentFor(s, id, p, n) ==
    /\ n # None /\ Holds(s, "Ready") /\ p[id] # None
    /\ s.fp = p[id]
    /\ s.content = n.content
    /\ n.embeddings[Model[id]] # None

\* current_projection_texts and searchable_text: what the lexical document holds.
CurrentTexts(n, p, st) == {st[id].text : id \in {i \in Ids : IsCurrentFor(st[i], i, p, n)}}
Document(n, p, st) == [content |-> n.content, texts |-> CurrentTexts(n, p, st) \ {None}]

\* reindex_node_unlocked
Reindex(n, p, st) == doc' = IF n = None THEN doc ELSE Document(n, p, st)

\* A task: the profiles it still has to project, and the attempt in progress.
Working(pc, queue, id) == [pc |-> pc, queue |-> queue, id |-> id, mine |-> None]
Idle == Working("idle", {}, None)
Set(t, rec) == tasks' = [tasks EXCEPT ![t] = rec]
Goto(t, pc) == tasks' = [tasks EXCEPT ![t].pc = pc]
Free == open /\ lock = None
------------------------------------------------------------------------------
(* Callers: insert, delete, set_memory_profile. *)

\* insert_inner_unlocked: the row is replaced; the vectors follow.  A caller
\* brings a content and may bring a vector of its own.
Insert(c, embeddings, t) ==
    /\ Free /\ edits < MaxEdits
    /\ edits' = edits + 1
    /\ node' = [content |-> c, embeddings |-> embeddings]
    /\ lock' = t
    /\ UNCHANGED <<vec, profile, status, doc, open, abandoned, profiles, crashes>>

CallerVectors == [Models -> {Caller, None}]

InsertNode ==
    \E c \in Contents, e \in CallerVectors : Insert(c, e, "insert") /\ UNCHANGED tasks

\* The vectors of the previous row are removed, those of the new one stored.
IndexInserted(t) ==
    /\ lock = t
    /\ vec' = node.embeddings
    /\ Reindex(node, profile, status)
    /\ lock' = None

FinishInsert ==
    /\ IndexInserted("insert")
    /\ UNCHANGED <<node, profile, status, open, tasks, abandoned, bounds>>

\* delete: the vectors first, then the row, then the document.
DeleteVectors ==
    /\ Free /\ edits < MaxEdits /\ node # None
    /\ edits' = edits + 1
    /\ vec' = [mo \in Models |-> IF node.embeddings[mo] # None THEN None ELSE vec[mo]]
    /\ lock' = "delete"
    /\ UNCHANGED <<node, profile, status, doc, open, tasks, abandoned, profiles, crashes>>

DeleteRow ==
    /\ lock = "delete" /\ node # None
    /\ node' = None
    /\ UNCHANGED <<vec, profile, status, doc, open, tasks, lock, abandoned, bounds>>

DeleteDocument ==
    /\ lock = "delete" /\ node = None
    /\ doc' = None
    /\ lock' = None
    /\ UNCHANGED <<node, vec, profile, status, open, tasks, abandoned, bounds>>

\* set_memory_profile stores a valid profile and indexes every node again.
SetMemoryProfile ==
    /\ Free /\ profiles < MaxProfiles
    /\ profiles' = profiles + 1
    /\ \E p \in MemoryProfile :
          /\ ValidProfile(p) /\ p # profile
          /\ profile' = p
          /\ Reindex(node, p, status)
    /\ UNCHANGED <<node, vec, status, open, tasks, lock, abandoned, edits, crashes>>
------------------------------------------------------------------------------
(* ingest and project_configured. *)

\* ingest and ingest_blob persist the raw node first.
Ingest(t) ==
    /\ tasks[t] = Idle
    /\ \E c \in Contents, e \in CallerVectors : Insert(c, e, t)
    /\ Set(t, Working("insert", {}, None))

FinishIngestInsert(t) ==
    /\ tasks[t].pc = "insert" /\ IndexInserted(t)
    /\ Goto(t, "configure")
    /\ UNCHANGED <<node, profile, status, open, abandoned, bounds>>

\* project_configured reads the profiles before it takes the lock.
ReadProfiles(t) ==
    /\ open /\ tasks[t].pc = "configure"
    /\ Set(t, Working("mark", Configured(profile), None))
    /\ UNCHANGED <<node, vec, profile, status, doc, open, lock, abandoned, bounds>>

\* Every supported profile's row becomes Pending, with the attempts it had.
MarkPending(t) ==
    /\ Free /\ tasks[t].pc = "mark"
    /\ IF node = None
       THEN /\ Set(t, Idle)
            /\ UNCHANGED <<status, doc, abandoned>>
       ELSE LET marked == {p \in tasks[t].queue : Supports(p[1], node.content)}
                fp(id) == (CHOOSE p \in marked : p[1] = id)[2]
            IN /\ status' = [id \in Ids |->
                      IF \E p \in marked : p[1] = id
                      THEN Pending(fp(id), node.content,
                                   AttemptsOf(id))
                      ELSE status[id]]
               /\ abandoned' = abandoned \ {p[1] : p \in marked}
               /\ Reindex(node, profile, status')
               /\ Goto(t, "next")
    /\ UNCHANGED <<node, vec, profile, open, lock, bounds>>

\* The loop over the profiles read before; a node that is gone ends it.
NextProfile(t) ==
    /\ open /\ tasks[t].pc = "next"
    /\ IF tasks[t].queue = {}
       THEN Set(t, Idle) /\ UNCHANGED abandoned
       ELSE \E p \in tasks[t].queue :
               IF node = None
               THEN /\ Set(t, Idle)
                    /\ abandoned' = abandoned \cup {q[1] : q \in tasks[t].queue}
               ELSE IF Supports(p[1], node.content)
               THEN Set(t, Working("start", tasks[t].queue \ {p}, p)) /\ UNCHANGED abandoned
               ELSE /\ Set(t, Working("next", tasks[t].queue \ {p}, None))
                    /\ abandoned' = abandoned \cup {p[1]}
    /\ UNCHANGED <<node, vec, profile, status, doc, open, lock, bounds>>

\* retry_projection reads the node and the profile without the lock.
RetryProjection(t) ==
    /\ open /\ tasks[t] = Idle /\ node # None
    /\ \E p \in Configured(profile) :
          /\ Supports(p[1], node.content)
          /\ AttemptsOf(p[1]) < MaxAttempts
          /\ Set(t, Working("start", {}, p))
    /\ UNCHANGED <<node, vec, profile, status, doc, open, lock, abandoned, bounds>>
------------------------------------------------------------------------------
(* project_node. *)

\* Under the lock: the profile must be the one that was read and the node
\* must exist; the row becomes Pending with the next attempt.
Start(t) ==
    /\ Free /\ tasks[t].pc = "start"
    /\ LET id == tasks[t].id[1]
           fp == tasks[t].id[2]
           mine == Pending(fp, node.content, AttemptsOf(id) + 1)
       IN IF profile[id] # fp \/ node = None
          THEN /\ Set(t, Idle)
               /\ abandoned' = abandoned \cup {id} \cup {q[1] : q \in tasks[t].queue}
               /\ UNCHANGED <<status, doc>>
          ELSE /\ status' = [status EXCEPT ![id] = mine]
               /\ Reindex(node, profile, status')
               /\ tasks' = [tasks EXCEPT ![t].pc = "call", ![t].mine = mine]
               /\ abandoned' = abandoned \ {id}
    /\ UNCHANGED <<node, vec, profile, open, lock, bounds>>

\* Mutant of OwnsAttempt: any row of the same profile and content will do.
OwnsSameInput(id, mine) ==
    /\ status[id] # None
    /\ status[id].fp = mine.fp /\ status[id].content = mine.content

\* projection_attempt_is_current
OwnsAttempt(id, mine) ==
    /\ Holds(status[id], "Pending")
    /\ status[id].attempts = mine.attempts
    /\ status[id].fp = mine.fp /\ status[id].content = mine.content

\* Mutant of SettleFailed: a refused answer is only reported to the caller.
ReportFailed(id, mine) == UNCHANGED <<status, doc>>

\* The row is settled as Failed, by the attempt that owns it only.
SettleFailed(id, mine) ==
    IF OwnsAttempt(id, mine)
    THEN /\ status' = [status EXCEPT ![id] = [mine EXCEPT !.state = "Failed"]]
         /\ Reindex(node, profile, status')
    ELSE UNCHANGED <<status, doc>>

\* The client is missing, its call fails, or its vector is refused.
CallFails(t) ==
    /\ Free /\ tasks[t].pc = "call"
    /\ SettleFailed(tasks[t].id[1], tasks[t].mine)
    /\ Goto(t, "next")
    /\ UNCHANGED <<node, vec, profile, open, lock, abandoned, bounds>>

\* Whether an answer may be installed: profile, content and attempt are current.
MayInstall(id, mine) ==
    /\ profile[id] = mine.fp
    /\ node # None /\ node.content = mine.content
    /\ OwnsAttempt(id, mine)

\* The client answers: the answer is refused, or its vector replaces the
\* model's embedding in the row.
CallAnswers(t) ==
    /\ Free /\ tasks[t].pc = "call"
    /\ LET id == tasks[t].id[1]
           mine == tasks[t].mine
       IN IF MayInstall(id, mine)
          THEN /\ node' = [node EXCEPT !.embeddings[Model[id]] =
                                Answer(id, mine.fp, mine.content)]
               /\ lock' = t
               /\ Goto(t, "vectors")
               /\ UNCHANGED <<status, doc>>
          ELSE /\ SettleFailed(id, mine)
               /\ Goto(t, "next")
               /\ UNCHANGED <<node, lock>>
    /\ UNCHANGED <<vec, profile, open, abandoned, bounds>>

InstallVectors(t) ==
    /\ tasks[t].pc = "vectors" /\ lock = t
    /\ vec' = node.embeddings
    /\ Reindex(node, profile, status)
    /\ Goto(t, "ready")
    /\ UNCHANGED <<node, profile, status, open, lock, abandoned, bounds>>

\* The row is Ready with the text the client found in the content.
InstallStatus(t) ==
    /\ tasks[t].pc = "ready" /\ lock = t
    /\ LET id == tasks[t].id[1]
           mine == tasks[t].mine
       IN status' = [status EXCEPT ![id] =
                        [mine EXCEPT !.state = "Ready",
                                     !.text = Answer(id, mine.fp, mine.content)]]
    /\ Reindex(node, profile, status')
    /\ lock' = None
    /\ Goto(t, "next")
    /\ UNCHANGED <<node, vec, profile, open, abandoned, bounds>>
------------------------------------------------------------------------------
(* Crash and open_runtime. *)

Crash ==
    /\ open /\ crashes < MaxCrashes
    /\ crashes' = crashes + 1
    /\ open' = FALSE
    /\ lock' = None
    /\ tasks' = [t \in Tasks |-> Idle]
    /\ abandoned' = {id \in Ids : Holds(status[id], "Pending")}
    /\ UNCHANGED <<node, vec, profile, status, doc, edits, profiles>>

\* open_runtime takes the stored profile or the builder's, indexes every node
\* under it and stores it.
Open ==
    /\ ~open
    /\ open' = TRUE
    /\ \E p \in {profile} \cup (IF profiles < MaxProfiles THEN MemoryProfile ELSE {}) :
          /\ ValidProfile(p)
          /\ profile' = p
          /\ profiles' = IF p = profile THEN profiles ELSE profiles + 1
          /\ Reindex(node, p, status)
    /\ UNCHANGED <<node, vec, status, tasks, lock, abandoned, edits, crashes>>
------------------------------------------------------------------------------
Init ==
    /\ node = None
    /\ vec = [mo \in Models |-> None]
    /\ profile \in {p \in MemoryProfile : ValidProfile(p)}
    /\ status = [id \in Ids |-> None]
    /\ doc = None
    /\ open = TRUE
    /\ tasks = [t \in Tasks |-> Idle]
    /\ lock = None
    /\ abandoned = {}
    /\ edits = 0 /\ profiles = 0 /\ crashes = 0

\* What a task does by itself once it was called.
Step(t) ==
    \/ FinishIngestInsert(t) \/ ReadProfiles(t) \/ MarkPending(t) \/ NextProfile(t)
    \/ Start(t) \/ CallFails(t) \/ CallAnswers(t) \/ InstallVectors(t) \/ InstallStatus(t)

Next ==
    \/ InsertNode \/ FinishInsert
    \/ DeleteVectors \/ DeleteRow \/ DeleteDocument
    \/ SetMemoryProfile
    \/ \E t \in Tasks : Ingest(t) \/ RetryProjection(t) \/ Step(t)
    \/ Crash \/ Open

Spec == Init /\ [][Next]_vars

\* Calls return, clients answer or fail, and the lock is released and passed
\* on to every waiting call; nobody has to call, to crash or to open again.
Fairness ==
    /\ WF_vars(FinishInsert) /\ WF_vars(DeleteRow) /\ WF_vars(DeleteDocument)
    /\ \A t \in Tasks : SF_vars(Step(t))
FairSpec == Spec /\ Fairness
------------------------------------------------------------------------------
(* Properties. *)

\* The projection rows, vectors and tasks are well-formed, and only a call
\* that exists is inside the lock.
TypeOK ==
    /\ node \in MemoryNode \cup {None}
    /\ vec \in [Models -> Vectors]
    /\ profile \in MemoryProfile /\ ValidProfile(profile)
    /\ \A id \in Ids : status[id] # None => status[id] \in Status
    /\ doc = None \/ (doc.content \in Contents /\ doc.texts \subseteq Answers)
    /\ abandoned \subseteq Ids
    /\ lock \in Tasks \cup {"insert", "delete", None}
    /\ lock \in Tasks => tasks[lock].pc \in {"insert", "vectors", "ready"}

\* A projection that recall accepts as current (is_current_for,
\* recall_candidate_matches) stands for a vector that was computed from the
\* content the node has now, under the profile version configured now, or that
\* a caller stored; a late answer, an edit, a profile change or a crash between
\* the writes never leaves an older vector behind it.
RecallSound ==
    \A id \in Ids : IsCurrentFor(status[id], id, profile, node) =>
        LET now == Answer(id, profile[id], node.content)
        IN /\ node.embeddings[Model[id]] \in {Caller, now}
           /\ vec[Model[id]] \in {None, Caller, now}
           /\ status[id].text = now

\* Whenever nobody is inside the lock the lexical document holds the text of the
\* current projections and no other: each writer of a row, of the content or of
\* the profile indexes the node again (reindex_node_unlocked).
DocumentCurrent ==
    Free /\ node # None => doc = Document(node, profile, status)

\* Nobody leaves a projection row Pending behind: an unsettled row belongs to a
\* call that will settle it, unless the call was stopped by a crash or by an
\* error that ended it before this row (project_configured returns early).
PendingIsOwned ==
    \A id \in Ids : Holds(status[id], "Pending") /\ id \notin abandoned =>
        \E t \in Tasks :
            \/ \E p \in tasks[t].queue : p[1] = id
            \/ tasks[t].pc # "idle" /\ tasks[t].id # None /\ tasks[t].id[1] = id

\* The status, the vector, the lexical document and the call that works on a
\* projection agree, whatever overlaps project_node.
ProjectionSound == TypeOK /\ RecallSound /\ DocumentCurrent /\ PendingIsOwned

\* An answer never overrides the row of a later attempt: attempts only grow, and
\* a settled row is not settled otherwise by the same attempt.
LaterAttemptWins ==
    [][\A id \in Ids : status[id] # None =>
          /\ status'[id] # None
          /\ status'[id].attempts >= status[id].attempts
          /\ status[id].state # "Pending" /\ status'[id].state # "Pending"
                 => status'[id] = status[id]]_vars

\* A row that a running call owns is settled, or its call ends early, in the end.
PendingSettles ==
    \A id \in Ids :
        (Holds(status[id], "Pending") /\ id \notin abandoned)
            ~> (~Holds(status[id], "Pending") \/ id \in abandoned)
=============================================================================
