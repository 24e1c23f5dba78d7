-------------------------- MODULE ProjectionProofs ---------------------------
(***************************************************************************)
(* Proofs about Projection: what recall takes for current is current, the  *)
(* lexical document follows the rows, no unsettled row is left without an  *)
(* owner, and attempts only grow, for any profiles, contents, calls and    *)
(* bounds, when no two profiles name one model (SeparateModels).           *)
(*                                                                         *)
(* The inductive invariant says more than the properties do: a Ready row   *)
(* stands for the vector of its own profile version and content whether or *)
(* not it is current now (Rooted), the call inside the lock still owns the *)
(* attempt it was let in for (Inside), and an unsettled row is claimed by  *)
(* a call that will settle it (Claimed).                                   *)
(***************************************************************************)
EXTENDS Projection, TLAPS

SeparateModels == \A i, j \in Ids : i # j => Model[i] # Model[j]

Pcs == {"idle", "insert", "configure", "mark", "next", "start", "call", "vectors", "ready"}

Profiled == Ids \X Fps

Task == [pc : Pcs, queue : SUBSET Profiled, id : Profiled \cup {None}, mine : Status \cup {None}]

Typed ==
    /\ node \in MemoryNode \cup {None}
    /\ vec \in [Models -> Vectors]
    /\ profile \in MemoryProfile /\ ValidProfile(profile)
    /\ status \in [Ids -> Status \cup {None}]
    /\ doc = None \/ (doc.content \in Contents /\ doc.texts \subseteq Answers)
    /\ open \in BOOLEAN
    /\ tasks \in [Tasks -> Task]
    /\ lock \in Tasks \cup {"insert", "delete", None}
    /\ abandoned \subseteq Ids

\* A call that projects knows its profile, one that waits for an answer its attempt.
Attempting(t) ==
    /\ tasks[t].pc \in {"start", "call", "vectors", "ready"} => tasks[t].id \in Profiled
    /\ tasks[t].pc \in {"call", "vectors", "ready"} =>
          /\ tasks[t].mine \in Status
          /\ tasks[t].mine.state = "Pending" /\ tasks[t].mine.text = None

\* The call inside the lock, and what it relies on.
Inside(t) ==
    /\ tasks[t].pc \in {"insert", "vectors", "ready"} <=> lock = t
    /\ tasks[t].pc \in {"vectors", "ready"} =>
          LET id == tasks[t].id[1]
              mine == tasks[t].mine
          IN /\ OwnsAttempt(id, mine)
             /\ node # None
             /\ node.embeddings[Model[id]] = Answer(id, mine.fp, mine.content)
    /\ tasks[t].pc = "ready" => vec = node.embeddings

Locking ==
    /\ lock \in Tasks \cup {"insert"} => node # None
    /\ ~open => lock = None /\ \A t \in Tasks : tasks[t] = Idle

\* What a Ready row stands for.
Rooted(id) ==
    Holds(status[id], "Ready") =>
        LET made == Answer(id, status[id].fp, status[id].content)
        IN /\ node # None => node.embeddings[Model[id]] \in {None, Caller, made}
           /\ vec[Model[id]] \in {None, Caller, made}
           /\ status[id].text = made

\* The call will settle the row or report that it does not.
Claims(t, id) ==
    \/ tasks[t].pc \in {"next", "start", "call", "vectors", "ready"}
       /\ \E p \in tasks[t].queue : p[1] = id
    \/ tasks[t].pc = "start" /\ tasks[t].id[1] = id
    \/ tasks[t].pc \in {"call", "vectors", "ready"}
       /\ tasks[t].id[1] = id /\ OwnsAttempt(id, tasks[t].mine)

Claimed(id) ==
    Holds(status[id], "Pending") /\ id \notin abandoned => \E t \in Tasks : Claims(t, id)

IInv ==
    /\ Typed
    /\ \A t \in Tasks : Attempting(t) /\ Inside(t)
    /\ Locking
    /\ \A id \in Ids : Rooted(id) /\ Claimed(id)
    /\ DocumentCurrent
------------------------------------------------------------------------------
(* Rows, tasks and documents are well-formed *)

USE ProjectionAssumption DEF Profiled

LEMMA WorkingTyped ==
    ASSUME NEW pc \in Pcs, NEW queue \in SUBSET Profiled, NEW id \in Profiled \cup {None}
    PROVE  /\ Working(pc, queue, id) \in Task
           /\ Working(pc, queue, id).pc = pc /\ Working(pc, queue, id).queue = queue
           /\ Working(pc, queue, id).id = id
    BY DEF Working, Task

LEMMA IdleTyped == Idle \in Task /\ Idle.pc = "idle" /\ Idle.queue = {} /\ Idle.id = None
    BY WorkingTyped DEF Idle, Pcs

\* Set and Goto change one task.
LEMMA SetTyped ==
    ASSUME tasks \in [Tasks -> Task], NEW t \in Tasks, NEW r \in Task, Set(t, r)
    PROVE  /\ tasks' \in [Tasks -> Task] /\ tasks'[t] = r
           /\ \A u \in Tasks : u # t => tasks'[u] = tasks[u]
    BY DEF Set

LEMMA GotoTyped ==
    ASSUME tasks \in [Tasks -> Task], NEW t \in Tasks, NEW pc \in Pcs, Goto(t, pc)
    PROVE  /\ tasks' \in [Tasks -> Task]
           /\ tasks'[t].pc = pc /\ tasks'[t].queue = tasks[t].queue
           /\ tasks'[t].id = tasks[t].id /\ tasks'[t].mine = tasks[t].mine
           /\ \A u \in Tasks : u # t => tasks'[u] = tasks[u]
    BY DEF Goto, Task

LEMMA PendingTyped ==
    ASSUME NEW fp \in Fps, NEW c \in Contents, NEW a \in Nat
    PROVE  /\ Pending(fp, c, a) \in Status /\ Pending(fp, c, a) # None
           /\ Pending(fp, c, a).state = "Pending" /\ Pending(fp, c, a).attempts = a
           /\ Pending(fp, c, a).fp = fp /\ Pending(fp, c, a).content = c
           /\ Pending(fp, c, a).text = None
<1>1. Pending(fp, c, a) \in Status
    BY DEF Pending, Status
<1> QED
    BY <1>1, NoneAssumption DEF Pending

LEMMA AttemptsNat ==
    ASSUME status \in [Ids -> Status \cup {None}], NEW id \in Ids
    PROVE  AttemptsOf(id) \in Nat
    BY DEF AttemptsOf, Status

\* searchable_text is made of the content and of answers.
LEMMA DocumentTyped ==
    ASSUME NEW n \in MemoryNode, NEW p, NEW st \in [Ids -> Status \cup {None}]
    PROVE  /\ Document(n, p, st).content \in Contents
           /\ Document(n, p, st).texts \subseteq Answers
<1>1. \A id \in Ids : IsCurrentFor(st[id], id, p, n) => st[id].text \in {None} \cup Answers
    BY DEF IsCurrentFor, Holds, Status
<1>2. CurrentTexts(n, p, st) \subseteq {None} \cup Answers
    BY <1>1 DEF CurrentTexts
<1> QED
    BY <1>2 DEF Document, MemoryNode

LEMMA ReindexTyped ==
    ASSUME doc = None \/ (doc.content \in Contents /\ doc.texts \subseteq Answers),
           NEW n \in MemoryNode \cup {None}, NEW p, NEW st \in [Ids -> Status \cup {None}],
           Reindex(n, p, st)
    PROVE  /\ doc' = None \/ (doc'.content \in Contents /\ doc'.texts \subseteq Answers)
           /\ n # None => doc' = Document(n, p, st)
    BY DocumentTyped DEF Reindex

LEMMA ConfiguredTyped ==
    ASSUME NEW p \in MemoryProfile
    PROVE  Configured(p) \subseteq Profiled
    BY DEF Configured, MemoryProfile
------------------------------------------------------------------------------
(* What a step of one call leaves alone *)

\* The other calls, when nobody but t is inside the lock.
LEMMA OthersOutside ==
    ASSUME IInv, NEW t, lock \in {None, t}, lock' \in {None, t},
           NEW u \in Tasks, u # t, tasks'[u] = tasks[u]
    PROVE  Attempting(u)' /\ Inside(u)'
<1>1. lock # u /\ lock' # u /\ Attempting(u) /\ Inside(u)
    BY DEF IInv
<1>2. tasks[u].pc \notin {"insert", "vectors", "ready"}
    BY <1>1 DEF Inside
<1> QED
    BY <1>1, <1>2 DEF Attempting, Inside

\* Every call, when the rows and the lock stay as they are.
LEMMA CallsStay ==
    ASSUME IInv, UNCHANGED <<node, vec, status, lock>>, NEW u \in Tasks, tasks'[u] = tasks[u]
    PROVE  Attempting(u)' /\ Inside(u)'
<1>1. Attempting(u) /\ Inside(u)
    BY DEF IInv
<1> QED
    BY <1>1 DEF Attempting, Inside, OwnsAttempt, Holds

LEMMA RootedStays ==
    ASSUME IInv, UNCHANGED <<node, vec, status>>
    PROVE  \A id \in Ids : Rooted(id)'
    BY DEF IInv, Rooted, Holds

LEMMA ClaimStays ==
    ASSUME NEW u \in Tasks, NEW id \in Ids, Claims(u, id), tasks'[u] = tasks[u],
           status'[id] = status[id]
    PROVE  Claims(u, id)'
    BY DEF Claims, OwnsAttempt, Holds

LEMMA ClaimedStays ==
    ASSUME IInv, UNCHANGED <<status, tasks, abandoned>>
    PROVE  \A id \in Ids : Claimed(id)'
<1>1. ASSUME NEW id \in Ids, NEW u \in Tasks, Claims(u, id)
      PROVE  Claims(u, id)'
    BY <1>1, ClaimStays
<1> QED
    BY <1>1 DEF IInv, Claimed, Holds

\* A step of t keeps the rows claimed, if t keeps its own claims or gives them up.
LEMMA ClaimsMove ==
    ASSUME IInv, NEW t \in Tasks, UNCHANGED status, abandoned \subseteq abandoned',
           \A u \in Tasks : u # t => tasks'[u] = tasks[u],
           \A id \in Ids : Claims(t, id) => Claims(t, id)' \/ id \in abandoned'
    PROVE  \A id \in Ids : Claimed(id)'
<1>1. ASSUME NEW id \in Ids, NEW u \in Tasks, Claims(u, id)
      PROVE  Claims(u, id)' \/ id \in abandoned'
    BY <1>1, ClaimStays
<1> QED
    BY <1>1 DEF IInv, Claimed, Holds
------------------------------------------------------------------------------
(* Callers *)

\* A caller's row holds no answer, so it contradicts no Ready row.
LEMMA InsertRow ==
    ASSUME IInv, NEW t, t # None, NEW c \in Contents, NEW e \in CallerVectors, Insert(c, e, t)
    PROVE  /\ node' \in MemoryNode /\ node' # None
           /\ \A id \in Ids : Rooted(id)'
           /\ DocumentCurrent'
           /\ lock = None /\ lock' = t /\ open
<1>1. node' \in MemoryNode /\ node'.embeddings = e
    BY DEF Insert, MemoryNode, CallerVectors, Vectors
<1>2. \A id \in Ids : node'.embeddings[Model[id]] \in {None, Caller}
    BY <1>1 DEF CallerVectors
<1>3. \A id \in Ids : Rooted(id)'
    BY <1>2 DEF Insert, IInv, Rooted, Holds
<1>4. lock = None /\ lock' = t /\ open
    BY DEF Insert, Free
<1> QED
    BY <1>1, <1>3, <1>4, NoneAssumption DEF DocumentCurrent, Free

LEMMA InsertNodeKeeps ==
    ASSUME IInv, InsertNode
    PROVE  IInv'
<1>1. PICK c \in Contents, e \in CallerVectors : Insert(c, e, "insert")
    BY DEF InsertNode
<1>2. tasks' = tasks
    BY DEF InsertNode
<1>3. /\ node' \in MemoryNode /\ node' # None
      /\ \A id \in Ids : Rooted(id)'
      /\ DocumentCurrent'
      /\ lock = None /\ lock' = "insert" /\ open
    BY <1>1, InsertRow
<1>4. Typed'
    BY <1>1, <1>2, <1>3 DEF IInv, Typed, Insert
<1>5. \A u \in Tasks : Attempting(u)' /\ Inside(u)'
    BY <1>2, <1>3, OthersOutside
<1>6. Locking'
    BY <1>1, <1>3 DEF Locking, Insert
<1>7. \A id \in Ids : Claimed(id)'
    BY <1>1, <1>2, ClaimedStays DEF Insert
<1> QED
    BY <1>3, <1>4, <1>5, <1>6, <1>7 DEF IInv

\* The vectors stored with a row are the row's.
LEMMA VectorsRow ==
    ASSUME IInv, node # None, UNCHANGED <<node, profile, status>>, vec' = node.embeddings,
           Reindex(node, profile, status)
    PROVE  /\ vec' \in [Models -> Vectors]
           /\ \A id \in Ids : Rooted(id)'
           /\ DocumentCurrent'
           /\ doc' = None \/ (doc'.content \in Contents /\ doc'.texts \subseteq Answers)
<1>1. node \in MemoryNode
    BY DEF IInv, Typed
<1>2. vec' \in [Models -> Vectors]
    BY <1>1 DEF MemoryNode
<1>3. \A id \in Ids : Rooted(id)'
    BY DEF IInv, Rooted, Holds
<1>4. /\ doc' = Document(node, profile, status)
      /\ doc' = None \/ (doc'.content \in Contents /\ doc'.texts \subseteq Answers)
    BY <1>1, ReindexTyped DEF IInv, Typed
<1> QED
    BY <1>2, <1>3, <1>4 DEF DocumentCurrent

LEMMA FinishInsertKeeps ==
    ASSUME IInv, FinishInsert
    PROVE  IInv'
<1>1. /\ lock = "insert" /\ lock' = None
      /\ UNCHANGED <<node, profile, status, open, tasks, abandoned>>
    BY DEF FinishInsert, IndexInserted
<1>2. node # None
    BY <1>1 DEF IInv, Locking
<1>3. /\ vec' \in [Models -> Vectors]
      /\ \A id \in Ids : Rooted(id)'
      /\ DocumentCurrent'
      /\ doc' = None \/ (doc'.content \in Contents /\ doc'.texts \subseteq Answers)
    BY <1>1, <1>2, VectorsRow DEF FinishInsert, IndexInserted
<1>4. Typed'
    BY <1>1, <1>3 DEF IInv, Typed
<1>5. \A u \in Tasks : Attempting(u)' /\ Inside(u)'
    BY <1>1, OthersOutside
<1>6. Locking'
    BY <1>1 DEF IInv, Locking
<1>7. \A id \in Ids : Claimed(id)'
    BY <1>1, ClaimedStays
<1> QED
    BY <1>3, <1>4, <1>5, <1>6, <1>7 DEF IInv

LEMMA DeleteKeeps ==
    ASSUME IInv, DeleteVectors \/ DeleteRow \/ DeleteDocument
    PROVE  IInv'
<1>1. /\ UNCHANGED <<profile, status, open, tasks, abandoned>>
      /\ lock \in {None, "delete"} /\ lock' \in {None, "delete"}
      /\ node' \in {node, None}
      /\ doc' \in {doc, None}
    BY DEF DeleteVectors, DeleteRow, DeleteDocument, Free
<1>2. \A mo \in Models : vec'[mo] \in {None, vec[mo]}
    BY DEF DeleteVectors, DeleteRow, DeleteDocument
<1>3. vec' \in [Models -> Vectors]
    BY DEF DeleteVectors, DeleteRow, DeleteDocument, IInv, Typed, Vectors
<1>4. Typed'
    BY <1>1, <1>3 DEF IInv, Typed
<1>5. \A u \in Tasks : Attempting(u)' /\ Inside(u)'
    BY <1>1, OthersOutside
<1>6. Locking'
    BY <1>1 DEF IInv, Locking, DeleteVectors, DeleteRow, DeleteDocument, Free
<1>7. \A id \in Ids : Model[id] \in Models
    OBVIOUS
<1>8. \A id \in Ids : Rooted(id)'
    BY <1>1, <1>2, <1>7 DEF IInv, Rooted, Holds
<1>9. \A id \in Ids : Claimed(id)'
    BY <1>1, ClaimedStays
<1>10. DocumentCurrent'
    BY DEF DocumentCurrent, Free, DeleteVectors, DeleteRow, DeleteDocument
<1> QED
    BY <1>4, <1>5, <1>6, <1>8, <1>9, <1>10 DEF IInv

\* A new profile: the rows stay, the document is made again.
LEMMA ProfileRow ==
    ASSUME IInv, NEW p \in MemoryProfile, ValidProfile(p), profile' = p,
           Reindex(node, p, status), UNCHANGED <<node, vec, status, tasks, lock, abandoned>>,
           open' = TRUE
    PROVE  IInv'
<1>1. /\ doc' = None \/ (doc'.content \in Contents /\ doc'.texts \subseteq Answers)
      /\ node # None => doc' = Document(node, p, status)
    BY ReindexTyped DEF IInv, Typed
<1>2. Typed'
    <2>1. ValidProfile(profile')
        OBVIOUS
    <2> QED
        BY <1>1, <2>1 DEF IInv, Typed, ValidProfile
<1>3. \A u \in Tasks : Attempting(u)' /\ Inside(u)'
    BY CallsStay
<1>4. Locking'
    BY DEF IInv, Locking
<1>5. DocumentCurrent'
    BY <1>1 DEF DocumentCurrent
<1> QED
    BY <1>2, <1>3, <1>4, <1>5, RootedStays, ClaimedStays DEF IInv

LEMMA ProfileKeeps ==
    ASSUME IInv, SetMemoryProfile \/ Open
    PROVE  IInv'
<1>1. CASE SetMemoryProfile
    <2>1. PICK p \in MemoryProfile : ValidProfile(p) /\ profile' = p /\ Reindex(node, p, status)
        BY <1>1 DEF SetMemoryProfile
    <2> QED
        BY <1>1, <2>1, ProfileRow DEF SetMemoryProfile, Free
<1>2. CASE Open
    <2>1. PICK p \in {profile} \cup (IF profiles < MaxProfiles THEN MemoryProfile ELSE {}) :
             ValidProfile(p) /\ profile' = p /\ Reindex(node, p, status)
        BY <1>2 DEF Open
    <2>2. p \in MemoryProfile
        BY <2>1 DEF IInv, Typed
    <2> QED
        BY <1>2, <2>1, <2>2, ProfileRow DEF Open
<1> QED
    BY <1>1, <1>2

LEMMA CrashKeeps ==
    ASSUME IInv, Crash
    PROVE  IInv'
<1>1. /\ \A t \in Tasks : tasks'[t] = Idle
      /\ tasks' \in [Tasks -> Task] /\ lock' = None /\ open' = FALSE
      /\ UNCHANGED <<node, vec, profile, status, doc>>
    BY IdleTyped DEF Crash
<1>2. Typed'
    BY <1>1 DEF IInv, Typed, Crash
<1>3. \A u \in Tasks : Attempting(u)' /\ Inside(u)'
    BY <1>1, IdleTyped DEF Attempting, Inside
<1>4. Locking'
    BY <1>1 DEF Locking
<1>5. \A id \in Ids : Claimed(id)'
    BY DEF Crash, Claimed, Holds
<1>6. DocumentCurrent'
    BY <1>1 DEF DocumentCurrent, Free
<1> QED
    BY <1>1, <1>2, <1>3, <1>4, <1>5, <1>6, RootedStays DEF IInv
------------------------------------------------------------------------------
(* Calls: ingest and project_configured *)

LEMMA IngestKeeps ==
    ASSUME IInv, NEW t \in Tasks, Ingest(t)
    PROVE  IInv'
<1>0. tasks \in [Tasks -> Task] /\ t # None /\ tasks[t] = Idle
    BY DEF IInv, Typed, Ingest
<1>1. PICK c \in Contents, e \in CallerVectors : Insert(c, e, t)
    BY DEF Ingest
<1>2. /\ node' \in MemoryNode /\ node' # None
      /\ \A id \in Ids : Rooted(id)'
      /\ DocumentCurrent'
      /\ lock = None /\ lock' = t /\ open
    BY <1>0, <1>1, InsertRow
<1>3. /\ tasks' \in [Tasks -> Task]
      /\ tasks'[t].pc = "insert" /\ tasks'[t].queue = {}
      /\ \A u \in Tasks : u # t => tasks'[u] = tasks[u]
    <2>1. Working("insert", {}, None) \in Task /\ Working("insert", {}, None).pc = "insert"
          /\ Working("insert", {}, None).queue = {}
        BY WorkingTyped DEF Pcs
    <2> QED
        BY <1>0, <2>1, SetTyped DEF Ingest
<1>4. Typed'
    BY <1>1, <1>2, <1>3 DEF IInv, Typed, Insert
<1>5. Attempting(t)' /\ Inside(t)'
    BY <1>2, <1>3 DEF Attempting, Inside
<1>6. \A u \in Tasks : Attempting(u)' /\ Inside(u)'
    BY <1>2, <1>3, <1>5, OthersOutside
<1>7. Locking'
    BY <1>1, <1>2 DEF Locking, Insert
<1>8. \A id \in Ids : ~Claims(t, id)
    BY <1>0, IdleTyped DEF Claims
<1>9. \A id \in Ids : Claimed(id)'
    BY <1>1, <1>3, <1>8, ClaimsMove DEF Insert
<1> QED
    BY <1>2, <1>4, <1>6, <1>7, <1>9 DEF IInv

LEMMA FinishIngestInsertKeeps ==
    ASSUME IInv, NEW t \in Tasks, FinishIngestInsert(t)
    PROVE  IInv'
<1>1. /\ lock = t /\ lock' = None /\ tasks[t].pc = "insert" /\ tasks \in [Tasks -> Task]
      /\ UNCHANGED <<node, profile, status, open, abandoned>>
    BY DEF FinishIngestInsert, IndexInserted, IInv, Typed
<1>2. node # None
    BY <1>1 DEF IInv, Locking
<1>3. /\ vec' \in [Models -> Vectors]
      /\ \A id \in Ids : Rooted(id)'
      /\ DocumentCurrent'
      /\ doc' = None \/ (doc'.content \in Contents /\ doc'.texts \subseteq Answers)
    BY <1>1, <1>2, VectorsRow DEF FinishIngestInsert, IndexInserted
<1>4. /\ tasks' \in [Tasks -> Task] /\ tasks'[t].pc = "configure"
      /\ \A u \in Tasks : u # t => tasks'[u] = tasks[u]
    BY <1>1, GotoTyped DEF FinishIngestInsert, Pcs
<1>5. Typed'
    BY <1>1, <1>3, <1>4 DEF IInv, Typed
<1>6. Attempting(t)' /\ Inside(t)'
    BY <1>1, <1>4 DEF Attempting, Inside
<1>7. \A u \in Tasks : Attempting(u)' /\ Inside(u)'
    BY <1>1, <1>4, <1>6, OthersOutside
<1>8. Locking'
    BY <1>1 DEF IInv, Locking
<1>9. \A id \in Ids : ~Claims(t, id)
    BY <1>1 DEF Claims
<1>10. \A id \in Ids : Claimed(id)'
    BY <1>1, <1>4, <1>9, ClaimsMove
<1> QED
    BY <1>3, <1>5, <1>7, <1>8, <1>10 DEF IInv

\* A call that touches no row and holds no lock goes on with other work.
LEMMA CallMoves ==
    ASSUME IInv, NEW t \in Tasks, NEW r \in Task, Set(t, r), open,
           UNCHANGED <<node, vec, profile, status, doc, open, lock>>,
           tasks[t].pc \notin {"insert", "vectors", "ready"},
           r.pc \in {"idle", "mark", "next", "start"},
           r.pc = "start" => r.id \in Profiled,
           abandoned \subseteq abandoned', abandoned' \subseteq Ids,
           \A id \in Ids : Claims(t, id) => Claims(t, id)' \/ id \in abandoned'
    PROVE  IInv'
<1>1. /\ tasks' \in [Tasks -> Task] /\ tasks'[t] = r
      /\ \A u \in Tasks : u # t => tasks'[u] = tasks[u]
    BY SetTyped DEF IInv, Typed
<1>2. Typed'
    BY <1>1 DEF IInv, Typed
<1>3. lock # t
    BY DEF IInv, Inside
<1>4. Attempting(t)' /\ Inside(t)'
    BY <1>1, <1>3 DEF Attempting, Inside
<1>5. \A u \in Tasks : Attempting(u)' /\ Inside(u)'
    BY <1>1, <1>4, CallsStay
<1>6. Locking'
    BY DEF IInv, Locking
<1>7. \A id \in Ids : Claimed(id)'
    BY <1>1, ClaimsMove
<1>8. DocumentCurrent'
    BY DEF IInv, DocumentCurrent, Free
<1> QED
    BY <1>2, <1>5, <1>6, <1>7, <1>8, RootedStays DEF IInv

LEMMA ReadProfilesKeeps ==
    ASSUME IInv, NEW t \in Tasks, ReadProfiles(t)
    PROVE  IInv'
<1> DEFINE r == Working("mark", Configured(profile), None)
<1>1. r \in Task /\ r.pc = "mark"
    BY WorkingTyped, ConfiguredTyped DEF Pcs, IInv, Typed
<1>2. \A id \in Ids : ~Claims(t, id)
    BY DEF ReadProfiles, Claims
<1>3. Set(t, r) /\ open /\ tasks[t].pc = "configure"
      /\ UNCHANGED <<node, vec, profile, status, doc, open, lock, abandoned>>
    BY DEF ReadProfiles
<1>4. abandoned' \subseteq Ids
    BY <1>3 DEF IInv, Typed
<1> HIDE DEF r
<1> QED
    BY <1>1, <1>2, <1>3, <1>4, CallMoves

LEMMA RetryProjectionKeeps ==
    ASSUME IInv, NEW t \in Tasks, RetryProjection(t)
    PROVE  IInv'
<1>1. PICK p \in Configured(profile) : Set(t, Working("start", {}, p))
    BY DEF RetryProjection
<1>2. p \in Profiled
    BY ConfiguredTyped DEF IInv, Typed
<1> DEFINE r == Working("start", {}, p)
<1>3. r \in Task /\ r.pc = "start" /\ r.id = p
    BY <1>2, WorkingTyped DEF Pcs
<1>4. \A id \in Ids : ~Claims(t, id)
    BY IdleTyped DEF RetryProjection, Claims
<1>5. Set(t, r) /\ open /\ tasks[t].pc = "idle"
      /\ UNCHANGED <<node, vec, profile, status, doc, open, lock, abandoned>>
    BY <1>1, IdleTyped DEF RetryProjection
<1>6. abandoned' \subseteq Ids
    BY <1>5 DEF IInv, Typed
<1> HIDE DEF r
<1> QED
    BY <1>2, <1>3, <1>4, <1>5, <1>6, CallMoves

LEMMA NextProfileKeeps ==
    ASSUME IInv, NEW t \in Tasks, NextProfile(t)
    PROVE  IInv'
<1>0. /\ open /\ tasks[t].pc = "next" /\ tasks \in [Tasks -> Task]
      /\ UNCHANGED <<node, vec, profile, status, doc, open, lock>>
      /\ abandoned \subseteq Ids
    BY DEF NextProfile, IInv, Typed
<1>1. \A id \in Ids : Claims(t, id) <=> \E p \in tasks[t].queue : p[1] = id
    BY <1>0 DEF Claims
<1>2. tasks[t].queue \subseteq Profiled
    BY <1>0 DEF Task
<1>3. CASE tasks[t].queue = {}
    <2>1. Set(t, Idle) /\ abandoned' = abandoned
        BY <1>3 DEF NextProfile
    <2> QED
        BY <1>0, <1>1, <1>3, <2>1, IdleTyped, CallMoves
<1>4. CASE tasks[t].queue # {} /\ node = None
    <2>1. Set(t, Idle) /\ abandoned' = abandoned \cup {q[1] : q \in tasks[t].queue}
        BY <1>4 DEF NextProfile
    <2>2. abandoned' \subseteq Ids
        BY <1>0, <1>2, <2>1
    <2> QED
        BY <1>0, <1>1, <2>1, <2>2, IdleTyped, CallMoves
<1>5. CASE tasks[t].queue # {} /\ node # None
    <2>1. PICK p \in tasks[t].queue :
              IF Supports(p[1], node.content)
              THEN Set(t, Working("start", tasks[t].queue \ {p}, p)) /\ UNCHANGED abandoned
              ELSE /\ Set(t, Working("next", tasks[t].queue \ {p}, None))
                   /\ abandoned' = abandoned \cup {p[1]}
        BY <1>5 DEF NextProfile
    <2> DEFINE left == tasks[t].queue \ {p}
    <2>2. p \in Profiled /\ left \in SUBSET Profiled
        BY <1>2
    <2>3. CASE Supports(p[1], node.content)
        <3> DEFINE r == Working("start", left, p)
        <3>1. r \in Task /\ r.pc = "start" /\ r.id = p /\ r.queue = left
            BY <2>2, WorkingTyped DEF Pcs
        <3>2. Set(t, r) /\ abandoned' = abandoned
            BY <2>1, <2>3
        <3> HIDE DEF r
        <3>3. tasks'[t] = r
            BY <1>0, <3>1, <3>2, SetTyped
        <3>4. \A id \in Ids : Claims(t, id) => Claims(t, id)'
            BY <1>1, <3>1, <3>3 DEF Claims
        <3> QED
            BY <1>0, <2>2, <3>1, <3>2, <3>4, CallMoves
    <2>4. CASE ~Supports(p[1], node.content)
        <3> DEFINE r == Working("next", left, None)
        <3>1. r \in Task /\ r.pc = "next" /\ r.queue = left
            BY <2>2, WorkingTyped DEF Pcs
        <3>2. Set(t, r) /\ abandoned' = abandoned \cup {p[1]}
            BY <2>1, <2>4
        <3> HIDE DEF r
        <3>3. tasks'[t] = r
            BY <1>0, <3>1, <3>2, SetTyped
        <3>4. \A id \in Ids : Claims(t, id) => Claims(t, id)' \/ id \in abandoned'
            BY <1>1, <3>1, <3>2, <3>3 DEF Claims
        <3>5. abandoned' \subseteq Ids /\ abandoned \subseteq abandoned'
            BY <1>0, <2>2, <3>2
        <3> QED
            BY <1>0, <2>2, <3>1, <3>2, <3>4, <3>5, CallMoves
    <2> QED
        BY <2>3, <2>4
<1> QED
    BY <1>3, <1>4, <1>5

\* Rows that are marked or settled as Failed stand for no vector.
LEMMA RowsUnready ==
    ASSUME IInv, UNCHANGED <<node, vec>>,
           \A id \in Ids : status'[id] = status[id] \/ status'[id].state # "Ready"
    PROVE  \A id \in Ids : Rooted(id)'
    BY DEF IInv, Rooted, Holds

\* The call marks every row it is going to project, and with it claims the row.
LEMMA MarkPendingKeeps ==
    ASSUME IInv, NEW t \in Tasks, MarkPending(t)
    PROVE  IInv'
<1>0. /\ tasks[t].pc = "mark" /\ tasks \in [Tasks -> Task] /\ open /\ lock = None /\ lock' = None
      /\ UNCHANGED <<node, vec, profile, open>>
    BY DEF MarkPending, IInv, Typed, Free
<1>1. CASE node = None
    <2>1. Set(t, Idle) /\ UNCHANGED <<status, doc, abandoned>>
        BY <1>1 DEF MarkPending
    <2>2. \A id \in Ids : ~Claims(t, id)
        BY <1>0 DEF Claims
    <2>3. abandoned' \subseteq Ids
        BY <2>1 DEF IInv, Typed
    <2> QED
        BY <1>0, <2>1, <2>2, <2>3, IdleTyped, CallMoves
<1>2. CASE node # None
    <2> DEFINE marked == {p \in tasks[t].queue : Supports(p[1], node.content)}
               fp(id) == (CHOOSE p \in marked : p[1] = id)[2]
    <2>1. /\ status' = [id \in Ids |-> IF \E p \in marked : p[1] = id
                                       THEN Pending(fp(id), node.content, AttemptsOf(id))
                                       ELSE status[id]]
          /\ abandoned' = abandoned \ {p[1] : p \in marked}
          /\ Reindex(node, profile, status')
          /\ Goto(t, "next")
        BY <1>2 DEF MarkPending
    <2>2. marked \subseteq tasks[t].queue /\ marked \subseteq Profiled
        BY <1>0 DEF Task
    <2>3. node \in MemoryNode /\ node.content \in Contents
        BY <1>2 DEF IInv, Typed, MemoryNode
    <2>4. ASSUME NEW id \in Ids, \E p \in marked : p[1] = id
          PROVE  status'[id] \in Status /\ status'[id].state = "Pending"
        <3>1. fp(id) \in Fps
            BY <2>2, <2>4
        <3>2. AttemptsOf(id) \in Nat
            BY AttemptsNat DEF IInv, Typed
        <3>3. status'[id] = Pending(fp(id), node.content, AttemptsOf(id))
            BY <2>1, <2>4
        <3> HIDE DEF fp
        <3> QED
            BY <2>3, <3>1, <3>2, <3>3, PendingTyped
    <2>5. ASSUME NEW id \in Ids, ~\E p \in marked : p[1] = id
          PROVE  status'[id] = status[id]
        BY <2>1, <2>5
    <2>6. status' \in [Ids -> Status \cup {None}]
        <3>1. \A id \in Ids : status'[id] \in Status \cup {None}
            BY <2>4, <2>5 DEF IInv, Typed
        <3>2. status' = [id \in Ids |-> status'[id]]
            BY <2>1
        <3> HIDE DEF marked, fp
        <3> QED
            BY <3>1, <3>2
    <2>7. /\ tasks' \in [Tasks -> Task]
          /\ tasks'[t].pc = "next" /\ tasks'[t].queue = tasks[t].queue
          /\ \A u \in Tasks : u # t => tasks'[u] = tasks[u]
        BY <1>0, <2>1, GotoTyped DEF Pcs
    <2>8. /\ doc' = None \/ (doc'.content \in Contents /\ doc'.texts \subseteq Answers)
          /\ doc' = Document(node, profile, status')
        BY <1>2, <2>1, <2>3, <2>6, ReindexTyped DEF IInv, Typed
    <2>9. abandoned' \subseteq abandoned /\ \A id \in Ids : id \in abandoned \ abandoned' => \E p \in marked : p[1] = id
        BY <2>1
    <2> HIDE DEF marked, fp
    <2>10. Typed'
        BY <1>0, <2>6, <2>7, <2>8, <2>9 DEF IInv, Typed
    <2>11. Attempting(t)' /\ Inside(t)'
        BY <1>0, <2>7 DEF Attempting, Inside
    <2>12. \A u \in Tasks : Attempting(u)' /\ Inside(u)'
        BY <1>0, <2>7, <2>11, OthersOutside
    <2>13. Locking'
        BY <1>0 DEF Locking
    <2>14. \A id \in Ids : Rooted(id)'
        BY <1>0, <2>4, <2>5, RowsUnready
    <2>15. ASSUME NEW id \in Ids
           PROVE  Claimed(id)'
        <3>1. CASE \E p \in marked : p[1] = id
            BY <2>2, <2>7, <3>1 DEF Claimed, Claims
        <3>2. CASE ~\E p \in marked : p[1] = id
            <4>1. status'[id] = status[id] /\ (id \in abandoned => id \in abandoned')
                BY <2>5, <2>9, <3>2
            <4>2. ASSUME NEW u \in Tasks, Claims(u, id)
                  PROVE  Claims(u, id)'
                <5>1. u # t
                    BY <1>0, <4>2 DEF Claims
                <5> QED
                    BY <2>7, <4>1, <4>2, <5>1, ClaimStays
            <4> QED
                BY <4>1, <4>2 DEF IInv, Claimed, Holds
        <3> QED
            BY <3>1, <3>2
    <2>16. DocumentCurrent'
        BY <1>0, <2>8 DEF DocumentCurrent
    <2> QED
        BY <2>10, <2>12, <2>13, <2>14, <2>15, <2>16 DEF IInv
<1> QED
    BY <1>1, <1>2
------------------------------------------------------------------------------
(* Calls: project_node *)

LEMMA StartKeeps ==
    ASSUME IInv, NEW t \in Tasks, Start(t)
    PROVE  IInv'
<1> DEFINE id == tasks[t].id[1]
           fp == tasks[t].id[2]
           mine == Pending(fp, node.content, AttemptsOf(id) + 1)
<1>0. /\ tasks[t].pc = "start" /\ tasks \in [Tasks -> Task] /\ open /\ lock = None /\ lock' = None
      /\ UNCHANGED <<node, vec, profile, open>>
      /\ abandoned \subseteq Ids
    BY DEF Start, IInv, Typed, Free
<1>1. id \in Ids /\ fp \in Fps /\ tasks[t].queue \subseteq Profiled
    BY <1>0 DEF IInv, Attempting, Task
<1>2. CASE profile[id] # fp \/ node = None
    <2>1. /\ Set(t, Idle) /\ UNCHANGED <<status, doc>>
          /\ abandoned' = abandoned \cup {id} \cup {q[1] : q \in tasks[t].queue}
        BY <1>2 DEF Start
    <2>2. abandoned' \subseteq Ids
        BY <1>0, <1>1, <2>1
    <2>3. \A i \in Ids : Claims(t, i) => i \in abandoned'
        BY <1>0, <2>1 DEF Claims
    <2> QED
        BY <1>0, <2>1, <2>2, <2>3, IdleTyped, CallMoves
<1>3. CASE ~(profile[id] # fp \/ node = None)
    <2>1. /\ status' = [status EXCEPT ![id] = mine]
          /\ Reindex(node, profile, status')
          /\ tasks' = [tasks EXCEPT ![t].pc = "call", ![t].mine = mine]
          /\ abandoned' = abandoned \ {id}
        BY <1>3 DEF Start
    <2>2. node \in MemoryNode /\ node.content \in Contents
        BY <1>3 DEF IInv, Typed, MemoryNode
    <2>3. AttemptsOf(id) + 1 \in Nat
        BY <1>1, AttemptsNat DEF IInv, Typed
    <2> HIDE DEF id, fp
    <2>4. mine \in Status /\ mine.state = "Pending" /\ mine.text = None /\ mine # None
        BY <1>1, <2>2, <2>3, PendingTyped
    <2> HIDE DEF mine
    <2>5. /\ tasks' \in [Tasks -> Task]
          /\ tasks'[t].pc = "call" /\ tasks'[t].mine = mine
          /\ tasks'[t].queue = tasks[t].queue /\ tasks'[t].id = tasks[t].id
          /\ \A u \in Tasks : u # t => tasks'[u] = tasks[u]
        <3>1. "call" \in Pcs /\ mine \in Status \cup {None}
            BY <2>4 DEF Pcs
        <3> QED
            BY <1>0, <2>1, <3>1 DEF Task
    <2>6. /\ status' \in [Ids -> Status \cup {None}] /\ status'[id] = mine
          /\ \A i \in Ids : i # id => status'[i] = status[i]
        BY <1>1, <2>1, <2>4 DEF IInv, Typed
    <2>7. /\ doc' = None \/ (doc'.content \in Contents /\ doc'.texts \subseteq Answers)
          /\ doc' = Document(node, profile, status')
        BY <1>3, <2>1, <2>2, <2>6, ReindexTyped DEF IInv, Typed
    <2>8. Typed'
        BY <1>0, <2>1, <2>5, <2>6, <2>7 DEF IInv, Typed
    <2>9. Attempting(t)' /\ Inside(t)'
        BY <1>0, <2>4, <2>5 DEF IInv, Attempting, Inside
    <2>10. \A u \in Tasks : Attempting(u)' /\ Inside(u)'
        BY <1>0, <2>5, <2>9, OthersOutside
    <2>11. Locking'
        BY <1>0 DEF Locking
    <2>12. \A i \in Ids : Rooted(i)'
        BY <1>0, <2>4, <2>6, RowsUnready
    <2>13. ASSUME NEW i \in Ids
           PROVE  Claimed(i)'
        <3>1. CASE i = id
            BY <2>4, <2>5, <2>6, <3>1 DEF Claimed, Claims, OwnsAttempt, Holds, id
        <3>2. CASE i # id
            <4>1. status'[i] = status[i] /\ (i \in abandoned => i \in abandoned')
                BY <2>1, <2>6, <3>2
            <4>2. ASSUME NEW u \in Tasks, Claims(u, i)
                  PROVE  Claims(u, i)'
                <5>1. CASE u # t
                    BY <2>5, <4>1, <4>2, <5>1, ClaimStays
                <5>2. CASE u = t
                    BY <1>0, <2>5, <3>2, <4>2, <5>2 DEF Claims, id
                <5> QED
                    BY <5>1, <5>2
            <4> QED
                BY <4>1, <4>2 DEF IInv, Claimed, Holds
        <3> QED
            BY <3>1, <3>2
    <2>14. DocumentCurrent'
        BY <1>0, <2>7 DEF DocumentCurrent
    <2> QED
        BY <2>8, <2>10, <2>11, <2>12, <2>13, <2>14 DEF IInv
<1> QED
    BY <1>2, <1>3

\* A refused answer settles the row of its own attempt and no other.
LEMMA RefusedKeeps ==
    ASSUME IInv, NEW t \in Tasks, tasks[t].pc = "call", open, lock = None,
           SettleFailed(tasks[t].id[1], tasks[t].mine), Goto(t, "next"),
           UNCHANGED <<node, vec, profile, open, lock, abandoned>>
    PROVE  IInv'
<1> DEFINE id == tasks[t].id[1]
           mine == tasks[t].mine
           failed == [mine EXCEPT !.state = "Failed"]
<1>1. id \in Ids /\ mine \in Status /\ tasks \in [Tasks -> Task]
    BY DEF IInv, Typed, Attempting
<1>2. failed \in Status /\ failed.state = "Failed" /\ failed # None
    <2>1. failed \in Status /\ failed.state = "Failed"
        BY <1>1 DEF Status
    <2> QED
        BY <2>1, NoneAssumption
<1>3. /\ tasks' \in [Tasks -> Task]
      /\ tasks'[t].pc = "next" /\ tasks'[t].queue = tasks[t].queue
      /\ \A u \in Tasks : u # t => tasks'[u] = tasks[u]
    BY <1>1, GotoTyped DEF Pcs
<1>4. /\ status' \in [Ids -> Status \cup {None}]
      /\ \A i \in Ids : i # id => status'[i] = status[i]
      /\ OwnsAttempt(id, mine) => status'[id] = failed
      /\ ~OwnsAttempt(id, mine) => status'[id] = status[id]
      /\ OwnsAttempt(id, mine) => Reindex(node, profile, status')
      /\ ~OwnsAttempt(id, mine) => doc' = doc /\ status' = status
    <2>1. status \in [Ids -> Status \cup {None}]
        BY DEF IInv, Typed
    <2>2. IF OwnsAttempt(id, mine)
          THEN status' = [status EXCEPT ![id] = failed] /\ Reindex(node, profile, status')
          ELSE UNCHANGED <<status, doc>>
        BY DEF SettleFailed
    <2> HIDE DEF failed, id, mine
    <2> QED
        BY <1>1, <1>2, <2>1, <2>2
<1>5. /\ doc' = None \/ (doc'.content \in Contents /\ doc'.texts \subseteq Answers)
      /\ node # None => doc' = Document(node, profile, status')
    <2>1. CASE OwnsAttempt(id, mine)
        BY <1>4, <2>1, ReindexTyped DEF IInv, Typed
    <2>2. CASE ~OwnsAttempt(id, mine)
        BY <1>4, <2>2 DEF IInv, Typed, DocumentCurrent, Free
    <2> QED
        BY <2>1, <2>2
<1> HIDE DEF failed
<1>6. Typed'
    BY <1>3, <1>4, <1>5 DEF IInv, Typed
<1>7. Attempting(t)' /\ Inside(t)'
    BY <1>3 DEF Attempting, Inside
<1>8. \A u \in Tasks : Attempting(u)' /\ Inside(u)'
    BY <1>3, <1>7, OthersOutside
<1>9. Locking'
    BY DEF Locking
<1>10. \A i \in Ids : Rooted(i)'
    BY <1>2, <1>4, RowsUnready
<1>11. ASSUME NEW i \in Ids
       PROVE  Claimed(i)'
    <2>1. CASE i = id /\ OwnsAttempt(id, mine)
        BY <1>2, <1>4, <2>1 DEF Claimed, Holds
    <2>2. CASE ~(i = id /\ OwnsAttempt(id, mine))
        <3>1. status'[i] = status[i]
            BY <1>4, <2>2
        <3>2. ASSUME NEW u \in Tasks, Claims(u, i)
              PROVE  Claims(u, i)'
            <4>1. CASE u # t
                BY <1>3, <3>1, <3>2, <4>1, ClaimStays
            <4>2. CASE u = t
                BY <1>3, <2>2, <3>2, <4>2 DEF Claims
            <4> QED
                BY <4>1, <4>2
        <3> QED
            BY <3>1, <3>2 DEF IInv, Claimed, Holds
    <2> QED
        BY <2>1, <2>2
<1>12. DocumentCurrent'
    BY <1>5 DEF DocumentCurrent
<1> QED
    BY <1>6, <1>8, <1>9, <1>10, <1>11, <1>12 DEF IInv

LEMMA CallFailsKeeps ==
    ASSUME IInv, NEW t \in Tasks, CallFails(t)
    PROVE  IInv'
    BY RefusedKeeps DEF CallFails, Free

LEMMA CallAnswersKeeps ==
    ASSUME IInv, SeparateModels, NEW t \in Tasks, CallAnswers(t)
    PROVE  IInv'
<1> DEFINE id == tasks[t].id[1]
           mine == tasks[t].mine
           answer == Answer(id, mine.fp, mine.content)
<1>0. /\ tasks[t].pc = "call" /\ tasks \in [Tasks -> Task] /\ open /\ lock = None
      /\ UNCHANGED <<vec, profile, open, abandoned>>
    BY DEF CallAnswers, IInv, Typed, Free
<1>1. CASE ~MayInstall(id, mine)
    <2>1. SettleFailed(id, mine) /\ Goto(t, "next") /\ UNCHANGED <<node, lock>>
        BY <1>1 DEF CallAnswers
    <2> QED
        BY <1>0, <2>1, RefusedKeeps
<1>2. CASE MayInstall(id, mine)
    <2>1. /\ node' = [node EXCEPT !.embeddings[Model[id]] = answer]
          /\ lock' = t /\ Goto(t, "vectors") /\ UNCHANGED <<status, doc>>
        BY <1>2 DEF CallAnswers
    <2>2. id \in Ids /\ mine \in Status /\ node \in MemoryNode /\ OwnsAttempt(id, mine)
        BY <1>0, <1>2 DEF IInv, Typed, Attempting, MayInstall
    <2>3. answer \in Answers /\ Model[id] \in Models
        BY <2>2 DEF Answer, Answers, Status
    <2> HIDE DEF answer
    <2>4. /\ node' \in MemoryNode /\ node' # None /\ node'.embeddings[Model[id]] = answer
          /\ \A mo \in Models : mo # Model[id] => node'.embeddings[mo] = node.embeddings[mo]
        <3>1. answer \in Vectors
            BY <2>3 DEF Vectors
        <3>2. node' \in MemoryNode /\ node'.embeddings = [node.embeddings EXCEPT ![Model[id]] = answer]
            BY <2>1, <2>2, <2>3, <3>1 DEF MemoryNode
        <3>3. node.embeddings \in [Models -> Vectors]
            BY <2>2 DEF MemoryNode
        <3> QED
            BY <2>3, <3>2, <3>3, NoneAssumption
    <2>5. /\ tasks' \in [Tasks -> Task]
          /\ tasks'[t].pc = "vectors" /\ tasks'[t].queue = tasks[t].queue
          /\ tasks'[t].id = tasks[t].id /\ tasks'[t].mine = tasks[t].mine
          /\ \A u \in Tasks : u # t => tasks'[u] = tasks[u]
        BY <1>0, <2>1, GotoTyped DEF Pcs
    <2>6. Typed'
        BY <1>0, <2>1, <2>4, <2>5 DEF IInv, Typed
    <2>7. Attempting(t)' /\ Inside(t)'
        <3>1. Attempting(t)
            BY DEF IInv
        <3>2. Attempting(t)'
            BY <1>0, <2>5, <3>1 DEF Attempting
        <3> QED
            BY <2>1, <2>2, <2>4, <2>5, <3>2 DEF Inside, OwnsAttempt, Holds, answer
    <2>8. \A u \in Tasks : Attempting(u)' /\ Inside(u)'
        BY <1>0, <2>1, <2>5, <2>7, OthersOutside
    <2>9. Locking'
        BY <1>0, <2>4 DEF Locking
    <2>10. ASSUME NEW i \in Ids
           PROVE  Rooted(i)'
        <3>1. CASE i = id
            BY <2>1, <2>2, <3>1 DEF Rooted, OwnsAttempt, Holds
        <3>2. CASE i # id
            <4>1. Model[i] # Model[id] /\ Model[i] \in Models
                BY <2>2, <3>2 DEF SeparateModels
            <4>2. node'.embeddings[Model[i]] = node.embeddings[Model[i]] /\ node # None
                BY <1>2, <2>4, <4>1 DEF MayInstall
            <4> QED
                BY <1>0, <2>1, <4>2 DEF IInv, Rooted, Holds
        <3> QED
            BY <3>1, <3>2
    <2>11. \A i \in Ids : Claims(t, i) => Claims(t, i)'
        BY <1>0, <2>1, <2>5 DEF Claims, OwnsAttempt, Holds
    <2>12. \A i \in Ids : Claimed(i)'
        BY <1>0, <2>1, <2>5, <2>11, ClaimsMove
    <2>13. DocumentCurrent'
        BY <2>1 DEF DocumentCurrent, Free
    <2> QED
        BY <2>6, <2>8, <2>9, <2>10, <2>12, <2>13 DEF IInv
<1> QED
    BY <1>1, <1>2

LEMMA InstallVectorsKeeps ==
    ASSUME IInv, NEW t \in Tasks, InstallVectors(t)
    PROVE  IInv'
<1>1. /\ tasks[t].pc = "vectors" /\ lock = t /\ tasks \in [Tasks -> Task]
      /\ vec' = node.embeddings /\ Goto(t, "ready")
      /\ UNCHANGED <<node, profile, status, open, lock, abandoned>>
    BY DEF InstallVectors, IInv, Typed
<1>2. node # None /\ Attempting(t) /\ Inside(t)
    BY <1>1 DEF IInv, Inside
<1>3. /\ vec' \in [Models -> Vectors]
      /\ \A id \in Ids : Rooted(id)'
      /\ DocumentCurrent'
      /\ doc' = None \/ (doc'.content \in Contents /\ doc'.texts \subseteq Answers)
    BY <1>1, <1>2, VectorsRow DEF InstallVectors
<1>4. /\ tasks' \in [Tasks -> Task]
      /\ tasks'[t].pc = "ready" /\ tasks'[t].queue = tasks[t].queue
      /\ tasks'[t].id = tasks[t].id /\ tasks'[t].mine = tasks[t].mine
      /\ \A u \in Tasks : u # t => tasks'[u] = tasks[u]
    BY <1>1, GotoTyped DEF Pcs
<1>5. Typed'
    BY <1>1, <1>3, <1>4 DEF IInv, Typed
<1>6. Attempting(t)' /\ Inside(t)'
    BY <1>1, <1>2, <1>4 DEF Attempting, Inside, OwnsAttempt, Holds
<1>7. \A u \in Tasks : Attempting(u)' /\ Inside(u)'
    BY <1>1, <1>4, <1>6, OthersOutside
<1>8. Locking'
    BY <1>1, <1>2 DEF IInv, Locking
<1>9. \A id \in Ids : Claims(t, id) => Claims(t, id)'
    BY <1>1, <1>4 DEF Claims, OwnsAttempt, Holds
<1>10. \A id \in Ids : Claimed(id)'
    BY <1>1, <1>4, <1>9, ClaimsMove
<1> QED
    BY <1>3, <1>5, <1>7, <1>8, <1>10 DEF IInv

LEMMA InstallStatusKeeps ==
    ASSUME IInv, NEW t \in Tasks, InstallStatus(t)
    PROVE  IInv'
<1> DEFINE id == tasks[t].id[1]
           mine == tasks[t].mine
           answer == Answer(id, mine.fp, mine.content)
           ready == [mine EXCEPT !.state = "Ready", !.text = answer]
<1>1. /\ tasks[t].pc = "ready" /\ lock = t /\ lock' = None /\ tasks \in [Tasks -> Task]
      /\ status' = [status EXCEPT ![id] = ready]
      /\ Reindex(node, profile, status') /\ Goto(t, "next")
      /\ UNCHANGED <<node, vec, profile, open, abandoned>>
    BY DEF InstallStatus, IInv, Typed
<1>2. /\ id \in Ids /\ mine \in Status /\ OwnsAttempt(id, mine) /\ node # None
      /\ node.embeddings[Model[id]] = answer /\ vec = node.embeddings /\ open
    BY <1>1 DEF IInv, Attempting, Inside, Locking
<1>3. answer \in Answers
    BY <1>2 DEF Answer, Answers, Status
<1> HIDE DEF id
<1>4. /\ ready \in Status /\ ready.state = "Ready" /\ ready.text = answer
      /\ ready.fp = mine.fp /\ ready.content = mine.content
    <2>1. answer \in {None} \cup Answers
        BY <1>3
    <2> HIDE DEF answer, mine
    <2> QED
        BY <1>2, <2>1 DEF Status
<1> HIDE DEF ready
<1>5. /\ status' \in [Ids -> Status \cup {None}] /\ status'[id] = ready
      /\ \A i \in Ids : i # id => status'[i] = status[i]
    BY <1>1, <1>2, <1>4 DEF IInv, Typed
<1>6. /\ tasks' \in [Tasks -> Task]
      /\ tasks'[t].pc = "next" /\ tasks'[t].queue = tasks[t].queue
      /\ \A u \in Tasks : u # t => tasks'[u] = tasks[u]
    BY <1>1, GotoTyped DEF Pcs
<1>7. /\ doc' = None \/ (doc'.content \in Contents /\ doc'.texts \subseteq Answers)
      /\ doc' = Document(node, profile, status')
    BY <1>1, <1>2, <1>5, ReindexTyped DEF IInv, Typed
<1>8. Typed'
    BY <1>1, <1>5, <1>6, <1>7 DEF IInv, Typed
<1>9. Attempting(t)' /\ Inside(t)'
    BY <1>1, <1>6 DEF Attempting, Inside
<1>10. \A u \in Tasks : Attempting(u)' /\ Inside(u)'
    BY <1>1, <1>6, <1>9, OthersOutside
<1>11. Locking'
    BY <1>1, <1>2 DEF Locking
<1>12. ASSUME NEW i \in Ids
       PROVE  Rooted(i)'
    <2>1. CASE i = id
        BY <1>1, <1>2, <1>4, <1>5, <2>1 DEF Rooted
    <2>2. CASE i # id
        BY <1>1, <1>5, <2>2 DEF IInv, Rooted, Holds
    <2> QED
        BY <2>1, <2>2
<1>13. ASSUME NEW i \in Ids
       PROVE  Claimed(i)'
    <2>1. CASE i = id
        BY <1>4, <1>5, <2>1 DEF Claimed, Holds
    <2>2. CASE i # id
        <3>1. status'[i] = status[i]
            BY <1>5, <2>2
        <3>2. ASSUME NEW u \in Tasks, Claims(u, i)
              PROVE  Claims(u, i)'
            <4>1. CASE u # t
                BY <1>6, <3>1, <3>2, <4>1, ClaimStays
            <4>2. CASE u = t
                BY <1>1, <1>6, <2>2, <3>2, <4>2 DEF Claims, id
            <4> QED
                BY <4>1, <4>2
        <3> QED
            BY <1>1, <3>1, <3>2 DEF IInv, Claimed, Holds
    <2> QED
        BY <2>1, <2>2
<1>14. DocumentCurrent'
    BY <1>1, <1>7 DEF DocumentCurrent
<1> QED
    BY <1>8, <1>10, <1>11, <1>12, <1>13, <1>14 DEF IInv
------------------------------------------------------------------------------
(* Theorems *)

LEMMA InitHolds == Init => IInv
<1> SUFFICES ASSUME Init PROVE IInv
    OBVIOUS
<1>1. Typed
    BY IdleTyped DEF Init, Typed, Vectors
<1>2. \A t \in Tasks : Attempting(t) /\ Inside(t)
    BY IdleTyped DEF Init, Attempting, Inside
<1>3. Locking
    BY DEF Init, Locking
<1>4. \A id \in Ids : Rooted(id) /\ Claimed(id)
    BY DEF Init, Rooted, Claimed, Holds
<1>5. DocumentCurrent
    BY DEF Init, DocumentCurrent
<1> QED
    BY <1>1, <1>2, <1>3, <1>4, <1>5 DEF IInv

LEMMA StutterKeeps ==
    ASSUME IInv, UNCHANGED vars
    PROVE  IInv'
<1>1. Typed' /\ Locking' /\ DocumentCurrent'
    BY DEF IInv, vars, Typed, Locking, DocumentCurrent, Free, ValidProfile
<1>2. \A t \in Tasks : Attempting(t)' /\ Inside(t)'
    BY CallsStay DEF vars
<1> QED
    BY <1>1, <1>2, RootedStays, ClaimedStays DEF IInv, vars

LEMMA StepKeeps ==
    ASSUME SeparateModels, IInv, [Next]_vars
    PROVE  IInv'
<1>1. ASSUME NEW t \in Tasks, Ingest(t) \/ RetryProjection(t) \/ Step(t)
      PROVE  IInv'
    BY <1>1, IngestKeeps, RetryProjectionKeeps, FinishIngestInsertKeeps, ReadProfilesKeeps,
       MarkPendingKeeps, NextProfileKeeps, StartKeeps, CallFailsKeeps, CallAnswersKeeps,
       InstallVectorsKeeps, InstallStatusKeeps DEF Step
<1> QED
    BY <1>1, InsertNodeKeeps, FinishInsertKeeps, DeleteKeeps, ProfileKeeps, CrashKeeps, StutterKeeps
    DEF Next

\* The inductive invariant holds in every reachable state.
THEOREM Invariance == ASSUME SeparateModels PROVE Spec => []IInv
    BY InitHolds, StepKeeps, PTL DEF Spec

\* What recall takes for a current projection is current, the lexical document
\* holds the current texts, and every unsettled row is owned (project_node,
\* project_configured, is_current_for, reindex_node_unlocked), whatever edits,
\* profile changes, answers and crashes come in between.
THEOREM ProjectionsSound == ASSUME SeparateModels PROVE Spec => []ProjectionSound
<1>1. IInv => ProjectionSound
    <2> SUFFICES ASSUME IInv PROVE ProjectionSound
        OBVIOUS
    <2>1. TypeOK
        <3>1. lock \in Tasks => tasks[lock].pc \in {"insert", "vectors", "ready"}
            BY DEF IInv, Inside
        <3> QED
            BY <3>1 DEF IInv, Typed, TypeOK
    <2>2. RecallSound
        BY DEF IInv, RecallSound, Rooted, IsCurrentFor
    <2>3. ASSUME NEW id \in Ids, Holds(status[id], "Pending"), id \notin abandoned
          PROVE  \E t \in Tasks :
                    \/ \E p \in tasks[t].queue : p[1] = id
                    \/ tasks[t].pc # "idle" /\ tasks[t].id # None /\ tasks[t].id[1] = id
        <3>1. PICK t \in Tasks : Claims(t, id)
            BY <2>3 DEF IInv, Claimed
        <3>2. Attempting(t)
            BY DEF IInv
        <3> QED
            BY <3>1, <3>2, NoneAssumption DEF Claims, Attempting
    <2> QED
        BY <2>1, <2>2, <2>3 DEF ProjectionSound, PendingIsOwned, IInv
<1> QED
    BY <1>1, Invariance, PTL

\* A step that leaves every row alone, or marks it with no fewer attempts, or
\* settles one that is Pending.
RowAdvances(id) ==
    \/ status'[id] = status[id]
    \/ /\ status'[id] \in Status /\ status'[id].state = "Pending"
       /\ status'[id].attempts >= AttemptsOf(id)
    \/ /\ status'[id] \in Status /\ Holds(status[id], "Pending")
       /\ status'[id].attempts = status[id].attempts

LEMMA RowsAdvance ==
    ASSUME IInv, [Next]_vars, NEW id \in Ids
    PROVE  RowAdvances(id)
<1>0. status \in [Ids -> Status \cup {None}]
    BY DEF IInv, Typed
<1>1. CASE UNCHANGED status
    BY <1>1 DEF RowAdvances
<1>2. ASSUME NEW t \in Tasks, MarkPending(t)
      PROVE  RowAdvances(id)
    <2> DEFINE marked == {p \in tasks[t].queue : Supports(p[1], node.content)}
               fp(i) == (CHOOSE p \in marked : p[1] = i)[2]
    <2>1. CASE node = None
        BY <1>1, <1>2, <2>1 DEF MarkPending
    <2>2. CASE node # None
        <3>1. status' = [i \in Ids |-> IF \E p \in marked : p[1] = i
                                       THEN Pending(fp(i), node.content, AttemptsOf(i))
                                       ELSE status[i]]
            BY <1>2, <2>2 DEF MarkPending
        <3>2. marked \subseteq Profiled /\ node.content \in Contents
            BY <2>2 DEF IInv, Typed, Task, MemoryNode
        <3>3. CASE \E p \in marked : p[1] = id
            <4>1. fp(id) \in Fps
                BY <3>2, <3>3
            <4>2. AttemptsOf(id) \in Nat
                BY <1>0, AttemptsNat
            <4>3. status'[id] = Pending(fp(id), node.content, AttemptsOf(id))
                BY <3>1, <3>3
            <4> HIDE DEF fp
            <4> QED
                BY <3>2, <4>1, <4>2, <4>3, PendingTyped DEF RowAdvances
        <3>4. CASE ~\E p \in marked : p[1] = id
            BY <3>1, <3>4 DEF RowAdvances
        <3> QED
            BY <3>3, <3>4
    <2> QED
        BY <2>1, <2>2
<1>3. ASSUME NEW t \in Tasks, Start(t)
      PROVE  RowAdvances(id)
    <2> DEFINE i == tasks[t].id[1]
               fp == tasks[t].id[2]
               mine == Pending(fp, node.content, AttemptsOf(i) + 1)
    <2>1. CASE profile[i] # fp \/ node = None
        BY <1>1, <1>3, <2>1 DEF Start
    <2>2. CASE ~(profile[i] # fp \/ node = None)
        <3>1. status' = [status EXCEPT ![i] = mine]
            BY <1>3, <2>2 DEF Start
        <3>2. i \in Ids /\ fp \in Fps /\ node.content \in Contents
            BY <1>3, <2>2 DEF Start, IInv, Typed, Attempting, MemoryNode
        <3> HIDE DEF i, fp
        <3>3. AttemptsOf(i) \in Nat
            BY <1>0, <3>2, AttemptsNat
        <3>4. mine \in Status /\ mine.state = "Pending" /\ mine.attempts = AttemptsOf(i) + 1
            BY <3>2, <3>3, PendingTyped
        <3> HIDE DEF mine
        <3> QED
            BY <1>0, <3>1, <3>2, <3>3, <3>4 DEF RowAdvances
    <2> QED
        BY <2>1, <2>2
<1>4. ASSUME NEW t \in Tasks, tasks[t].pc = "call", SettleFailed(tasks[t].id[1], tasks[t].mine)
      PROVE  RowAdvances(id)
    <2> DEFINE i == tasks[t].id[1]
               mine == tasks[t].mine
               failed == [mine EXCEPT !.state = "Failed"]
    <2>1. i \in Ids /\ mine \in Status
        BY <1>4 DEF IInv, Attempting
    <2>2. failed \in Status /\ failed.attempts = mine.attempts
        BY <2>1 DEF Status
    <2>3. IF OwnsAttempt(i, mine) THEN status' = [status EXCEPT ![i] = failed] ELSE status' = status
        BY <1>4 DEF SettleFailed
    <2> HIDE DEF failed
    <2> QED
        BY <1>0, <2>1, <2>2, <2>3 DEF RowAdvances, OwnsAttempt
<1>5. ASSUME NEW t \in Tasks, InstallStatus(t)
      PROVE  RowAdvances(id)
    <2> DEFINE i == tasks[t].id[1]
               mine == tasks[t].mine
               answer == Answer(i, mine.fp, mine.content)
               ready == [mine EXCEPT !.state = "Ready", !.text = answer]
    <2>1. i \in Ids /\ mine \in Status /\ OwnsAttempt(i, mine) /\ status' = [status EXCEPT ![i] = ready]
        BY <1>5 DEF InstallStatus, IInv, Attempting, Inside
    <2>2. answer \in {None} \cup Answers
        BY <2>1 DEF Answer, Answers, Status
    <2>3. ready \in Status /\ ready.attempts = mine.attempts
        <3> HIDE DEF answer, mine
        <3> QED
            BY <2>1, <2>2 DEF Status
    <2> HIDE DEF ready
    <2> QED
        BY <1>0, <2>1, <2>3 DEF RowAdvances, OwnsAttempt
<1>6. ASSUME NEW t \in Tasks, Ingest(t) \/ RetryProjection(t) \/ Step(t)
      PROVE  RowAdvances(id)
    <2>1. CASE CallFails(t)
        BY <1>4, <2>1 DEF CallFails
    <2>2. CASE CallAnswers(t)
        BY <1>1, <1>4, <2>2 DEF CallAnswers
    <2>3. CASE Ingest(t)
        BY <1>1, <2>3 DEF Ingest, Insert
    <2>4. CASE RetryProjection(t) \/ FinishIngestInsert(t) \/ ReadProfiles(t) \/ NextProfile(t)
               \/ InstallVectors(t)
        BY <1>1, <2>4 DEF RetryProjection, FinishIngestInsert, ReadProfiles, NextProfile, InstallVectors
    <2> QED
        BY <1>2, <1>3, <1>5, <1>6, <2>1, <2>2, <2>3, <2>4 DEF Step
<1>7. CASE InsertNode \/ FinishInsert \/ DeleteVectors \/ DeleteRow \/ DeleteDocument
           \/ SetMemoryProfile \/ Crash \/ Open \/ UNCHANGED vars
    BY <1>1, <1>7 DEF InsertNode, Insert, FinishInsert, DeleteVectors, DeleteRow, DeleteDocument,
       SetMemoryProfile, Crash, Open, vars
<1> QED
    BY <1>6, <1>7 DEF Next

\* A later attempt is never overridden by the answer to an earlier one
\* (projection_attempt_is_current, project_node).
THEOREM LaterAttemptsWin == ASSUME SeparateModels PROVE Spec => LaterAttemptWins
<1>1. ASSUME IInv, [Next]_vars, NEW id \in Ids, status[id] # None
      PROVE  /\ status'[id] # None
             /\ status'[id].attempts >= status[id].attempts
             /\ status[id].state # "Pending" /\ status'[id].state # "Pending"
                    => status'[id] = status[id]
    <2>1. RowAdvances(id)
        BY <1>1, RowsAdvance
    <2>2. status[id] \in Status /\ status[id].attempts \in Nat /\ AttemptsOf(id) = status[id].attempts
        BY <1>1 DEF IInv, Typed, Status, AttemptsOf
    <2> QED
        BY <1>1, <2>1, <2>2, NoneAssumption DEF RowAdvances, Holds
<1>2. IInv /\ [Next]_vars =>
        [\A id \in Ids : status[id] # None =>
          /\ status'[id] # None
          /\ status'[id].attempts >= status[id].attempts
          /\ status[id].state # "Pending" /\ status'[id].state # "Pending"
                 => status'[id] = status[id]]_vars
    BY <1>1
<1> QED
    BY <1>2, Invariance, PTL DEF Spec, LaterAttemptWins

==============================================================================
