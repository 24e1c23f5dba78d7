------------------------------ MODULE Proposals ------------------------------
(***************************************************************************)
(* Change proposals (recall.rs) and the node and edge mutations they share *)
(* the node mutation lock with (db.rs).  A lawyer's verdict stages         *)
(* proposals during recall, without the lock.  apply_proposal revalidates  *)
(* a pending proposal, publishes it as Applying, and then makes its        *)
(* changes one at a time, each followed by a durable step of the           *)
(* proposal's cursor; opening the database first finishes every proposal   *)
(* that is still Applying.                                                 *)
(*                                                                         *)
(* Every call that holds the lock is the current task; it advances one     *)
(* durable write at a time, and a crash or a failing storage call can come *)
(* between any two of them.  A node is its revision, its lifecycle state,  *)
(* its validity and its embedding; the vector index is a store of its own. *)
(* The expected revisions of a proposal's changes are one function base:   *)
(* validation requires all changes of a node to expect its current one.    *)
(***************************************************************************)
EXTENDS Integers, Sequences, FiniteSets

CONSTANTS
    Nodes,          \* node identifiers
    EdgeKeys,       \* the pairs of nodes that may be joined by an edge
    NumProposals,   \* proposals have identifiers 1 .. NumProposals, in key order
    Templates,      \* the sequences of changes a lawyer may propose
    Embeddings,     \* the embeddings a caller may store with a node
    NoEmbedding,    \* the vector index has no row
    MaxChanges,     \* the longest proposal
    MaxOps, MaxCrashes, MaxFaults

ASSUME ProposalsAssumption ==
    /\ NumProposals \in Nat /\ MaxOps \in Nat /\ MaxCrashes \in Nat /\ MaxFaults \in Nat
    /\ NoEmbedding \notin Embeddings
    /\ EdgeKeys \subseteq Nodes \X Nodes
    /\ MaxChanges \in Nat
    /\ \A t \in Templates : Len(t) \in 0 .. MaxChanges

VARIABLES
    nodes,      \* durable: the node rows
    vec,        \* durable: the embedding each node has in the vector index
    edges,      \* durable: the edges, by source and destination
    props,      \* durable: the stored proposals
    phase,      \* is the database closed, being opened or open?
    task,       \* the call that holds the node mutation lock
    draft,      \* a proposal that adjudicate has validated but not stored
    ops, crashes, faults,
    hits,       \* history: how often each change of each proposal took effect
    dirty,      \* history: nodes others wrote since a proposal was judged
    deleted     \* history: identifiers of deleted nodes

vars == <<nodes, vec, edges, props, phase, task, draft, ops, crashes, faults,
          hits, dirty, deleted>>
durable == <<nodes, vec, edges, props>>
history == <<hits, dirty, deleted>>
------------------------------------------------------------------------------
(* Data. *)

Ids == 1 .. NumProposals
States == {"Pending", "Active", "Superseded", "Retracted"}
Terminal == {"Superseded", "Retracted"}

\* Times are told apart by where they come from: the node's creation, a
\* proposal, or the clock at the time of the write; "none" is an open end.
Times == {"none", "created", "proposed", "now"}

NoNode == [rev |-> 0, state |-> "Pending", from |-> "none", to |-> "none",
           emb |-> NoEmbedding]
Node == [rev : Nat, state : States, from : Times, to : Times,
         emb : Embeddings \cup {NoEmbedding}]
Exists(n) == nodes[n] # NoNode

\* An edge is its revision and what tells its content apart.
NoEdge == [rev |-> 0, tag |-> "none"]

Validity(n, from, to) == [type |-> "validity", node |-> n, from |-> from, to |-> to]
State(n, state) == [type |-> "state", node |-> n, state |-> state]
AddedEdge(src, dst, tag) == [type |-> "edge", src |-> src, dst |-> dst, tag |-> tag]

Touched(c) == IF c.type = "edge" THEN {c.src, c.dst} ELSE {c.node}
TouchedBy(changes) == UNION {Touched(changes[i]) : i \in DOMAIN changes}

Statuses == {"None", "Pending", "Applying", "Applied", "Rejected", "Stale"}
NoProposal == [status |-> "None", changes |-> <<>>, base |-> [n \in Nodes |-> 0],
               next |-> 0]
Proposal == [status : Statuses, changes : Templates \cup {<<>>},
             base : [Nodes -> Nat], next : Nat]

\* The lock's holder: what it does, on which proposal or node, and its next step.
NoTask == [kind |-> "none", p |-> 0, node |-> "none", pc |-> "none"]
Proposing == {"apply", "repair"}
------------------------------------------------------------------------------
(* insert_inner_unlocked: the row, then the vector index. *)

\* Mutant of Stored: an overwritten row keeps its revision.
StoredUnnumbered(n, node) ==
    [node EXCEPT
        !.rev = IF Exists(n) THEN nodes[n].rev ELSE IF @ > 1 THEN @ ELSE 1,
        !.from = IF @ = "none" THEN "created" ELSE @]

\* A stored row keeps the larger revision, plus one; a missing start of
\* validity becomes the creation time.
Stored(n, node) ==
    [node EXCEPT
        !.rev = IF Exists(n)
                THEN (IF nodes[n].rev > @ THEN nodes[n].rev ELSE @) + 1
                ELSE IF @ > 1 THEN @ ELSE 1,
        !.from = IF @ = "none" THEN "created" ELSE @]

\* Writer 0 is a caller, another one the proposal that is being applied.
Note(writer, n) ==
    dirty' = [p \in Ids |-> IF p # writer THEN dirty[p] \cup {n} ELSE dirty[p]]

PutNode(n, node, writer) ==
    /\ nodes' = [nodes EXCEPT ![n] = Stored(n, node)]
    /\ Note(writer, n)

Goto(pc) == task' = [task EXCEPT !.pc = pc]
\* Where the vector index of the written node is brought up to date.
Index(n) == task' = [task EXCEPT !.node = n, !.pc = "unindex"]

\* The previous row's embeddings leave the vector index...
DeleteVector ==
    /\ task.pc = "unindex"
    /\ vec' = [vec EXCEPT ![task.node] = NoEmbedding]
    /\ Goto("index")
    /\ UNCHANGED <<nodes, edges, props, phase, draft, ops, crashes, faults, history>>

\* ... and the new row's enter it.
InsertVector ==
    /\ task.pc = "index"
    /\ vec' = [vec EXCEPT ![task.node] = nodes[task.node].emb]
    /\ IF task.kind \in Proposing THEN Goto("cursor") ELSE task' = NoTask
    /\ UNCHANGED <<nodes, edges, props, phase, draft, ops, crashes, faults, history>>
------------------------------------------------------------------------------
(* Callers. *)

\* A call gets the node mutation lock.
Begin ==
    /\ phase = "open" /\ task = NoTask
    /\ ops < MaxOps
    /\ ops' = ops + 1

\* Database::insert, of a new node or over an existing one.  Identifiers are
\* ULIDs: a deleted node's is not used again.
Insert(n, state, emb) ==
    /\ Begin
    /\ n \notin deleted
    /\ PutNode(n, [rev |-> 1, state |-> state, from |-> "none", to |-> "none",
                   emb |-> emb], 0)
    /\ task' = [NoTask EXCEPT !.kind = "insert", !.node = n, !.pc = "unindex"]
    /\ UNCHANGED <<vec, edges, props, phase, draft, crashes, faults, hits, deleted>>

\* Database::retract; a node that is retracted already stays as it is.
Retracted(n, to) ==
    [nodes[n] EXCEPT !.state = "Retracted",
                     !.from = IF nodes[n].state = "Pending" THEN "now" ELSE @,
                     !.to = IF nodes[n].state = "Pending" THEN "now" ELSE to]

Retract(n) ==
    /\ Begin
    /\ Exists(n)
    /\ ~(nodes[n].state = "Retracted" /\ nodes[n].to # "none")
    /\ \E to \in {"now"} \cup ({nodes[n].to} \ {"none"}) :
          PutNode(n, Retracted(n, to), 0)
    /\ task' = [NoTask EXCEPT !.kind = "retract", !.node = n, !.pc = "unindex"]
    /\ UNCHANGED <<vec, edges, props, phase, draft, crashes, faults, hits, deleted>>

\* Database::delete: the vector rows go first, then the node row.
Delete(n) ==
    /\ Begin
    /\ Exists(n)
    /\ vec' = [vec EXCEPT ![n] = NoEmbedding]
    /\ task' = [NoTask EXCEPT !.kind = "delete", !.node = n, !.pc = "delete"]
    /\ UNCHANGED <<nodes, edges, props, phase, draft, crashes, faults, history>>

DeleteNode ==
    /\ task.pc = "delete"
    /\ nodes' = [nodes EXCEPT ![task.node] = NoNode]
    /\ Note(0, task.node)
    /\ deleted' = deleted \cup {task.node}
    /\ task' = NoTask
    /\ UNCHANGED <<vec, edges, props, phase, draft, ops, crashes, faults, hits>>

\* Database::add_edge over whatever edge is there, and remove_edge.
PutEdge(src, dst, tag) ==
    edges' = [edges EXCEPT ![src, dst] = [rev |-> @.rev + 1, tag |-> tag]]

CallAddEdge(src, dst) ==
    /\ Begin
    /\ PutEdge(src, dst, "caller")
    /\ UNCHANGED <<nodes, vec, props, phase, task, draft, crashes, faults, history>>

CallRemoveEdge(src, dst) ==
    /\ Begin
    /\ edges[src, dst] # NoEdge
    /\ edges' = [edges EXCEPT ![src, dst] = NoEdge]
    /\ UNCHANGED <<nodes, vec, props, phase, task, draft, crashes, faults, history>>
------------------------------------------------------------------------------
(* Proposals. *)

\* require_revision, for the node of every change.
RevisionsCurrent(changes, base) ==
    \A n \in TouchedBy(changes) : Exists(n) /\ nodes[n].rev = base[n]

\* validate_proposal: no change of a node another one has written since, no
\* edge twice, and no edge that exists.
Valid(changes, base) ==
    /\ RevisionsCurrent(changes, base)
    /\ \A i \in DOMAIN changes : changes[i].type = "edge" =>
          /\ edges[changes[i].src, changes[i].dst] = NoEdge
          /\ \A j \in 1 .. i - 1 : changes[j].type = "edge" =>
                <<changes[j].src, changes[j].dst>> # <<changes[i].src, changes[i].dst>>

\* adjudicate validates what the lawyer proposed, without the lock...
Judge(p, changes) ==
    LET base == [n \in Nodes |-> IF n \in TouchedBy(changes) THEN nodes[n].rev ELSE 0]
    IN  /\ phase = "open" /\ draft.p = 0
        /\ props[p] = NoProposal
        /\ ops < MaxOps
        /\ ops' = ops + 1
        /\ Valid(changes, base)
        /\ draft' = [p |-> p, proposal |-> [status |-> "Pending", changes |-> changes,
                                            base |-> base, next |-> 0]]
        /\ dirty' = [dirty EXCEPT ![p] = {}]
        /\ UNCHANGED <<durable, phase, task, crashes, faults, hits, deleted>>

NoDraft == [p |-> 0, proposal |-> NoProposal]

\* ... and stores the proposal.
StoreProposal ==
    /\ phase = "open" /\ draft.p # 0
    /\ props' = [props EXCEPT ![draft.p] = draft.proposal]
    /\ draft' = NoDraft
    /\ UNCHANGED <<nodes, vec, edges, phase, task, ops, crashes, faults, history>>

\* apply_proposal: a pending proposal is validated again and becomes Applying
\* or Stale; one that an earlier call left Applying is resumed.
Apply(p) ==
    /\ Begin
    /\ \/ /\ props[p].status = "Pending"
          /\ IF Valid(props[p].changes, props[p].base)
             THEN /\ props' = [props EXCEPT ![p].status = "Applying", ![p].next = 0]
                  /\ task' = [NoTask EXCEPT !.kind = "apply", !.p = p, !.pc = "change"]
             ELSE /\ props' = [props EXCEPT ![p].status = "Stale"]
                  /\ UNCHANGED task
       \/ /\ props[p].status = "Applying"
          /\ task' = [NoTask EXCEPT !.kind = "apply", !.p = p, !.pc = "change"]
          /\ UNCHANGED props
    /\ UNCHANGED <<nodes, vec, edges, phase, draft, crashes, faults, history>>

\* reject_proposal.
Reject(p) ==
    /\ Begin
    /\ props[p].status = "Pending"
    /\ props' = [props EXCEPT ![p].status = "Rejected"]
    /\ UNCHANGED <<nodes, vec, edges, phase, task, draft, crashes, faults, history>>
------------------------------------------------------------------------------
(* resume_proposal_unlocked and apply_proposed_change_unlocked. *)

\* prior_node_changes: changes of node n before the i-th.
PriorNodeChanges(changes, i, n) ==
    Cardinality({j \in 1 .. i - 1 : changes[j].type # "edge" /\ changes[j].node = n})

Cursor(p) == props[p].next + 1
Change(p) == props[p].changes[Cursor(p)]
Before(p, n) == props[p].base[n] + PriorNodeChanges(props[p].changes, Cursor(p), n)

AtChange ==
    /\ task.pc = "change"
    /\ props[task.p].next < Len(props[task.p].changes)

\* What the row of the change's node becomes.
Changed(c) ==
    IF c.type = "validity"
    THEN [nodes[c.node] EXCEPT !.from = c.from, !.to = c.to]
    ELSE [nodes[c.node] EXCEPT !.state = c.state,
            !.to = IF c.state \in Terminal /\ @ = "none" THEN "now" ELSE @]

\* The row shows what the change asks for.
Shows(node, c) ==
    IF c.type = "validity"
    THEN node.from = c.from /\ node.to = c.to
    ELSE node.state = c.state /\ (c.state \in Terminal => node.to # "none")

\* Mutant of Replayed: the revision before the change.
ReplayedBefore(p, c) ==
    /\ nodes[c.node].rev = Before(p, c.node)
    /\ Shows(nodes[c.node], c)
Replayed(p, c) ==
    /\ nodes[c.node].rev = Before(p, c.node) + 1
    /\ Shows(nodes[c.node], c)

\* The row was written before the cursor was: only its indexes are reconciled.
\* From here on the proposal takes the row for its own.
Reconcile ==
    /\ AtChange
    /\ Change(task.p).type # "edge"
    /\ Exists(Change(task.p).node)
    /\ Replayed(task.p, Change(task.p))
    /\ Index(Change(task.p).node)
    /\ dirty' = [dirty EXCEPT ![task.p] = @ \ {Change(task.p).node}]
    /\ UNCHANGED <<durable, phase, draft, ops, crashes, faults, hits, deleted>>

\* Mutant of Expected: the revision is not compared.
ExpectedAnyRevision(p, c) == ~Replayed(p, c)

\* The row is as the proposal expects it.
Expected(p, c) ==
    /\ ~Replayed(p, c)
    /\ nodes[c.node].rev = Before(p, c.node)

ChangeNode ==
    LET p == task.p
        c == Change(p)
    IN  /\ AtChange
        /\ c.type # "edge"
        /\ Exists(c.node)
        /\ Expected(p, c)
        /\ PutNode(c.node, Changed(c), p)
        /\ Index(c.node)
        /\ hits' = [hits EXCEPT ![p][Cursor(p)] = @ + 1]
        /\ UNCHANGED <<vec, edges, props, phase, draft, ops, crashes, faults, deleted>>

\* same_proposal_edge: the edge an earlier attempt added, unchanged since.
SameEdge(c) == edges[c.src, c.dst] = [rev |-> 1, tag |-> c.tag]

EndsCurrent(p, c) ==
    \A n \in {c.src, c.dst} : Exists(n) /\ nodes[n].rev = Before(p, n)

ChangeEdge ==
    LET p == task.p
        c == Change(p)
    IN  /\ AtChange
        /\ c.type = "edge"
        /\ \/ /\ SameEdge(c)
              /\ UNCHANGED <<edges, hits>>
           \/ /\ edges[c.src, c.dst] = NoEdge
              /\ EndsCurrent(p, c)
              /\ PutEdge(c.src, c.dst, c.tag)
              /\ hits' = [hits EXCEPT ![p][Cursor(p)] = @ + 1]
        /\ Goto("cursor")
        /\ UNCHANGED <<nodes, vec, props, phase, draft, ops, crashes, faults, dirty, deleted>>

\* None of the above: the change can neither be made nor counted as made.
Conflict(p) ==
    LET c == Change(p)
    IN  IF c.type = "edge"
        THEN /\ ~SameEdge(c)
             /\ edges[c.src, c.dst] = NoEdge => ~EndsCurrent(p, c)
        ELSE ~Exists(c.node) \/ ~(Replayed(p, c) \/ Expected(p, c))

\* A call ends with an error: opening the database fails with it.
EndWithError ==
    /\ task' = NoTask
    /\ phase' = IF task.kind = "repair" THEN "closed" ELSE phase

ResumeConflict ==
    /\ AtChange
    /\ Conflict(task.p)
    /\ EndWithError
    /\ UNCHANGED <<durable, draft, ops, crashes, faults, history>>

\* The cursor passes the change that was made.
AdvanceCursor ==
    /\ task.pc = "cursor"
    /\ props' = [props EXCEPT ![task.p].next = @ + 1]
    /\ Goto("change")
    /\ UNCHANGED <<nodes, vec, edges, phase, draft, ops, crashes, faults, history>>

\* All changes are made.
Finish ==
    /\ task.pc = "change"
    /\ props[task.p].next = Len(props[task.p].changes)
    /\ props' = [props EXCEPT ![task.p].status = "Applied"]
    /\ task' = NoTask
    /\ UNCHANGED <<nodes, vec, edges, phase, draft, ops, crashes, faults, history>>
------------------------------------------------------------------------------
(* open_runtime and failures. *)

Open ==
    /\ phase = "closed"
    /\ phase' = "opening"
    /\ UNCHANGED <<durable, task, draft, ops, crashes, faults, history>>

ToRepair == {p \in Ids : props[p].status = "Applying"}

\* Mutant of Repair: the database is handed out unrepaired.
OpenUnrepaired ==
    /\ phase = "opening" /\ task = NoTask
    /\ phase' = "open"
    /\ UNCHANGED <<durable, task, draft, ops, crashes, faults, history>>

\* repair_applying_proposals takes the proposals in key order and gives up on
\* the first one that fails; only then is the database handed out.
Repair ==
    /\ phase = "opening" /\ task = NoTask
    /\ IF ToRepair = {}
       THEN /\ phase' = "open"
            /\ UNCHANGED task
       ELSE /\ task' = [NoTask EXCEPT !.kind = "repair", !.pc = "change",
                          !.p = CHOOSE p \in ToRepair : \A q \in ToRepair : p <= q]
            /\ UNCHANGED phase
    /\ UNCHANGED <<durable, draft, ops, crashes, faults, history>>

\* The next storage call of the lock's holder fails.
Fault ==
    /\ task # NoTask
    /\ faults < MaxFaults
    /\ faults' = faults + 1
    /\ EndWithError
    /\ UNCHANGED <<durable, draft, ops, crashes, history>>

\* The process stops, in a call or between two.
Crash ==
    /\ phase # "closed"
    /\ crashes < MaxCrashes
    /\ crashes' = crashes + 1
    /\ phase' = "closed"
    /\ task' = NoTask
    /\ draft' = NoDraft
    /\ UNCHANGED <<durable, ops, faults, history>>
------------------------------------------------------------------------------
\* Some nodes are there, written once and indexed.
Written(emb) == [rev |-> 1, state |-> "Active", from |-> "created", to |-> "none",
                 emb |-> emb]

Init ==
    /\ \E present \in SUBSET Nodes, emb \in Embeddings :
          /\ nodes = [n \in Nodes |-> IF n \in present THEN Written(emb) ELSE NoNode]
          /\ vec = [n \in Nodes |-> IF n \in present THEN emb ELSE NoEmbedding]
    /\ edges = [e \in EdgeKeys |-> NoEdge]
    /\ props = [p \in Ids |-> NoProposal]
    /\ phase = "open" /\ task = NoTask /\ draft = NoDraft
    /\ ops = 0 /\ crashes = 0 /\ faults = 0
    /\ hits = [p \in Ids |-> [i \in 1 .. MaxChanges |-> 0]]
    /\ dirty = [p \in Ids |-> {}]
    /\ deleted = {}

\* The steps of the lock's holder after the one that took the lock.
TaskStep ==
    \/ DeleteVector \/ InsertVector \/ DeleteNode
    \/ Reconcile \/ ChangeNode \/ ChangeEdge \/ ResumeConflict
    \/ AdvanceCursor \/ Finish

Next ==
    \/ \E n \in Nodes :
          \/ \E state \in {"Pending", "Active"}, emb \in Embeddings : Insert(n, state, emb)
          \/ Retract(n)
          \/ Delete(n)
    \/ \E e \in EdgeKeys : CallAddEdge(e[1], e[2]) \/ CallRemoveEdge(e[1], e[2])
    \/ \E p \in Ids :
          \/ \E t \in Templates : Judge(p, t)
          \/ Apply(p)
          \/ Reject(p)
    \/ StoreProposal
    \/ TaskStep
    \/ Open \/ Repair
    \/ Fault \/ Crash

Spec == Init /\ [][Next]_vars

\* A call that runs goes on, and a closed database is opened again.
FairSpec == Spec /\ WF_vars(TaskStep) /\ WF_vars(Repair) /\ WF_vars(Open)
------------------------------------------------------------------------------
(* Properties. *)

\* Every variable has its type, and a cursor never passes the last change.
TypeOK ==
    /\ nodes \in [Nodes -> Node]
    /\ vec \in [Nodes -> Embeddings \cup {NoEmbedding}]
    /\ edges \in [EdgeKeys -> [rev : Nat, tag : STRING]]
    /\ props \in [Ids -> Proposal]
    /\ \A p \in Ids : props[p].next <= Len(props[p].changes)
    /\ phase \in {"closed", "opening", "open"}
    /\ task.kind \in {"none", "insert", "retract", "delete"} \cup Proposing
    /\ task.p \in Ids \cup {0}
    /\ task.pc \in {"none", "unindex", "index", "delete", "change", "cursor"}
    /\ draft.p \in Ids \cup {0} /\ draft.proposal \in Proposal
    /\ ops \in 0 .. MaxOps /\ crashes \in 0 .. MaxCrashes /\ faults \in 0 .. MaxFaults
    /\ hits \in [Ids -> [1 .. MaxChanges -> Nat]]
    /\ dirty \in [Ids -> SUBSET Nodes]
    /\ deleted \in SUBSET Nodes

Changes(p) == DOMAIN props[p].changes

\* However often a crash interrupts apply_proposal and repair, an applied
\* proposal has made each of its changes once, and one that was rejected or went
\* stale has made none.  When a storage call fails and apply_proposal is called
\* again after other mutations, still no change of a node is made twice.
ExactlyOnce ==
    \A p \in Ids :
        /\ \A i \in Changes(p) : props[p].changes[i].type # "edge" => hits[p][i] <= 1
        /\ faults = 0 =>
              /\ props[p].status \in {"Pending", "Rejected", "Stale"} =>
                    \A i \in Changes(p) : hits[p][i] = 0
              /\ props[p].status = "Applying" => \A i \in Changes(p) : hits[p][i] <= 1
              /\ props[p].status = "Applied" => \A i \in Changes(p) : hits[p][i] = 1

\* A change only ever overwrites the version of a node the lawyer judged, what
\* an earlier change of the same proposal made of it, or a version that shows
\* what that change asked for and that it took for its own; an edge joins two
\* such versions.  Nothing else that another caller or another proposal wrote in
\* between is touched, although storage calls fail and the lock changes hands.
OnlyJudgedChanged ==
    [][\A p \in Ids : \A i \in Changes(p) :
          hits'[p][i] > hits[p][i] =>
              Touched(props[p].changes[i]) \cap dirty[p] = {}]_vars

\* When a proposal becomes Applied the vector index agrees with every node it
\* changed, also when a crash fell between the node's row and its index (but not
\* when a storage call failed and others had the lock before the retry).
AppliedIsIndexed(p) ==
    \A i \in Changes(p) : props[p].changes[i].type # "edge" =>
        LET n == props[p].changes[i].node IN vec[n] = nodes[n].emb

\* Validation, changes and terminal status of a proposal are serializable, unless
\* a storage call fails half way: at the end nobody else has written a node of
\* the proposal since it was judged.
ApplyIsSerial(p) == TouchedBy(props[p].changes) \cap dirty[p] = {}

\* To others apply_proposal is one step: when the proposal becomes Applied, what
\* it changed is as it was judged and is indexed.
AppliedAtomically ==
    [][\A p \in Ids :
          (props[p].status = "Applying" /\ props'[p].status = "Applied" /\ faults = 0) =>
              AppliedIsIndexed(p) /\ ApplyIsSerial(p)]_vars

\* Every change is replay-safe: while no call is in progress and no storage call
\* has failed, an Applying proposal is not in conflict with the database, so that
\* the next open can resume it.
Resumable ==
    \A p \in Ids :
        (props[p].status = "Applying" /\ task = NoTask /\ faults = 0
            /\ props[p].next < Len(props[p].changes)) => ~Conflict(p)

\* apply_proposal and repair_applying_proposals can be interrupted and replayed:
\* no change is made twice or forgotten, and the replay meets no conflict.
ReplaySafe == TypeOK /\ ExactlyOnce /\ Resumable

\* A proposal that crashes interrupted is finished once the database is opened
\* again.
ResumeCompletes ==
    \A p \in Ids : props[p].status = "Applying" ~> (props[p].status = "Applied" \/ faults > 0)
==============================================================================
