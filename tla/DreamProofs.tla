----------------------------- MODULE DreamProofs -----------------------------
(***************************************************************************)
(* Proofs about Dream, for any number of maintain calls, any memories and  *)
(* any answers of the dreamer.                                             *)
(*                                                                         *)
(* A maintain call looks for a duplicate before it asks and again under    *)
(* the lock.  That the second look is enough rests on this: a run that     *)
(* does not count never counts again, because whoever writes a status      *)
(* later holds the lock for a run that counts.                             *)
(*                                                                         *)
(* A run is published as a whole or not at all because, between any two    *)
(* durable writes, what the run already shows and what the holder of the   *)
(* lock still has to write fit together (TaskFits); where nobody holds the *)
(* lock, what the run shows is what its rollback recognises (Published).   *)
(* Undoing spares the edits of others because a node that a run would      *)
(* rewrite is at the revision, or has the fingerprint, that only a run     *)
(* gives it (Spared).                                                      *)
(***************************************************************************)
EXTENDS Dream, FiniteSetTheorems, TLAPS

NodeType == [rev : Nat, state : States, tag : {"none", "raw", "dream", "edited"},
             owner : 0 .. NumRuns + 1, to : {"none", "now"}]
EdgeType == [rev : Nat, by : Runs \cup {0}]
HashType == SUBSET (Nodes \X Nat)
SnapshotType == [node : Nodes, state : States, to : {"none", "now"}, after : Nat]
Statuses == Counted \cup {"None", "Failed", "Repaired"}
RunType == [status : Statuses, hash : HashType,
            created : BOOLEAN, fingerprint : BOOLEAN, captured : Nat, cites : SUBSET Nodes,
            edges : Seq(AllEdges), superseded : Seq(SnapshotType)]
CallType == [pc : {"idle", "asked", "staged", "projected", "done"}, hash : HashType]
PlanType == [cites : {S \in SUBSET Nodes : IsFiniteSet(S)}, links : Seq(EdgeKeys),
             supersede : Seq(Nodes)]

\* The durable writes that a task may still have to make once its run is staged.
EdgeItems == [do : {"addEdge", "dropEdge", "removeEdge"}, edge : AllEdges]
TargetItems == [do : {"supersede", "restore", "reinstate"}, target : SnapshotType]
RunItems == [do : {"activate", "capture", "cleanup", "rollback", "retract"}]
StatusItems == [do : {"status"}, status : {"Completed", "Failed", "Repaired", "Reverted"}]
Items == EdgeItems \cup TargetItems \cup RunItems \cup StatusItems

\* What is left of the staging of run r.
Staging(r) ==
    \/ task.work = <<OnRun("id"), OnRun("fingerprint"), OnRun("stage"), OnRun("plan")>>
    \/ task.work = <<OnRun("fingerprint"), OnRun("stage"), OnRun("plan")>> /\ runs[r].created
    \/ task.work = <<OnRun("stage"), OnRun("plan")>>
    \/ task.work = <<OnRun("plan")>>

Kinds == {"complete", "undo", "revert", "repair"}

TaskTyped ==
    \/ task = NoTask
    \/ /\ task = [kind |-> task.kind, r |-> task.r, work |-> task.work, plan |-> task.plan]
       /\ task.r \in Runs
       /\ task.plan \in PlanType
       /\ \/ task.kind \in Kinds /\ task.work \in Seq(Items)
          \/ task.kind = "stage" /\ Staging(task.r)

Typed ==
    /\ nodes \in [Nodes -> NodeType]
    /\ edges \in [AllEdges -> EdgeType]
    /\ runs \in [Runs -> RunType]
    /\ \A r \in Runs : runs[r].fingerprint => runs[r].created
    /\ call \in [Runs -> CallType]
    /\ phase \in {"closed", "opening", "open"}
    /\ TaskTyped
    /\ writer \in [Nodes -> Runs \cup {0}]

\* The run a task works for counts; its last write ends the task.
TaskCounts == task # NoTask => runs[task.r].status \in Counted

IInv == Typed /\ TaskCounts /\ NeverDreamedTwice

USE DreamAssumption

------------------------------------------------------------------------------
(* Types of what the operations build. *)

LEMMA OutInNodes == \A r \in Runs : Out[r] \in Nodes /\ Out[r] \in Outputs
  BY DEF Nodes, Outputs

LEMMA NoTaskTyped == NoTask.plan \in PlanType /\ NoTask.work = <<>>
<1>1. IsFiniteSet({})
  BY FS_EmptySet
<1>2. <<>> \in Seq(EdgeKeys) /\ <<>> \in Seq(Nodes)
  OBVIOUS
<1>. QED
  BY <1>1, <1>2 DEF NoTask, PlanType, Plan

LEMMA RevTyped ==
  ASSUME NEW node \in NodeType, NEW rev \in Nat
  PROVE  [node EXCEPT !.rev = rev] \in NodeType
  BY DEF NodeType

\* The rows that the operations write.
LEMMA PutTyped ==
  ASSUME Typed, NEW n \in Nodes, NEW node \in NodeType, NEW who \in Runs \cup {0},
         Put(n, node, who)
  PROVE  nodes' \in [Nodes -> NodeType] /\ writer' \in [Nodes -> Runs \cup {0}]
<1> DEFINE rev == IF Exists(n) THEN nodes[n].rev + 1 ELSE 1
<1>1. nodes[n].rev \in Nat
  BY DEF Typed, NodeType
<1>2. rev \in Nat
  BY <1>1
<1>3. nodes' = [nodes EXCEPT ![n] = [node EXCEPT !.rev = rev]]
  BY DEF Put
<1> HIDE DEF rev
<1>4. [node EXCEPT !.rev = rev] \in NodeType
  BY <1>2, RevTyped
<1>. QED
  BY <1>3, <1>4 DEF Typed, Put

LEMMA RowEdits ==
  ASSUME NEW row \in NodeType
  PROVE  /\ [row EXCEPT !.tag = "edited"].state = row.state
         /\ [row EXCEPT !.state = "Retracted", !.to = "now"].state = "Retracted"
<1>1. [row EXCEPT !.tag = "edited"].state = row.state
  BY DEF NodeType
<1>2. [row EXCEPT !.state = "Retracted", !.to = "now"].state = "Retracted"
  BY DEF NodeType
<1>. QED
  BY <1>1, <1>2

LEMMA RowsTyped ==
  ASSUME Typed, NEW n \in Nodes
  PROVE  /\ [nodes[n] EXCEPT !.tag = "edited"] \in NodeType
         /\ [nodes[n] EXCEPT !.state = "Retracted", !.to = "now"] \in NodeType
         /\ [nodes[n] EXCEPT !.state = "Superseded", !.to = "now"] \in NodeType
         /\ [nodes[n] EXCEPT !.state = "Active"] \in NodeType
         /\ NoRow("Gone") \in NodeType /\ NoRow("Unborn") \in NodeType
         /\ Row("Active", "raw", NoOwner) \in NodeType
         /\ Row("Active", "dream", EarlierRun) \in NodeType
         /\ \A r \in Runs : StagedRow(r) \in NodeType
<1>1. nodes[n] \in NodeType
  BY DEF Typed
<1>2. /\ [nodes[n] EXCEPT !.tag = "edited"] \in NodeType
      /\ [nodes[n] EXCEPT !.state = "Retracted", !.to = "now"] \in NodeType
      /\ [nodes[n] EXCEPT !.state = "Superseded", !.to = "now"] \in NodeType
      /\ [nodes[n] EXCEPT !.state = "Active"] \in NodeType
  BY <1>1 DEF NodeType, States
<1>3. /\ NoRow("Gone") \in NodeType /\ NoRow("Unborn") \in NodeType
      /\ Row("Active", "raw", NoOwner) \in NodeType
      /\ Row("Active", "dream", EarlierRun) \in NodeType
      /\ \A r \in Runs : StagedRow(r) \in NodeType
  BY DEF NodeType, States, NoRow, Row, StagedRow, NoOwner, EarlierRun, Runs
<1>. QED
  BY <1>2, <1>3

LEMMA RestoredTyped ==
  ASSUME Typed, NEW s \in SnapshotType
  PROVE  s.node \in Nodes /\ RestoredRow(s) \in NodeType
<1>1. s.node \in Nodes /\ s.state \in States /\ s.to \in {"none", "now"}
  BY DEF SnapshotType
<1>2. nodes[s.node] \in NodeType
  BY <1>1 DEF Typed
<1>. QED
  BY <1>1, <1>2 DEF NodeType, RestoredRow

LEMMA ConcatTyped ==
  ASSUME NEW S, NEW s \in Seq(S), NEW t \in Seq(S)
  PROVE  s \o t \in Seq(S)
  OBVIOUS

\* Every list of durable writes is a sequence of them.
LEMMA WorkTyped ==
  ASSUME Typed, NEW r \in Runs
  PROVE  /\ CompleteWork(r) \in Seq(Items)
         /\ \A status \in {"Failed", "Repaired"} :
              CleanupWork(r, status) \in Seq(Items) /\ RollbackWork(r, status) \in Seq(Items)
         /\ RevertWork(r) \in Seq(Items)
<1>1. runs[r].edges \in Seq(AllEdges) /\ runs[r].superseded \in Seq(SnapshotType)
  BY DEF Typed, RunType
<1>2. \A do \in {"addEdge", "dropEdge", "removeEdge"} : EachEdge(do, r) \in Seq(Items)
  BY <1>1 DEF EachEdge, OnEdge, Items, EdgeItems
<1>3. \A do \in {"supersede", "restore", "reinstate"} : EachTarget(do, r) \in Seq(Items)
  BY <1>1 DEF EachTarget, OnTarget, Items, TargetItems
<1>4. \A do \in {"activate", "capture", "cleanup", "rollback", "retract"} : OnRun(do) \in Items
  BY DEF OnRun, Items, RunItems
<1>5. /\ IfCreated(r, <<OnRun("activate"), OnRun("capture")>>) \in Seq(Items)
      /\ IfCreated(r, <<OnRun("cleanup")>>) \in Seq(Items)
      /\ IfCreated(r, <<OnRun("rollback")>>) \in Seq(Items)
      /\ IfCreated(r, <<OnRun("retract")>>) \in Seq(Items)
  BY <1>4 DEF IfCreated
<1>6. \A status \in {"Completed", "Failed", "Repaired", "Reverted"} :
        <<SetStatus(status)>> \in Seq(Items)
  <2>1. \A status \in {"Completed", "Failed", "Repaired", "Reverted"} : SetStatus(status) \in Items
    BY DEF SetStatus, Items, StatusItems
  <2>. QED
    BY <2>1
<1>7. CompleteWork(r) \in Seq(Items)
  BY <1>2, <1>3, <1>5, <1>6, ConcatTyped DEF CompleteWork
<1>8. RevertWork(r) \in Seq(Items)
  BY <1>2, <1>3, <1>5, <1>6, ConcatTyped DEF RevertWork
<1>9. ASSUME NEW status \in {"Failed", "Repaired"}
      PROVE  CleanupWork(r, status) \in Seq(Items) /\ RollbackWork(r, status) \in Seq(Items)
  BY <1>2, <1>3, <1>5, <1>6, ConcatTyped DEF CleanupWork, RollbackWork
<1>. QED
  BY <1>7, <1>8, <1>9

\* The task of a holder of the lock.
LEMMA StartTyped ==
  ASSUME NEW kind \in Kinds, NEW r \in Runs, NEW work \in Seq(Items)
  PROVE  task' = Start(kind, r, work) => TaskTyped' /\ task'.r = r
<1> SUFFICES ASSUME task' = Start(kind, r, work) PROVE TaskTyped' /\ task'.r = r
  OBVIOUS
<1>1. /\ task'.kind = kind /\ task'.r = r /\ task'.work = work
      /\ task'.plan = NoTask.plan
      /\ task' = [kind |-> task'.kind, r |-> task'.r, work |-> task'.work, plan |-> task'.plan]
  BY DEF Start
<1>. QED
  BY <1>1, NoTaskTyped DEF TaskTyped

\* The edges planned for an output: one to each memory it cites, then the links.
LEMMA PlannedTyped ==
  ASSUME Typed, NEW r \in Runs, NEW plan \in PlanType
  PROVE  /\ PlannedEdges(r, plan) \in Seq(AllEdges)
         /\ [i \in DOMAIN plan.supersede |-> Snapshot(plan.supersede[i])] \in Seq(SnapshotType)
<1> DEFINE n == Cardinality(plan.cites)
<1>1. IsFiniteSet(plan.cites) /\ plan.cites \subseteq Nodes
      /\ plan.links \in Seq(EdgeKeys) /\ plan.supersede \in Seq(Nodes)
  BY DEF PlanType
<1>2. n \in Nat /\ \E f \in [1 .. n -> plan.cites] : IsInjective(f)
  <2>1. n \in Nat /\ ExistsBijection(1 .. n, plan.cites)
    BY <1>1, FS_CardinalityType
  <2>. QED
    BY <2>1 DEF ExistsBijection, Bijection, Injection
<1>3. SetToSeq(plan.cites) \in [1 .. n -> plan.cites]
  BY <1>2 DEF SetToSeq
<1> DEFINE cited == SetToSeq(plan.cites)
           outgoing == [i \in DOMAIN cited |-> <<Out[r], cited[i]>>]
<1>4. outgoing \in Seq(AllEdges)
  <2> HIDE DEF n, cited
  <2>1. cited \in [1 .. n -> plan.cites] /\ n \in Nat
    BY <1>2, <1>3 DEF cited, n
  <2>2. \A i \in 1 .. n : <<Out[r], cited[i]>> \in AllEdges
    BY <1>1, <2>1, OutInNodes DEF AllEdges
  <2>. QED
    BY <2>1, <2>2
<1>5. plan.links \in Seq(AllEdges)
  BY <1>1 DEF AllEdges
<1>6. PlannedEdges(r, plan) \in Seq(AllEdges)
  <2>1. PlannedEdges(r, plan) = outgoing \o plan.links
    BY DEF PlannedEdges
  <2> HIDE DEF outgoing
  <2>. QED
    BY <1>4, <1>5, <2>1
<1>7. \A m \in Nodes : Snapshot(m) \in SnapshotType
  BY DEF Snapshot, SnapshotType, Typed, NodeType
<1>8. [i \in DOMAIN plan.supersede |-> Snapshot(plan.supersede[i])] \in Seq(SnapshotType)
  BY <1>1, <1>7
<1>. QED
  BY <1>6, <1>8

\* The next write of a task.
LEMMA HeadTyped ==
  ASSUME Typed, task.work # <<>>
  PROVE  LET h == Head(task.work)
         IN  /\ task # NoTask /\ task.r \in Runs
             /\ h.do \in {"addEdge", "dropEdge", "removeEdge"} => h.edge \in AllEdges
             /\ h.do \in {"supersede", "restore", "reinstate"} => h.target \in SnapshotType
             /\ h.do = "status" => h.status \in {"Completed", "Failed", "Repaired", "Reverted"}
             /\ h.do = "fingerprint" => runs[task.r].created
<1> DEFINE h == Head(task.work)
<1>1. task # NoTask
  BY NoTaskTyped
<1>2. CASE task.kind \in Kinds /\ task.work \in Seq(Items)
  <2>1. h \in Items
    BY <1>2
  <2> HIDE DEF h
  <2>2. /\ h.do \in {"addEdge", "dropEdge", "removeEdge"} => h.edge \in AllEdges
        /\ h.do \in {"supersede", "restore", "reinstate"} => h.target \in SnapshotType
        /\ h.do = "status" => h.status \in {"Completed", "Failed", "Repaired", "Reverted"}
        /\ h.do # "fingerprint"
    BY <2>1 DEF Items, EdgeItems, TargetItems, RunItems, StatusItems
  <2>. QED
    BY <1>1, <2>2 DEF Typed, TaskTyped, h
<1>3. CASE task.kind = "stage" /\ Staging(task.r)
  <2>1. /\ h.do \in {"id", "fingerprint", "stage", "plan"}
        /\ h.do = "fingerprint" => runs[task.r].created
    BY <1>3 DEF Staging, OnRun
  <2> HIDE DEF h
  <2>. QED
    BY <1>1, <2>1 DEF Typed, TaskTyped, h
<1>. QED
  BY <1>1, <1>2, <1>3 DEF Typed, TaskTyped

\* A task whose next write is made goes on with the rest.
LEMMA DoneTyped ==
  ASSUME Typed, task.work # <<>>, Head(task.work).do # "plan", Done,
         \A r \in Runs : runs[r].created => runs'[r].created,
         Head(task.work).do = "id" => runs'[task.r].created
  PROVE  TaskTyped' /\ task'.r = task.r
<1>1. task # NoTask /\ task.r \in Runs
  BY HeadTyped
<1>2. task = [kind |-> task.kind, r |-> task.r, work |-> task.work, plan |-> task.plan]
      /\ task.plan \in PlanType
  BY <1>1 DEF Typed, TaskTyped
<1>3. task' = [kind |-> task.kind, r |-> task.r, work |-> Tail(task.work), plan |-> task.plan]
  BY <1>2 DEF Done
<1>4. task'.kind = task.kind /\ task'.r = task.r /\ task'.work = Tail(task.work)
      /\ task'.plan = task.plan
  BY <1>3
<1>5. CASE task.kind \in Kinds /\ task.work \in Seq(Items)
  <2>1. Tail(task.work) \in Seq(Items)
    BY <1>5
  <2>. QED
    BY <1>1, <1>2, <1>3, <1>4, <1>5, <2>1 DEF TaskTyped
<1>6. CASE task.kind = "stage" /\ Staging(task.r)
  <2>1. Staging(task.r)'
    <3>1. CASE task.work = <<OnRun("id"), OnRun("fingerprint"), OnRun("stage"), OnRun("plan")>>
      <4>1. Head(task.work).do = "id"
            /\ Tail(task.work) = <<OnRun("fingerprint"), OnRun("stage"), OnRun("plan")>>
        BY <3>1 DEF OnRun
      <4>. QED
        BY <1>4, <4>1 DEF Staging
    <3>2. CASE task.work = <<OnRun("fingerprint"), OnRun("stage"), OnRun("plan")>>
      BY <1>4, <3>2 DEF Staging
    <3>3. CASE task.work = <<OnRun("stage"), OnRun("plan")>>
      BY <1>4, <3>3 DEF Staging
    <3>4. CASE task.work = <<OnRun("plan")>>
      BY <3>4 DEF OnRun
    <3>. QED
      BY <1>6, <3>1, <3>2, <3>3, <3>4 DEF Staging
  <2>. QED
    BY <1>1, <1>2, <1>3, <1>4, <1>6, <2>1 DEF TaskTyped
<1>. QED
  BY <1>1, <1>5, <1>6 DEF Typed, TaskTyped

------------------------------------------------------------------------------
LEMMA InitIInv == Init => IInv
<1> SUFFICES ASSUME Init PROVE IInv
  OBVIOUS
<1>1. nodes \in [Nodes -> NodeType]
  <2>1. /\ NoRow("Unborn") \in NodeType
        /\ Row("Active", "raw", NoOwner) \in NodeType
        /\ Row("Active", "dream", EarlierRun) \in NodeType
    BY DEF NodeType, States, NoRow, Row, NoOwner, EarlierRun
  <2>. QED
    BY <2>1 DEF Init
<1>2. edges \in [AllEdges -> EdgeType]
  BY DEF Init, NoEdge, EdgeType
<1>3. NoRun \in RunType /\ ~NoRun.fingerprint /\ NoRun.status = "None"
  BY DEF NoRun, RunType, HashType, Statuses
<1>4. NoCall \in CallType
  BY DEF NoCall, CallType, HashType
<1>5. Typed
  BY <1>1, <1>2, <1>3, <1>4 DEF Init, Typed, TaskTyped
<1>6. TaskCounts /\ NeverDreamedTwice
  BY <1>3 DEF Init, TaskCounts, NeverDreamedTwice, Counted
<1>. QED
  BY <1>5, <1>6 DEF IInv

\* A run that does not count stays so, and a run keeps its hash: nothing is
\* dreamed twice that was not before.
LEMMA CountsFrame ==
  ASSUME NeverDreamedTwice,
         \A r \in Runs : runs'[r].status \in Counted =>
                           runs[r].status \in Counted /\ runs'[r].hash = runs[r].hash
  PROVE  NeverDreamedTwice'
  BY DEF NeverDreamedTwice

\* Steps that change neither a run nor a task.
LEMMA SameRunsIInv ==
  ASSUME IInv, UNCHANGED <<runs, task>>,
         nodes' \in [Nodes -> NodeType], edges' \in [AllEdges -> EdgeType],
         call' \in [Runs -> CallType], phase' \in {"closed", "opening", "open"},
         writer' \in [Nodes -> Runs \cup {0}]
  PROVE  IInv'
<1>1. TaskTyped'
  BY DEF IInv, Typed, TaskTyped, Staging
<1>2. Typed' /\ TaskCounts'
  BY <1>1 DEF IInv, Typed, TaskCounts
<1>. QED
  BY <1>2, CountsFrame DEF IInv

LEMMA CallerIInv ==
  ASSUME IInv, NEW n \in Nodes, Insert(n) \/ Retract(n) \/ Delete(n)
  PROVE  IInv'
<1>1. UNCHANGED <<edges, runs, call, phase, task>>
  BY DEF Insert, Retract, Delete
<1>2. nodes' \in [Nodes -> NodeType] /\ writer' \in [Nodes -> Runs \cup {0}]
  <2>1. CASE Insert(n)
    BY <2>1, RowsTyped, PutTyped DEF Insert, IInv
  <2>2. CASE Retract(n)
    BY <2>2, RowsTyped, PutTyped DEF Retract, IInv
  <2>3. CASE Delete(n)
    BY <2>3, RowsTyped DEF Delete, IInv, Typed
  <2>. QED
    BY <2>1, <2>2, <2>3
<1>. QED
  BY <1>1, <1>2, SameRunsIInv DEF IInv, Typed

LEMMA PutEdgeTyped ==
  ASSUME Typed, NEW e \in AllEdges, NEW by \in Runs \cup {0}, PutEdge(e, by)
  PROVE  edges' \in [AllEdges -> EdgeType]
  BY DEF Typed, PutEdge, EdgeType

LEMMA CallAddEdgeIInv ==
  ASSUME IInv, NEW e \in EdgeKeys, CallAddEdge(e)
  PROVE  IInv'
<1>1. UNCHANGED <<nodes, runs, call, phase, task, writer>> /\ PutEdge(e, 0)
  BY DEF CallAddEdge
<1>2. edges' \in [AllEdges -> EdgeType]
  BY <1>1, PutEdgeTyped DEF AllEdges, IInv
<1>. QED
  BY <1>1, <1>2, SameRunsIInv DEF IInv, Typed

------------------------------------------------------------------------------
(* maintain *)

LEMMA HashTyped ==
  ASSUME Typed
  PROVE  Hash(Sources) \in HashType
<1>1. Sources \subseteq Nodes
  BY DEF Sources, PendingSources, Selectable
<1>2. \A n \in Nodes : nodes[n].rev \in Nat
  BY DEF Typed, NodeType
<1>. QED
  BY <1>1, <1>2 DEF Hash, HashType

LEMMA ReturnTyped ==
  ASSUME Typed, NEW r \in Runs, Return(r)
  PROVE  call' \in [Runs -> CallType]
  BY DEF Typed, Return, NoCall, CallType, HashType

LEMMA WaitIInv ==
  ASSUME IInv, NEW r \in Runs, Ask(r) \/ Cancel(r) \/ Project(r)
  PROVE  IInv'
<1>1. UNCHANGED <<edges, runs, phase, task, writer>>
  BY DEF Ask, Cancel, Project, durable
<1>2. call' \in [Runs -> CallType]
  <2>1. CASE Ask(r)
    BY <2>1, HashTyped DEF Ask, IInv, Typed, CallType
  <2>2. CASE Cancel(r)
    BY <2>2, ReturnTyped DEF Cancel, IInv
  <2>3. CASE Project(r)
    BY <2>3 DEF Project, IInv, Typed, CallType
  <2>. QED
    BY <2>1, <2>2, <2>3
<1>3. nodes' \in [Nodes -> NodeType]
  <2>1. Out[r] \in Nodes /\ nodes \in [Nodes -> NodeType]
    BY OutInNodes DEF IInv, Typed
  <2>2. nodes' = nodes \/ nodes' = [nodes EXCEPT ![Out[r]].rev = @ + 1]
    BY DEF Ask, Cancel, Project, durable
  <2>3. nodes[Out[r]] \in NodeType /\ nodes[Out[r]].rev + 1 \in Nat
    BY <2>1 DEF NodeType
  <2>4. [nodes[Out[r]] EXCEPT !.rev = @ + 1] \in NodeType
    BY <2>3, RevTyped, Zenon
  <2>. QED
    BY <2>1, <2>2, <2>4
<1>. QED
  BY <1>1, <1>2, <1>3, SameRunsIInv DEF IInv, Typed

\* The answer is checked against every run that counts, under the lock.
LEMMA AnswerIInv ==
  ASSUME IInv, NEW r \in Runs, NEW plan \in Plans, Answer(r, plan)
  PROVE  IInv'
<1>1. UNCHANGED <<nodes, edges, phase, writer>> /\ task = NoTask
  BY DEF Answer, Locked
<1>2. CASE Return(r) /\ UNCHANGED <<runs, task>>
  BY <1>1, <1>2, ReturnTyped, SameRunsIInv DEF IInv, Typed
<1> DEFINE run == [NoRun EXCEPT !.status = "Pending", !.hash = call[r].hash, !.cites = plan.cites]
<1>3. CASE ~(Return(r) /\ UNCHANGED <<runs, task>>)
  <2>1. /\ ~Duplicate(call[r].hash)
        /\ runs' = [runs EXCEPT ![r] = run]
        /\ task' = [Start("stage", r, StageWork(plan)) EXCEPT !.plan = plan]
        /\ UNCHANGED call
    BY <1>3 DEF Answer
  <2>2. plan \in PlanType
    BY DEF PlanType
  <2>3. run \in RunType /\ run.status = "Pending" /\ run.hash = call[r].hash /\ ~run.fingerprint
    <3>1. call[r].hash \in HashType /\ plan.cites \subseteq Nodes
      BY DEF IInv, Typed, CallType
    <3>2. NoRun \in RunType /\ ~NoRun.fingerprint
      BY DEF NoRun, RunType, HashType, Statuses
    <3>3. "Pending" \in Statuses
      BY DEF Statuses, Counted
    <3>. QED
      BY <3>1, <3>2, <3>3 DEF RunType
  <2> HIDE DEF run
  <2>4. /\ task' = [kind |-> "stage", r |-> r, work |-> StageWork(plan), plan |-> plan]
        /\ task'.kind = "stage" /\ task'.r = r /\ task'.work = StageWork(plan) /\ task'.plan = plan
    BY <2>1 DEF Start
  <2>5. Staging(r)'
    <3>1. \/ StageWork(plan) = <<OnRun("id"), OnRun("fingerprint"), OnRun("stage")>> \o <<OnRun("plan")>>
          \/ StageWork(plan) = <<>> \o <<OnRun("plan")>>
      BY DEF StageWork
    <3>. QED
      BY <2>4, <3>1 DEF Staging
  <2>6. TaskTyped'
    BY <2>2, <2>4, <2>5 DEF TaskTyped
  <2>7. runs' \in [Runs -> RunType] /\ \A q \in Runs : runs'[q].fingerprint => runs'[q].created
    BY <2>1, <2>3 DEF IInv, Typed
  <2>8. Typed'
    BY <1>1, <2>1, <2>6, <2>7 DEF IInv, Typed
  <2>9. TaskCounts'
    BY <2>1, <2>3, <2>4 DEF TaskCounts, Counted, IInv, Typed
  <2>10. NeverDreamedTwice'
    <3>1. \A q \in Runs : q # r => runs'[q] = runs[q]
      BY <2>1 DEF IInv, Typed
    <3>2. runs'[r].hash = call[r].hash
      BY <2>1, <2>3 DEF IInv, Typed
    <3>3. \A q \in Runs : runs[q].status \in Counted => runs[q].hash # call[r].hash
      BY <2>1 DEF Duplicate
    <3>. QED
      BY <3>1, <3>2, <3>3 DEF IInv, NeverDreamedTwice
  <2>. QED
    BY <2>8, <2>9, <2>10 DEF IInv
<1>. QED
  BY <1>2, <1>3

\* The runs a step leaves counting, and what it writes into them.
LEMMA RunsIInv ==
  ASSUME IInv, TaskTyped', task' # NoTask => task'.r \in Runs /\ runs'[task'.r].status \in Counted,
         runs' \in [Runs -> RunType],
         \A r \in Runs : runs'[r].fingerprint => runs'[r].created,
         \A r \in Runs : runs'[r].status \in Counted =>
                           runs[r].status \in Counted /\ runs'[r].hash = runs[r].hash,
         nodes' \in [Nodes -> NodeType], edges' \in [AllEdges -> EdgeType],
         call' \in [Runs -> CallType], phase' \in {"closed", "opening", "open"},
         writer' \in [Nodes -> Runs \cup {0}]
  PROVE  IInv'
<1>1. Typed' /\ TaskCounts'
  BY DEF Typed, TaskCounts
<1>. QED
  BY <1>1, CountsFrame DEF IInv

\* A write of a task that changes no run.
LEMMA WriteIInv ==
  ASSUME IInv, task.work # <<>>, Head(task.work).do \notin {"id", "plan"}, Done \/ RollBack,
         runs' = runs, call' = call, phase' = phase,
         nodes' \in [Nodes -> NodeType], edges' \in [AllEdges -> EdgeType],
         writer' \in [Nodes -> Runs \cup {0}]
  PROVE  IInv'
<1>1. task # NoTask /\ task.r \in Runs /\ runs[task.r].status \in Counted
  BY HeadTyped DEF IInv, TaskCounts
<1>2. TaskTyped' /\ task'.r = task.r
  <2>1. CASE Done
    BY <2>1, DoneTyped DEF IInv
  <2>2. CASE RollBack
    <3>1. RollbackWork(task.r, "Failed") \in Seq(Items)
      BY <1>1, WorkTyped DEF IInv
    <3>. QED
      BY <1>1, <2>2, <3>1, StartTyped DEF RollBack, Kinds
  <2>. QED
    BY <2>1, <2>2
<1>. QED
  BY <1>1, <1>2, RunsIInv DEF IInv, Typed

LEMMA EdgeStepIInv ==
  ASSUME IInv, AddEdge \/ DropEdge \/ RemoveEdge
  PROVE  IInv'
<1> DEFINE h == Head(task.work)
<1>1. task.work # <<>> /\ h.do \in {"addEdge", "dropEdge", "removeEdge"}
      /\ UNCHANGED <<nodes, runs, call, phase, writer>>
  BY DEF AddEdge, DropEdge, RemoveEdge, Doing
<1>2. h.edge \in AllEdges /\ task.r \in Runs
  BY <1>1, HeadTyped DEF IInv
<1>3. Done \/ RollBack
  BY DEF AddEdge, DropEdge, RemoveEdge
<1>4. edges' \in [AllEdges -> EdgeType]
  <2>1. edges \in [AllEdges -> EdgeType] /\ NoEdge \in EdgeType
    BY DEF IInv, Typed, EdgeType, NoEdge
  <2>2. CASE AddEdge
    <3>1. PutEdge(h.edge, task.r) \/ UNCHANGED edges
      BY <2>2 DEF AddEdge
    <3>. QED
      BY <1>2, <2>1, <3>1, PutEdgeTyped DEF IInv
  <2>3. CASE DropEdge \/ RemoveEdge
    <3> HIDE DEF h
    <3>. QED
      BY <1>2, <2>1, <2>3 DEF DropEdge, RemoveEdge, h
  <2>. QED
    BY <2>2, <2>3
<1>. QED
  BY <1>1, <1>3, <1>4, WriteIInv DEF IInv, Typed

\* The steps that write the run's output.
LEMMA OutputStepIInv ==
  ASSUME IInv, InsertStaged \/ Activate \/ Cleanup \/ RollbackOutput \/ RetractOutput
  PROVE  IInv'
<1> DEFINE h == Head(task.work)
<1>1. task.work # <<>> /\ h.do \in {"stage", "activate", "cleanup", "rollback", "retract"}
      /\ UNCHANGED <<edges, runs, call, phase>> /\ Done
  BY DEF InsertStaged, Activate, Cleanup, RollbackOutput, RetractOutput, Doing
<1>2. task.r \in Runs /\ Out[task.r] \in Nodes
  BY <1>1, HeadTyped, OutInNodes DEF IInv
<1>3. \/ Put(Out[task.r], StagedRow(task.r), task.r)
      \/ Put(Out[task.r], [nodes[Out[task.r]] EXCEPT !.state = "Active"], task.r)
      \/ Put(Out[task.r], [nodes[Out[task.r]] EXCEPT !.state = "Retracted", !.to = "now"], task.r)
      \/ UNCHANGED <<nodes, writer>>
  BY DEF InsertStaged, Activate, Cleanup, RollbackOutput, RetractOutput, UndoOutput, RetractedRow
<1>4. nodes' \in [Nodes -> NodeType] /\ writer' \in [Nodes -> Runs \cup {0}]
  <2>1. CASE UNCHANGED <<nodes, writer>>
    BY <2>1 DEF IInv, Typed
  <2>. QED
    BY <1>2, <1>3, <2>1, RowsTyped, PutTyped DEF IInv
<1>. QED
  BY <1>1, <1>4, WriteIInv DEF IInv, Typed

\* The steps that write a superseded memory.
LEMMA TargetStepIInv ==
  ASSUME IInv, Supersede \/ Restore \/ Reinstate
  PROVE  IInv'
<1> DEFINE s == Head(task.work).target
<1>1. task.work # <<>> /\ Head(task.work).do \in {"supersede", "restore", "reinstate"}
      /\ UNCHANGED <<edges, runs, call, phase>> /\ (Done \/ RollBack)
  BY DEF Supersede, Restore, Reinstate, Doing
<1>2. task.r \in Runs /\ s \in SnapshotType
  BY <1>1, HeadTyped DEF IInv
<1>3. \/ Put(s.node, [nodes[s.node] EXCEPT !.state = "Superseded", !.to = "now"], task.r)
      \/ Put(s.node, RestoredRow(s), task.r)
      \/ UNCHANGED <<nodes, writer>>
  BY DEF Supersede, Restore, Reinstate
<1> HIDE DEF s
<1>4. s.node \in Nodes /\ RestoredRow(s) \in NodeType
      /\ [nodes[s.node] EXCEPT !.state = "Superseded", !.to = "now"] \in NodeType
  BY <1>2, RestoredTyped, RowsTyped DEF IInv
<1>5. nodes' \in [Nodes -> NodeType] /\ writer' \in [Nodes -> Runs \cup {0}]
  <2>1. CASE UNCHANGED <<nodes, writer>>
    BY <2>1 DEF IInv, Typed
  <2>. QED
    BY <1>2, <1>3, <1>4, <2>1, PutTyped DEF IInv
<1>. QED
  BY <1>1, <1>5, WriteIInv DEF IInv, Typed

\* The steps that write the run itself and leave its status alone.
LEMMA RecordIInv ==
  ASSUME IInv, RecordId \/ RecordFingerprint \/ CaptureRevision
  PROVE  IInv'
<1>1. task.work # <<>> /\ Head(task.work).do \in {"id", "fingerprint", "capture"}
      /\ UNCHANGED <<nodes, edges, call, phase, writer>> /\ Done
  BY DEF RecordId, RecordFingerprint, CaptureRevision, Doing
<1>2. task # NoTask /\ task.r \in Runs /\ runs[task.r].status \in Counted
      /\ runs[task.r] \in RunType /\ Out[task.r] \in Nodes
  BY <1>1, HeadTyped, OutInNodes DEF IInv, Typed, TaskCounts
<1>3. PICK run \in RunType :
        /\ runs' = [runs EXCEPT ![task.r] = run]
        /\ run.status = runs[task.r].status /\ run.hash = runs[task.r].hash
        /\ runs[task.r].created => run.created
        /\ run.fingerprint => run.created
        /\ Head(task.work).do = "id" => run.created
  <2> DEFINE old == runs[task.r]
  <2>0. old \in RunType /\ (old.fingerprint => old.created)
    BY <1>2 DEF IInv, Typed
  <2>1. CASE RecordId
    <3> DEFINE run == [old EXCEPT !.created = TRUE]
    <3>1. runs' = [runs EXCEPT ![task.r] = run]
      BY <2>1 DEF RecordId
    <3> HIDE DEF old
    <3>2. /\ run \in RunType /\ run.status = old.status /\ run.hash = old.hash
          /\ run.created
      BY <2>0 DEF RunType
    <3> HIDE DEF run
    <3>. QED
      BY <3>1, <3>2 DEF old
  <2>2. CASE RecordFingerprint
    <3> DEFINE run == [old EXCEPT !.fingerprint = TRUE]
    <3>1. runs' = [runs EXCEPT ![task.r] = run] /\ old.created
          /\ Head(task.work).do # "id"
      BY <2>2, <1>1, HeadTyped DEF RecordFingerprint, Doing, IInv
    <3> HIDE DEF old
    <3>2. /\ run \in RunType /\ run.status = old.status /\ run.hash = old.hash
          /\ run.created = old.created
      BY <2>0 DEF RunType
    <3> HIDE DEF run
    <3>. QED
      BY <3>1, <3>2 DEF old
  <2>3. CASE CaptureRevision
    <3> DEFINE rev == nodes[Out[task.r]].rev
               run == [old EXCEPT !.captured = rev]
    <3>1. runs' = [runs EXCEPT ![task.r] = run] /\ Head(task.work).do # "id"
      BY <2>3 DEF CaptureRevision, Doing
    <3>2. rev \in Nat
      BY <1>2 DEF IInv, Typed, NodeType
    <3> HIDE DEF old, rev
    <3>3. /\ run \in RunType /\ run.status = old.status /\ run.hash = old.hash
          /\ run.created = old.created /\ run.fingerprint = old.fingerprint
      BY <2>0, <3>2 DEF RunType
    <3> HIDE DEF run
    <3>. QED
      BY <2>0, <3>1, <3>3 DEF old
  <2>. QED
    BY <2>1, <2>2, <2>3
<1>4. /\ runs' \in [Runs -> RunType] /\ runs'[task.r] = run
      /\ \A r \in Runs : r # task.r => runs'[r] = runs[r]
  BY <1>2, <1>3 DEF IInv, Typed
<1>5. TaskTyped' /\ task'.r = task.r
  BY <1>1, <1>2, <1>3, <1>4, DoneTyped DEF IInv
<1>6. \A r \in Runs : /\ runs'[r].fingerprint => runs'[r].created
                      /\ runs'[r].status \in Counted =>
                           runs[r].status \in Counted /\ runs'[r].hash = runs[r].hash
  BY <1>3, <1>4 DEF IInv, Typed
<1>. QED
  BY <1>1, <1>2, <1>3, <1>4, <1>5, <1>6, RunsIInv DEF IInv, Typed

\* The plan is the last write of the staging.
LEMMA RecordPlanIInv ==
  ASSUME IInv, RecordPlan
  PROVE  IInv'
<1>1. task.work # <<>> /\ task' = NoTask
      /\ call' = [call EXCEPT ![task.r].pc = "staged"]
      /\ UNCHANGED <<nodes, edges, phase, writer>>
  BY DEF RecordPlan, Doing
<1>2. task.r \in Runs /\ task.plan \in PlanType
  BY <1>1, HeadTyped DEF IInv, Typed, TaskTyped
<1> DEFINE r == task.r
           es == PlannedEdges(task.r, task.plan)
           ss == [i \in DOMAIN task.plan.supersede |-> Snapshot(task.plan.supersede[i])]
<1>3. es \in Seq(AllEdges) /\ ss \in Seq(SnapshotType)
  BY <1>2, PlannedTyped DEF IInv
<1>4. runs' = [runs EXCEPT ![r].edges = es, ![r].superseded = ss]
  BY DEF RecordPlan
<1> HIDE DEF es, ss
<1>5. runs \in [Runs -> RunType] /\ runs[r] \in RunType /\ r \in Runs
  BY <1>2 DEF IInv, Typed
<1> HIDE DEF r
<1>6. /\ runs' \in [Runs -> RunType]
      /\ runs'[r].status = runs[r].status /\ runs'[r].hash = runs[r].hash
      /\ runs'[r].created = runs[r].created /\ runs'[r].fingerprint = runs[r].fingerprint
      /\ \A q \in Runs : q # r => runs'[q] = runs[q]
  <2> DEFINE mid == [runs EXCEPT ![r].edges = es]
  <2>1. mid \in [Runs -> RunType]
        /\ mid[r].status = runs[r].status /\ mid[r].hash = runs[r].hash
        /\ mid[r].created = runs[r].created /\ mid[r].fingerprint = runs[r].fingerprint
        /\ \A q \in Runs : q # r => mid[q] = runs[q]
    BY <1>3, <1>5 DEF RunType
  <2>2. runs' = [mid EXCEPT ![r].superseded = ss]
    BY <1>4
  <2> HIDE DEF mid
  <2>. QED
    BY <1>3, <1>5, <2>1, <2>2 DEF RunType
<1>7. call' \in [Runs -> CallType]
  BY <1>1, <1>2 DEF IInv, Typed, CallType
<1>8. \A q \in Runs : /\ runs'[q].fingerprint => runs'[q].created
                      /\ runs'[q].status \in Counted =>
                           runs[q].status \in Counted /\ runs'[q].hash = runs[q].hash
  BY <1>6 DEF IInv, Typed
<1>9. TaskTyped'
  BY <1>1 DEF TaskTyped
<1>. QED
  BY <1>1, <1>6, <1>7, <1>8, <1>9, RunsIInv DEF IInv, Typed

\* Only the status of a run is written, and the task ends or works for it.
LEMMA StatusIInv ==
  ASSUME IInv, NEW r \in Runs, NEW status \in Statuses,
         runs' = [runs EXCEPT ![r].status = status], runs[r].status \in Counted,
         task' # NoTask => task'.r = r /\ status \in Counted, TaskTyped',
         UNCHANGED <<nodes, edges, phase, writer>>, call' \in [Runs -> CallType]
  PROVE  IInv'
<1>1. runs \in [Runs -> RunType]
  BY DEF IInv, Typed
<1>2. /\ runs' \in [Runs -> RunType]
      /\ runs'[r].status = status /\ runs'[r].hash = runs[r].hash
      /\ runs'[r].created = runs[r].created /\ runs'[r].fingerprint = runs[r].fingerprint
      /\ \A q \in Runs : q # r => runs'[q] = runs[q]
  <2> DEFINE run == [runs[r] EXCEPT !.status = status]
  <2>1. runs[r] \in RunType
    BY <1>1
  <2>2. /\ run \in RunType /\ run.status = status /\ run.hash = runs[r].hash
        /\ run.created = runs[r].created /\ run.fingerprint = runs[r].fingerprint
    BY <2>1 DEF RunType
  <2>3. runs' = [runs EXCEPT ![r] = run]
    OBVIOUS
  <2> HIDE DEF run
  <2>. QED
    BY <1>1, <2>2, <2>3
<1>3. \A q \in Runs : /\ runs'[q].fingerprint => runs'[q].created
                      /\ runs'[q].status \in Counted =>
                           runs[q].status \in Counted /\ runs'[q].hash = runs[q].hash
  BY <1>2 DEF IInv, Typed
<1>. QED
  BY <1>2, <1>3, RunsIInv DEF IInv, Typed

LEMMA PublishStatusIInv ==
  ASSUME IInv, PublishStatus
  PROVE  IInv'
<1> DEFINE status == Head(task.work).status
<1>1. /\ task.work # <<>> /\ Head(task.work).do = "status"
      /\ runs' = [runs EXCEPT ![task.r].status = status]
      /\ task' = NoTask /\ UNCHANGED <<nodes, edges, call, phase, writer>>
  BY DEF PublishStatus, Doing
<1>2. task.r \in Runs /\ runs[task.r].status \in Counted
      /\ status \in {"Completed", "Failed", "Repaired", "Reverted"}
  BY <1>1, HeadTyped DEF IInv, TaskCounts
<1> HIDE DEF status
<1>3. status \in Statuses
  BY <1>2 DEF Statuses, Counted
<1>4. TaskTyped'
  BY <1>1 DEF TaskTyped
<1>. QED
  BY <1>1, <1>2, <1>3, <1>4, StatusIInv DEF IInv, Typed

LEMMA CompleteIInv ==
  ASSUME IInv, NEW r \in Runs, Complete(r)
  PROVE  IInv'
<1>1. UNCHANGED <<nodes, edges, phase, writer>> /\ runs[r].status = "Pending"
      /\ call' \in [Runs -> CallType]
  BY ReturnTyped DEF Complete, IInv
<1>2. runs[r].status \in Counted /\ "Completing" \in Counted /\ "Completing" \in Statuses
  BY <1>1 DEF Counted, Statuses
<1>3. CASE Completable(r)
  <2>1. runs' = [runs EXCEPT ![r].status = "Completing"]
        /\ task' = Start("complete", r, CompleteWork(r))
    BY <1>3 DEF Complete
  <2>2. TaskTyped' /\ task'.r = r
    BY <2>1, WorkTyped, StartTyped DEF IInv, Kinds
  <2>. QED
    BY <1>1, <1>2, <2>1, <2>2, StatusIInv
<1>4. CASE ~Completable(r)
  <2>1. runs' = runs /\ task' = Start("undo", r, CleanupWork(r, "Failed"))
    BY <1>4 DEF Complete
  <2>2. TaskTyped' /\ task'.r = r
    BY <2>1, WorkTyped, StartTyped DEF IInv, Kinds
  <2>. QED
    BY <1>1, <1>2, <2>1, <2>2, RunsIInv DEF IInv, Typed
<1>. QED
  BY <1>3, <1>4

LEMMA RevertIInv ==
  ASSUME IInv, NEW r \in Runs, Revert(r)
  PROVE  IInv'
<1>1. UNCHANGED <<nodes, edges, call, phase, writer>> /\ runs[r].status = "Completed"
      /\ runs' = [runs EXCEPT ![r].status = "Reverting"]
      /\ task' = Start("revert", r, RevertWork(r))
  BY DEF Revert
<1>2. runs[r].status \in Counted /\ "Reverting" \in Counted /\ "Reverting" \in Statuses
  BY <1>1 DEF Counted, Statuses
<1>3. TaskTyped' /\ task'.r = r
  BY <1>1, WorkTyped, StartTyped DEF IInv, Kinds
<1>. QED
  BY <1>1, <1>2, <1>3, StatusIInv DEF IInv, Typed

------------------------------------------------------------------------------
(* Opening, faults and crashes *)

LEMMA RepairIInv ==
  ASSUME IInv, Open \/ Repair
  PROVE  IInv'
<1>1. UNCHANGED <<nodes, edges, runs, call, writer>>
  BY DEF Open, Repair, durable
<1>2. phase' \in {"closed", "opening", "open"}
  BY DEF Open, Repair, IInv, Typed
<1>3. CASE UNCHANGED task
  BY <1>1, <1>2, <1>3, SameRunsIInv DEF IInv, Typed
<1>4. CASE ~UNCHANGED task
  <2>1. PICK r \in ToRepair : task' = Start("repair", r, RepairWork(r))
    BY <1>4 DEF Open, Repair
  <2>2. r \in Runs /\ runs[r].status \in {"Pending", "Completing", "Reverting"}
    BY <2>1 DEF ToRepair, Unfinished
  <2>3. RepairWork(r) \in {CleanupWork(r, "Repaired"), RollbackWork(r, "Repaired"), RevertWork(r)}
    BY <2>2 DEF RepairWork
  <2>4. RepairWork(r) \in Seq(Items)
    BY <2>2, <2>3, WorkTyped DEF IInv
  <2>5. TaskTyped' /\ task'.r = r
    BY <2>1, <2>2, <2>4, StartTyped DEF Kinds
  <2>6. runs[r].status \in Counted
    BY <2>2 DEF Counted
  <2>. QED
    BY <1>1, <1>2, <2>2, <2>5, <2>6, RunsIInv DEF IInv, Typed
<1>. QED
  BY <1>3, <1>4

LEMMA FaultIInv ==
  ASSUME IInv, Fault
  PROVE  IInv'
<1>1. UNCHANGED <<nodes, edges, runs, writer>> /\ task # NoTask
  BY DEF Fault, durable
<1>2. task.r \in Runs /\ runs[task.r].status \in Counted
  BY <1>1 DEF IInv, Typed, TaskTyped, TaskCounts
<1>3. phase' \in {"closed", "opening", "open"}
  BY DEF Fault, IInv, Typed
<1>4. call' \in [Runs -> CallType]
  <2>1. call' = call \/ call' = [call EXCEPT ![task.r] = [NoCall EXCEPT !.pc = "done"]]
    BY DEF Fault
  <2>2. [NoCall EXCEPT !.pc = "done"] \in CallType
    BY DEF NoCall, CallType, HashType
  <2>. QED
    BY <1>2, <2>1, <2>2 DEF IInv, Typed
<1>5. \/ task' = NoTask
      \/ \E work \in Seq(Items) : task' = Start("undo", task.r, work)
  BY <1>2, WorkTyped DEF Fault, RollBack, IInv
<1>6. TaskTyped' /\ (task' # NoTask => task'.r = task.r)
  <2>1. CASE task' = NoTask
    BY <2>1 DEF TaskTyped
  <2>. QED
    BY <1>2, <1>5, <2>1, StartTyped DEF Kinds
<1>. QED
  BY <1>1, <1>2, <1>3, <1>4, <1>6, RunsIInv DEF IInv, Typed

LEMMA CrashIInv ==
  ASSUME IInv, Crash
  PROVE  IInv'
<1>1. UNCHANGED <<nodes, edges, runs, writer>> /\ task' = NoTask /\ phase' = "closed"
  BY DEF Crash, durable
<1>2. NoCall \in CallType /\ [NoCall EXCEPT !.pc = "done"] \in CallType
  BY DEF NoCall, CallType, HashType
<1>3. call' \in [Runs -> CallType]
  BY <1>2 DEF Crash
<1>4. TaskTyped'
  BY <1>1 DEF TaskTyped
<1>. QED
  BY <1>1, <1>3, <1>4, RunsIInv DEF IInv, Typed

LEMMA NextIInv == IInv /\ [Next]_vars => IInv'
<1> SUFFICES ASSUME IInv, [Next]_vars PROVE IInv'
  OBVIOUS
<1>1. CASE \E n \in Nodes : Insert(n) \/ Retract(n) \/ Delete(n)
  BY <1>1, CallerIInv
<1>2. CASE \E e \in EdgeKeys : CallAddEdge(e)
  BY <1>2, CallAddEdgeIInv
<1>3. ASSUME NEW r \in Runs,
             \/ Ask(r) \/ Cancel(r) \/ Project(r) \/ Complete(r) \/ Revert(r)
             \/ \E plan \in Plans : Answer(r, plan)
      PROVE  IInv'
  <2>1. CASE Ask(r) \/ Cancel(r) \/ Project(r)
    BY <2>1, WaitIInv
  <2>2. CASE Complete(r) \/ Revert(r)
    BY <2>2, CompleteIInv, RevertIInv
  <2>3. CASE \E plan \in Plans : Answer(r, plan)
    BY <2>3, AnswerIInv
  <2>. QED
    BY <1>3, <2>1, <2>2, <2>3
<1>4. CASE TaskStep
  BY <1>4, RecordIInv, RecordPlanIInv, EdgeStepIInv, OutputStepIInv, TargetStepIInv,
     PublishStatusIInv DEF TaskStep
<1>5. CASE Open \/ Repair \/ Fault \/ Crash
  BY <1>5, RepairIInv, FaultIInv, CrashIInv
<1>6. CASE UNCHANGED vars
  <2>1. UNCHANGED <<nodes, edges, runs, call, phase, task, writer>>
    BY <1>6 DEF vars
  <2>. QED
    BY <2>1, SameRunsIInv DEF IInv, Typed
<1>. QED
  BY <1>1, <1>2, <1>3, <1>4, <1>5, <1>6 DEF Next

\* Every behaviour of dreaming keeps the inductive invariant.
THEOREM Invariance == Spec => []IInv
  BY InitIInv, NextIInv, PTL DEF Spec

\* No two runs that count have dreamed the same memories at the same revisions,
\* although every call looked before it waited for the dreamer.
THEOREM DreamedOnce == Spec => []NeverDreamedTwice
<1>1. IInv => NeverDreamedTwice
  BY DEF IInv
<1>. QED
  BY <1>1, Invariance, PTL

\* Every variable has its type; a fingerprint is recorded only after the id of
\* the output it describes.
THEOREM TypeCorrect == Spec => []TypeOK
<1>1. IInv => TypeOK
  <2> SUFFICES ASSUME IInv PROVE TypeOK
    OBVIOUS
  <2>1. \A r \in Runs : runs[r] \in RunType /\ call[r] \in CallType
    BY DEF IInv, Typed
  <2>2. \A r \in Runs :
          /\ runs[r].status \in Counted \cup {"None", "Failed", "Repaired"}
          /\ runs[r].captured \in Nat
          /\ runs[r].created \in BOOLEAN /\ runs[r].fingerprint \in BOOLEAN
          /\ call[r].pc \in {"idle", "asked", "staged", "projected", "done"}
    BY <2>1 DEF RunType, CallType, Statuses
  <2>3. task.kind \in {"none", "stage", "complete", "undo", "revert", "repair"}
        /\ task.r \in Runs \cup {0}
    BY DEF IInv, Typed, TaskTyped, Kinds, NoTask
  <2>. QED
    BY <2>2, <2>3 DEF IInv, Typed, TypeOK, NodeType, EdgeType
<1>. QED
  BY <1>1, Invariance, PTL

------------------------------------------------------------------------------
HIDE DreamAssumption
USE FreshAssumption

(***************************************************************************)
(* A run is published as a whole or not at all.                            *)
(***************************************************************************)

\* The memories that an answer supersedes are active, and each is named once.
ActiveTargets ==
    task.kind = "stage" =>
        \A i \in DOMAIN task.plan.supersede :
            /\ nodes[task.plan.supersede[i]].state = "Active"
            /\ \A j \in DOMAIN task.plan.supersede :
                  i # j => task.plan.supersede[i] # task.plan.supersede[j]

Early == {"None", "Pending"}
Undone == {"Failed", "Repaired", "Reverted"}
Hidden == {"Unborn", "Pending", "Retracted", "Gone"}

Left == Range(task.work)
Planned(r) == Range(runs[r].edges)
Targets(r) == Range(runs[r].superseded)

\* What run r shows: its edges, the memories it superseded and its output.
Joined(r) == {e \in AllEdges : edges[e].by = r}
Holds(r, s) == writer[s.node] = r /\ nodes[s.node].state = "Superseded"
Shows(r) == writer[Out[r]] = r /\ nodes[Out[r]].state = "Active"

\* A run records each edge and each memory it supersedes once.
Recorded(r) ==
    /\ \A i, j \in DOMAIN runs[r].edges : i # j => runs[r].edges[i] # runs[r].edges[j]
    /\ \A i, j \in DOMAIN runs[r].superseded :
          i # j => runs[r].superseded[i].node # runs[r].superseded[j].node
    /\ \A s \in Targets(r) :
          /\ s.state = "Active" /\ s.node # Out[r]
          /\ \A q \in Runs : s.node = Out[q] => runs[q].status \notin Early

\* Before it is published a run has written nothing but a hidden output,
\* whose fingerprint it recorded first.
Staged(r) ==
    /\ runs[r].status \in Early =>
          /\ Joined(r) = {}
          /\ \A n \in Nodes : writer[n] = r => n = Out[r]
          /\ nodes[Out[r]].state \in Hidden
    /\ runs[r].status = "None" => nodes[Out[r]].state = "Unborn" /\ writer[Out[r]] # r
    /\ writer[Out[r]] = r => runs[r].fingerprint
    /\ runs[r].status \in {"Completing", "Completed", "Reverting"} =>
          (runs[r].created => runs[r].fingerprint)

\* What a run has published is what its rollback recognises.
Published(r) ==
    /\ runs[r].status = "Completing" =>
          /\ \A e \in Joined(r) : edges[e].rev = 1 /\ e \in Planned(r)
          /\ \A s \in Targets(r) : Holds(r, s) => nodes[s.node].rev = s.after
          /\ Shows(r) => Fingerprint(nodes[Out[r]]) = Fingerprint(StagedRow(r))
    /\ runs[r].status \in {"Completed", "Reverting"} => Joined(r) \subseteq Planned(r)

Withdrawn(r) ==
    runs[r].status \in Undone =>
        Joined(r) = {} /\ ~Shows(r) /\ \A s \in Targets(r) : ~Holds(r, s)

Fits(r) == Recorded(r) /\ Staged(r) /\ Published(r) /\ Withdrawn(r)

CallFits(r) ==
    /\ call[r].pc = "idle" => runs[r].status = "None"
    /\ call[r].pc = "asked" => runs[r].status = "None" \/ (task.kind = "stage" /\ task.r = r)
    /\ call[r].pc \in {"staged", "projected"} => runs[r].status = "Pending"
    /\ phase # "open" => call[r].pc \in {"idle", "done"}
CallsFit ==
    /\ \A r \in Runs : CallFits(r)
    /\ task.kind \in Kinds => call[task.r].pc = "done"
    /\ task.kind \in {"stage", "complete"} => phase = "open"
    /\ task.kind = "repair" => phase = "opening"

\* No write is made twice, the status comes last, the output is activated
\* before its revision is captured.
InOrder(w) ==
    \A i, j \in DOMAIN w : i < j =>
        /\ w[i] # w[j] /\ w[i].do # "status"
        /\ ~(w[i].do = "capture" /\ w[j].do = "activate")

StagingFits(r) ==
    LET plan == task.plan
    IN  /\ runs[r].status = "Pending"
        /\ \A i \in DOMAIN plan.links :
              /\ plan.links[i][1] # Out[r]
              /\ \A j \in DOMAIN plan.links : i # j => plan.links[i] # plan.links[j]
        /\ \A i \in DOMAIN plan.supersede :
              /\ nodes[plan.supersede[i]].state = "Active"
              /\ \A j \in DOMAIN plan.supersede : i # j => plan.supersede[i] # plan.supersede[j]
        /\ task.work = <<OnRun("stage"), OnRun("plan")>> => runs[r].fingerprint

Completing(r) ==
    /\ runs[r].status = "Completing"
    /\ Left \subseteq {OnEdge("addEdge", e) : e \in Planned(r)}
                      \cup {OnTarget("supersede", s) : s \in Targets(r)}
                      \cup (IF runs[r].created THEN {OnRun("activate"), OnRun("capture")} ELSE {})
                      \cup {SetStatus("Completed")}
    /\ \A e \in Planned(r) :
          edges[e] = IF OnEdge("addEdge", e) \in Left THEN NoEdge ELSE [rev |-> 1, by |-> r]
    /\ \A s \in Targets(r) :
          IF OnTarget("supersede", s) \in Left
          THEN nodes[s.node].state = "Active" /\ nodes[s.node].rev + 1 = s.after
          ELSE nodes[s.node].state = "Superseded" /\ nodes[s.node].rev = s.after
    /\ runs[r].created =>
          /\ StillStaged(r, IF OnRun("activate") \in Left THEN {"Pending"} ELSE {"Active"})
          /\ OnRun("activate") \in Left => OnRun("capture") \in Left
          /\ OnRun("capture") \notin Left => runs[r].captured = nodes[Out[r]].rev

CleaningUp(r) ==
    /\ runs[r].status = "Pending"
    /\ Left \subseteq {OnRun("cleanup"), SetStatus("Failed"), SetStatus("Repaired")}

\* Whatever run r still shows is on the list of what is left to undo.
Undoing(r, edge, target, output) ==
    /\ \A e \in Joined(r) : OnEdge(edge, e) \in Left
    /\ \A s \in Targets(r) : Holds(r, s) => OnTarget(target, s) \in Left
    /\ Shows(r) => OnRun(output) \in Left

RollingBack(r) ==
    /\ runs[r].status = "Completing"
    /\ Left \subseteq {OnEdge("dropEdge", e) : e \in Planned(r)}
                      \cup {OnTarget("restore", s) : s \in Targets(r)}
                      \cup {OnRun("rollback"), SetStatus("Failed"), SetStatus("Repaired")}
    /\ Undoing(r, "dropEdge", "restore", "rollback")

Reverting(r) ==
    /\ runs[r].status = "Reverting"
    /\ Left \subseteq {OnEdge("removeEdge", e) : e \in Planned(r)}
                      \cup {OnTarget("reinstate", s) : s \in Targets(r)}
                      \cup (IF runs[r].created THEN {OnRun("retract")} ELSE {})
                      \cup {SetStatus("Reverted")}
    /\ Undoing(r, "removeEdge", "reinstate", "retract")

TaskFits ==
    /\ task.kind = "stage" => StagingFits(task.r)
    /\ task.kind = "complete" => Completing(task.r)
    /\ task.kind = "undo" => CleaningUp(task.r) \/ RollingBack(task.r)
    /\ task.kind = "revert" => Reverting(task.r)
    /\ task.kind = "repair" =>
          CleaningUp(task.r) \/ RollingBack(task.r) \/ Reverting(task.r)
    /\ InOrder(task.work)

AtomicIInv == (\A r \in Runs : Fits(r)) /\ CallsFit /\ TaskFits

------------------------------------------------------------------------------
(* The lists of writes. *)

LEMMA RangeConcat ==
  ASSUME NEW S, NEW s \in Seq(S), NEW t \in Seq(S)
  PROVE  Range(s \o t) = Range(s) \cup Range(t)
<1>1. ASSUME NEW x \in Range(s) PROVE x \in Range(s \o t)
  <2>1. PICK i \in 1 .. Len(s) : x = s[i]
    BY DEF Range
  <2>2. i \in DOMAIN (s \o t) /\ (s \o t)[i] = x
    BY <2>1
  <2>. QED
    BY <2>2 DEF Range
<1>2. ASSUME NEW x \in Range(t) PROVE x \in Range(s \o t)
  <2>1. PICK i \in 1 .. Len(t) : x = t[i]
    BY DEF Range
  <2>2. Len(s) + i \in DOMAIN (s \o t) /\ (s \o t)[Len(s) + i] = x
    BY <2>1
  <2>. QED
    BY <2>2 DEF Range
<1>3. ASSUME NEW x \in Range(s \o t) PROVE x \in Range(s) \cup Range(t)
  <2>1. PICK i \in DOMAIN (s \o t) : x = (s \o t)[i]
    BY DEF Range
  <2>2. CASE i <= Len(s)
    BY <2>1, <2>2 DEF Range
  <2>3. CASE i > Len(s)
    <3>1. i - Len(s) \in DOMAIN t /\ x = t[i - Len(s)]
      BY <2>1, <2>3
    <3>. QED
      BY <3>1 DEF Range
  <2>. QED
    BY <2>1, <2>2, <2>3
<1>. QED
  BY <1>1, <1>2, <1>3

LEMMA RangeNone == Range(<<>>) = {}
  BY DEF Range

LEMMA RangeOne ==
  ASSUME NEW x
  PROVE  Range(<<x>>) = {x}
  BY DEF Range

LEMMA RangeTwo ==
  ASSUME NEW x, NEW y
  PROVE  Range(<<x, y>>) = {x, y}
<1>1. DOMAIN <<x, y>> = {1, 2} /\ <<x, y>>[1] = x /\ <<x, y>>[2] = y
  OBVIOUS
<1>. QED
  BY <1>1 DEF Range

LEMMA InOrderConcat ==
  ASSUME NEW S, NEW s \in Seq(S), NEW t \in Seq(S), InOrder(s), InOrder(t),
         \A x \in Range(s), y \in Range(t) :
             x # y /\ x.do # "status" /\ ~(x.do = "capture" /\ y.do = "activate")
  PROVE  InOrder(s \o t)
<1> DEFINE w == s \o t
<1> SUFFICES ASSUME NEW i \in DOMAIN w, NEW j \in DOMAIN w, i < j
             PROVE  /\ w[i] # w[j] /\ w[i].do # "status"
                    /\ ~(w[i].do = "capture" /\ w[j].do = "activate")
  BY DEF InOrder
<1>1. CASE j <= Len(s)
  <2>1. i \in DOMAIN s /\ j \in DOMAIN s /\ w[i] = s[i] /\ w[j] = s[j]
    BY <1>1
  <2>. QED
    BY <2>1 DEF InOrder
<1>2. CASE i > Len(s)
  <2>1. i - Len(s) \in DOMAIN t /\ j - Len(s) \in DOMAIN t /\ i - Len(s) < j - Len(s)
        /\ w[i] = t[i - Len(s)] /\ w[j] = t[j - Len(s)]
    BY <1>2
  <2>. QED
    BY <2>1 DEF InOrder
<1>3. CASE i <= Len(s) /\ j > Len(s)
  <2>1. i \in DOMAIN s /\ j - Len(s) \in DOMAIN t
        /\ w[i] = s[i] /\ w[j] = t[j - Len(s)]
    BY <1>3
  <2>2. w[i] \in Range(s) /\ w[j] \in Range(t)
    BY <2>1 DEF Range
  <2>. QED
    BY <2>2
<1>. QED
  BY <1>1, <1>2, <1>3

\* What is left once the head of a list is written.
LEMMA TailInOrder ==
  ASSUME NEW S, NEW w \in Seq(S), w # <<>>, InOrder(w)
  PROVE  /\ Head(w) \in Range(w)
         /\ Range(Tail(w)) = Range(w) \ {Head(w)}
         /\ InOrder(Tail(w))
         /\ Head(w).do = "status" => Range(Tail(w)) = {}
         /\ Head(w).do = "capture" => \A y \in Range(Tail(w)) : y.do # "activate"
<1> DEFINE t == Tail(w)
<1>1. /\ Len(w) \in Nat \ {0} /\ Head(w) = w[1] /\ DOMAIN w = 1 .. Len(w)
      /\ DOMAIN t = 1 .. Len(w) - 1
      /\ \A i \in DOMAIN t : i + 1 \in DOMAIN w /\ t[i] = w[i + 1]
  OBVIOUS
<1>2. \A i \in DOMAIN w : i > 1 => i - 1 \in DOMAIN t /\ t[i - 1] = w[i]
  BY <1>1
<1> HIDE DEF t
<1>3. \A y \in Range(t) : \E i \in DOMAIN w : i > 1 /\ y = w[i]
  <2> SUFFICES ASSUME NEW k \in DOMAIN t PROVE k + 1 \in DOMAIN w /\ k + 1 > 1 /\ t[k] = w[k + 1]
    BY DEF Range
  <2>. QED
    BY <1>1
<1>4. \A i \in DOMAIN w : i > 1 => w[i] \in Range(t)
  BY <1>2 DEF Range
<1>5. \A y \in Range(t) :
        /\ y \in Range(w) /\ y # Head(w) /\ Head(w).do # "status"
        /\ ~(Head(w).do = "capture" /\ y.do = "activate")
  <2> SUFFICES ASSUME NEW i \in DOMAIN w, i > 1
               PROVE  /\ w[i] \in Range(w) /\ w[i] # w[1] /\ w[1].do # "status"
                      /\ ~(w[1].do = "capture" /\ w[i].do = "activate")
    BY <1>1, <1>3
  <2>1. 1 \in DOMAIN w /\ 1 < i
    BY <1>1
  <2>. QED
    BY <2>1 DEF InOrder, Range
<1>6. Range(t) = Range(w) \ {Head(w)}
  <2>1. \A i \in DOMAIN w : w[i] # Head(w) => i > 1
    BY <1>1
  <2>. QED
    BY <1>4, <1>5, <2>1 DEF Range
<1>7. InOrder(t)
  <2> SUFFICES ASSUME NEW i \in DOMAIN t, NEW j \in DOMAIN t, i < j
               PROVE  /\ t[i] # t[j] /\ t[i].do # "status"
                      /\ ~(t[i].do = "capture" /\ t[j].do = "activate")
    BY DEF InOrder
  <2>1. i + 1 \in DOMAIN w /\ j + 1 \in DOMAIN w /\ i + 1 < j + 1
        /\ t[i] = w[i + 1] /\ t[j] = w[j + 1]
    BY <1>1
  <2>. QED
    BY <2>1 DEF InOrder
<1>8. Head(w) \in Range(w)
  BY <1>1 DEF Range
<1>9. Head(w).do = "status" => Range(t) = {}
  BY <1>5
<1>. QED
  BY <1>5, <1>6, <1>7, <1>8, <1>9 DEF t

\* Every write of list s may come before every write of list t.
Precedes(s, t) ==
    \A x \in Range(s), y \in Range(t) :
        x.do # y.do /\ x.do # "status" /\ ~(x.do = "capture" /\ y.do = "activate")

LEMMA FourParts ==
  ASSUME NEW a \in Seq(Items), NEW b \in Seq(Items), NEW c \in Seq(Items), NEW x \in Items,
         InOrder(a), InOrder(b), InOrder(c),
         Precedes(a, b), Precedes(a, c), Precedes(b, c),
         Precedes(a, <<x>>), Precedes(b, <<x>>), Precedes(c, <<x>>)
  PROVE  LET w == a \o b \o c \o <<x>>
         IN  Range(w) = Range(a) \cup Range(b) \cup Range(c) \cup {x} /\ InOrder(w)
<1> DEFINE ab == a \o b
           abc == ab \o c
           one == <<x>>
           w == abc \o one
<1>0. one \in Seq(Items) /\ InOrder(one) /\ Range(one) = {x}
  BY RangeOne DEF InOrder
<1>1. ab \in Seq(Items) /\ Range(ab) = Range(a) \cup Range(b)
  BY RangeConcat, ConcatTyped
<1>2. InOrder(ab)
  <2>1. \A u \in Range(a), v \in Range(b) :
          u # v /\ u.do # "status" /\ ~(u.do = "capture" /\ v.do = "activate")
    BY DEF Precedes
  <2>. QED
    BY <2>1, InOrderConcat
<1> HIDE DEF ab
<1>3. abc \in Seq(Items) /\ Range(abc) = Range(ab) \cup Range(c)
  BY <1>1, RangeConcat, ConcatTyped
<1>4. \A u \in Range(ab), v \in Range(c) :
        u # v /\ u.do # "status" /\ ~(u.do = "capture" /\ v.do = "activate")
  BY <1>1 DEF Precedes
<1>5. InOrder(abc)
  BY <1>1, <1>2, <1>4, InOrderConcat
<1> HIDE DEF abc, one
<1>6. w \in Seq(Items) /\ Range(w) = Range(abc) \cup {x}
  BY <1>0, <1>3, RangeConcat, ConcatTyped
<1>7. \A u \in Range(abc), v \in Range(one) :
        u # v /\ u.do # "status" /\ ~(u.do = "capture" /\ v.do = "activate")
  BY <1>1, <1>3 DEF Precedes, one
<1>8. InOrder(w)
  BY <1>0, <1>3, <1>5, <1>7, InOrderConcat
<1>9. w = a \o b \o c \o <<x>>
  BY DEF ab, abc, one
<1> HIDE DEF w
<1>. QED
  BY <1>1, <1>3, <1>6, <1>8, <1>9

LEMMA TwoParts ==
  ASSUME NEW c \in Seq(Items), NEW x \in Items, InOrder(c), Precedes(c, <<x>>)
  PROVE  Range(c \o <<x>>) = Range(c) \cup {x} /\ InOrder(c \o <<x>>)
<1> DEFINE one == <<x>>
<1>1. one \in Seq(Items) /\ InOrder(one) /\ Range(one) = {x}
  BY RangeOne DEF InOrder
<1>2. \A u \in Range(c), v \in Range(one) :
        u # v /\ u.do # "status" /\ ~(u.do = "capture" /\ v.do = "activate")
  BY DEF Precedes
<1> HIDE DEF one
<1>3. InOrder(c \o one)
  BY <1>1, <1>2, InOrderConcat
<1>4. Range(c \o one) = Range(c) \cup Range(one)
  BY <1>1, RangeConcat
<1>. QED
  BY <1>1, <1>3, <1>4 DEF one

LEMMA EdgePart ==
  ASSUME Typed, NEW r \in Runs, Recorded(r), NEW do \in {"addEdge", "dropEdge", "removeEdge"}
  PROVE  /\ EachEdge(do, r) \in Seq(Items)
         /\ Range(EachEdge(do, r)) = {OnEdge(do, e) : e \in Planned(r)}
         /\ \A x \in Range(EachEdge(do, r)) : x.do = do
         /\ InOrder(EachEdge(do, r))
<1> DEFINE w == EachEdge(do, r)
           es == runs[r].edges
<1>1. es \in Seq(AllEdges)
  BY DEF Typed, RunType
<1>2. \A i, j \in DOMAIN es : i # j => es[i] # es[j]
  BY DEF Recorded
<1>3. w = [i \in DOMAIN es |-> OnEdge(do, es[i])]
  BY DEF EachEdge
<1> HIDE DEF w, es
<1>4. \A e : OnEdge(do, e).do = do /\ OnEdge(do, e).edge = e
  BY DEF OnEdge
<1>5. w \in Seq(Items)
  BY <1>1, <1>3 DEF OnEdge, Items, EdgeItems
<1>6. Range(w) = {OnEdge(do, e) : e \in Range(es)}
  BY <1>3 DEF Range
<1>7. \A x \in Range(w) : x.do = do
  BY <1>4, <1>6
<1>8. InOrder(w)
  <2>1. DOMAIN w = DOMAIN es /\ \A i \in DOMAIN w : w[i].do = do /\ w[i].edge = es[i]
    BY <1>3, <1>4
  <2>2. \A i, j \in DOMAIN w : i < j => i # j
    BY <1>1, <2>1
  <2>. QED
    BY <1>2, <2>1, <2>2 DEF InOrder
<1>. QED
  BY <1>5, <1>6, <1>7, <1>8 DEF w, es, Planned

LEMMA TargetPart ==
  ASSUME Typed, NEW r \in Runs, Recorded(r), NEW do \in {"supersede", "restore", "reinstate"}
  PROVE  /\ EachTarget(do, r) \in Seq(Items)
         /\ Range(EachTarget(do, r)) = {OnTarget(do, s) : s \in Targets(r)}
         /\ \A x \in Range(EachTarget(do, r)) : x.do = do
         /\ InOrder(EachTarget(do, r))
<1> DEFINE w == EachTarget(do, r)
           ss == runs[r].superseded
<1>1. ss \in Seq(SnapshotType)
  BY DEF Typed, RunType
<1>2. \A i, j \in DOMAIN ss : i # j => ss[i] # ss[j]
  BY DEF Recorded
<1>3. w = [i \in DOMAIN ss |-> OnTarget(do, ss[i])]
  BY DEF EachTarget
<1> HIDE DEF w, ss
<1>4. \A s : OnTarget(do, s).do = do /\ OnTarget(do, s).target = s
  BY DEF OnTarget
<1>5. w \in Seq(Items)
  BY <1>1, <1>3 DEF OnTarget, Items, TargetItems
<1>6. Range(w) = {OnTarget(do, s) : s \in Range(ss)}
  BY <1>3 DEF Range
<1>7. \A x \in Range(w) : x.do = do
  BY <1>4, <1>6
<1>8. InOrder(w)
  <2>1. DOMAIN w = DOMAIN ss /\ \A i \in DOMAIN w : w[i].do = do /\ w[i].target = ss[i]
    BY <1>3, <1>4
  <2>2. \A i, j \in DOMAIN w : i < j => i # j
    BY <1>1, <2>1
  <2>. QED
    BY <1>2, <2>1, <2>2 DEF InOrder
<1>. QED
  BY <1>5, <1>6, <1>7, <1>8 DEF w, ss, Targets

\* What a run that created an output does with it.
LEMMA OutputPart ==
  ASSUME NEW r, NEW do \in {"cleanup", "rollback", "retract"}
  PROVE  /\ IfCreated(r, <<OnRun(do)>>) \in Seq(Items)
         /\ Range(IfCreated(r, <<OnRun(do)>>)) = IF runs[r].created THEN {OnRun(do)} ELSE {}
         /\ \A x \in Range(IfCreated(r, <<OnRun(do)>>)) : x.do = do
         /\ InOrder(IfCreated(r, <<OnRun(do)>>))
<1>1. OnRun(do) \in Items /\ OnRun(do).do = do
  BY DEF OnRun, Items, RunItems
<1>2. InOrder(<<>>) /\ InOrder(<<OnRun(do)>>)
  BY DEF InOrder
<1>3. CASE runs[r].created
  <2> DEFINE one == <<OnRun(do)>>
  <2>1. one \in Seq(Items) /\ InOrder(one) /\ Range(one) = {OnRun(do)}
    BY <1>1, <1>2, RangeOne
  <2>2. IfCreated(r, one) = one
    BY <1>3 DEF IfCreated
  <2> HIDE DEF one
  <2>3. /\ IfCreated(r, one) \in Seq(Items) /\ InOrder(IfCreated(r, one))
        /\ Range(IfCreated(r, one)) = {OnRun(do)}
    BY <2>1, <2>2
  <2>. QED
    BY <1>1, <1>3, <2>3 DEF one
<1>4. CASE ~runs[r].created
  <2>1. IfCreated(r, <<OnRun(do)>>) = <<>>
    BY <1>4 DEF IfCreated
  <2>2. Range(<<>>) = {}
    BY RangeNone
  <2>. QED
    BY <1>1, <1>2, <1>4, <2>1, <2>2
<1>. QED
  BY <1>3, <1>4

LEMMA StatusTyped ==
  ASSUME NEW status \in {"Completed", "Failed", "Repaired", "Reverted"}
  PROVE  /\ SetStatus(status) \in Items /\ SetStatus(status).do = "status"
         /\ SetStatus(status).status = status
         /\ \A x \in Range(<<SetStatus(status)>>) : x.do = "status"
<1>1. SetStatus(status) \in Items /\ SetStatus(status).do = "status"
      /\ SetStatus(status).status = status
  BY DEF SetStatus, Items, StatusItems
<1>. QED
  BY <1>1, RangeOne

\* Lists of writes of different kinds may follow one another.
LEMMA KindsPrecede ==
  ASSUME NEW s, NEW t, NEW do, NEW next, do # next, do # "status", do # "capture",
         \A x \in Range(s) : x.do = do, \A y \in Range(t) : y.do = next
  PROVE  Precedes(s, t)
  BY DEF Precedes

LEMMA CompleteWorkOrder ==
  ASSUME Typed, NEW r \in Runs, Recorded(r)
  PROVE  /\ Range(CompleteWork(r)) =
              {OnEdge("addEdge", e) : e \in Planned(r)}
                 \cup {OnTarget("supersede", s) : s \in Targets(r)}
                 \cup (IF runs[r].created THEN {OnRun("activate"), OnRun("capture")} ELSE {})
                 \cup {SetStatus("Completed")}
         /\ InOrder(CompleteWork(r))
<1> DEFINE a == EachEdge("addEdge", r)
           b == EachTarget("supersede", r)
           c == IfCreated(r, <<OnRun("activate"), OnRun("capture")>>)
           x == SetStatus("Completed")
<1>1. /\ a \in Seq(Items) /\ InOrder(a) /\ \A y \in Range(a) : y.do = "addEdge"
      /\ Range(a) = {OnEdge("addEdge", e) : e \in Planned(r)}
  BY EdgePart
<1>2. /\ b \in Seq(Items) /\ InOrder(b) /\ \A y \in Range(b) : y.do = "supersede"
      /\ Range(b) = {OnTarget("supersede", s) : s \in Targets(r)}
  BY TargetPart
<1>3. /\ c \in Seq(Items) /\ InOrder(c) /\ \A y \in Range(c) : y.do \in {"activate", "capture"}
      /\ Range(c) = IF runs[r].created THEN {OnRun("activate"), OnRun("capture")} ELSE {}
  <2>1. /\ OnRun("activate") \in Items /\ OnRun("capture") \in Items
        /\ OnRun("activate").do = "activate" /\ OnRun("capture").do = "capture"
    BY DEF OnRun, Items, RunItems
  <2>2. InOrder(<<>>) /\ InOrder(<<OnRun("activate"), OnRun("capture")>>)
    BY <2>1 DEF InOrder
  <2>3. CASE runs[r].created
    <3> DEFINE two == <<OnRun("activate"), OnRun("capture")>>
    <3>1. two \in Seq(Items) /\ InOrder(two) /\ Range(two) = {OnRun("activate"), OnRun("capture")}
      BY <2>1, <2>2, RangeTwo
    <3>2. c = two
      BY <2>3 DEF IfCreated
    <3> HIDE DEF two, c
    <3>. QED
      BY <2>1, <2>3, <3>1, <3>2
  <2>4. CASE ~runs[r].created
    <3>1. c = <<>>
      BY <2>4 DEF IfCreated
    <3>2. Range(<<>>) = {}
      BY RangeNone
    <3>. QED
      BY <2>2, <2>4, <3>1, <3>2
  <2>. QED
    BY <2>3, <2>4
<1>4. x \in Items /\ \A y \in Range(<<x>>) : y.do = "status"
  BY StatusTyped
<1>5. CompleteWork(r) = a \o b \o c \o <<x>>
  BY DEF CompleteWork
<1> HIDE DEF a, b, c, x
<1>6. /\ Precedes(a, b) /\ Precedes(a, c) /\ Precedes(b, c)
      /\ Precedes(a, <<x>>) /\ Precedes(b, <<x>>) /\ Precedes(c, <<x>>)
  BY <1>1, <1>2, <1>3, <1>4 DEF Precedes
<1>7. LET w == a \o b \o c \o <<x>>
      IN  Range(w) = Range(a) \cup Range(b) \cup Range(c) \cup {x} /\ InOrder(w)
  BY <1>1, <1>2, <1>3, <1>4, <1>6, FourParts
<1>. QED
  BY <1>1, <1>2, <1>3, <1>5, <1>7 DEF x

\* The two lists that undo a published run.
LEMMA UndoWorkOrder ==
  ASSUME Typed, NEW r \in Runs, Recorded(r),
         NEW edge \in {"dropEdge", "removeEdge"}, NEW output \in {"rollback", "retract"},
         NEW target \in {"restore", "reinstate"},
         NEW status \in {"Failed", "Repaired", "Reverted"}
  PROVE  LET w == EachEdge(edge, r) \o IfCreated(r, <<OnRun(output)>>)
                     \o EachTarget(target, r) \o <<SetStatus(status)>>
         IN  /\ Range(w) = {OnEdge(edge, e) : e \in Planned(r)}
                             \cup (IF runs[r].created THEN {OnRun(output)} ELSE {})
                             \cup {OnTarget(target, s) : s \in Targets(r)}
                             \cup {SetStatus(status)}
             /\ InOrder(w)
<1> DEFINE a == EachEdge(edge, r)
           b == IfCreated(r, <<OnRun(output)>>)
           c == EachTarget(target, r)
           x == SetStatus(status)
<1>1. /\ a \in Seq(Items) /\ InOrder(a) /\ \A y \in Range(a) : y.do = edge
      /\ Range(a) = {OnEdge(edge, e) : e \in Planned(r)}
  BY EdgePart
<1>2. /\ b \in Seq(Items) /\ InOrder(b) /\ \A y \in Range(b) : y.do = output
      /\ Range(b) = IF runs[r].created THEN {OnRun(output)} ELSE {}
  BY OutputPart
<1>3. /\ c \in Seq(Items) /\ InOrder(c) /\ \A y \in Range(c) : y.do = target
      /\ Range(c) = {OnTarget(target, s) : s \in Targets(r)}
  BY TargetPart
<1>4. x \in Items /\ \A y \in Range(<<x>>) : y.do = "status"
  BY StatusTyped
<1> HIDE DEF a, b, c, x
<1>5. edge # output /\ edge # target /\ output # target
      /\ \A do \in {edge, output, target} : do # "status" /\ do # "capture"
  OBVIOUS
<1>6. /\ Precedes(a, b) /\ Precedes(a, c) /\ Precedes(b, c)
      /\ Precedes(a, <<x>>) /\ Precedes(b, <<x>>) /\ Precedes(c, <<x>>)
  BY <1>1, <1>2, <1>3, <1>4, <1>5, KindsPrecede
<1>7. Range(a \o b \o c \o <<x>>) = Range(a) \cup Range(b) \cup Range(c) \cup {x}
      /\ InOrder(a \o b \o c \o <<x>>)
  BY <1>1, <1>2, <1>3, <1>4, <1>6, FourParts
<1>. QED
  BY <1>1, <1>2, <1>3, <1>7 DEF a, b, c, x

LEMMA CleanupWorkOrder ==
  ASSUME NEW r, NEW status \in {"Failed", "Repaired"}
  PROVE  /\ Range(CleanupWork(r, status)) \subseteq
              {OnRun("cleanup"), SetStatus("Failed"), SetStatus("Repaired")}
         /\ InOrder(CleanupWork(r, status))
<1> DEFINE c == IfCreated(r, <<OnRun("cleanup")>>)
           x == SetStatus(status)
<1>1. /\ c \in Seq(Items) /\ InOrder(c) /\ \A y \in Range(c) : y.do = "cleanup"
      /\ Range(c) \subseteq {OnRun("cleanup")}
  BY OutputPart
<1>2. x \in Items /\ \A y \in Range(<<x>>) : y.do = "status"
  BY StatusTyped
<1>3. CleanupWork(r, status) = c \o <<x>>
  BY DEF CleanupWork
<1> HIDE DEF c, x
<1>4. Precedes(c, <<x>>)
  BY <1>1, <1>2 DEF Precedes
<1>5. Range(CleanupWork(r, status)) = Range(c) \cup {x} /\ InOrder(CleanupWork(r, status))
  BY <1>1, <1>2, <1>3, <1>4, TwoParts
<1>. QED
  BY <1>1, <1>5 DEF x

------------------------------------------------------------------------------
(* What a step leaves to the runs it does not work for. *)

\* What run q wrote is as q left it, or is no longer q's; its output stays
\* hidden until q is published.  Only the projection of a staged output changes
\* the revision of a node without taking it over.
Spares(q) ==
    /\ runs'[q] = runs[q]
    /\ \A e \in AllEdges : edges'[e].by = q => edges'[e] = edges[e]
    /\ \A n \in Nodes : writer'[n] = q =>
          /\ writer[n] = q /\ nodes'[n].state = nodes[n].state
          /\ Fingerprint(nodes'[n]) = Fingerprint(nodes[n])
          /\ \/ nodes'[n].rev = nodes[n].rev
             \/ \E p \in Runs : n = Out[p] /\ runs[p].status \in Early
    /\ runs[q].status \in Early => nodes'[Out[q]].state \in Hidden
    /\ runs[q].status = "None" => nodes'[Out[q]].state = "Unborn"

\* A published run does not become unpublished.
NoReturn == \A p \in Runs : runs[p].status \notin Early => runs'[p].status \notin Early

LEMMA TargetTyped ==
  ASSUME Typed, NEW r \in Runs, NEW s \in Targets(r)
  PROVE  s \in SnapshotType /\ s.node \in Nodes
<1>1. runs[r].superseded \in Seq(SnapshotType)
  BY DEF Typed, RunType
<1>2. s \in SnapshotType
  BY <1>1 DEF Targets, Range
<1>. QED
  BY <1>2 DEF SnapshotType

LEMMA SparesFits ==
  ASSUME Typed, NEW q \in Runs, Fits(q), Spares(q), NoReturn
  PROVE  Fits(q)'
<1>1. runs'[q] = runs[q] /\ Targets(q)' = Targets(q) /\ Planned(q)' = Planned(q)
  BY DEF Spares, Targets, Planned
<1>2. \A e \in Joined(q)' : e \in Joined(q) /\ edges'[e] = edges[e]
  BY DEF Spares, Joined
<1>3. Out[q] \in Nodes /\ \A s \in Targets(q) : s.node \in Nodes
  BY TargetTyped, OutInNodes
<1>4. Shows(q)' => Shows(q) /\ Fingerprint(nodes'[Out[q]]) = Fingerprint(nodes[Out[q]])
  BY <1>3 DEF Spares, Shows
<1>5. \A s \in Targets(q) : Holds(q, s)' => Holds(q, s) /\ nodes'[s.node].rev = nodes[s.node].rev
  BY <1>3 DEF Spares, Holds, Fits, Recorded
<1>6. Recorded(q)'
  BY <1>1 DEF Recorded, Fits, NoReturn
<1>7. Staged(q)'
  <2>1. runs[q].status \in Early =>
          Joined(q)' = {} /\ (\A n \in Nodes : writer'[n] = q => n = Out[q])
            /\ nodes'[Out[q]].state \in Hidden
    BY <1>2 DEF Fits, Staged, Spares
  <2>2. writer'[Out[q]] = q => writer[Out[q]] = q
    BY <1>3 DEF Spares
  <2>3. runs[q].status = "None" => nodes'[Out[q]].state = "Unborn" /\ writer'[Out[q]] # q
    BY <2>2 DEF Fits, Staged, Spares
  <2>4. /\ writer'[Out[q]] = q => runs[q].fingerprint
        /\ runs[q].status \in {"Completing", "Completed", "Reverting"} =>
              (runs[q].created => runs[q].fingerprint)
    BY <2>2 DEF Fits, Staged
  <2>. QED
    BY <1>1, <2>1, <2>3, <2>4 DEF Staged
<1>8. Published(q)'
  <2>1. runs[q].status = "Completing" =>
          /\ \A e \in Joined(q)' : edges'[e].rev = 1 /\ e \in Planned(q)
          /\ \A s \in Targets(q) : Holds(q, s)' => nodes'[s.node].rev = s.after
          /\ Shows(q)' => Fingerprint(nodes'[Out[q]]) = Fingerprint(StagedRow(q))
    BY <1>2, <1>4, <1>5 DEF Fits, Published
  <2>2. runs[q].status \in {"Completed", "Reverting"} => Joined(q)' \subseteq Planned(q)
    BY <1>2 DEF Fits, Published
  <2>. QED
    BY <1>1, <2>1, <2>2 DEF Published, StagedRow, Row
<1>9. Withdrawn(q)'
  <2>1. runs[q].status \in Undone =>
          Joined(q)' = {} /\ ~Shows(q)' /\ \A s \in Targets(q) : ~Holds(q, s)'
    BY <1>2, <1>4, <1>5 DEF Fits, Withdrawn
  <2>. QED
    BY <1>1, <2>1 DEF Withdrawn
<1>. QED
  BY <1>6, <1>7, <1>8, <1>9 DEF Fits

\* What the storage of a node changes.
LEMMA PutFacts ==
  ASSUME Typed, NEW n \in Nodes, NEW node \in NodeType, NEW who \in Runs \cup {0},
         Put(n, node, who)
  PROVE  /\ nodes'[n].state = node.state /\ nodes'[n].to = node.to
         /\ Fingerprint(nodes'[n]) = Fingerprint(node)
         /\ nodes'[n].rev = IF Exists(n) THEN nodes[n].rev + 1 ELSE 1
         /\ writer'[n] = who
         /\ \A m \in Nodes : m # n => nodes'[m] = nodes[m] /\ writer'[m] = writer[m]
<1> DEFINE rev == IF Exists(n) THEN nodes[n].rev + 1 ELSE 1
           row == [node EXCEPT !.rev = rev]
<1>1. nodes' = [nodes EXCEPT ![n] = row] /\ writer' = [writer EXCEPT ![n] = who]
  BY DEF Put
<1>2. /\ row.state = node.state /\ row.to = node.to /\ row.rev = rev
      /\ row.tag = node.tag /\ row.owner = node.owner
  BY DEF NodeType
<1> HIDE DEF row, rev
<1>3. /\ nodes'[n] = row /\ writer'[n] = who
      /\ \A m \in Nodes : m # n => nodes'[m] = nodes[m] /\ writer'[m] = writer[m]
  BY <1>1 DEF Typed
<1>. QED
  BY <1>2, <1>3 DEF Fingerprint, rev

LEMMA PutSpares ==
  ASSUME Typed, NEW n \in Nodes, NEW node \in NodeType, NEW who \in Runs \cup {0},
         Put(n, node, who), NEW q \in Runs, who # q, UNCHANGED edges, runs'[q] = runs[q],
         Staged(q),
         n = Out[q] /\ runs[q].status \in Early =>
             node.state \in Hidden /\ runs[q].status # "None"
  PROVE  Spares(q)
<1>1. /\ nodes'[n].state = node.state /\ writer'[n] = who
      /\ \A m \in Nodes : m # n => nodes'[m] = nodes[m] /\ writer'[m] = writer[m]
  BY PutFacts
<1>2. Out[q] \in Nodes
  BY OutInNodes
<1>3. \A m \in Nodes : writer'[m] = q => nodes'[m] = nodes[m] /\ writer[m] = q
  BY <1>1
<1>4. runs[q].status \in Early => nodes'[Out[q]].state \in Hidden
  BY <1>1, <1>2 DEF Staged
<1>5. runs[q].status = "None" => nodes'[Out[q]].state = "Unborn"
  BY <1>1, <1>2 DEF Staged, Early
<1>. QED
  BY <1>3, <1>4, <1>5 DEF Spares

LEMMA SameSpares ==
  ASSUME NEW q \in Runs, UNCHANGED <<nodes, writer>>, runs'[q] = runs[q], Staged(q),
         \A e \in AllEdges : edges'[e].by = q => edges'[e] = edges[e]
  PROVE  Spares(q)
  BY DEF Spares, Staged

\* Other callers spare every run,
LEMMA CallerSpares ==
  ASSUME Typed, NEW n \in Nodes, Insert(n) \/ Retract(n) \/ Delete(n),
         NEW q \in Runs, Staged(q)
  PROVE  Spares(q)
<1>1. UNCHANGED <<edges, runs>>
  BY DEF Insert, Retract, Delete
<1>2. n = Out[q] => n \notin Raw /\ (runs[q].status = "None" => ~Exists(n))
  <2>1. n = Out[q] => n \in Outputs
    BY OutInNodes
  <2>2. Outputs \cap Raw = {}
    BY DreamAssumption
  <2>. QED
    BY <2>1, <2>2 DEF Staged, Exists
<1>3. n = Out[q] /\ runs[q].status \in Early => nodes[n].state \in Hidden
  BY DEF Staged
<1>4. CASE Insert(n)
  <2>1. CASE /\ nodes[n].state = "Unborn" /\ n \in Raw
             /\ Put(n, Row("Active", "raw", NoOwner), 0)
    <3> DEFINE node == Row("Active", "raw", NoOwner)
    <3>1. node \in NodeType
      BY RowsTyped
    <3>2. Put(n, node, 0)
      BY <2>1
    <3>3. n # Out[q] /\ 0 # q
      BY <1>2, <2>1 DEF Runs
    <3> HIDE DEF node
    <3>. QED
      BY <1>1, <3>1, <3>2, <3>3, PutSpares
  <2>2. CASE Exists(n) /\ Put(n, [nodes[n] EXCEPT !.tag = "edited"], 0)
    <3> DEFINE node == [nodes[n] EXCEPT !.tag = "edited"]
    <3>0. nodes[n] \in NodeType
      BY DEF Typed
    <3>1. node \in NodeType /\ node.state = nodes[n].state
      BY <3>0, RowsTyped, RowEdits
    <3> HIDE DEF node
    <3>2. Put(n, node, 0) /\ 0 # q
      BY <2>2 DEF node, Runs
    <3>. QED
      BY <1>1, <1>2, <1>3, <2>2, <3>1, <3>2, PutSpares
  <2>. QED
    BY <1>4, <2>1, <2>2 DEF Insert
<1>5. CASE Retract(n)
  <2> DEFINE node == [nodes[n] EXCEPT !.state = "Retracted", !.to = "now"]
  <2>0. nodes[n] \in NodeType
    BY DEF Typed
  <2>1. node \in NodeType /\ node.state = "Retracted"
    BY <2>0, RowsTyped, RowEdits
  <2> HIDE DEF node
  <2>2. Exists(n) /\ Put(n, node, 0) /\ 0 # q
    BY <1>5 DEF Retract, node, Runs
  <2>. QED
    BY <1>1, <1>2, <2>1, <2>2, PutSpares DEF Hidden
<1>6. CASE Delete(n)
  <2>1. /\ nodes'[n] = NoRow("Gone") /\ writer'[n] = 0 /\ Exists(n) /\ 0 # q
        /\ \A m \in Nodes : m # n => nodes'[m] = nodes[m] /\ writer'[m] = writer[m]
    BY <1>6 DEF Delete, Typed, Runs
  <2>2. NoRow("Gone").state = "Gone"
    BY DEF NoRow, Row
  <2>3. Out[q] \in Nodes
    BY OutInNodes
  <2>4. \A m \in Nodes : writer'[m] = q => nodes'[m] = nodes[m] /\ writer[m] = q
    BY <2>1
  <2>5. runs[q].status \in Early => nodes'[Out[q]].state \in Hidden
    BY <2>1, <2>2, <2>3 DEF Staged, Hidden
  <2>6. runs[q].status = "None" => nodes'[Out[q]].state = "Unborn"
    BY <1>2, <2>1, <2>3 DEF Staged
  <2>. QED
    BY <1>1, <2>4, <2>5, <2>6 DEF Spares
<1>. QED
  BY <1>4, <1>5, <1>6

LEMMA CallAddEdgeSpares ==
  ASSUME Typed, NEW k \in EdgeKeys, CallAddEdge(k), NEW q \in Runs, Staged(q)
  PROVE  Spares(q)
<1>1. UNCHANGED <<nodes, runs, writer>> /\ k \in AllEdges
      /\ edges' = [edges EXCEPT ![k] = [rev |-> @.rev + 1, by |-> 0]]
  BY DEF CallAddEdge, PutEdge, AllEdges
<1>2. edges'[k].by = 0 /\ 0 # q /\ \A e \in AllEdges : e # k => edges'[e] = edges[e]
  BY <1>1 DEF Typed, Runs
<1>. QED
  BY <1>1, <1>2, SameSpares

\* and so does the projection of a staged output, which only counts its revision.
LEMMA ProjectSpares ==
  ASSUME Typed, NEW r \in Runs, Project(r), runs[r].status = "Pending",
         NEW q \in Runs, Staged(q)
  PROVE  Spares(q)
<1>1. UNCHANGED <<edges, runs, writer>>
      /\ (UNCHANGED nodes \/ nodes' = [nodes EXCEPT ![Out[r]].rev = @ + 1])
  BY DEF Project
<1>2. CASE UNCHANGED nodes
  BY <1>1, <1>2, SameSpares
<1>3. CASE nodes' = [nodes EXCEPT ![Out[r]].rev = @ + 1]
  <2>1. Out[r] \in Nodes /\ Out[q] \in Nodes /\ nodes \in [Nodes -> NodeType]
    BY OutInNodes DEF Typed
  <2>2. \A m \in Nodes : nodes'[m].state = nodes[m].state /\ nodes'[m].tag = nodes[m].tag
          /\ nodes'[m].owner = nodes[m].owner /\ nodes'[m].to = nodes[m].to
          /\ (nodes'[m].rev = nodes[m].rev \/ m = Out[r])
    BY <1>3, <2>1 DEF NodeType
  <2>3. runs[r].status \in Early
    BY DEF Early
  <2>. QED
    BY <1>1, <2>1, <2>2, <2>3 DEF Spares, Staged, Fingerprint
<1>. QED
  BY <1>1, <1>2, <1>3

------------------------------------------------------------------------------
(* The next write of a task. *)

LEMMA ItemFacts ==
  /\ \A do, e : OnEdge(do, e).do = do /\ OnEdge(do, e).edge = e
  /\ \A do, s : OnTarget(do, s).do = do /\ OnTarget(do, s).target = s
  /\ \A do : OnRun(do).do = do
  /\ \A status : SetStatus(status).do = "status" /\ SetStatus(status).status = status
  BY DEF OnEdge, OnTarget, OnRun, SetStatus

\* The tasks that write do work for a run in the state that fits.
LEMMA HeadFits ==
  ASSUME Typed, TaskFits, task.work # <<>>
  PROVE  LET h == Head(task.work)
             r == task.r
         IN  /\ h \in Left /\ r \in Runs
             /\ h.do \in {"id", "fingerprint", "stage", "plan"} =>
                  task.kind = "stage" /\ Staging(r) /\ StagingFits(r)
             /\ h.do \notin {"id", "fingerprint", "stage", "plan"} =>
                  task.kind \in Kinds /\ task.work \in Seq(Items)
             /\ h.do = "addEdge" => /\ task.kind = "complete" /\ Completing(r)
                                    /\ \E e \in Planned(r) : h = OnEdge("addEdge", e)
             /\ h.do = "supersede" => /\ task.kind = "complete" /\ Completing(r)
                                      /\ \E s \in Targets(r) : h = OnTarget("supersede", s)
             /\ h.do \in {"activate", "capture"} =>
                  task.kind = "complete" /\ Completing(r) /\ runs[r].created /\ h = OnRun(h.do)
             /\ h.do = "cleanup" => CleaningUp(r)
             /\ h.do = "dropEdge" => RollingBack(r) /\ \E e \in Planned(r) : h = OnEdge("dropEdge", e)
             /\ h.do = "restore" => RollingBack(r) /\ \E s \in Targets(r) : h = OnTarget("restore", s)
             /\ h.do = "rollback" => RollingBack(r) /\ h = OnRun("rollback")
             /\ h.do = "removeEdge" => Reverting(r) /\ \E e \in Planned(r) : h = OnEdge("removeEdge", e)
             /\ h.do = "reinstate" => Reverting(r) /\ \E s \in Targets(r) : h = OnTarget("reinstate", s)
             /\ h.do = "retract" => Reverting(r) /\ h = OnRun("retract") /\ runs[r].created
             /\ h.do = "status" =>
                  \/ Completing(r) /\ h.status = "Completed"
                  \/ (CleaningUp(r) \/ RollingBack(r)) /\ h.status \in {"Failed", "Repaired"}
                  \/ Reverting(r) /\ h.status = "Reverted"
<1> DEFINE h == Head(task.work)
           r == task.r
<1>1. r \in Runs /\ task # NoTask
  BY HeadTyped
<1>2. CASE task.kind = "stage" /\ Staging(r)
  <2>1. h \in Left /\ h.do \in {"id", "fingerprint", "stage", "plan"}
    BY <1>2 DEF Staging, OnRun, Left, Range
  <2>2. StagingFits(r)
    BY <1>2 DEF TaskFits
  <2> HIDE DEF h, r
  <2>. QED
    BY <1>1, <1>2, <2>1, <2>2 DEF h, r
<1>3. CASE task.kind \in Kinds /\ task.work \in Seq(Items)
  <2>1. h \in Left /\ h \in Items
    <3>1. 1 \in DOMAIN task.work /\ h = task.work[1]
      BY <1>3
    <3>. QED
      BY <1>3, <3>1 DEF Left, Range
  <2> HIDE DEF h, r
  <2>2. h.do \notin {"id", "fingerprint", "stage", "plan"}
    BY <2>1 DEF Items, EdgeItems, TargetItems, RunItems, StatusItems
  <2>3. CASE task.kind = "complete" /\ Completing(r)
    <3>1. \/ \E e \in Planned(r) : h = OnEdge("addEdge", e)
          \/ \E s \in Targets(r) : h = OnTarget("supersede", s)
          \/ runs[r].created /\ h \in {OnRun("activate"), OnRun("capture")}
          \/ h = SetStatus("Completed")
      BY <2>1, <2>3 DEF Completing
    <3>. QED
      BY <1>1, <1>3, <2>1, <2>2, <2>3, <3>1, ItemFacts DEF h, r
  <2>4. CASE CleaningUp(r)
    <3>1. h \in {OnRun("cleanup"), SetStatus("Failed"), SetStatus("Repaired")}
      BY <2>1, <2>4 DEF CleaningUp
    <3>. QED
      BY <1>1, <1>3, <2>1, <2>2, <2>4, <3>1, ItemFacts DEF h, r
  <2>5. CASE RollingBack(r)
    <3>1. \/ \E e \in Planned(r) : h = OnEdge("dropEdge", e)
          \/ \E s \in Targets(r) : h = OnTarget("restore", s)
          \/ h \in {OnRun("rollback"), SetStatus("Failed"), SetStatus("Repaired")}
      BY <2>1, <2>5 DEF RollingBack
    <3>. QED
      BY <1>1, <1>3, <2>1, <2>2, <2>5, <3>1, ItemFacts DEF h, r
  <2>6. CASE Reverting(r)
    <3>1. \/ \E e \in Planned(r) : h = OnEdge("removeEdge", e)
          \/ \E s \in Targets(r) : h = OnTarget("reinstate", s)
          \/ runs[r].created /\ h = OnRun("retract")
          \/ h = SetStatus("Reverted")
      BY <2>1, <2>6 DEF Reverting
    <3>. QED
      BY <1>1, <1>3, <2>1, <2>2, <2>6, <3>1, ItemFacts DEF h, r
  <2>. QED
    BY <1>3, <2>3, <2>4, <2>5, <2>6 DEF TaskFits, Kinds, r
<1>. QED
  BY <1>1, <1>2, <1>3 DEF Typed, TaskTyped

LEMMA DoneKeeps ==
  ASSUME Typed, task.work # <<>>, Done
  PROVE  /\ task'.kind = task.kind /\ task'.r = task.r /\ task'.plan = task.plan
         /\ task'.work = Tail(task.work)
<1>1. task # NoTask
  BY NoTaskTyped
<1>2. task = [kind |-> task.kind, r |-> task.r, work |-> task.work, plan |-> task.plan]
  BY <1>1 DEF Typed, TaskTyped
<1>3. task' = [kind |-> task.kind, r |-> task.r, work |-> Tail(task.work), plan |-> task.plan]
  BY <1>2 DEF Done
<1>. QED
  BY <1>3

\* A task that has made its next write.
LEMMA DoneLeft ==
  ASSUME Typed, TaskFits, task.work # <<>>, Done,
         Head(task.work).do \notin {"id", "fingerprint", "stage", "plan"}
  PROVE  LET h == Head(task.work)
         IN  /\ task'.kind = task.kind /\ task'.r = task.r
             /\ Left' = Left \ {h} /\ InOrder(task'.work)
             /\ h.do = "capture" => OnRun("activate") \notin Left'
<1>1. task.work \in Seq(Items)
  BY HeadFits
<1>2. /\ task'.kind = task.kind /\ task'.r = task.r
      /\ task'.work = Tail(task.work)
  BY DoneKeeps
<1>3. InOrder(task.work)
  BY DEF TaskFits
<1>4. /\ Range(Tail(task.work)) = Range(task.work) \ {Head(task.work)}
      /\ InOrder(Tail(task.work))
      /\ Head(task.work).do = "capture" =>
            \A y \in Range(Tail(task.work)) : y.do # "activate"
  BY <1>1, <1>3, TailInOrder
<1>. QED
  BY <1>2, <1>4, ItemFacts DEF Left

LEMMA LastWrite ==
  ASSUME Typed, TaskFits, task.work # <<>>, Head(task.work).do = "status"
  PROVE  \A x \in Left : x = Head(task.work)
<1>1. task.work \in Seq(Items) /\ InOrder(task.work)
  BY HeadFits DEF TaskFits
<1>2. Range(Tail(task.work)) = Range(task.work) \ {Head(task.work)}
      /\ Range(Tail(task.work)) = {}
  BY <1>1, TailInOrder
<1>. QED
  BY <1>2 DEF Left

LEMMA NoTaskFits ==
  ASSUME task' = NoTask
  PROVE  TaskFits'
<1>1. task'.kind = "none" /\ task'.work = <<>>
  BY DEF NoTask
<1>. QED
  BY <1>1 DEF TaskFits, InOrder

LEMMA SameTaskFits ==
  ASSUME TaskFits, UNCHANGED <<nodes, edges, runs, task, writer>>
  PROVE  TaskFits'
<1>1. UNCHANGED <<nodes, edges, runs, task, writer>> /\ Left' = Left
  BY DEF Left
<1>2. StagingFits(task.r) => StagingFits(task.r)'
  BY <1>1 DEF StagingFits
<1>3. Completing(task.r) => Completing(task.r)'
  BY <1>1 DEF Completing, Planned, Targets, StillStaged, Exists, Fingerprint, StagedRow, Row
<1>4. CleaningUp(task.r) => CleaningUp(task.r)'
  BY <1>1 DEF CleaningUp
<1>5. RollingBack(task.r) => RollingBack(task.r)'
  BY <1>1 DEF RollingBack, Undoing, Joined, Planned, Targets, Holds, Shows
<1>6. Reverting(task.r) => Reverting(task.r)'
  BY <1>1 DEF Reverting, Undoing, Joined, Planned, Targets, Holds, Shows
<1>. QED
  BY <1>1, <1>2, <1>3, <1>4, <1>5, <1>6 DEF TaskFits, InOrder

\* A step of a task that publishes nothing changes no call.
LEMMA TaskCallsFit ==
  ASSUME CallsFit, UNCHANGED <<call, phase>>, task'.r = task.r,
         task'.kind = task.kind \/ (task'.kind = "undo" /\ task.kind \in Kinds),
         \A r \in Runs : runs'[r].status = runs[r].status
  PROVE  CallsFit'
<1>1. task.kind = "stage" <=> task'.kind = "stage"
  BY DEF Kinds
<1>2. \A r \in Runs : CallFits(r)'
  BY <1>1 DEF CallsFit, CallFits
<1>. QED
  BY <1>1, <1>2 DEF CallsFit, Kinds

------------------------------------------------------------------------------
(* The steps of callers and of the maintain calls. *)

LEMMA CallerAtomic ==
  ASSUME Typed, AtomicIInv,
         \/ \E n \in Nodes : Insert(n) \/ Retract(n) \/ Delete(n)
         \/ \E e \in EdgeKeys : CallAddEdge(e)
  PROVE  AtomicIInv'
<1>1. task = NoTask /\ UNCHANGED <<runs, call, phase, task>>
  BY DEF Insert, Retract, Delete, CallAddEdge, Begin, Locked
<1>2. ASSUME NEW q \in Runs PROVE Fits(q)'
  <2>1. Fits(q) /\ Staged(q)
    BY DEF AtomicIInv, Fits
  <2>2. Spares(q)
    BY <2>1, CallerSpares, CallAddEdgeSpares
  <2>. QED
    BY <1>1, <2>1, <2>2, SparesFits DEF NoReturn
<1>3. CallsFit'
  BY <1>1 DEF AtomicIInv, CallsFit, CallFits
<1>4. TaskFits'
  BY <1>1, NoTaskFits
<1>. QED
  BY <1>2, <1>3, <1>4 DEF AtomicIInv

\* A step that writes nothing durable.
LEMMA DurableAtomic ==
  ASSUME Typed, AtomicIInv, UNCHANGED durable, CallsFit', TaskFits'
  PROVE  AtomicIInv'
<1>1. UNCHANGED <<nodes, edges, runs, writer>>
  BY DEF durable
<1>2. ASSUME NEW q \in Runs PROVE Fits(q)'
  <2>1. Fits(q) /\ Staged(q)
    BY DEF AtomicIInv, Fits
  <2>2. Spares(q) /\ NoReturn
    BY <1>1, <2>1, SameSpares DEF NoReturn
  <2>. QED
    BY <2>1, <2>2, SparesFits
<1>. QED
  BY <1>2 DEF AtomicIInv

LEMMA WaitAtomic ==
  ASSUME Typed, AtomicIInv, NEW r \in Runs, Ask(r) \/ Cancel(r)
  PROVE  AtomicIInv'
<1>1. UNCHANGED <<nodes, edges, runs, writer, phase, task>> /\ phase = "open"
  BY DEF Ask, Cancel, durable
<1>2. \A q \in Runs : q # r => call'[q] = call[q]
  BY DEF Ask, Cancel, Return, Typed
<1>3. \/ call[r].pc = "idle" /\ call'[r].pc = "asked"
      \/ call[r].pc \in {"asked", "staged", "projected"} /\ call'[r].pc = "done"
  BY DEF Ask, Cancel, Return, NoCall, Typed
<1>4. CallFits(r)'
  BY <1>1, <1>3 DEF AtomicIInv, CallsFit, CallFits
<1>5. \A q \in Runs : CallFits(q)'
  BY <1>1, <1>2, <1>4 DEF AtomicIInv, CallsFit, CallFits
<1>6. task.kind \in Kinds => call'[task.r].pc = "done"
  <2>1. task.kind \in Kinds => task.r \in Runs
    BY DEF Typed, TaskTyped, NoTask, Kinds
  <2>. QED
    BY <1>2, <1>3, <2>1 DEF AtomicIInv, CallsFit
<1>7. CallsFit'
  BY <1>1, <1>5, <1>6 DEF AtomicIInv, CallsFit
<1>8. TaskFits'
  BY <1>1, SameTaskFits DEF AtomicIInv
<1>. QED
  BY <1>1, <1>7, <1>8, DurableAtomic DEF durable

LEMMA ProjectAtomic ==
  ASSUME Typed, AtomicIInv, NEW r \in Runs, Project(r)
  PROVE  AtomicIInv'
<1>1. task = NoTask /\ UNCHANGED <<runs, phase, task>> /\ phase = "open"
      /\ call[r].pc = "staged" /\ call' = [call EXCEPT ![r].pc = "projected"]
  BY DEF Project, Locked
<1>2. runs[r].status = "Pending"
  BY <1>1 DEF AtomicIInv, CallsFit, CallFits
<1>3. ASSUME NEW q \in Runs PROVE Fits(q)'
  <2>1. Fits(q) /\ Staged(q)
    BY DEF AtomicIInv, Fits
  <2>2. Spares(q)
    BY <1>2, <2>1, ProjectSpares
  <2>. QED
    BY <1>1, <2>1, <2>2, SparesFits DEF NoReturn
<1>4. call'[r].pc = "projected" /\ \A q \in Runs : q # r => call'[q] = call[q]
  BY <1>1 DEF Typed, CallType
<1>5. CallsFit'
  BY <1>1, <1>2, <1>4 DEF AtomicIInv, CallsFit, CallFits, NoTask, Kinds
<1>6. TaskFits'
  BY <1>1, NoTaskFits
<1>. QED
  BY <1>3, <1>5, <1>6 DEF AtomicIInv

LEMMA StageWorkIs ==
  ASSUME NEW plan
  PROVE  \/ StageWork(plan) = <<OnRun("plan")>>
         \/ StageWork(plan) = <<OnRun("id"), OnRun("fingerprint"), OnRun("stage"), OnRun("plan")>>
<1>1. \/ StageWork(plan) = <<OnRun("id"), OnRun("fingerprint"), OnRun("stage")>> \o <<OnRun("plan")>>
      \/ StageWork(plan) = <<>> \o <<OnRun("plan")>>
  BY DEF StageWork
<1>. QED
  BY <1>1

\* The answer is staged under the lock: the memories it supersedes are active.
LEMMA AnswerAtomic ==
  ASSUME Typed, AtomicIInv, NEW r \in Runs, NEW plan \in Plans, Answer(r, plan), ActiveTargets'
  PROVE  AtomicIInv'
<1>1. task = NoTask /\ phase = "open" /\ call[r].pc = "asked"
      /\ UNCHANGED <<nodes, edges, phase, writer>>
  BY DEF Answer, Locked
<1>2. runs[r].status = "None"
  BY <1>1 DEF AtomicIInv, CallsFit, CallFits, NoTask
<1>3. CASE Return(r) /\ UNCHANGED <<runs, task>>
  <2>1. call'[r].pc = "done" /\ \A q \in Runs : q # r => call'[q] = call[q]
    BY <1>3 DEF Return, NoCall, Typed
  <2>2. CallsFit'
    BY <1>1, <1>3, <2>1 DEF AtomicIInv, CallsFit, CallFits, NoTask, Kinds
  <2>3. TaskFits'
    BY <1>1, <1>3, NoTaskFits
  <2>. QED
    BY <1>1, <1>3, <2>2, <2>3, DurableAtomic DEF durable
<1>4. CASE /\ ValidPlan(plan, call[r].hash)
           /\ runs' = [runs EXCEPT ![r] = [NoRun EXCEPT !.status = "Pending",
                            !.hash = call[r].hash, !.cites = plan.cites]]
           /\ task' = [Start("stage", r, StageWork(plan)) EXCEPT !.plan = plan]
           /\ UNCHANGED call
  <2>1. /\ runs'[r].status = "Pending" /\ runs'[r].hash = call[r].hash
        /\ runs'[r].edges = <<>> /\ runs'[r].superseded = <<>>
        /\ \A q \in Runs : q # r => runs'[q] = runs[q]
    BY <1>4 DEF NoRun, Typed
  <2>2. task'.kind = "stage" /\ task'.r = r /\ task'.work = StageWork(plan) /\ task'.plan = plan
    BY <1>4 DEF Start
  <2>3. NoReturn
    BY <1>2, <2>1 DEF NoReturn, Early
  <2>4. ASSUME NEW q \in Runs, q # r PROVE Fits(q)'
    <3>1. Fits(q) /\ Staged(q)
      BY DEF AtomicIInv, Fits
    <3>2. Spares(q)
      BY <1>1, <2>1, <2>4, <3>1, SameSpares
    <3>. QED
      BY <2>3, <3>1, <3>2, SparesFits
  <2>5. Fits(r)'
    <3>1. Staged(r) /\ runs[r].status \in Early
      BY <1>2 DEF AtomicIInv, Fits, Early
    <3>2. Recorded(r)'
      BY <2>1 DEF Recorded, Targets, Range
    <3>3. Staged(r)'
      <4>1. /\ Joined(r)' = {} /\ nodes'[Out[r]].state \in Hidden /\ writer'[Out[r]] # r
            /\ \A n \in Nodes : writer'[n] = r => n = Out[r]
        BY <1>1, <1>2, <3>1 DEF Staged, Joined
      <4>. QED
        BY <2>1, <4>1 DEF Staged
    <3>4. Published(r)' /\ Withdrawn(r)'
      BY <2>1 DEF Published, Withdrawn, Undone
    <3>. QED
      BY <3>2, <3>3, <3>4 DEF Fits
  <2>6. CallsFit'
    <3>1. \A q \in Runs : q # r => CallFits(q)'
      BY <1>1, <1>4, <2>1 DEF AtomicIInv, CallsFit, CallFits, NoTask
    <3>2. CallFits(r)'
      BY <1>1, <1>4, <2>2 DEF CallFits
    <3>. QED
      BY <1>1, <2>2, <3>1, <3>2 DEF CallsFit, Kinds
  <2>7. TaskFits'
    <3>1. StagingFits(r)'
      <4>1. \A i \in DOMAIN plan.links :
              /\ plan.links[i] \in Nodes \X Nodes
              /\ plan.links[i][1] \in SourcesOf(call[r].hash)
        BY <1>4, DreamAssumption DEF ValidPlan
      <4>2. \A n \in SourcesOf(call[r].hash) : nodes[n].state = "Active"
        BY <1>4 DEF ValidPlan, SourcesUnchanged, SourcesOf
      <4>3. nodes[Out[r]].state # "Active"
        BY <1>2 DEF AtomicIInv, Fits, Staged
      <4>4. \A i, j \in DOMAIN plan.links : i # j => plan.links[i] # plan.links[j]
        <5>1. plan.links \in Seq(EdgeKeys)
          BY DreamAssumption
        <5>2. \A i \in DOMAIN plan.links : \A j \in 1 .. i - 1 : plan.links[j] # plan.links[i]
          BY <1>4 DEF ValidPlan
        <5>. QED
          BY <5>1, <5>2
      <4>5. \A i \in DOMAIN plan.supersede :
              /\ nodes[plan.supersede[i]].state = "Active"
              /\ \A j \in DOMAIN plan.supersede : i # j => plan.supersede[i] # plan.supersede[j]
        BY <1>1, <2>2 DEF ActiveTargets
      <4>6. task'.work # <<OnRun("stage"), OnRun("plan")>>
        <5>1. Len(StageWork(plan)) \in {1, 4}
          BY StageWorkIs
        <5>2. Len(<<OnRun("stage"), OnRun("plan")>>) = 2
          OBVIOUS
        <5>. QED
          BY <2>2, <5>1, <5>2
      <4>. QED
        BY <1>1, <2>1, <2>2, <4>1, <4>2, <4>3, <4>4, <4>5, <4>6 DEF StagingFits
    <3>2. InOrder(task'.work)
      BY <2>2, StageWorkIs, ItemFacts DEF InOrder
    <3>. QED
      BY <2>2, <3>1, <3>2 DEF TaskFits
  <2>. QED
    BY <2>4, <2>5, <2>6, <2>7 DEF AtomicIInv
<1>. QED
  BY <1>3, <1>4 DEF Answer

------------------------------------------------------------------------------
(* Staging. *)

LEMMA RecordAtomic ==
  ASSUME Typed, AtomicIInv, RecordId \/ RecordFingerprint
  PROVE  AtomicIInv'
<1>0. PICK p : p = task.r
  OBVIOUS
<1>1. /\ task.work # <<>> /\ Head(task.work).do \in {"id", "fingerprint"} /\ Done
      /\ UNCHANGED <<nodes, edges, call, phase, writer>>
  BY DEF RecordId, RecordFingerprint, Doing
<1>2. p \in Runs /\ task.kind = "stage" /\ Staging(p) /\ StagingFits(p)
  BY <1>0, <1>1, HeadFits DEF AtomicIInv
<1>3. /\ task'.kind = "stage" /\ task'.r = p /\ task'.plan = task.plan
      /\ task'.work = Tail(task.work)
  BY <1>0, <1>1, <1>2, DoneKeeps
<1>4. /\ \A q \in Runs : q # p => runs'[q] = runs[q]
      /\ runs'[p].status = "Pending" /\ runs[p].status = "Pending"
      /\ runs'[p].edges = runs[p].edges /\ runs'[p].superseded = runs[p].superseded
      /\ runs[p].fingerprint => runs'[p].fingerprint
      /\ Head(task.work).do = "fingerprint" => runs'[p].fingerprint
  <2>1. runs[p].status = "Pending"
    BY <1>2 DEF StagingFits
  <2>2. runs \in [Runs -> RunType] /\ runs[p] \in RunType
    BY <1>2 DEF Typed
  <2>3. CASE runs' = [runs EXCEPT ![p].created = TRUE] /\ Head(task.work).do = "id"
    BY <1>2, <2>1, <2>2, <2>3 DEF RunType
  <2>4. CASE runs' = [runs EXCEPT ![p].fingerprint = TRUE]
    BY <1>2, <2>1, <2>2, <2>4 DEF RunType
  <2>. QED
    BY <1>0, <2>3, <2>4 DEF RecordId, RecordFingerprint, Doing
<1>5. NoReturn
  BY <1>4 DEF NoReturn
<1>6. ASSUME NEW q \in Runs, q # p PROVE Fits(q)'
  <2>1. Fits(q) /\ Staged(q)
    BY DEF AtomicIInv, Fits
  <2>2. Spares(q)
    BY <1>1, <1>4, <1>6, <2>1, SameSpares
  <2>. QED
    BY <1>5, <2>1, <2>2, SparesFits
<1>7. Fits(p)'
  <2>1. Recorded(p) /\ Staged(p)
    BY <1>2 DEF AtomicIInv, Fits
  <2>2. Recorded(p)'
    BY <1>4, <1>5, <2>1 DEF Recorded, Targets, NoReturn
  <2>3. Staged(p)'
    BY <1>1, <1>4, <2>1 DEF Staged, Joined, Early
  <2>4. Published(p)' /\ Withdrawn(p)'
    BY <1>4 DEF Published, Withdrawn, Undone
  <2>. QED
    BY <2>2, <2>3, <2>4 DEF Fits
<1>8. CallsFit'
  <2>1. \A q \in Runs : runs'[q].status = runs[q].status
    BY <1>4
  <2>. QED
    BY <1>0, <1>1, <1>2, <1>3, <2>1, TaskCallsFit DEF AtomicIInv
<1>9. TaskFits'
  <2>1. CASE task.work = <<OnRun("id"), OnRun("fingerprint"), OnRun("stage"), OnRun("plan")>>
    <3>1. task'.work = <<OnRun("fingerprint"), OnRun("stage"), OnRun("plan")>>
      BY <1>3, <2>1
    <3>2. task'.work # <<OnRun("stage"), OnRun("plan")>>
      <4>1. Len(task'.work) = 3 /\ Len(<<OnRun("stage"), OnRun("plan")>>) = 2
        BY <3>1
      <4>. QED
        BY <4>1
    <3>3. StagingFits(p)'
      BY <1>1, <1>2, <1>3, <1>4, <3>2 DEF StagingFits
    <3>4. InOrder(task'.work)
      BY <3>1, ItemFacts DEF InOrder
    <3>. QED
      BY <1>3, <3>3, <3>4 DEF TaskFits
  <2>2. CASE task.work = <<OnRun("fingerprint"), OnRun("stage"), OnRun("plan")>>
    <3>1. task'.work = <<OnRun("stage"), OnRun("plan")>> /\ Head(task.work) = OnRun("fingerprint")
      BY <1>3, <2>2
    <3>2. runs'[p].fingerprint
      BY <1>4, <3>1, ItemFacts
    <3>3. StagingFits(p)'
      BY <1>1, <1>2, <1>3, <1>4, <3>2 DEF StagingFits
    <3>4. InOrder(task'.work)
      BY <3>1, ItemFacts DEF InOrder
    <3>. QED
      BY <1>3, <3>3, <3>4 DEF TaskFits
  <2>3. CASE task.work = <<OnRun("stage"), OnRun("plan")>> \/ task.work = <<OnRun("plan")>>
    <3>1. Head(task.work) \in {OnRun("stage"), OnRun("plan")}
      BY <2>3
    <3>. QED
      BY <1>1, <3>1, ItemFacts
  <2>. QED
    BY <1>2, <2>1, <2>2, <2>3 DEF Staging
<1>. QED
  BY <1>6, <1>7, <1>8, <1>9 DEF AtomicIInv

\* The output is stored after its fingerprint is recorded.
LEMMA InsertStagedAtomic ==
  ASSUME Typed, AtomicIInv, InsertStaged
  PROVE  AtomicIInv'
<1>0. PICK p : p = task.r
  OBVIOUS
<1> DEFINE n == Out[p]
<1>1. /\ task.work # <<>> /\ Head(task.work).do = "stage" /\ Done
      /\ UNCHANGED <<edges, runs, call, phase>>
      /\ Put(n, StagedRow(p), p)
  BY <1>0 DEF InsertStaged, Doing
<1>2. p \in Runs /\ task.kind = "stage" /\ Staging(p) /\ StagingFits(p)
  BY <1>0, <1>1, HeadFits DEF AtomicIInv
<1>3. /\ task'.kind = "stage" /\ task'.r = p /\ task'.plan = task.plan
      /\ task'.work = Tail(task.work)
  BY <1>0, <1>1, <1>2, DoneKeeps
<1>4. task.work = <<OnRun("stage"), OnRun("plan")>> /\ task'.work = <<OnRun("plan")>>
  <2>1. task.work = <<OnRun("stage"), OnRun("plan")>>
          \/ Head(task.work) \in {OnRun("id"), OnRun("fingerprint"), OnRun("plan")}
    BY <1>2 DEF Staging
  <2>2. task.work = <<OnRun("stage"), OnRun("plan")>>
    BY <1>1, <2>1, ItemFacts
  <2>. QED
    BY <1>3, <2>2
<1>5. runs[p].fingerprint /\ runs[p].status = "Pending"
  BY <1>2, <1>4 DEF StagingFits
<1>6. n \in Nodes /\ StagedRow(p) \in NodeType /\ StagedRow(p).state = "Pending"
  BY <1>2, OutInNodes, RowsTyped DEF StagedRow, Row
<1> HIDE DEF n
<1>7. /\ nodes'[n].state = "Pending" /\ writer'[n] = p
      /\ \A m \in Nodes : m # n => nodes'[m] = nodes[m] /\ writer'[m] = writer[m]
  BY <1>1, <1>2, <1>6, PutFacts
<1>8. NoReturn
  BY <1>1 DEF NoReturn
<1>9. ASSUME NEW q \in Runs, q # p PROVE Fits(q)'
  <2>1. Fits(q) /\ Staged(q)
    BY DEF AtomicIInv, Fits
  <2>2. n # Out[q]
    BY <1>2, <1>9 DEF n
  <2>3. Spares(q)
    BY <1>1, <1>2, <1>6, <1>9, <2>1, <2>2, PutSpares
  <2>. QED
    BY <1>8, <2>1, <2>3, SparesFits
<1>10. Fits(p)'
  <2>1. Recorded(p) /\ Staged(p)
    BY <1>2 DEF AtomicIInv, Fits
  <2>2. Recorded(p)'
    BY <1>1, <2>1 DEF Recorded, Targets
  <2>3. Staged(p)'
    <3>1. Joined(p)' = {} /\ \A m \in Nodes : writer'[m] = p => m = n
      BY <1>1, <1>5, <1>7, <2>1 DEF Staged, Joined, Early, n
    <3>. QED
      BY <1>1, <1>5, <1>7, <3>1 DEF Staged, Hidden, n
  <2>4. Published(p)' /\ Withdrawn(p)'
    BY <1>1, <1>5 DEF Published, Withdrawn, Undone
  <2>. QED
    BY <2>2, <2>3, <2>4 DEF Fits
<1>11. CallsFit'
  BY <1>0, <1>1, <1>2, <1>3, TaskCallsFit DEF AtomicIInv
<1>12. TaskFits'
  <2>1. nodes[n].state # "Active"
    BY <1>2, <1>5 DEF AtomicIInv, Fits, Staged, Early, Hidden, n
  <2>2. task.plan.supersede \in Seq(Nodes)
    BY <1>2 DEF Typed, TaskTyped, PlanType, NoTask
  <2>3. \A i \in DOMAIN task.plan.supersede :
          nodes'[task.plan.supersede[i]].state = "Active"
    BY <1>2, <1>7, <2>1, <2>2 DEF StagingFits
  <2>4. task'.work # <<OnRun("stage"), OnRun("plan")>>
    <3>1. Len(task'.work) = 1 /\ Len(<<OnRun("stage"), OnRun("plan")>>) = 2
      BY <1>4
    <3>. QED
      BY <3>1
  <2>5. StagingFits(p)'
    BY <1>1, <1>2, <1>3, <2>3, <2>4 DEF StagingFits
  <2>6. InOrder(task'.work)
    BY <1>4 DEF InOrder
  <2>. QED
    BY <1>3, <2>5, <2>6 DEF TaskFits
<1>. QED
  BY <1>9, <1>10, <1>11, <1>12 DEF AtomicIInv

\* The cited memories come in some order, each once.
LEMMA CitedOnce ==
  ASSUME NEW S, IsFiniteSet(S)
  PROVE  LET cited == SetToSeq(S)
         IN  cited \in Seq(S) /\ \A i, j \in DOMAIN cited : i # j => cited[i] # cited[j]
<1> DEFINE n == Cardinality(S)
<1>1. n \in Nat /\ \E f \in [1 .. n -> S] : IsInjective(f)
  <2>1. n \in Nat /\ ExistsBijection(1 .. n, S)
    BY FS_CardinalityType
  <2>. QED
    BY <2>1 DEF ExistsBijection, Bijection, Injection
<1>2. SetToSeq(S) \in [1 .. n -> S] /\ IsInjective(SetToSeq(S))
  BY <1>1 DEF SetToSeq
<1> DEFINE cited == SetToSeq(S)
<1> HIDE DEF n, cited
<1>3. cited \in [1 .. n -> S] /\ IsInjective(cited) /\ n \in Nat
  BY <1>1, <1>2 DEF n, cited
<1>4. cited \in Seq(S) /\ \A i, j \in DOMAIN cited : i # j => cited[i] # cited[j]
  BY <1>3 DEF IsInjective
<1>. QED
  BY <1>4 DEF cited

\* No edge is planned twice: an output is cited by none of the links.
LEMMA PlannedOnce ==
  ASSUME NEW p \in Runs, NEW plan \in PlanType,
         \A i \in DOMAIN plan.links :
             /\ plan.links[i][1] # Out[p]
             /\ \A j \in DOMAIN plan.links : i # j => plan.links[i] # plan.links[j]
  PROVE  LET es == PlannedEdges(p, plan)
         IN  \A i, j \in DOMAIN es : i # j => es[i] # es[j]
<1> DEFINE cited == SetToSeq(plan.cites)
           outgoing == [i \in DOMAIN cited |-> <<Out[p], cited[i]>>]
           links == plan.links
           es == outgoing \o links
<1>1. cited \in Seq(plan.cites) /\ \A i, j \in DOMAIN cited : i # j => cited[i] # cited[j]
  BY CitedOnce DEF PlanType
<1>2. PlannedEdges(p, plan) = es
  BY DEF PlannedEdges
<1>3. links \in Seq(EdgeKeys)
  BY DEF PlanType
<1>4. links \in Seq(Nodes \X Nodes)
  BY <1>3, DreamAssumption
<1> HIDE DEF cited
<1>5. /\ outgoing \in Seq({Out[p]} \X plan.cites) /\ Len(outgoing) = Len(cited)
      /\ \A i \in DOMAIN outgoing : outgoing[i][1] = Out[p]
      /\ \A i, j \in DOMAIN outgoing : i # j => outgoing[i] # outgoing[j]
  BY <1>1
<1> HIDE DEF outgoing, links
<1>6. /\ \A i \in DOMAIN links : links[i][1] # Out[p]
      /\ \A i, j \in DOMAIN links : i # j => links[i] # links[j]
  BY DEF links
<1>7. ASSUME NEW i \in DOMAIN es, NEW j \in DOMAIN es, i < j PROVE es[i] # es[j]
  <2>0. i \in 1 .. Len(outgoing) + Len(links) /\ j \in 1 .. Len(outgoing) + Len(links)
    BY <1>4, <1>5
  <2>1. CASE j <= Len(outgoing)
    <3>1. i \in DOMAIN outgoing /\ j \in DOMAIN outgoing
          /\ es[i] = outgoing[i] /\ es[j] = outgoing[j]
      BY <1>4, <1>5, <1>7, <2>0, <2>1
    <3>. QED
      BY <1>5, <1>7, <2>0, <3>1
  <2>2. CASE i > Len(outgoing)
    <3> DEFINE k == i - Len(outgoing)
               l == j - Len(outgoing)
    <3>1. k \in DOMAIN links /\ l \in DOMAIN links /\ k # l
          /\ es[i] = links[k] /\ es[j] = links[l]
      BY <1>4, <1>5, <1>7, <2>0, <2>2
    <3>. QED
      BY <1>6, <3>1
  <2>3. CASE i <= Len(outgoing) /\ j > Len(outgoing)
    <3> DEFINE l == j - Len(outgoing)
    <3>1. i \in DOMAIN outgoing /\ l \in DOMAIN links
          /\ es[i] = outgoing[i] /\ es[j] = links[l]
      BY <1>4, <1>5, <1>7, <2>0, <2>3
    <3>2. es[i][1] = Out[p] /\ es[j][1] # Out[p]
      BY <1>5, <1>6, <3>1
    <3>. QED
      BY <3>2
  <2>. QED
    BY <1>5, <2>0, <2>1, <2>2, <2>3
<1>8. ASSUME NEW i \in DOMAIN es, NEW j \in DOMAIN es, i # j PROVE es[i] # es[j]
  <2>1. i \in Int /\ j \in Int
    BY <1>4, <1>5
  <2>. QED
    BY <1>7, <1>8, <2>1
<1>. QED
  BY <1>2, <1>8

LEMMA RecordPlanAtomic ==
  ASSUME Typed, AtomicIInv, RecordPlan
  PROVE  AtomicIInv'
<1>0. PICK p : p = task.r
  OBVIOUS
<1> DEFINE plan == task.plan
           es == PlannedEdges(p, plan)
           ss == [i \in DOMAIN plan.supersede |-> Snapshot(plan.supersede[i])]
<1>1. /\ task.work # <<>> /\ Head(task.work).do = "plan" /\ task' = NoTask
      /\ UNCHANGED <<nodes, edges, phase, writer>>
      /\ runs' = [runs EXCEPT ![p].edges = es, ![p].superseded = ss]
      /\ call' = [call EXCEPT ![p].pc = "staged"]
  BY <1>0 DEF RecordPlan, Doing
<1>2. p \in Runs /\ task.kind = "stage" /\ StagingFits(p)
  BY <1>0, <1>1, HeadFits DEF AtomicIInv
<1>3. plan \in PlanType /\ phase = "open" /\ runs[p].status = "Pending"
  BY <1>2 DEF Typed, TaskTyped, NoTask, AtomicIInv, CallsFit, StagingFits
<1>4. \A i, j \in DOMAIN es : i # j => es[i] # es[j]
  <2>1. \A i \in DOMAIN plan.links :
          /\ plan.links[i][1] # Out[p]
          /\ \A j \in DOMAIN plan.links : i # j => plan.links[i] # plan.links[j]
    BY <1>2 DEF StagingFits
  <2> HIDE DEF plan
  <2>. QED
    BY <1>2, <1>3, <2>1, PlannedOnce
<1>5. /\ DOMAIN ss = DOMAIN plan.supersede
      /\ \A i \in DOMAIN ss :
            /\ ss[i].node = plan.supersede[i] /\ ss[i].state = nodes[ss[i].node].state
            /\ ss[i].state = "Active"
      /\ \A i, j \in DOMAIN ss : i # j => ss[i].node # ss[j].node
  <2>1. \A i \in DOMAIN ss : ss[i].node = plan.supersede[i]
                             /\ ss[i].state = nodes[plan.supersede[i]].state
    BY DEF Snapshot
  <2>2. \A i \in DOMAIN plan.supersede :
          /\ nodes[plan.supersede[i]].state = "Active"
          /\ \A j \in DOMAIN plan.supersede : i # j => plan.supersede[i] # plan.supersede[j]
    BY <1>2 DEF StagingFits
  <2>3. DOMAIN ss = DOMAIN plan.supersede
    OBVIOUS
  <2> HIDE DEF plan, ss
  <2>. QED
    BY <2>1, <2>2, <2>3
<1> HIDE DEF plan, es, ss
<1>6. /\ \A q \in Runs : q # p => runs'[q] = runs[q]
      /\ runs'[p].edges = es /\ runs'[p].superseded = ss
      /\ runs'[p].status = "Pending" /\ runs'[p].fingerprint = runs[p].fingerprint
  <2>1. runs \in [Runs -> RunType] /\ runs[p] \in RunType
    BY <1>2 DEF Typed
  <2> DEFINE mid == [runs EXCEPT ![p].edges = es]
  <2>2. /\ DOMAIN mid = Runs /\ DOMAIN mid[p] = DOMAIN runs[p]
        /\ \A q \in Runs : q # p => mid[q] = runs[q]
        /\ mid[p].edges = es /\ mid[p].status = runs[p].status
        /\ mid[p].fingerprint = runs[p].fingerprint
    BY <1>2, <2>1 DEF RunType
  <2>3. runs' = [mid EXCEPT ![p].superseded = ss]
    BY <1>1
  <2>4. DOMAIN runs[p] = {"status", "hash", "created", "fingerprint", "captured", "cites",
                          "edges", "superseded"}
    BY <2>1 DEF RunType
  <2> HIDE DEF mid
  <2>. QED
    BY <1>2, <1>3, <2>2, <2>3, <2>4
<1>7. NoReturn
  BY <1>3, <1>6 DEF NoReturn, Early
<1>8. ASSUME NEW q \in Runs, q # p PROVE Fits(q)'
  <2>1. Fits(q) /\ Staged(q)
    BY DEF AtomicIInv, Fits
  <2>2. Spares(q)
    BY <1>1, <1>6, <1>8, <2>1, SameSpares
  <2>. QED
    BY <1>7, <2>1, <2>2, SparesFits
<1>9. Fits(p)'
  <2>1. Staged(p)
    BY <1>2 DEF AtomicIInv, Fits
  <2>2. Recorded(p)'
    <3>1. Targets(p)' = Range(ss)
      BY <1>6 DEF Targets
    <3>2. \A s \in Range(ss) : s.state = "Active" /\ nodes[s.node].state = "Active"
      BY <1>5 DEF Range
    <3>3. \A q \in Runs : runs'[q].status \in Early => nodes[Out[q]].state # "Active"
      BY <1>3, <1>6 DEF AtomicIInv, Fits, Staged, Hidden, Early
    <3>4. \A s \in Range(ss) :
            /\ s.state = "Active" /\ s.node # Out[p]
            /\ \A q \in Runs : s.node = Out[q] => runs'[q].status \notin Early
      BY <1>2, <1>6, <3>2, <3>3 DEF Early
    <3>. QED
      BY <1>4, <1>5, <1>6, <3>1, <3>4 DEF Recorded
  <2>3. Staged(p)'
    BY <1>1, <1>3, <1>6, <2>1 DEF Staged, Joined, Early
  <2>4. Published(p)' /\ Withdrawn(p)'
    BY <1>6 DEF Published, Withdrawn, Undone
  <2>. QED
    BY <2>2, <2>3, <2>4 DEF Fits
<1>10. CallsFit'
  <2>1. call'[p].pc = "staged" /\ \A q \in Runs : q # p => call'[q] = call[q]
    BY <1>1, <1>2 DEF Typed, CallType
  <2>2. task'.kind = "none"
    BY <1>1 DEF NoTask
  <2>3. ASSUME NEW q \in Runs, q # p PROVE CallFits(q)'
    <3>1. CallFits(q) /\ call'[q] = call[q] /\ runs'[q] = runs[q]
      BY <1>6, <2>1, <2>3 DEF AtomicIInv, CallsFit
    <3>. QED
      BY <1>0, <1>1, <2>2, <2>3, <3>1 DEF CallFits
  <2>4. CallFits(p)'
    BY <1>1, <1>3, <1>6, <2>1 DEF CallFits
  <2>. QED
    BY <2>2, <2>3, <2>4 DEF CallsFit, Kinds
<1>11. TaskFits'
  BY <1>1, NoTaskFits
<1>. QED
  BY <1>8, <1>9, <1>10, <1>11 DEF AtomicIInv

------------------------------------------------------------------------------
(* Tasks that begin. *)

LEMMA StatusFacts ==
  ASSUME Typed, NEW p \in Runs, NEW status, runs' = [runs EXCEPT ![p].status = status]
  PROVE  /\ runs'[p].status = status
         /\ runs'[p].edges = runs[p].edges /\ runs'[p].superseded = runs[p].superseded
         /\ runs'[p].created = runs[p].created /\ runs'[p].captured = runs[p].captured
         /\ runs'[p].fingerprint = runs[p].fingerprint
         /\ \A q \in Runs : q # p => runs'[q] = runs[q]
  BY DEF Typed, RunType

\* A rollback lists whatever its run shows,
LEMMA RollbackBegins ==
  ASSUME Typed, NEW p \in Runs, Fits(p), runs[p].status = "Completing",
         UNCHANGED <<nodes, edges, runs, writer>>,
         NEW status \in {"Failed", "Repaired"}, task'.work = RollbackWork(p, status)
  PROVE  RollingBack(p)' /\ InOrder(task'.work)
<1>1. /\ Left' = {OnEdge("dropEdge", e) : e \in Planned(p)}
                   \cup (IF runs[p].created THEN {OnRun("rollback")} ELSE {})
                   \cup {OnTarget("restore", s) : s \in Targets(p)}
                   \cup {SetStatus(status)}
      /\ InOrder(task'.work)
  <2>1. Recorded(p) /\ status \in {"Failed", "Repaired", "Reverted"}
    BY DEF Fits
  <2>2. LET w == EachEdge("dropEdge", p) \o IfCreated(p, <<OnRun("rollback")>>)
                   \o EachTarget("restore", p) \o <<SetStatus(status)>>
        IN  /\ Range(w) = {OnEdge("dropEdge", e) : e \in Planned(p)}
                            \cup (IF runs[p].created THEN {OnRun("rollback")} ELSE {})
                            \cup {OnTarget("restore", s) : s \in Targets(p)}
                            \cup {SetStatus(status)}
            /\ InOrder(w)
    BY <2>1, UndoWorkOrder
  <2>. QED
    BY <2>2 DEF RollbackWork, Left
<1>2. Planned(p)' = Planned(p) /\ Targets(p)' = Targets(p) /\ Joined(p)' = Joined(p)
      /\ Shows(p)' = Shows(p) /\ \A s : Holds(p, s)' = Holds(p, s)
  BY DEF Planned, Targets, Joined, Shows, Holds
<1>3. Joined(p) \subseteq Planned(p)
  BY DEF Fits, Published
<1>4. Shows(p) => runs[p].created
  BY DEF Fits, Staged, Shows, Typed
<1>5. Undoing(p, "dropEdge", "restore", "rollback")'
  BY <1>1, <1>2, <1>3, <1>4 DEF Undoing
<1>. QED
  BY <1>1, <1>2, <1>5 DEF RollingBack

\* and so does a revert.
LEMMA RevertBegins ==
  ASSUME Typed, NEW p \in Runs, Fits(p), runs[p].status \in {"Completed", "Reverting"},
         UNCHANGED <<nodes, edges, writer>>, runs'[p].status = "Reverting",
         runs'[p].edges = runs[p].edges, runs'[p].superseded = runs[p].superseded,
         runs'[p].created = runs[p].created, task'.work = RevertWork(p)
  PROVE  Reverting(p)' /\ InOrder(task'.work)
<1>1. /\ Left' = {OnEdge("removeEdge", e) : e \in Planned(p)}
                   \cup (IF runs[p].created THEN {OnRun("retract")} ELSE {})
                   \cup {OnTarget("reinstate", s) : s \in Targets(p)}
                   \cup {SetStatus("Reverted")}
      /\ InOrder(task'.work)
  <2>1. Recorded(p)
    BY DEF Fits
  <2>. QED
    BY <2>1, UndoWorkOrder DEF RevertWork, Left
<1>2. Planned(p)' = Planned(p) /\ Targets(p)' = Targets(p) /\ Joined(p)' = Joined(p)
      /\ Shows(p)' = Shows(p) /\ \A s : Holds(p, s)' = Holds(p, s)
  BY DEF Planned, Targets, Joined, Shows, Holds
<1>3. Joined(p) \subseteq Planned(p)
  BY DEF Fits, Published
<1>4. Shows(p) => runs[p].created
  BY DEF Fits, Staged, Shows, Typed
<1>5. Undoing(p, "removeEdge", "reinstate", "retract")'
  BY <1>1, <1>2, <1>3, <1>4 DEF Undoing
<1>. QED
  BY <1>1, <1>2, <1>5 DEF Reverting

LEMMA CleanupBegins ==
  ASSUME NEW p \in Runs, runs'[p].status = "Pending",
         NEW status \in {"Failed", "Repaired"}, task'.work = CleanupWork(p, status)
  PROVE  CleaningUp(p)' /\ InOrder(task'.work)
  BY CleanupWorkOrder DEF CleaningUp, Left

\* A run that is about to be published shows nothing.
LEMMA PendingShowsNothing ==
  ASSUME Typed, NEW p \in Runs, Fits(p), runs[p].status \in Early
  PROVE  Joined(p) = {} /\ ~Shows(p) /\ \A s \in Targets(p) : ~Holds(p, s)
<1>1. \A s \in Targets(p) : s.node \in Nodes /\ s.node # Out[p]
  BY TargetTyped DEF Fits, Recorded
<1>2. Joined(p) = {} /\ nodes[Out[p]].state # "Active"
  BY DEF Fits, Staged, Hidden
<1>3. \A n \in Nodes : writer[n] = p => n = Out[p]
  BY DEF Fits, Staged
<1>. QED
  BY <1>1, <1>2, <1>3 DEF Shows, Holds

LEMMA CompleteAtomic ==
  ASSUME Typed, AtomicIInv, NEW p \in Runs, Complete(p)
  PROVE  AtomicIInv'
<1>1. /\ task = NoTask /\ phase = "open" /\ runs[p].status = "Pending"
      /\ UNCHANGED <<nodes, edges, phase, writer>>
  BY DEF Complete, Locked
<1>2. call'[p].pc = "done" /\ \A q \in Runs : q # p => call'[q] = call[q]
  BY DEF Complete, Return, NoCall, Typed
<1>3. Fits(p) /\ runs[p].status \in Early
  BY <1>1 DEF AtomicIInv, Early
<1>4. CASE /\ Completable(p)
           /\ runs' = [runs EXCEPT ![p].status = "Completing"]
           /\ task' = Start("complete", p, CompleteWork(p))
  <2>1. /\ runs'[p].status = "Completing"
        /\ runs'[p].edges = runs[p].edges /\ runs'[p].superseded = runs[p].superseded
        /\ runs'[p].created = runs[p].created /\ runs'[p].captured = runs[p].captured
        /\ runs'[p].fingerprint = runs[p].fingerprint
        /\ \A q \in Runs : q # p => runs'[q] = runs[q]
    BY <1>4, StatusFacts
  <2>2. task'.kind = "complete" /\ task'.r = p /\ task'.work = CompleteWork(p)
    BY <1>4 DEF Start
  <2>3. NoReturn
    BY <2>1 DEF NoReturn, Early
  <2>4. ASSUME NEW q \in Runs, q # p PROVE Fits(q)'
    <3>1. Fits(q) /\ Staged(q)
      BY DEF AtomicIInv, Fits
    <3>2. Spares(q)
      BY <1>1, <2>1, <2>4, <3>1, SameSpares
    <3>. QED
      BY <2>3, <3>1, <3>2, SparesFits
  <2>5. Targets(p)' = Targets(p) /\ Planned(p)' = Planned(p) /\ Joined(p)' = Joined(p)
        /\ Shows(p)' = Shows(p) /\ \A s : Holds(p, s)' = Holds(p, s)
    BY <1>1, <2>1 DEF Targets, Planned, Joined, Shows, Holds
  <2>6. Joined(p) = {} /\ ~Shows(p) /\ \A s \in Targets(p) : ~Holds(p, s)
    BY <1>3, PendingShowsNothing
  <2>7. Fits(p)'
    <3>1. Recorded(p)'
      BY <1>3, <2>1, <2>3, <2>5 DEF Fits, Recorded, NoReturn
    <3>2. Staged(p)'
      <4>1. runs[p].created => runs[p].fingerprint
        BY <1>4 DEF Completable, StillStaged
      <4>. QED
        BY <1>1, <1>3, <2>1, <4>1 DEF Fits, Staged, Early
    <3>3. Published(p)' /\ Withdrawn(p)'
      BY <2>1, <2>5, <2>6 DEF Published, Withdrawn, Undone
    <3>. QED
      BY <3>1, <3>2, <3>3 DEF Fits
  <2>8. CallsFit'
    <3>1. ASSUME NEW q \in Runs, q # p PROVE CallFits(q)'
      <4>1. CallFits(q) /\ call'[q] = call[q] /\ runs'[q] = runs[q]
        BY <1>2, <2>1, <3>1 DEF AtomicIInv, CallsFit
      <4>. QED
        BY <1>1, <4>1 DEF CallFits, NoTask
    <3>2. CallFits(p)'
      BY <1>2 DEF CallFits
    <3>. QED
      BY <1>1, <1>2, <2>2, <3>1, <3>2 DEF CallsFit
  <2>9. TaskFits'
    <3>1. /\ Left' = {OnEdge("addEdge", e) : e \in Planned(p)}
                       \cup {OnTarget("supersede", s) : s \in Targets(p)}
                       \cup (IF runs[p].created THEN {OnRun("activate"), OnRun("capture")} ELSE {})
                       \cup {SetStatus("Completed")}
          /\ InOrder(task'.work)
      BY <1>3, <2>2, CompleteWorkOrder DEF Fits, Left
    <3>2. \A e \in Planned(p) : OnEdge("addEdge", e) \in Left' /\ edges'[e] = NoEdge
      BY <1>1, <1>4, <3>1 DEF Completable, Planned, Range
    <3>3. \A s \in Targets(p) :
            /\ OnTarget("supersede", s) \in Left'
            /\ nodes'[s.node].state = "Active" /\ nodes'[s.node].rev + 1 = s.after
      <4>1. \A s \in Targets(p) : nodes[s.node].rev + 1 = s.after /\ nodes[s.node].state = s.state
        BY <1>4 DEF Completable, Targets, Range
      <4>2. \A s \in Targets(p) : s.state = "Active"
        BY <1>3 DEF Fits, Recorded
      <4>. QED
        BY <1>1, <3>1, <4>1, <4>2
    <3>4. runs[p].created =>
            /\ OnRun("activate") \in Left' /\ OnRun("capture") \in Left'
            /\ StillStaged(p, {"Pending"})'
      <4>1. runs[p].created => StillStaged(p, {"Pending"})
        BY <1>4 DEF Completable
      <4>2. StillStaged(p, {"Pending"}) => StillStaged(p, {"Pending"})'
        BY <1>1, <2>1 DEF StillStaged, Exists, Fingerprint, StagedRow, Row
      <4>. QED
        BY <3>1, <4>1, <4>2
    <3>5. Completing(p)'
      BY <2>1, <2>5, <3>1, <3>2, <3>3, <3>4 DEF Completing
    <3>. QED
      BY <2>2, <3>1, <3>5 DEF TaskFits
  <2>. QED
    BY <2>4, <2>7, <2>8, <2>9 DEF AtomicIInv
<1>5. CASE task' = Start("undo", p, CleanupWork(p, "Failed")) /\ UNCHANGED runs
  <2>1. task'.kind = "undo" /\ task'.r = p /\ task'.work = CleanupWork(p, "Failed")
    BY <1>5 DEF Start
  <2>2. CleaningUp(p)' /\ InOrder(task'.work)
    BY <1>1, <1>5, <2>1, CleanupBegins
  <2>3. TaskFits'
    BY <2>1, <2>2 DEF TaskFits
  <2>4. CallsFit'
    <3>1. ASSUME NEW q \in Runs, q # p PROVE CallFits(q)'
      <4>1. CallFits(q) /\ call'[q] = call[q]
        BY <1>2, <3>1 DEF AtomicIInv, CallsFit
      <4>. QED
        BY <1>1, <1>5, <4>1 DEF CallFits, NoTask
    <3>2. CallFits(p)'
      BY <1>2 DEF CallFits
    <3>. QED
      BY <1>1, <1>2, <2>1, <3>1, <3>2 DEF CallsFit
  <2>. QED
    BY <1>1, <1>5, <2>3, <2>4, DurableAtomic DEF durable
<1>. QED
  BY <1>4, <1>5 DEF Complete

------------------------------------------------------------------------------
(* Publishing. *)

\* Writes of different kinds differ, and so do those on different objects.
LEMMA ItemsDiffer ==
  /\ \A a, b, e, f : OnEdge(a, e) = OnEdge(b, f) => a = b /\ e = f
  /\ \A a, b, s, t : OnTarget(a, s) = OnTarget(b, t) => a = b /\ s = t
  /\ \A a, b : OnRun(a) = OnRun(b) => a = b
  /\ \A a, b, e, s : a # b => OnEdge(a, e) # OnTarget(b, s)
  /\ \A a, b, e : a # b => OnEdge(a, e) # OnRun(b)
  /\ \A a, b, s : a # b => OnTarget(a, s) # OnRun(b)
  BY ItemFacts

\* The acting run keeps what it recorded.
LEMMA KeepsRecorded ==
  ASSUME NEW p \in Runs, Recorded(p), NoReturn, runs'[p].edges = runs[p].edges,
         runs'[p].superseded = runs[p].superseded
  PROVE  Recorded(p)' /\ Targets(p)' = Targets(p) /\ Planned(p)' = Planned(p)
  BY DEF Recorded, Targets, Planned, NoReturn

LEMMA OthersFit ==
  ASSUME Typed, AtomicIInv, NEW p, NoReturn, \A q \in Runs : q # p => Spares(q)
  PROVE  \A q \in Runs : q # p => Fits(q)'
<1> SUFFICES ASSUME NEW q \in Runs, q # p PROVE Fits(q)'
  OBVIOUS
<1>1. Fits(q)
  BY DEF AtomicIInv
<1>. QED
  BY <1>1, SparesFits

LEMMA AddEdgeAtomic ==
  ASSUME Typed, AtomicIInv, AddEdge
  PROVE  AtomicIInv'
<1>0. PICK p : p = task.r
  OBVIOUS
<1>1. /\ task.work # <<>> /\ Head(task.work).do = "addEdge"
      /\ UNCHANGED <<nodes, runs, call, phase, writer>>
  BY DEF AddEdge, Doing
<1>2. p \in Runs /\ task.kind = "complete" /\ Completing(p)
      /\ \E e \in Planned(p) : Head(task.work) = OnEdge("addEdge", e)
  BY <1>0, <1>1, HeadFits DEF AtomicIInv
<1>3. PICK e \in Planned(p) : Head(task.work) = OnEdge("addEdge", e)
  BY <1>2
<1>4. Head(task.work).edge = e /\ OnEdge("addEdge", e) \in Left /\ e \in AllEdges
  BY <1>1, <1>3, HeadFits, HeadTyped, ItemFacts DEF AtomicIInv
<1>5. Fits(p) /\ runs[p].status = "Completing"
  BY <1>2 DEF AtomicIInv, Completing
<1>6. CASE task' = Start("undo", p, RollbackWork(p, "Failed")) /\ UNCHANGED edges
  <2>1. task'.kind = "undo" /\ task'.r = p /\ task'.work = RollbackWork(p, "Failed")
    BY <1>6 DEF Start
  <2>2. RollingBack(p)' /\ InOrder(task'.work)
    BY <1>1, <1>2, <1>5, <1>6, <2>1, RollbackBegins
  <2>3. TaskFits'
    BY <2>1, <2>2 DEF TaskFits
  <2>4. CallsFit'
    BY <1>0, <1>1, <1>2, <2>1, TaskCallsFit DEF AtomicIInv, Kinds
  <2>. QED
    BY <1>1, <1>6, <2>3, <2>4, DurableAtomic DEF durable
<1>7. CASE PutEdge(e, p) /\ Done
  <2>1. /\ task'.kind = "complete" /\ task'.r = p /\ InOrder(task'.work)
        /\ Left' = Left \ {OnEdge("addEdge", e)}
    BY <1>0, <1>1, <1>2, <1>3, <1>7, DoneLeft DEF AtomicIInv
  <2>2. edges[e] = NoEdge
    BY <1>2, <1>4 DEF Completing
  <2>3. edges'[e] = [rev |-> 1, by |-> p] /\ \A f \in AllEdges : f # e => edges'[f] = edges[f]
    BY <1>4, <1>7, <2>2 DEF PutEdge, NoEdge, Typed
  <2>4. NoReturn
    BY <1>1 DEF NoReturn
  <2>5. \A q \in Runs : q # p => Spares(q)
    <3> SUFFICES ASSUME NEW q \in Runs, q # p PROVE Spares(q)
      OBVIOUS
    <3>1. Staged(q)
      BY DEF AtomicIInv, Fits
    <3>2. \A f \in AllEdges : edges'[f].by = q => edges'[f] = edges[f]
      BY <2>3
    <3>. QED
      BY <1>1, <3>1, <3>2, SameSpares
  <2>6. Recorded(p)' /\ Targets(p)' = Targets(p) /\ Planned(p)' = Planned(p)
    BY <1>1, <1>2, <1>5, <2>4, KeepsRecorded DEF Fits
  <2>7. Fits(p)'
    <3>1. Staged(p)'
      BY <1>1, <1>5 DEF Fits, Staged, Early
    <3>2. \A f \in Joined(p)' : edges'[f].rev = 1 /\ f \in Planned(p)
      BY <1>5, <2>3 DEF Fits, Published, Joined
    <3>3. Published(p)'
      BY <1>1, <1>5, <2>6, <3>2 DEF Fits, Published, Holds, Shows, Fingerprint, StagedRow, Row
    <3>4. Withdrawn(p)'
      BY <1>1, <1>5 DEF Withdrawn, Undone
    <3>. QED
      BY <2>6, <3>1, <3>3, <3>4 DEF Fits
  <2>8. Completing(p)'
    <3>1. \A f \in Planned(p) : f \in AllEdges
      BY <1>2 DEF Typed, RunType, Planned, Range
    <3>2. \A f \in Planned(p) :
            edges'[f] = IF OnEdge("addEdge", f) \in Left' THEN NoEdge ELSE [rev |-> 1, by |-> p]
      BY <1>2, <2>1, <2>3, <3>1, ItemsDiffer DEF Completing
    <3>3. /\ \A s : OnTarget("supersede", s) \in Left' <=> OnTarget("supersede", s) \in Left
          /\ OnRun("activate") \in Left' <=> OnRun("activate") \in Left
          /\ OnRun("capture") \in Left' <=> OnRun("capture") \in Left
      BY <2>1, ItemsDiffer
    <3>4. \A S : StillStaged(p, S)' <=> StillStaged(p, S)
      BY <1>1 DEF StillStaged, Exists, Fingerprint, StagedRow, Row
    <3>. QED
      BY <1>1, <1>2, <2>1, <2>6, <3>2, <3>3, <3>4 DEF Completing
  <2>9. TaskFits'
    BY <2>1, <2>8 DEF TaskFits
  <2>10. CallsFit'
    BY <1>0, <1>1, <1>2, <2>1, TaskCallsFit DEF AtomicIInv
  <2>11. \A q \in Runs : q # p => Fits(q)'
    BY <2>4, <2>5, OthersFit
  <2>. QED
    BY <2>7, <2>9, <2>10, <2>11 DEF AtomicIInv
<1>. QED
  BY <1>0, <1>1, <1>4, <1>6, <1>7 DEF AddEdge, RollBack

\* The targets of a run are different memories.
LEMMA TargetsDiffer ==
  ASSUME NEW p \in Runs, Recorded(p), NEW s \in Targets(p), NEW t \in Targets(p), s # t
  PROVE  s.node # t.node
  BY DEF Recorded, Targets, Range

\* A node that is no output of a run keeps that output as it is staged.
LEMMA KeepsOutput ==
  ASSUME NEW p \in Runs, runs'[p] = runs[p], nodes'[Out[p]] = nodes[Out[p]],
         writer'[Out[p]] = writer[Out[p]]
  PROVE  /\ \A S : StillStaged(p, S)' <=> StillStaged(p, S)
         /\ Shows(p)' <=> Shows(p)
         /\ Fingerprint(nodes[Out[p]])' = Fingerprint(nodes[Out[p]])
  BY DEF StillStaged, Exists, Fingerprint, StagedRow, Row, Shows

LEMMA SupersedeAtomic ==
  ASSUME Typed, AtomicIInv, Supersede
  PROVE  AtomicIInv'
<1>0. PICK p : p = task.r
  OBVIOUS
<1>1. /\ task.work # <<>> /\ Head(task.work).do = "supersede"
      /\ UNCHANGED <<edges, runs, call, phase>>
  BY DEF Supersede, Doing
<1>2. p \in Runs /\ task.kind = "complete" /\ Completing(p)
      /\ \E s \in Targets(p) : Head(task.work) = OnTarget("supersede", s)
  BY <1>0, <1>1, HeadFits DEF AtomicIInv
<1>3. PICK s \in Targets(p) : Head(task.work) = OnTarget("supersede", s)
  BY <1>2
<1>4. Head(task.work).target = s /\ OnTarget("supersede", s) \in Left
  BY <1>1, <1>3, HeadFits, ItemFacts DEF AtomicIInv
<1>5. Fits(p) /\ Recorded(p) /\ runs[p].status = "Completing"
  BY <1>2 DEF AtomicIInv, Completing, Fits
<1> DEFINE n == s.node
           node == [nodes[n] EXCEPT !.state = "Superseded", !.to = "now"]
<1>6. n \in Nodes /\ nodes[n].state = "Active" /\ nodes[n].rev + 1 = s.after /\ Exists(n)
  BY <1>2, <1>3, <1>4, TargetTyped DEF Completing, Exists
<1>7. node \in NodeType /\ node.state = "Superseded"
  <2>1. node \in NodeType
    BY <1>6, RowsTyped
  <2>2. nodes[n] \in NodeType
    BY <1>6 DEF Typed
  <2>. QED
    BY <2>1, <2>2 DEF NodeType
<1>8. Put(n, node, p) /\ (nodes'[n].rev = s.after => Done)
  BY <1>0, <1>4 DEF Supersede
<1> HIDE DEF node
<1>9. /\ nodes'[n].state = "Superseded" /\ nodes'[n].rev = s.after /\ writer'[n] = p
      /\ \A m \in Nodes : m # n => nodes'[m] = nodes[m] /\ writer'[m] = writer[m]
  BY <1>2, <1>6, <1>7, <1>8, PutFacts
<1>10. /\ task'.kind = "complete" /\ task'.r = p /\ InOrder(task'.work)
       /\ Left' = Left \ {OnTarget("supersede", s)}
  BY <1>0, <1>1, <1>2, <1>3, <1>8, <1>9, DoneLeft DEF AtomicIInv
<1>11. NoReturn
  BY <1>1 DEF NoReturn
<1>12. \A q \in Runs : q # p => Spares(q)
  <2> SUFFICES ASSUME NEW q \in Runs, q # p PROVE Spares(q)
    OBVIOUS
  <2>1. Staged(q)
    BY DEF AtomicIInv, Fits
  <2>2. n = Out[q] => runs[q].status \notin Early
    BY <1>3, <1>5 DEF Recorded
  <2>. QED
    BY <1>1, <1>2, <1>6, <1>7, <1>8, <2>1, <2>2, PutSpares
<1>13. Recorded(p)' /\ Targets(p)' = Targets(p) /\ Planned(p)' = Planned(p)
  BY <1>1, <1>2, <1>5, <1>11, KeepsRecorded
<1>14. Out[p] \in Nodes /\ nodes'[Out[p]] = nodes[Out[p]] /\ writer'[Out[p]] = writer[Out[p]]
  BY <1>2, <1>3, <1>5, <1>9, OutInNodes DEF Recorded
<1>15. \A t \in Targets(p) : t # s => nodes'[t.node] = nodes[t.node] /\ writer'[t.node] = writer[t.node]
  BY <1>2, <1>3, <1>5, <1>9, TargetTyped, TargetsDiffer
<1>16. /\ \A S : StillStaged(p, S)' <=> StillStaged(p, S)
       /\ Shows(p)' <=> Shows(p)
       /\ Fingerprint(nodes[Out[p]])' = Fingerprint(nodes[Out[p]])
  BY <1>1, <1>2, <1>14, KeepsOutput
<1>17. Fits(p)'
  <2>1. Staged(p)'
    BY <1>1, <1>5, <1>14 DEF Fits, Staged, Early
  <2>2. \A t \in Targets(p) : Holds(p, t)' => nodes'[t.node].rev = t.after
    BY <1>5, <1>9, <1>15 DEF Fits, Published, Holds
  <2>3. Published(p)'
    BY <1>1, <1>5, <1>13, <1>16, <2>2 DEF Fits, Published, Joined, Fingerprint, StagedRow, Row
  <2>4. Withdrawn(p)'
    BY <1>1, <1>5 DEF Withdrawn, Undone
  <2>. QED
    BY <1>13, <2>1, <2>3, <2>4 DEF Fits
<1>18. Completing(p)'
  <2>1. /\ \A t : OnTarget("supersede", t) \in Left' <=> t # s /\ OnTarget("supersede", t) \in Left
        /\ \A e : OnEdge("addEdge", e) \in Left' <=> OnEdge("addEdge", e) \in Left
        /\ OnRun("activate") \in Left' <=> OnRun("activate") \in Left
        /\ OnRun("capture") \in Left' <=> OnRun("capture") \in Left
    BY <1>10, ItemsDiffer
  <2>2. \A t \in Targets(p) :
          IF OnTarget("supersede", t) \in Left'
          THEN nodes'[t.node].state = "Active" /\ nodes'[t.node].rev + 1 = t.after
          ELSE nodes'[t.node].state = "Superseded" /\ nodes'[t.node].rev = t.after
    BY <1>2, <1>9, <1>15, <2>1 DEF Completing
  <2>. QED
    BY <1>1, <1>2, <1>10, <1>13, <1>14, <1>16, <2>1, <2>2 DEF Completing
<1>19. TaskFits'
  BY <1>10, <1>18 DEF TaskFits
<1>20. CallsFit'
  BY <1>0, <1>1, <1>2, <1>10, TaskCallsFit DEF AtomicIInv
<1>21. \A q \in Runs : q # p => Fits(q)'
  BY <1>11, <1>12, OthersFit
<1>. QED
  BY <1>17, <1>19, <1>20, <1>21 DEF AtomicIInv

LEMMA ActivateAtomic ==
  ASSUME Typed, AtomicIInv, Activate
  PROVE  AtomicIInv'
<1>0. PICK p : p = task.r
  OBVIOUS
<1> DEFINE n == Out[p]
           node == [nodes[n] EXCEPT !.state = "Active"]
<1>1. /\ task.work # <<>> /\ Head(task.work).do = "activate" /\ Done
      /\ UNCHANGED <<edges, runs, call, phase>> /\ Put(n, node, p)
  BY <1>0 DEF Activate, Doing
<1>2. p \in Runs /\ task.kind = "complete" /\ Completing(p) /\ runs[p].created
      /\ Head(task.work) = OnRun("activate") /\ OnRun("activate") \in Left
  BY <1>0, <1>1, HeadFits DEF AtomicIInv
<1>3. Fits(p) /\ Recorded(p) /\ runs[p].status = "Completing"
  BY <1>2 DEF AtomicIInv, Completing, Fits
<1>4. n \in Nodes /\ StillStaged(p, {"Pending"})
  BY <1>2, OutInNodes DEF Completing
<1>5. node \in NodeType /\ node.state = "Active" /\ Fingerprint(node) = Fingerprint(nodes[n])
  <2>1. node \in NodeType
    BY <1>4, RowsTyped
  <2>2. nodes[n] \in NodeType
    BY <1>4 DEF Typed
  <2>. QED
    BY <2>1, <2>2 DEF NodeType, Fingerprint
<1> HIDE DEF node, n
<1>6. /\ nodes'[n].state = "Active" /\ writer'[n] = p
      /\ Fingerprint(nodes'[n]) = Fingerprint(nodes[n])
      /\ \A m \in Nodes : m # n => nodes'[m] = nodes[m] /\ writer'[m] = writer[m]
  BY <1>1, <1>2, <1>4, <1>5, PutFacts
<1>7. /\ task'.kind = "complete" /\ task'.r = p /\ InOrder(task'.work)
      /\ Left' = Left \ {OnRun("activate")}
  BY <1>0, <1>1, <1>2, DoneLeft DEF AtomicIInv
<1>8. NoReturn
  BY <1>1 DEF NoReturn
<1>9. \A q \in Runs : q # p => Spares(q)
  <2> SUFFICES ASSUME NEW q \in Runs, q # p PROVE Spares(q)
    OBVIOUS
  <2>1. Staged(q)
    BY DEF AtomicIInv, Fits
  <2>2. n # Out[q]
    BY <1>2 DEF n
  <2>. QED
    BY <1>1, <1>2, <1>4, <1>5, <2>1, <2>2, PutSpares
<1>10. Recorded(p)' /\ Targets(p)' = Targets(p) /\ Planned(p)' = Planned(p)
  BY <1>1, <1>2, <1>3, <1>8, KeepsRecorded
<1>11. \A t \in Targets(p) : nodes'[t.node] = nodes[t.node] /\ writer'[t.node] = writer[t.node]
  BY <1>2, <1>3, <1>6, TargetTyped DEF Recorded, n
<1>12. StillStaged(p, {"Active"})'
  BY <1>1, <1>4, <1>6 DEF StillStaged, Exists, Fingerprint, StagedRow, Row, n
<1>13. Fits(p)'
  <2>1. Staged(p)'
    BY <1>1, <1>3, <1>4 DEF Fits, Staged, Early, StillStaged
  <2>2. Published(p)'
    <3>1. Fingerprint(nodes'[Out[p]]) = Fingerprint(StagedRow(p))
      BY <1>4, <1>6 DEF StillStaged, n
    <3>. QED
      BY <1>1, <1>3, <1>10, <1>11, <3>1 DEF Fits, Published, Joined, Holds, StagedRow, Row
  <2>3. Withdrawn(p)'
    BY <1>1, <1>3 DEF Withdrawn, Undone
  <2>. QED
    BY <1>10, <2>1, <2>2, <2>3 DEF Fits
<1>14. Completing(p)'
  <2>1. /\ \A t : OnTarget("supersede", t) \in Left' <=> OnTarget("supersede", t) \in Left
        /\ \A e : OnEdge("addEdge", e) \in Left' <=> OnEdge("addEdge", e) \in Left
        /\ OnRun("activate") \notin Left'
        /\ OnRun("capture") \in Left' <=> OnRun("capture") \in Left
    BY <1>7, ItemsDiffer
  <2>2. OnRun("capture") \in Left
    BY <1>2 DEF Completing
  <2>3. \A e \in Planned(p) :
          edges'[e] = IF OnEdge("addEdge", e) \in Left' THEN NoEdge ELSE [rev |-> 1, by |-> p]
    BY <1>1, <1>2, <2>1 DEF Completing
  <2>4. \A t \in Targets(p) :
          IF OnTarget("supersede", t) \in Left'
          THEN nodes'[t.node].state = "Active" /\ nodes'[t.node].rev + 1 = t.after
          ELSE nodes'[t.node].state = "Superseded" /\ nodes'[t.node].rev = t.after
    BY <1>2, <1>11, <2>1 DEF Completing
  <2>. QED
    BY <1>1, <1>2, <1>7, <1>10, <1>12, <2>1, <2>2, <2>3, <2>4 DEF Completing
<1>15. TaskFits'
  BY <1>7, <1>14 DEF TaskFits
<1>16. CallsFit'
  BY <1>0, <1>1, <1>2, <1>7, TaskCallsFit DEF AtomicIInv
<1>17. \A q \in Runs : q # p => Fits(q)'
  BY <1>8, <1>9, OthersFit
<1>. QED
  BY <1>13, <1>15, <1>16, <1>17 DEF AtomicIInv

LEMMA CaptureAtomic ==
  ASSUME Typed, AtomicIInv, CaptureRevision
  PROVE  AtomicIInv'
<1>0. PICK p : p = task.r
  OBVIOUS
<1>1. /\ task.work # <<>> /\ Head(task.work).do = "capture" /\ Done
      /\ UNCHANGED <<nodes, edges, call, phase, writer>>
      /\ runs' = [runs EXCEPT ![p].captured = nodes[Out[p]].rev]
  BY <1>0 DEF CaptureRevision, Doing
<1>2. p \in Runs /\ task.kind = "complete" /\ Completing(p) /\ runs[p].created
      /\ Head(task.work) = OnRun("capture")
  BY <1>0, <1>1, HeadFits DEF AtomicIInv
<1>3. Fits(p) /\ Recorded(p) /\ runs[p].status = "Completing"
  BY <1>2 DEF AtomicIInv, Completing, Fits
<1>4. /\ task'.kind = "complete" /\ task'.r = p /\ InOrder(task'.work)
      /\ Left' = Left \ {OnRun("capture")} /\ OnRun("activate") \notin Left'
  BY <1>0, <1>1, <1>2, DoneLeft DEF AtomicIInv
<1>5. /\ runs'[p].status = "Completing"
      /\ runs'[p].edges = runs[p].edges /\ runs'[p].superseded = runs[p].superseded
      /\ runs'[p].created = runs[p].created /\ runs'[p].captured = nodes[Out[p]].rev
      /\ runs'[p].fingerprint = runs[p].fingerprint
      /\ \A q \in Runs : q # p => runs'[q] = runs[q]
  <2>1. runs \in [Runs -> RunType] /\ runs[p] \in RunType
    BY <1>2 DEF Typed
  <2>. QED
    BY <1>1, <1>2, <1>3, <2>1 DEF RunType
<1>6. NoReturn
  BY <1>5 DEF NoReturn, Early
<1>7. \A q \in Runs : q # p => Spares(q)
  BY <1>1, <1>5, SameSpares DEF AtomicIInv, Fits
<1>8. Recorded(p)' /\ Targets(p)' = Targets(p) /\ Planned(p)' = Planned(p)
  BY <1>2, <1>3, <1>5, <1>6, KeepsRecorded
<1>9. Fits(p)'
  <2>1. Staged(p)'
    BY <1>1, <1>3, <1>5 DEF Fits, Staged, Early
  <2>2. Published(p)'
    BY <1>1, <1>3, <1>5, <1>8 DEF Fits, Published, Joined, Holds, Shows, Fingerprint, StagedRow, Row
  <2>3. Withdrawn(p)'
    BY <1>5 DEF Withdrawn, Undone
  <2>. QED
    BY <1>8, <2>1, <2>2, <2>3 DEF Fits
<1>10. Completing(p)'
  <2>1. /\ \A t : OnTarget("supersede", t) \in Left' <=> OnTarget("supersede", t) \in Left
        /\ \A e : OnEdge("addEdge", e) \in Left' <=> OnEdge("addEdge", e) \in Left
        /\ OnRun("activate") \notin Left
    BY <1>4, ItemsDiffer
  <2>2. StillStaged(p, {"Active"})'
    BY <1>1, <1>2, <1>5, <2>1 DEF Completing, StillStaged, Exists, Fingerprint, StagedRow, Row
  <2>. QED
    BY <1>1, <1>2, <1>4, <1>5, <1>8, <2>1, <2>2 DEF Completing
<1>11. TaskFits'
  BY <1>4, <1>10 DEF TaskFits
<1>12. CallsFit'
  <2>1. \A q \in Runs : runs'[q].status = runs[q].status
    BY <1>3, <1>5
  <2>. QED
    BY <1>0, <1>1, <1>2, <1>4, <2>1, TaskCallsFit DEF AtomicIInv
<1>13. \A q \in Runs : q # p => Fits(q)'
  BY <1>6, <1>7, OthersFit
<1>. QED
  BY <1>9, <1>11, <1>12, <1>13 DEF AtomicIInv

------------------------------------------------------------------------------
(* Undoing. *)

LEMMA UndoKinds ==
  ASSUME Typed, TaskFits, task.work # <<>>
  PROVE  LET h == Head(task.work)
         IN  /\ h.do \in {"cleanup", "dropEdge", "rollback", "restore"} =>
                  task.kind \in {"undo", "repair"}
             /\ h.do \in {"removeEdge", "retract", "reinstate"} =>
                  task.kind \in {"revert", "repair"}
<1> DEFINE h == Head(task.work)
           r == task.r
<1>1. h \in Left
  BY HeadFits
<1>2. h.do \notin {"id", "fingerprint", "stage", "plan"} => task.kind \in Kinds
  BY HeadFits
<1> HIDE DEF h
<1>3. Completing(r) => h.do \in {"addEdge", "supersede", "activate", "capture", "status"}
  BY <1>1, ItemFacts DEF Completing
<1>4. CleaningUp(r) \/ RollingBack(r) =>
        h.do \in {"cleanup", "dropEdge", "rollback", "restore", "status"}
  BY <1>1, ItemFacts DEF CleaningUp, RollingBack
<1>5. Reverting(r) => h.do \in {"removeEdge", "retract", "reinstate", "status"}
  BY <1>1, ItemFacts DEF Reverting
<1>6. /\ task.kind = "complete" => Completing(r)
      /\ task.kind = "undo" => CleaningUp(r) \/ RollingBack(r)
      /\ task.kind = "revert" => Reverting(r)
  BY DEF TaskFits
<1>. QED
  BY <1>2, <1>3, <1>4, <1>5, <1>6 DEF Kinds, h

\* The output of a run is retracted or left alone.
LEMMA RetractFacts ==
  ASSUME Typed, AtomicIInv, NEW p \in Runs, UNCHANGED <<edges, runs>>,
         \/ Put(Out[p], RetractedRow(Out[p]), p)
         \/ UNCHANGED <<nodes, writer>>
  PROVE  /\ \A q \in Runs : q # p => Fits(q)'
         /\ Recorded(p)' /\ Targets(p)' = Targets(p) /\ Planned(p)' = Planned(p)
         /\ Joined(p)' = Joined(p)
         /\ \A s \in Targets(p) : /\ Holds(p, s)' <=> Holds(p, s)
                                 /\ nodes'[s.node] = nodes[s.node]
         /\ Put(Out[p], RetractedRow(Out[p]), p) => nodes'[Out[p]].state = "Retracted"
         /\ \A n \in Nodes : n # Out[p] => writer'[n] = writer[n]
<1> DEFINE n == Out[p]
<1>0. n \in Nodes /\ RetractedRow(n) \in NodeType /\ RetractedRow(n).state = "Retracted"
  <2>1. n \in Nodes
    BY OutInNodes
  <2>2. nodes[n] \in NodeType
    BY <2>1 DEF Typed
  <2>3. RetractedRow(n) \in NodeType
    BY <2>1, RowsTyped DEF RetractedRow
  <2>. QED
    BY <2>1, <2>2, <2>3 DEF RetractedRow, NodeType
<1>1. Put(n, RetractedRow(n), p) => nodes'[n].state = "Retracted"
  BY <1>0, PutFacts
<1>2. \A m \in Nodes : m # n => nodes'[m] = nodes[m] /\ writer'[m] = writer[m]
  BY <1>0, PutFacts
<1>3. NoReturn
  BY DEF NoReturn
<1>4. \A q \in Runs : q # p => Spares(q)
  <2> SUFFICES ASSUME NEW q \in Runs, q # p PROVE Spares(q)
    OBVIOUS
  <2>1. Staged(q) /\ n # Out[q]
    BY FreshAssumption DEF AtomicIInv, Fits
  <2>2. CASE UNCHANGED <<nodes, writer>>
    BY <2>1, <2>2, SameSpares
  <2>3. CASE Put(n, RetractedRow(n), p)
    <3> HIDE DEF n
    <3>. QED
      BY <1>0, <2>1, <2>3, PutSpares
  <2>. QED
    BY <2>2, <2>3
<1>5. Recorded(p) /\ \A s \in Targets(p) : s.node \in Nodes /\ s.node # n
  BY TargetTyped DEF AtomicIInv, Fits, Recorded
<1>6. Recorded(p)' /\ Targets(p)' = Targets(p) /\ Planned(p)' = Planned(p)
  BY <1>3, <1>5, KeepsRecorded
<1>7. \A q \in Runs : q # p => Fits(q)'
  BY <1>3, <1>4, OthersFit
<1>. QED
  BY <1>1, <1>2, <1>5, <1>6, <1>7 DEF Joined, Holds

LEMMA CleanupAtomic ==
  ASSUME Typed, AtomicIInv, Cleanup
  PROVE  AtomicIInv'
<1>0. PICK p : p = task.r
  OBVIOUS
<1>1. /\ task.work # <<>> /\ Head(task.work).do = "cleanup" /\ Done
      /\ UNCHANGED <<edges, runs, call, phase>>
      /\ \/ StillStaged(p, {"Pending"}) /\ Put(Out[p], RetractedRow(Out[p]), p)
         \/ UNCHANGED <<nodes, writer>>
  BY <1>0 DEF Cleanup, Doing, UndoOutput
<1>2. p \in Runs /\ CleaningUp(p) /\ task.kind \in {"undo", "repair"}
  BY <1>0, <1>1, HeadFits, UndoKinds DEF AtomicIInv
<1>3. Fits(p) /\ runs[p].status = "Pending"
  BY <1>2 DEF AtomicIInv, CleaningUp
<1>4. /\ task'.kind = task.kind /\ task'.r = p /\ InOrder(task'.work) /\ Left' \subseteq Left
  BY <1>0, <1>1, DoneLeft DEF AtomicIInv
<1>5. /\ \A q \in Runs : q # p => Fits(q)'
      /\ Recorded(p)' /\ Joined(p)' = Joined(p)
      /\ Put(Out[p], RetractedRow(Out[p]), p) => nodes'[Out[p]].state = "Retracted"
      /\ \A n \in Nodes : n # Out[p] => writer'[n] = writer[n]
  BY <1>1, <1>2, RetractFacts
<1>6. Fits(p)'
  <2>1. nodes'[Out[p]].state \in Hidden
    BY <1>1, <1>3, <1>5 DEF Fits, Staged, Early, Hidden
  <2>2. writer'[Out[p]] = p => runs[p].fingerprint
    BY <1>1, <1>3 DEF Fits, Staged, StillStaged
  <2>3. Staged(p)'
    BY <1>1, <1>3, <1>5, <2>1, <2>2 DEF Fits, Staged, Early
  <2>4. Published(p)' /\ Withdrawn(p)'
    BY <1>1, <1>3 DEF Published, Withdrawn, Undone
  <2>. QED
    BY <1>5, <2>3, <2>4 DEF Fits
<1>7. CleaningUp(p)'
  BY <1>1, <1>2, <1>4 DEF CleaningUp
<1>8. TaskFits'
  BY <1>2, <1>4, <1>7 DEF TaskFits
<1>9. CallsFit'
  BY <1>0, <1>1, <1>4, TaskCallsFit DEF AtomicIInv
<1>. QED
  BY <1>5, <1>6, <1>8, <1>9 DEF AtomicIInv

LEMMA RollbackOutputAtomic ==
  ASSUME Typed, AtomicIInv, RollbackOutput
  PROVE  AtomicIInv'
<1>0. PICK p : p = task.r
  OBVIOUS
<1>1. /\ task.work # <<>> /\ Head(task.work).do = "rollback" /\ Done
      /\ UNCHANGED <<edges, runs, call, phase>>
      /\ \/ /\ StillStaged(p, {"Pending", "Active"})
            /\ Put(Out[p], RetractedRow(Out[p]), p)
         \/ ~StillStaged(p, {"Pending", "Active"}) /\ UNCHANGED <<nodes, writer>>
  BY <1>0 DEF RollbackOutput, Doing, UndoOutput
<1>2. p \in Runs /\ RollingBack(p) /\ task.kind \in {"undo", "repair"}
      /\ Head(task.work) = OnRun("rollback")
  BY <1>0, <1>1, HeadFits, UndoKinds DEF AtomicIInv
<1>3. Fits(p) /\ runs[p].status = "Completing"
  BY <1>2 DEF AtomicIInv, RollingBack
<1>4. /\ task'.kind = task.kind /\ task'.r = p /\ InOrder(task'.work)
      /\ Left' = Left \ {OnRun("rollback")}
  BY <1>0, <1>1, <1>2, DoneLeft DEF AtomicIInv
<1>5. /\ \A q \in Runs : q # p => Fits(q)'
      /\ Recorded(p)' /\ Targets(p)' = Targets(p) /\ Planned(p)' = Planned(p)
      /\ Joined(p)' = Joined(p)
      /\ \A s \in Targets(p) : (Holds(p, s)' <=> Holds(p, s)) /\ nodes'[s.node] = nodes[s.node]
      /\ Put(Out[p], RetractedRow(Out[p]), p) => nodes'[Out[p]].state = "Retracted"
  BY <1>1, <1>2, RetractFacts
\* An output that is visible is as it was staged, so it is retracted.
<1>6. ~Shows(p)'
  <2>1. Shows(p) => StillStaged(p, {"Pending", "Active"})
    BY <1>3 DEF Fits, Published, Staged, Shows, StillStaged, Exists
  <2>2. CASE StillStaged(p, {"Pending", "Active"})
    BY <1>1, <1>5, <2>2 DEF Shows
  <2>3. CASE ~StillStaged(p, {"Pending", "Active"})
    BY <1>1, <2>1, <2>3 DEF Shows
  <2>. QED
    BY <2>2, <2>3
<1>7. Fits(p)'
  <2>1. Staged(p)'
    BY <1>1, <1>3 DEF Fits, Staged, Early, StillStaged
  <2>2. Published(p)'
    BY <1>1, <1>3, <1>5, <1>6 DEF Fits, Published
  <2>3. Withdrawn(p)'
    BY <1>1, <1>3 DEF Withdrawn, Undone
  <2>. QED
    BY <1>5, <2>1, <2>2, <2>3 DEF Fits
<1>8. RollingBack(p)'
  <2>1. /\ \A e : OnEdge("dropEdge", e) \in Left' <=> OnEdge("dropEdge", e) \in Left
        /\ \A s : OnTarget("restore", s) \in Left' <=> OnTarget("restore", s) \in Left
    BY <1>4, ItemsDiffer
  <2>2. Undoing(p, "dropEdge", "restore", "rollback")'
    BY <1>2, <1>5, <1>6, <2>1 DEF RollingBack, Undoing
  <2>. QED
    BY <1>1, <1>2, <1>4, <1>5, <2>2 DEF RollingBack
<1>9. TaskFits'
  BY <1>2, <1>4, <1>8 DEF TaskFits
<1>10. CallsFit'
  BY <1>0, <1>1, <1>4, TaskCallsFit DEF AtomicIInv
<1>. QED
  BY <1>5, <1>7, <1>9, <1>10 DEF AtomicIInv

LEMMA RetractOutputAtomic ==
  ASSUME Typed, AtomicIInv, RetractOutput
  PROVE  AtomicIInv'
<1>0. PICK p : p = task.r
  OBVIOUS
<1>1. /\ task.work # <<>> /\ Head(task.work).do = "retract" /\ Done
      /\ UNCHANGED <<edges, runs, call, phase>>
      /\ \/ Put(Out[p], RetractedRow(Out[p]), p)
         \/ UNCHANGED <<nodes, writer>> /\ nodes[Out[p]].state # "Active"
  BY <1>0 DEF RetractOutput, Doing, Exists
<1>2. p \in Runs /\ Reverting(p) /\ task.kind \in {"revert", "repair"}
      /\ Head(task.work) = OnRun("retract") /\ runs[p].created
  BY <1>0, <1>1, HeadFits, UndoKinds DEF AtomicIInv
<1>3. Fits(p) /\ runs[p].status = "Reverting"
  BY <1>2 DEF AtomicIInv, Reverting
<1>4. /\ task'.kind = task.kind /\ task'.r = p /\ InOrder(task'.work)
      /\ Left' = Left \ {OnRun("retract")}
  BY <1>0, <1>1, <1>2, DoneLeft DEF AtomicIInv
<1>5. /\ \A q \in Runs : q # p => Fits(q)'
      /\ Recorded(p)' /\ Targets(p)' = Targets(p) /\ Planned(p)' = Planned(p)
      /\ Joined(p)' = Joined(p)
      /\ \A s \in Targets(p) : (Holds(p, s)' <=> Holds(p, s)) /\ nodes'[s.node] = nodes[s.node]
      /\ Put(Out[p], RetractedRow(Out[p]), p) => nodes'[Out[p]].state = "Retracted"
  BY <1>1, <1>2, RetractFacts
<1>6. ~Shows(p)'
  BY <1>1, <1>5 DEF Shows
<1>7. Fits(p)'
  <2>1. Staged(p)'
    BY <1>1, <1>2, <1>3 DEF Fits, Staged, Early
  <2>2. Published(p)'
    BY <1>1, <1>3, <1>5 DEF Fits, Published
  <2>3. Withdrawn(p)'
    BY <1>1, <1>3 DEF Withdrawn, Undone
  <2>. QED
    BY <1>5, <2>1, <2>2, <2>3 DEF Fits
<1>8. Reverting(p)'
  <2>1. /\ \A e : OnEdge("removeEdge", e) \in Left' <=> OnEdge("removeEdge", e) \in Left
        /\ \A s : OnTarget("reinstate", s) \in Left' <=> OnTarget("reinstate", s) \in Left
    BY <1>4, ItemsDiffer
  <2>2. Undoing(p, "removeEdge", "reinstate", "retract")'
    BY <1>2, <1>5, <1>6, <2>1 DEF Reverting, Undoing
  <2>. QED
    BY <1>1, <1>2, <1>4, <1>5, <2>2 DEF Reverting
<1>9. TaskFits'
  BY <1>2, <1>4, <1>8 DEF TaskFits
<1>10. CallsFit'
  BY <1>0, <1>1, <1>4, TaskCallsFit DEF AtomicIInv
<1>. QED
  BY <1>5, <1>7, <1>9, <1>10 DEF AtomicIInv

\* An edge is removed or left alone.
LEMMA EdgeFacts ==
  ASSUME Typed, AtomicIInv, NEW p \in Runs, runs[p].status \in {"Completing", "Reverting"},
         UNCHANGED <<nodes, runs, writer>>, NEW e \in AllEdges,
         edges'[e] \in {edges[e], NoEdge}, \A f \in AllEdges : f # e => edges'[f] = edges[f]
  PROVE  /\ \A q \in Runs : Fits(q)'
         /\ Targets(p)' = Targets(p) /\ Planned(p)' = Planned(p)
         /\ Joined(p)' \subseteq Joined(p)
         /\ Shows(p)' = Shows(p) /\ \A s : Holds(p, s)' = Holds(p, s)
<1>1. NoReturn
  BY DEF NoReturn
<1>2. \A q \in Runs : \A f \in AllEdges : edges'[f].by = q => edges'[f] = edges[f]
  BY DEF NoEdge, Runs
<1>3. \A q \in Runs : Spares(q)
  BY <1>2, SameSpares DEF AtomicIInv, Fits
<1>4. \A q \in Runs : Fits(q)'
  BY <1>1, <1>3, SparesFits DEF AtomicIInv
<1>5. Joined(p)' \subseteq Joined(p)
  BY <1>2 DEF Joined
<1>. QED
  BY <1>4, <1>5 DEF Targets, Planned, Shows, Holds

LEMMA DropEdgeAtomic ==
  ASSUME Typed, AtomicIInv, DropEdge
  PROVE  AtomicIInv'
<1>0. PICK p : p = task.r
  OBVIOUS
<1>1. /\ task.work # <<>> /\ Head(task.work).do = "dropEdge" /\ Done
      /\ UNCHANGED <<nodes, runs, call, phase, writer>>
  BY DEF DropEdge, Doing
<1>2. p \in Runs /\ RollingBack(p) /\ task.kind \in {"undo", "repair"}
      /\ \E e \in Planned(p) : Head(task.work) = OnEdge("dropEdge", e)
  BY <1>0, <1>1, HeadFits, UndoKinds DEF AtomicIInv
<1>3. PICK e \in Planned(p) : Head(task.work) = OnEdge("dropEdge", e)
  BY <1>2
<1>4. Head(task.work).edge = e /\ e \in AllEdges
  BY <1>1, <1>3, HeadTyped, ItemFacts
<1>5. Fits(p) /\ runs[p].status = "Completing"
  BY <1>2 DEF AtomicIInv, RollingBack
<1>6. /\ task'.kind = task.kind /\ task'.r = p /\ InOrder(task'.work)
      /\ Left' = Left \ {OnEdge("dropEdge", e)}
  BY <1>0, <1>1, <1>3, DoneLeft DEF AtomicIInv
<1>7. /\ edges'[e] = IF edges[e] = [rev |-> 1, by |-> p] THEN NoEdge ELSE edges[e]
      /\ \A f \in AllEdges : f # e => edges'[f] = edges[f]
  BY <1>0, <1>4 DEF DropEdge, Typed
<1>8. /\ \A q \in Runs : Fits(q)'
      /\ Targets(p)' = Targets(p) /\ Planned(p)' = Planned(p)
      /\ Joined(p)' \subseteq Joined(p)
      /\ Shows(p)' = Shows(p) /\ \A s : Holds(p, s)' = Holds(p, s)
  BY <1>1, <1>2, <1>4, <1>5, <1>7, EdgeFacts
\* The edge that the run added is still at its first revision, so it goes.
<1>9. e \notin Joined(p)'
  <2>1. CASE edges[e].by = p
    <3>1. edges[e].rev = 1
      BY <1>4, <1>5, <2>1 DEF Fits, Published, Joined
    <3>2. edges[e] = [rev |-> 1, by |-> p]
      BY <1>4, <2>1, <3>1 DEF Typed, EdgeType
    <3>3. edges'[e].by = 0 /\ 0 # p
      BY <1>2, <1>7, <3>2 DEF NoEdge, Runs
    <3>. QED
      BY <3>3 DEF Joined
  <2>2. CASE edges[e].by # p
    BY <1>8, <2>2 DEF Joined
  <2>. QED
    BY <2>1, <2>2
<1>10. RollingBack(p)'
  <2>1. /\ \A f : f # e => (OnEdge("dropEdge", f) \in Left' <=> OnEdge("dropEdge", f) \in Left)
        /\ \A s : OnTarget("restore", s) \in Left' <=> OnTarget("restore", s) \in Left
        /\ OnRun("rollback") \in Left' <=> OnRun("rollback") \in Left
    BY <1>6, ItemsDiffer
  <2>2. Undoing(p, "dropEdge", "restore", "rollback")'
    BY <1>2, <1>8, <1>9, <2>1 DEF RollingBack, Undoing
  <2>. QED
    BY <1>1, <1>2, <1>6, <1>8, <2>2 DEF RollingBack
<1>11. TaskFits'
  BY <1>2, <1>6, <1>10 DEF TaskFits
<1>12. CallsFit'
  BY <1>0, <1>1, <1>6, TaskCallsFit DEF AtomicIInv
<1>. QED
  BY <1>8, <1>11, <1>12 DEF AtomicIInv

LEMMA RemoveEdgeAtomic ==
  ASSUME Typed, AtomicIInv, RemoveEdge
  PROVE  AtomicIInv'
<1>0. PICK p : p = task.r
  OBVIOUS
<1>1. /\ task.work # <<>> /\ Head(task.work).do = "removeEdge" /\ Done
      /\ UNCHANGED <<nodes, runs, call, phase, writer>>
  BY DEF RemoveEdge, Doing
<1>2. p \in Runs /\ Reverting(p) /\ task.kind \in {"revert", "repair"}
      /\ \E e \in Planned(p) : Head(task.work) = OnEdge("removeEdge", e)
  BY <1>0, <1>1, HeadFits, UndoKinds DEF AtomicIInv
<1>3. PICK e \in Planned(p) : Head(task.work) = OnEdge("removeEdge", e)
  BY <1>2
<1>4. Head(task.work).edge = e /\ e \in AllEdges
  BY <1>1, <1>3, HeadTyped, ItemFacts
<1>5. runs[p].status = "Reverting"
  BY <1>2 DEF Reverting
<1>6. /\ task'.kind = task.kind /\ task'.r = p /\ InOrder(task'.work)
      /\ Left' = Left \ {OnEdge("removeEdge", e)}
  BY <1>0, <1>1, <1>3, DoneLeft DEF AtomicIInv
<1>7. edges'[e] = NoEdge /\ \A f \in AllEdges : f # e => edges'[f] = edges[f]
  BY <1>4 DEF RemoveEdge, Typed
<1>8. /\ \A q \in Runs : Fits(q)'
      /\ Targets(p)' = Targets(p) /\ Planned(p)' = Planned(p)
      /\ Joined(p)' \subseteq Joined(p)
      /\ Shows(p)' = Shows(p) /\ \A s : Holds(p, s)' = Holds(p, s)
  BY <1>1, <1>2, <1>4, <1>5, <1>7, EdgeFacts
<1>9. e \notin Joined(p)'
  BY <1>2, <1>7 DEF Joined, NoEdge, Runs
<1>10. Reverting(p)'
  <2>1. /\ \A f : f # e => (OnEdge("removeEdge", f) \in Left' <=> OnEdge("removeEdge", f) \in Left)
        /\ \A s : OnTarget("reinstate", s) \in Left' <=> OnTarget("reinstate", s) \in Left
        /\ OnRun("retract") \in Left' <=> OnRun("retract") \in Left
    BY <1>6, ItemsDiffer
  <2>2. Undoing(p, "removeEdge", "reinstate", "retract")'
    BY <1>2, <1>8, <1>9, <2>1 DEF Reverting, Undoing
  <2>. QED
    BY <1>1, <1>2, <1>6, <1>8, <2>2 DEF Reverting
<1>11. TaskFits'
  BY <1>2, <1>6, <1>10 DEF TaskFits
<1>12. CallsFit'
  BY <1>0, <1>1, <1>6, TaskCallsFit DEF AtomicIInv
<1>. QED
  BY <1>8, <1>11, <1>12 DEF AtomicIInv

\* A superseded memory gets its former state back or is left alone.
LEMMA TargetFacts ==
  ASSUME Typed, AtomicIInv, NEW p \in Runs, runs[p].status \in {"Completing", "Reverting"},
         UNCHANGED <<edges, runs>>, NEW s \in Targets(p),
         Put(s.node, RestoredRow(s), p) \/ UNCHANGED <<nodes, writer>>
  PROVE  /\ \A q \in Runs : Fits(q)'
         /\ Targets(p)' = Targets(p) /\ Planned(p)' = Planned(p)
         /\ Joined(p)' = Joined(p) /\ (Shows(p)' <=> Shows(p))
         /\ \A t \in Targets(p) : t # s => (Holds(p, t)' <=> Holds(p, t))
         /\ Put(s.node, RestoredRow(s), p) => ~Holds(p, s)'
<1> DEFINE n == s.node
           node == RestoredRow(s)
<1>1. Fits(p) /\ Recorded(p) /\ s.state = "Active" /\ n # Out[p]
  BY DEF AtomicIInv, Fits, Recorded
<1>2. n \in Nodes /\ node \in NodeType /\ node.state = "Active"
  <2>1. n \in Nodes /\ node \in NodeType
    BY TargetTyped, RestoredTyped
  <2>2. nodes[n] \in NodeType
    BY <2>1 DEF Typed
  <2>. QED
    BY <1>1, <2>1, <2>2 DEF RestoredRow, NodeType
<1> HIDE DEF node
<1>3. Put(n, node, p) => nodes'[n].state = "Active"
  BY <1>2, PutFacts
<1>4. \A m \in Nodes : m # n => nodes'[m] = nodes[m] /\ writer'[m] = writer[m]
  BY <1>2, PutFacts DEF node
<1>5. NoReturn
  BY DEF NoReturn
<1>6. \A q \in Runs : q # p => Spares(q)
  <2> SUFFICES ASSUME NEW q \in Runs, q # p PROVE Spares(q)
    OBVIOUS
  <2>1. Staged(q)
    BY DEF AtomicIInv, Fits
  <2>2. CASE UNCHANGED <<nodes, writer>>
    BY <2>1, <2>2, SameSpares
  <2>3. CASE Put(n, node, p)
    <3>1. n = Out[q] => runs[q].status \notin Early
      BY <1>1 DEF Recorded
    <3> HIDE DEF n
    <3>. QED
      BY <1>2, <2>1, <2>3, <3>1, PutSpares
  <2>. QED
    BY <2>2, <2>3 DEF node
<1>7. Recorded(p)' /\ Targets(p)' = Targets(p) /\ Planned(p)' = Planned(p)
  BY <1>1, <1>5, KeepsRecorded
<1>8. \A q \in Runs : q # p => Fits(q)'
  BY <1>5, <1>6, OthersFit
<1>9. Out[p] \in Nodes /\ nodes'[Out[p]] = nodes[Out[p]] /\ writer'[Out[p]] = writer[Out[p]]
  BY <1>1, <1>4, OutInNodes
<1>10. /\ Joined(p)' = Joined(p) /\ (Shows(p)' <=> Shows(p))
       /\ Fingerprint(nodes[Out[p]])' = Fingerprint(nodes[Out[p]])
  BY <1>9, KeepsOutput DEF Joined
<1>11. \A t \in Targets(p) : t # s => nodes'[t.node] = nodes[t.node] /\ writer'[t.node] = writer[t.node]
  BY <1>1, <1>4, TargetTyped, TargetsDiffer
<1>12. /\ Put(n, node, p) => ~Holds(p, s)'
       /\ \A t \in Targets(p) : t # s => (Holds(p, t)' <=> Holds(p, t))
  BY <1>3, <1>11 DEF Holds
<1>13. Fits(p)'
  <2>1. Staged(p)'
    BY <1>1, <1>9 DEF Fits, Staged, Early
  <2>2. \A t \in Targets(p) : Holds(p, t)' => Holds(p, t) /\ nodes'[t.node].rev = nodes[t.node].rev
    <3>1. Holds(p, s)' => Holds(p, s) /\ nodes'[n].rev = nodes[n].rev
      BY <1>12 DEF Holds, node
    <3>. QED
      BY <1>11, <1>12, <3>1
  <2>3. Published(p)'
    BY <1>1, <1>7, <1>10, <2>2 DEF Fits, Published, Joined, Fingerprint, StagedRow, Row
  <2>4. Withdrawn(p)'
    BY DEF Withdrawn, Undone
  <2>. QED
    BY <1>7, <2>1, <2>3, <2>4 DEF Fits
<1>. QED
  BY <1>7, <1>8, <1>10, <1>12, <1>13 DEF node

LEMMA RestoreAtomic ==
  ASSUME Typed, AtomicIInv, Restore
  PROVE  AtomicIInv'
<1>0. PICK p : p = task.r
  OBVIOUS
<1>1. /\ task.work # <<>> /\ Head(task.work).do = "restore" /\ Done
      /\ UNCHANGED <<edges, runs, call, phase>>
  BY DEF Restore, Doing
<1>2. p \in Runs /\ RollingBack(p) /\ task.kind \in {"undo", "repair"}
      /\ \E s \in Targets(p) : Head(task.work) = OnTarget("restore", s)
  BY <1>0, <1>1, HeadFits, UndoKinds DEF AtomicIInv
<1>3. PICK s \in Targets(p) : Head(task.work) = OnTarget("restore", s)
  BY <1>2
<1>4. Head(task.work).target = s
  BY <1>3, ItemFacts
<1>5. Fits(p) /\ runs[p].status = "Completing"
  BY <1>2 DEF AtomicIInv, RollingBack
<1>6. /\ task'.kind = task.kind /\ task'.r = p /\ InOrder(task'.work)
      /\ Left' = Left \ {OnTarget("restore", s)}
  BY <1>0, <1>1, <1>3, DoneLeft DEF AtomicIInv
<1>7. \/ Put(s.node, RestoredRow(s), p)
      \/ /\ UNCHANGED <<nodes, writer>>
         /\ ~(Exists(s.node) /\ nodes[s.node].rev = s.after /\ nodes[s.node].state = "Superseded")
  BY <1>0, <1>4 DEF Restore
<1>8. /\ \A q \in Runs : Fits(q)'
      /\ Targets(p)' = Targets(p) /\ Planned(p)' = Planned(p)
      /\ Joined(p)' = Joined(p) /\ (Shows(p)' <=> Shows(p))
      /\ \A t \in Targets(p) : t # s => (Holds(p, t)' <=> Holds(p, t))
      /\ Put(s.node, RestoredRow(s), p) => ~Holds(p, s)'
  BY <1>1, <1>2, <1>5, <1>7, TargetFacts
\* A memory that the run still holds is at the revision it was left at.
<1>9. ~Holds(p, s)'
  <2>1. Holds(p, s) => Exists(s.node) /\ nodes[s.node].rev = s.after /\ nodes[s.node].state = "Superseded"
    BY <1>5 DEF Fits, Published, Holds, Exists
  <2>. QED
    BY <1>7, <1>8, <2>1 DEF Holds
<1>10. RollingBack(p)'
  <2>1. /\ \A f : OnEdge("dropEdge", f) \in Left' <=> OnEdge("dropEdge", f) \in Left
        /\ \A t : t # s => (OnTarget("restore", t) \in Left' <=> OnTarget("restore", t) \in Left)
        /\ OnRun("rollback") \in Left' <=> OnRun("rollback") \in Left
    BY <1>6, ItemsDiffer
  <2>2. Undoing(p, "dropEdge", "restore", "rollback")'
    BY <1>2, <1>8, <1>9, <2>1 DEF RollingBack, Undoing
  <2>. QED
    BY <1>1, <1>2, <1>6, <1>8, <2>2 DEF RollingBack
<1>11. TaskFits'
  BY <1>2, <1>6, <1>10 DEF TaskFits
<1>12. CallsFit'
  BY <1>0, <1>1, <1>6, TaskCallsFit DEF AtomicIInv
<1>. QED
  BY <1>8, <1>11, <1>12 DEF AtomicIInv

LEMMA ReinstateAtomic ==
  ASSUME Typed, AtomicIInv, Reinstate
  PROVE  AtomicIInv'
<1>0. PICK p : p = task.r
  OBVIOUS
<1>1. /\ task.work # <<>> /\ Head(task.work).do = "reinstate" /\ Done
      /\ UNCHANGED <<edges, runs, call, phase>>
  BY DEF Reinstate, Doing
<1>2. p \in Runs /\ Reverting(p) /\ task.kind \in {"revert", "repair"}
      /\ \E s \in Targets(p) : Head(task.work) = OnTarget("reinstate", s)
  BY <1>0, <1>1, HeadFits, UndoKinds DEF AtomicIInv
<1>3. PICK s \in Targets(p) : Head(task.work) = OnTarget("reinstate", s)
  BY <1>2
<1>4. Head(task.work).target = s
  BY <1>3, ItemFacts
<1>5. runs[p].status = "Reverting" /\ s.state = "Active"
  BY <1>2, <1>3 DEF AtomicIInv, Reverting, Fits, Recorded
<1>6. /\ task'.kind = task.kind /\ task'.r = p /\ InOrder(task'.work)
      /\ Left' = Left \ {OnTarget("reinstate", s)}
  BY <1>0, <1>1, <1>3, DoneLeft DEF AtomicIInv
<1>7. \/ Put(s.node, RestoredRow(s), p)
      \/ /\ UNCHANGED <<nodes, writer>>
         /\ ~(Exists(s.node) /\ ~(nodes[s.node].state = s.state /\ nodes[s.node].to = s.to))
  BY <1>0, <1>4 DEF Reinstate
<1>8. /\ \A q \in Runs : Fits(q)'
      /\ Targets(p)' = Targets(p) /\ Planned(p)' = Planned(p)
      /\ Joined(p)' = Joined(p) /\ (Shows(p)' <=> Shows(p))
      /\ \A t \in Targets(p) : t # s => (Holds(p, t)' <=> Holds(p, t))
      /\ Put(s.node, RestoredRow(s), p) => ~Holds(p, s)'
  BY <1>1, <1>2, <1>5, <1>7, TargetFacts
<1>9. ~Holds(p, s)'
  BY <1>5, <1>7, <1>8 DEF Holds, Exists
<1>10. Reverting(p)'
  <2>1. /\ \A f : OnEdge("removeEdge", f) \in Left' <=> OnEdge("removeEdge", f) \in Left
        /\ \A t : t # s => (OnTarget("reinstate", t) \in Left' <=> OnTarget("reinstate", t) \in Left)
        /\ OnRun("retract") \in Left' <=> OnRun("retract") \in Left
    BY <1>6, ItemsDiffer
  <2>2. Undoing(p, "removeEdge", "reinstate", "retract")'
    BY <1>2, <1>8, <1>9, <2>1 DEF Reverting, Undoing
  <2>. QED
    BY <1>1, <1>2, <1>6, <1>8, <2>2 DEF Reverting
<1>11. TaskFits'
  BY <1>2, <1>6, <1>10 DEF TaskFits
<1>12. CallsFit'
  BY <1>0, <1>1, <1>6, TaskCallsFit DEF AtomicIInv
<1>. QED
  BY <1>8, <1>11, <1>12 DEF AtomicIInv

------------------------------------------------------------------------------
(* Tasks that end, and the steps that interrupt them. *)

\* A task for a run means that its call has returned.
LEMMA ReturnedCall ==
  ASSUME Typed, CallsFit, NEW r \in Runs, runs[r].status \notin Early, task.kind # "stage"
  PROVE  call[r].pc = "done"
  BY DEF Typed, CallType, CallsFit, CallFits, Early

LEMMA PublishStatusAtomic ==
  ASSUME Typed, AtomicIInv, PublishStatus
  PROVE  AtomicIInv'
<1>0. PICK p : p = task.r
  OBVIOUS
<1> DEFINE status == Head(task.work).status
<1>1. /\ task.work # <<>> /\ Head(task.work).do = "status" /\ task' = NoTask
      /\ UNCHANGED <<nodes, edges, call, phase, writer>>
      /\ runs' = [runs EXCEPT ![p].status = status]
  BY <1>0 DEF PublishStatus, Doing
<1>2. /\ p \in Runs /\ task.kind \in Kinds
      /\ \/ Completing(p) /\ status = "Completed"
         \/ (CleaningUp(p) \/ RollingBack(p)) /\ status \in {"Failed", "Repaired"}
         \/ Reverting(p) /\ status = "Reverted"
  BY <1>0, <1>1, HeadFits DEF AtomicIInv
<1>3. \A x \in Left : x.do = "status"
  BY <1>1, LastWrite DEF AtomicIInv
<1> HIDE DEF status
<1>4. /\ runs'[p].status = status
      /\ runs'[p].edges = runs[p].edges /\ runs'[p].superseded = runs[p].superseded
      /\ runs'[p].created = runs[p].created /\ runs'[p].captured = runs[p].captured
      /\ runs'[p].fingerprint = runs[p].fingerprint
      /\ \A q \in Runs : q # p => runs'[q] = runs[q]
  BY <1>1, <1>2, StatusFacts
<1>5. NoReturn
  BY <1>2, <1>4 DEF NoReturn, Early
<1>6. \A q \in Runs : q # p => Spares(q)
  BY <1>1, <1>4, SameSpares DEF AtomicIInv, Fits
<1>7. \A q \in Runs : q # p => Fits(q)'
  BY <1>5, <1>6, OthersFit
<1>8. Fits(p) /\ Recorded(p)
  BY <1>2 DEF AtomicIInv, Fits
<1>9. Recorded(p)' /\ Targets(p)' = Targets(p) /\ Planned(p)' = Planned(p)
  BY <1>2, <1>4, <1>5, <1>8, KeepsRecorded
<1>10. Joined(p)' = Joined(p) /\ (Shows(p)' <=> Shows(p)) /\ \A s : Holds(p, s)' = Holds(p, s)
  BY <1>1 DEF Joined, Shows, Holds
<1>11. Fits(p)'
  <2>1. CASE Completing(p) /\ status = "Completed"
    <3>1. runs[p].status = "Completing"
      BY <2>1 DEF Completing
    <3>2. Staged(p)'
      BY <1>1, <1>4, <1>8, <2>1, <3>1 DEF Fits, Staged, Early
    <3>3. Published(p)'
      BY <1>4, <1>8, <1>9, <1>10, <2>1, <3>1 DEF Fits, Published
    <3>4. Withdrawn(p)'
      BY <1>4, <2>1 DEF Withdrawn, Undone
    <3>. QED
      BY <1>9, <3>2, <3>3, <3>4 DEF Fits
  <2>2. CASE status \in Undone /\ Joined(p) = {} /\ ~Shows(p) /\ \A s \in Targets(p) : ~Holds(p, s)
    <3>1. Staged(p)'
      BY <1>1, <1>4, <1>8, <2>2 DEF Fits, Staged, Early, Undone
    <3>2. Published(p)'
      BY <1>4, <2>2 DEF Published, Undone
    <3>3. Withdrawn(p)'
      BY <1>9, <1>10, <2>2 DEF Withdrawn
    <3>. QED
      BY <1>9, <3>1, <3>2, <3>3 DEF Fits
  <2>3. CASE CleaningUp(p) /\ status \in {"Failed", "Repaired"}
    BY <1>2, <1>8, <2>2, <2>3, PendingShowsNothing DEF CleaningUp, Early, Undone
  <2>4. CASE RollingBack(p) /\ status \in {"Failed", "Repaired"}
    BY <1>3, <2>2, <2>4, ItemFacts DEF RollingBack, Undoing, Undone
  <2>5. CASE Reverting(p) /\ status = "Reverted"
    BY <1>3, <2>2, <2>5, ItemFacts DEF Reverting, Undoing, Undone
  <2>. QED
    BY <1>2, <2>1, <2>3, <2>4, <2>5
<1>12. CallsFit'
  <2>1. task'.kind = "none"
    BY <1>1 DEF NoTask
  <2>2. ASSUME NEW q \in Runs, q # p PROVE CallFits(q)'
    <3>1. CallFits(q) /\ runs'[q] = runs[q]
      BY <1>4, <2>2 DEF AtomicIInv, CallsFit
    <3>. QED
      BY <1>1, <1>2, <3>1 DEF CallFits, Kinds
  <2>3. CallFits(p)'
    BY <1>0, <1>1, <1>2 DEF AtomicIInv, CallsFit, CallFits
  <2>. QED
    BY <2>1, <2>2, <2>3 DEF CallsFit, Kinds
<1>13. TaskFits'
  BY <1>1, NoTaskFits
<1>. QED
  BY <1>7, <1>11, <1>12, <1>13 DEF AtomicIInv

LEMMA RevertAtomic ==
  ASSUME Typed, AtomicIInv, NEW p \in Runs, Revert(p)
  PROVE  AtomicIInv'
<1>1. /\ task = NoTask /\ phase = "open" /\ runs[p].status = "Completed"
      /\ UNCHANGED <<nodes, edges, call, phase, writer>>
      /\ runs' = [runs EXCEPT ![p].status = "Reverting"]
      /\ task' = Start("revert", p, RevertWork(p))
  BY DEF Revert, Begin, Locked
<1>2. /\ runs'[p].status = "Reverting"
      /\ runs'[p].edges = runs[p].edges /\ runs'[p].superseded = runs[p].superseded
      /\ runs'[p].created = runs[p].created
      /\ runs'[p].fingerprint = runs[p].fingerprint
      /\ \A q \in Runs : q # p => runs'[q] = runs[q]
  BY <1>1, StatusFacts
<1>3. task'.kind = "revert" /\ task'.r = p /\ task'.work = RevertWork(p)
  BY <1>1 DEF Start
<1>4. NoReturn
  BY <1>2 DEF NoReturn, Early
<1>5. \A q \in Runs : q # p => Fits(q)'
  <2>1. \A q \in Runs : q # p => Spares(q)
    BY <1>1, <1>2, SameSpares DEF AtomicIInv, Fits
  <2>. QED
    BY <1>4, <2>1, OthersFit
<1>6. Fits(p) /\ Recorded(p)
  BY DEF AtomicIInv, Fits
<1>7. Recorded(p)' /\ Targets(p)' = Targets(p) /\ Planned(p)' = Planned(p)
  BY <1>2, <1>4, <1>6, KeepsRecorded
<1>8. Fits(p)'
  <2>1. Staged(p)'
    BY <1>1, <1>2, <1>6 DEF Fits, Staged, Early
  <2>2. Published(p)' /\ Withdrawn(p)'
    BY <1>1, <1>2, <1>6, <1>7 DEF Fits, Published, Joined, Withdrawn, Undone
  <2>. QED
    BY <1>7, <2>1, <2>2 DEF Fits
<1>9. Reverting(p)' /\ InOrder(task'.work)
  BY <1>1, <1>2, <1>3, <1>6, RevertBegins
<1>10. TaskFits'
  BY <1>3, <1>9 DEF TaskFits
<1>11. CallsFit'
  <2>1. call[p].pc = "done" /\ task.kind = "none"
    BY <1>1, ReturnedCall DEF AtomicIInv, NoTask, Early
  <2>2. ASSUME NEW q \in Runs, q # p PROVE CallFits(q)'
    <3>1. CallFits(q) /\ runs'[q] = runs[q]
      BY <1>2, <2>2 DEF AtomicIInv, CallsFit
    <3>. QED
      BY <1>1, <2>1, <3>1 DEF CallFits
  <2>3. CallFits(p)'
    BY <1>1, <2>1 DEF CallFits
  <2>. QED
    BY <1>1, <1>3, <2>1, <2>2, <2>3 DEF CallsFit
<1>. QED
  BY <1>5, <1>8, <1>10, <1>11 DEF AtomicIInv

------------------------------------------------------------------------------
(* Opening, faults and crashes. *)

\* Opening the database and starting the repair of the next run.
LEMMA OpenRepairAtomic ==
  ASSUME Typed, AtomicIInv, Open \/ Repair
  PROVE  AtomicIInv'
<1>1. /\ UNCHANGED <<nodes, edges, runs, call, writer>>
      /\ phase \in {"closed", "opening"} /\ phase' \in {"opening", "open"}
  BY DEF Open, Repair, durable
<1>2. \A q \in Runs : call[q].pc \in {"idle", "done"}
  BY <1>1 DEF AtomicIInv, CallsFit, CallFits
<1>3. task.kind \notin {"stage", "complete"}
  BY <1>1 DEF AtomicIInv, CallsFit
<1>4. \A q \in Runs : CallFits(q)'
  BY <1>1, <1>2 DEF AtomicIInv, CallsFit, CallFits
<1>5. CASE UNCHANGED task /\ (phase' = "open" => task = NoTask)
  <2>1. TaskFits'
    BY <1>1, <1>5, SameTaskFits DEF AtomicIInv
  <2>2. phase' = "opening" \/ task.kind = "none"
    BY <1>1, <1>5 DEF NoTask
  <2>3. CallsFit'
    BY <1>1, <1>3, <1>4, <1>5, <2>2 DEF AtomicIInv, CallsFit
  <2>. QED
    BY <1>1, <2>1, <2>3, DurableAtomic DEF durable
<1>6. CASE /\ phase = "opening" /\ phase' = "opening"
           /\ \E r \in ToRepair : task' = Start("repair", r, RepairWork(r))
  <2>1. PICK p \in ToRepair : task' = Start("repair", p, RepairWork(p))
    BY <1>6
  <2>2. task'.kind = "repair" /\ task'.r = p /\ task'.work = RepairWork(p)
    BY <2>1 DEF Start
  <2>3. p \in Runs /\ runs[p].status \in {"Pending", "Completing", "Reverting"} /\ Fits(p)
    BY <2>1 DEF ToRepair, Unfinished, AtomicIInv
  <2>4. TaskFits'
    <3>1. CASE runs[p].status = "Pending"
      <4>1. task'.work = CleanupWork(p, "Repaired")
        BY <2>2, <3>1 DEF RepairWork
      <4>2. CleaningUp(p)' /\ InOrder(task'.work)
        BY <1>1, <2>3, <3>1, <4>1, CleanupBegins
      <4>. QED
        BY <2>2, <4>2 DEF TaskFits
    <3>2. CASE runs[p].status = "Completing"
      <4>1. task'.work = RollbackWork(p, "Repaired")
        BY <2>2, <3>2 DEF RepairWork
      <4>2. RollingBack(p)' /\ InOrder(task'.work)
        BY <1>1, <2>3, <3>2, <4>1, RollbackBegins
      <4>. QED
        BY <2>2, <4>2 DEF TaskFits
    <3>3. CASE runs[p].status = "Reverting"
      <4>1. task'.work = RevertWork(p)
        BY <2>2, <3>3 DEF RepairWork
      <4>2. Reverting(p)' /\ InOrder(task'.work)
        BY <1>1, <2>3, <3>3, <4>1, RevertBegins
      <4>. QED
        BY <2>2, <4>2 DEF TaskFits
    <3>. QED
      BY <2>3, <3>1, <3>2, <3>3
  <2>5. call[p].pc = "done"
    BY <1>2, <2>3 DEF AtomicIInv, CallsFit, CallFits
  <2>6. CallsFit'
    BY <1>1, <1>4, <1>6, <2>2, <2>5 DEF CallsFit
  <2>. QED
    BY <1>1, <2>4, <2>6, DurableAtomic DEF durable
<1>. QED
  BY <1>1, <1>5, <1>6 DEF Open, Repair

\* A storage call fails: what is staged or published is undone, the rest ends.
LEMMA FaultAtomic ==
  ASSUME Typed, TaskCounts, AtomicIInv, Fault
  PROVE  AtomicIInv'
<1>0. PICK p : p = task.r
  OBVIOUS
<1>1. /\ UNCHANGED <<nodes, edges, runs, writer>> /\ task # NoTask
      /\ phase' = IF task.kind = "repair" THEN "closed" ELSE phase
      /\ call' = IF task.kind = "stage" THEN [call EXCEPT ![p] = [NoCall EXCEPT !.pc = "done"]]
                 ELSE call
  BY <1>0 DEF Fault, durable
<1>2. p \in Runs /\ task.kind \in Kinds \cup {"stage"} /\ Fits(p)
  BY <1>0, <1>1 DEF Typed, TaskTyped, AtomicIInv
<1>3. CASE task.kind = "stage"
  <2>1. task' = Start("undo", p, CleanupWork(p, "Failed"))
    BY <1>0, <1>3 DEF Fault
  <2>2. task'.kind = "undo" /\ task'.r = p /\ task'.work = CleanupWork(p, "Failed")
    BY <2>1 DEF Start
  <2>3. runs'[p].status = "Pending"
    BY <1>0, <1>1, <1>3 DEF AtomicIInv, TaskFits, StagingFits
  <2>4. CleaningUp(p)' /\ InOrder(task'.work)
    BY <1>2, <2>2, <2>3, CleanupBegins
  <2>5. TaskFits'
    BY <2>2, <2>4 DEF TaskFits
  <2>6. call'[p].pc = "done" /\ \A q \in Runs : q # p => call'[q] = call[q]
    BY <1>1, <1>2, <1>3 DEF Typed, NoCall
  <2>7. ASSUME NEW q \in Runs, q # p PROVE CallFits(q)'
    <3>1. CallFits(q) /\ call'[q] = call[q]
      BY <2>6, <2>7 DEF AtomicIInv, CallsFit
    <3>. QED
      BY <1>0, <1>1, <1>3, <2>7, <3>1 DEF CallFits
  <2>8. CallFits(p)'
    BY <2>6 DEF CallFits
  <2>9. CallsFit'
    BY <2>2, <2>6, <2>7, <2>8 DEF CallsFit
  <2>. QED
    BY <1>1, <2>5, <2>9, DurableAtomic DEF durable
<1>4. CASE task.kind = "complete"
  <2>1. task' = Start("undo", p, RollbackWork(p, "Failed"))
    BY <1>0, <1>4 DEF Fault, RollBack
  <2>2. task'.kind = "undo" /\ task'.r = p /\ task'.work = RollbackWork(p, "Failed")
    BY <2>1 DEF Start
  <2>3. runs[p].status = "Completing"
    BY <1>0, <1>4 DEF AtomicIInv, TaskFits, Completing
  <2>4. RollingBack(p)' /\ InOrder(task'.work)
    BY <1>1, <1>2, <2>2, <2>3, RollbackBegins
  <2>5. TaskFits'
    BY <2>2, <2>4 DEF TaskFits
  <2>6. UNCHANGED <<call, phase>> /\ task'.r = task.r /\ task.kind \in Kinds
    BY <1>0, <1>1, <1>4, <2>2 DEF Kinds
  <2>7. CallsFit'
    BY <1>1, <2>2, <2>6, TaskCallsFit DEF AtomicIInv
  <2>. QED
    BY <1>1, <2>5, <2>7, DurableAtomic DEF durable
<1>5. CASE task.kind \in {"undo", "revert", "repair"}
  <2>1. task' = NoTask /\ call' = call
    BY <1>1, <1>5 DEF Fault
  <2>2. TaskFits'
    BY <2>1, NoTaskFits
  <2>3. task'.kind = "none"
    BY <2>1 DEF NoTask
  <2>4. phase' # phase => phase # "open"
    BY <1>1 DEF AtomicIInv, CallsFit
  <2>5. \A q \in Runs : CallFits(q)'
    BY <1>1, <1>5, <2>1, <2>4 DEF AtomicIInv, CallsFit, CallFits
  <2>6. CallsFit'
    BY <2>3, <2>5 DEF CallsFit, Kinds
  <2>. QED
    BY <1>1, <2>2, <2>6, DurableAtomic DEF durable
<1>. QED
  BY <1>2, <1>3, <1>4, <1>5 DEF Kinds

\* The process stops: every call is lost, whatever is durable stays.
LEMMA CrashAtomic ==
  ASSUME Typed, AtomicIInv, Crash
  PROVE  AtomicIInv'
<1>1. UNCHANGED <<nodes, edges, runs, writer>> /\ task' = NoTask /\ task'.kind = "none"
  BY DEF Crash, durable, NoTask
<1>2. \A q \in Runs : call'[q] = IF call[q] = NoCall THEN NoCall ELSE [NoCall EXCEPT !.pc = "done"]
  BY DEF Crash
<1>3. NoCall.pc = "idle" /\ [NoCall EXCEPT !.pc = "done"].pc = "done"
  BY DEF NoCall
<1>4. ASSUME NEW q \in Runs PROVE CallFits(q)'
  <2>1. CASE call[q] = NoCall
    <3>1. call'[q].pc = "idle" /\ call[q].pc = "idle"
      BY <1>2, <1>3, <2>1
    <3>2. runs'[q].status = "None"
      BY <1>1, <3>1 DEF AtomicIInv, CallsFit, CallFits
    <3>. QED
      BY <3>1, <3>2 DEF CallFits
  <2>2. CASE call[q] # NoCall
    <3>1. call'[q].pc = "done"
      BY <1>2, <1>3, <2>2
    <3>. QED
      BY <3>1 DEF CallFits
  <2>. QED
    BY <2>1, <2>2
<1>5. CallsFit'
  BY <1>1, <1>4 DEF CallsFit, Kinds
<1>6. TaskFits'
  BY <1>1, NoTaskFits
<1>. QED
  BY <1>1, <1>5, <1>6, DurableAtomic DEF durable

LEMMA InitAtomic ==
  ASSUME Init
  PROVE  AtomicIInv
<1>1. /\ \A r \in Runs : runs[r] = NoRun /\ call[r] = NoCall
      /\ \A e \in AllEdges : edges[e] = NoEdge
      /\ \A n \in Nodes : writer[n] = 0
      /\ task = NoTask /\ phase = "open"
  BY DEF Init
<1>2. \A r \in Runs : nodes[Out[r]].state = "Unborn"
  <2> SUFFICES ASSUME NEW r \in Runs PROVE nodes[Out[r]].state = "Unborn"
    OBVIOUS
  <2>1. Out[r] \in Nodes /\ Out[r] \notin Raw /\ Out[r] \notin Derived
    BY DreamAssumption, OutInNodes
  <2>2. nodes[Out[r]] = NoRow("Unborn")
    BY <2>1 DEF Init
  <2>. QED
    BY <2>2 DEF NoRow, Row
<1>3. /\ NoRun.status = "None" /\ NoRun.edges = <<>> /\ NoRun.superseded = <<>>
      /\ NoCall.pc = "idle" /\ NoEdge.by = 0 /\ NoTask.kind = "none" /\ 0 \notin Runs
  BY DEF NoRun, NoCall, NoEdge, NoTask, Runs
<1>4. ASSUME NEW r \in Runs PROVE Fits(r)
  <2>1. Targets(r) = {} /\ Planned(r) = {}
    BY <1>1, <1>3, RangeNone DEF Targets, Planned
  <2>2. Recorded(r)
    BY <1>1, <1>3, <2>1 DEF Recorded
  <2>3. Joined(r) = {}
    BY <1>1, <1>3 DEF Joined
  <2>4. \A n \in Nodes : writer[n] # r
    BY <1>1, <1>3
  <2>5. Staged(r)
    BY <1>1, <1>2, <1>3, <2>3, <2>4, OutInNodes DEF Staged, Hidden
  <2>6. Published(r) /\ Withdrawn(r)
    BY <1>1, <1>3 DEF Published, Withdrawn, Undone
  <2>. QED
    BY <2>2, <2>5, <2>6 DEF Fits
<1>5. CallsFit
  BY <1>1, <1>3 DEF CallsFit, CallFits, Kinds
<1>6. TaskFits
  <2>1. task.kind = "none" /\ task.work = <<>>
    BY <1>1 DEF NoTask
  <2>. QED
    BY <2>1 DEF TaskFits, InOrder
<1>. QED
  BY <1>4, <1>5, <1>6 DEF AtomicIInv

LEMMA NextAtomic == IInv /\ AtomicIInv /\ ActiveTargets' /\ [Next]_vars => AtomicIInv'
<1> SUFFICES ASSUME IInv, AtomicIInv, ActiveTargets', [Next]_vars PROVE AtomicIInv'
  OBVIOUS
<1>0. Typed /\ TaskCounts
  BY DEF IInv
<1>1. CASE \/ \E n \in Nodes : Insert(n) \/ Retract(n) \/ Delete(n)
           \/ \E e \in EdgeKeys : CallAddEdge(e)
  BY <1>0, <1>1, CallerAtomic
<1>2. ASSUME NEW r \in Runs,
             \/ Ask(r) \/ Cancel(r) \/ Project(r) \/ Complete(r) \/ Revert(r)
             \/ \E plan \in Plans : Answer(r, plan)
      PROVE  AtomicIInv'
  BY <1>0, <1>2, WaitAtomic, ProjectAtomic, CompleteAtomic, RevertAtomic, AnswerAtomic
<1>3. CASE RecordId \/ RecordFingerprint \/ InsertStaged \/ RecordPlan
  BY <1>0, <1>3, RecordAtomic, InsertStagedAtomic, RecordPlanAtomic
<1>4. CASE AddEdge \/ Supersede \/ Activate \/ CaptureRevision \/ PublishStatus
  BY <1>0, <1>4, AddEdgeAtomic, SupersedeAtomic, ActivateAtomic, CaptureAtomic,
     PublishStatusAtomic
<1>5. CASE Cleanup \/ RollbackOutput \/ DropEdge \/ Restore
  BY <1>0, <1>5, CleanupAtomic, RollbackOutputAtomic, DropEdgeAtomic, RestoreAtomic
<1>6. CASE RemoveEdge \/ RetractOutput \/ Reinstate
  BY <1>0, <1>6, RemoveEdgeAtomic, RetractOutputAtomic, ReinstateAtomic
<1>7. CASE Open \/ Repair \/ Fault \/ Crash
  BY <1>0, <1>7, OpenRepairAtomic, FaultAtomic, CrashAtomic
<1>8. CASE UNCHANGED vars
  <2>1. UNCHANGED <<nodes, edges, runs, call, phase, task, writer>>
    BY <1>8 DEF vars
  <2>2. TaskFits' /\ CallsFit'
    BY <2>1, SameTaskFits DEF AtomicIInv, CallsFit, CallFits
  <2>. QED
    BY <1>0, <2>1, <2>2, DurableAtomic DEF durable
<1>. QED
  BY <1>1, <1>2, <1>3, <1>4, <1>5, <1>6, <1>7, <1>8 DEF Next, TaskStep

\* As long as answers supersede active memories, each once, the bookkeeping fits.
THEOREM AtomicInvariance == Spec /\ []ActiveTargets => []AtomicIInv
  BY InitAtomic, Invariance, NextAtomic, PTL DEF Spec

\* What a run shows, in the terms of Dream.
LEMMA VisibleShows ==
  ASSUME NEW r \in Runs, Joined(r) = {}, ~Shows(r), \A s \in Targets(r) : ~Holds(r, s)
  PROVE  ~Visible(r)
  BY DEF Visible, Joined, Shows, Holds, Targets, Range

\* A dream run is published as a whole or not at all: nothing of it is seen
\* before its Completing status is durable, and nothing is left once it failed,
\* was repaired or was reverted, whatever crashed or failed in between
\* (complete_run, rollback, revert_dream, repair_dream_runs).
THEOREM PublishedAtomically == Spec /\ []ActiveTargets => []RunsAreAtomic
<1>1. IInv /\ AtomicIInv => UndoneLeavesNothing /\ NothingBeforeCompleting
  <2> SUFFICES ASSUME IInv, AtomicIInv, NEW r \in Runs,
                      runs[r].status \in Early \cup Undone
               PROVE  ~Visible(r)
    BY DEF UndoneLeavesNothing, NothingBeforeCompleting, Early, Undone
  <2>1. Typed /\ Fits(r)
    BY DEF IInv, AtomicIInv
  <2>2. Joined(r) = {} /\ ~Shows(r) /\ \A s \in Targets(r) : ~Holds(r, s)
    BY <2>1, PendingShowsNothing DEF Fits, Withdrawn
  <2>. QED
    BY <2>2, VisibleShows
<1>. QED
  BY <1>1, Invariance, TypeCorrect, AtomicInvariance, PTL DEF RunsAreAtomic

\* Only the last write of a publication makes a run Completed.
LEMMA StatusBecomes ==
  ASSUME Typed, Next, NEW r \in Runs,
         runs[r].status # "Completed", runs'[r].status = "Completed"
  PROVE  PublishStatus /\ task.r = r
<1>1. runs' # runs
  OBVIOUS
<1>2. ASSUME NEW p \in Runs, NEW plan \in Plans, Answer(p, plan) PROVE FALSE
  <2>1. runs' = [runs EXCEPT ![p] = [NoRun EXCEPT !.status = "Pending",
                    !.hash = call[p].hash, !.cites = plan.cites]]
    BY <1>1, <1>2 DEF Answer
  <2>2. [NoRun EXCEPT !.status = "Pending", !.hash = call[p].hash,
                      !.cites = plan.cites].status = "Pending"
    BY DEF NoRun
  <2>. QED
    BY <2>1, <2>2 DEF Typed
<1>3. ASSUME NEW p \in Runs, NEW status, status # "Completed",
             runs' = [runs EXCEPT ![p].status = status]
      PROVE  FALSE
  BY <1>3, StatusFacts
<1>4. ASSUME NEW p \in Runs, Complete(p) \/ Revert(p) PROVE FALSE
  BY <1>1, <1>3, <1>4 DEF Complete, Revert
<1>5. ASSUME RecordId \/ RecordFingerprint \/ RecordPlan \/ CaptureRevision PROVE FALSE
  <2>1. task.r \in Runs
    BY <1>5, HeadTyped DEF RecordId, RecordFingerprint, RecordPlan, CaptureRevision, Doing
  <2>2. runs[task.r] \in RunType /\ runs \in [Runs -> RunType]
    BY <2>1 DEF Typed
  <2>3. runs'[r].status = runs[r].status
    <3>1. CASE RecordId
      BY <2>1, <2>2, <3>1 DEF RecordId, RunType
    <3>2. CASE RecordFingerprint
      BY <2>1, <2>2, <3>2 DEF RecordFingerprint, RunType
    <3>3. CASE RecordPlan
      BY <2>1, <2>2, <3>3 DEF RecordPlan, RunType
    <3>4. CASE CaptureRevision
      BY <2>1, <2>2, <3>4 DEF CaptureRevision, RunType
    <3>. QED
      BY <1>5, <3>1, <3>2, <3>3, <3>4
  <2>. QED
    BY <2>3
<1>6. ASSUME PublishStatus PROVE task.r = r
  <2>1. task.r \in Runs
    BY <1>6, HeadTyped DEF PublishStatus, Doing
  <2>. QED
    BY <1>6, <2>1 DEF PublishStatus, Typed
<1>7. UNCHANGED durable => runs' = runs
  BY DEF durable
<1>8. ASSUME \/ InsertStaged \/ AddEdge \/ Supersede \/ Activate \/ Cleanup
             \/ RollbackOutput \/ DropEdge \/ Restore \/ RemoveEdge \/ RetractOutput
             \/ Reinstate
      PROVE  FALSE
  BY <1>1, <1>8 DEF InsertStaged, AddEdge, Supersede, Activate, Cleanup, RollbackOutput,
     DropEdge, Restore, RemoveEdge, RetractOutput, Reinstate
<1>9. ASSUME \/ \E n \in Nodes : Insert(n) \/ Retract(n) \/ Delete(n)
             \/ \E e \in EdgeKeys : CallAddEdge(e)
             \/ \E p \in Runs : Ask(p) \/ Cancel(p) \/ Project(p)
             \/ Open \/ Repair \/ Fault \/ Crash
      PROVE  FALSE
  BY <1>1, <1>7, <1>9 DEF Insert, Retract, Delete, CallAddEdge, Ask, Cancel, Project, Open,
     Repair, Fault, Crash
<1>. QED
  BY <1>2, <1>4, <1>5, <1>6, <1>8, <1>9 DEF Next, TaskStep

\* A run that becomes Completed is complete: its edges, its output and the
\* memories it superseded are exactly what revert_dream will look for
\* (complete_dream_run_unlocked publishes the status last).
THEOREM CompletedFully == Spec /\ []ActiveTargets => [][CompletedIsRevertible]_vars
<1>1. IInv /\ AtomicIInv /\ [Next]_vars => [CompletedIsRevertible]_vars
  <2> SUFFICES ASSUME IInv, AtomicIInv, Next, NEW r \in Runs,
                      runs[r].status # "Completed", runs'[r].status = "Completed"
               PROVE  Revertible(r)'
    BY DEF CompletedIsRevertible
  <2>0. Typed
    BY DEF IInv
  <2>1. PublishStatus /\ task.r = r
    BY <2>0, StatusBecomes
  <2>2. /\ task.work # <<>> /\ Head(task.work).do = "status"
        /\ UNCHANGED <<nodes, edges>>
        /\ runs' = [runs EXCEPT ![r].status = Head(task.work).status]
    BY <2>1 DEF PublishStatus, Doing
  <2>3. /\ runs'[r].status = Head(task.work).status
        /\ runs'[r].edges = runs[r].edges /\ runs'[r].superseded = runs[r].superseded
        /\ runs'[r].created = runs[r].created /\ runs'[r].captured = runs[r].captured
    BY <2>0, <2>2, StatusFacts
  <2>4. Completing(r)
    BY <2>0, <2>1, <2>2, <2>3, HeadFits DEF AtomicIInv
  <2>5. \A x \in Left : x.do = "status"
    BY <2>0, <2>2, LastWrite DEF AtomicIInv
  <2>6. \A e \in Planned(r) : edges[e] = [rev |-> 1, by |-> r]
    BY <2>4, <2>5, ItemFacts DEF Completing
  <2>7. \A s \in Targets(r) :
          nodes[s.node].state = "Superseded" /\ nodes[s.node].rev = s.after
    BY <2>4, <2>5, ItemFacts DEF Completing
  <2>8. runs[r].created =>
          /\ Exists(Out[r]) /\ nodes[Out[r]].rev = runs[r].captured
          /\ nodes[Out[r]].state = "Active" /\ nodes[Out[r]].owner = r
    BY <2>4, <2>5, ItemFacts DEF Completing, StillStaged, Fingerprint, StagedRow, Row
  <2>9. \A i \in DOMAIN runs[r].edges : edges[runs[r].edges[i]] = [rev |-> 1, by |-> r]
    BY <2>6 DEF Planned, Range
  <2>10. \A i \in DOMAIN runs[r].superseded :
           LET s == runs[r].superseded[i]
           IN  Exists(s.node) /\ nodes[s.node].rev = s.after
                 /\ nodes[s.node].state = "Superseded"
    BY <2>7 DEF Targets, Range, Exists
  <2>. QED
    BY <2>2, <2>3, <2>8, <2>9, <2>10 DEF Revertible, Exists
<1>. QED
  BY <1>1, Invariance, AtomicInvariance, PTL DEF Spec

(***************************************************************************)
(* Undoing a run spares the edits of others.                               *)
(***************************************************************************)

\* Reverts are not broken off: while the database is open, a run that is being
\* reverted has the lock.  Only a failing storage call ends a revert early.
RevertUnbroken ==
    \A r \in Runs :
        (phase = "open" /\ runs[r].status = "Reverting") => task.kind = "revert" /\ task.r = r

\* An output that a caller wrote is not what was staged.
OutputSpared(r) ==
    Exists(Out[r]) /\ writer[Out[r]] = 0 =>
        Fingerprint(nodes[Out[r]]) # Fingerprint(StagedRow(r))

\* A target at the revision the run gives it was superseded by a run.
TargetsSpared(r) ==
    runs[r].status \in {"Completing", "Completed"} =>
        \A s \in Targets(r) :
            /\ nodes[s.node].state # "Unborn"
            /\ Exists(s.node) =>
                 /\ nodes[s.node].rev + 1 >= s.after
                 /\ nodes[s.node].rev + 1 = s.after => nodes[s.node].state = "Active"
                 /\ nodes[s.node].rev = s.after /\ nodes[s.node].state = "Superseded" =>
                        writer[s.node] # 0

\* An output at the captured revision was activated by its run.
CapturedSpared(r) ==
    runs[r].status = "Completed" /\ runs[r].created =>
        /\ nodes[Out[r]].state # "Unborn"
        /\ Exists(Out[r]) =>
              /\ nodes[Out[r]].rev >= runs[r].captured
              /\ nodes[Out[r]].rev = runs[r].captured => writer[Out[r]] # 0

\* What a revert is about to undo no caller has touched.
RevertSpared(r) ==
    runs[r].status = "Reverting" =>
        /\ \A e \in Planned(r) : edges[e] = NoEdge \/ edges[e].by # 0
        /\ runs[r].created => writer[Out[r]] # 0
        /\ \A s \in Targets(r) : writer[s.node] # 0

Spared(r) == OutputSpared(r) /\ TargetsSpared(r) /\ CapturedSpared(r) /\ RevertSpared(r)
EditsIInv == \A r \in Runs : Spared(r)

\* What a task that undoes run p may rewrite.
Undoable(p, n) ==
    \/ n = Out[p] /\ StillStaged(p, {"Pending", "Active"})
    \/ /\ runs[p].status = "Completing"
       /\ \E s \in Targets(p) :
             n = s.node /\ nodes[n].rev = s.after /\ nodes[n].state = "Superseded"
    \/ /\ runs[p].status = "Reverting"
       /\ \/ n = Out[p] /\ runs[p].created
          \/ \E s \in Targets(p) : n = s.node

UndoingKinds == {"undo", "revert", "repair"}

\* A write of the lock's holder: its staged output, or a node that exists.
TaskWrites(p) ==
    \E n \in Nodes, node \in NodeType :
        /\ Put(n, node, p) /\ node.state # "Unborn"
        /\ \/ task.kind = "stage" /\ n = Out[p] /\ runs[p].status \in Early
           \/ Exists(n) /\ (task.kind \in UndoingKinds => Undoable(p, n))

LEMMA RetractWrites ==
  ASSUME Typed, NEW p \in Runs, Put(Out[p], RetractedRow(Out[p]), p), Exists(Out[p]),
         Undoable(p, Out[p])
  PROVE  TaskWrites(p)
<1> DEFINE n == Out[p]
           node == RetractedRow(n)
<1>1. n \in Nodes /\ nodes[n] \in NodeType
  BY OutInNodes DEF Typed
<1>2. node \in NodeType
  BY <1>1, RowsTyped DEF RetractedRow
<1>3. node.state = "Retracted"
  BY <1>1 DEF RetractedRow, NodeType
<1> HIDE DEF n, node
<1>4. Put(n, node, p) /\ Exists(n) /\ Undoable(p, n)
  BY DEF n, node
<1>. QED
  BY <1>1, <1>2, <1>3, <1>4 DEF TaskWrites

LEMMA RestoreWrites ==
  ASSUME Typed, NEW p \in Runs, Recorded(p), NEW s \in Targets(p),
         Put(s.node, RestoredRow(s), p), Exists(s.node), Undoable(p, s.node)
  PROVE  TaskWrites(p)
<1> DEFINE n == s.node
           node == RestoredRow(s)
<1>1. n \in Nodes /\ node \in NodeType
  BY TargetTyped, RestoredTyped
<1>2. nodes[n] \in NodeType /\ s.state = "Active"
  BY <1>1 DEF Typed, Recorded
<1>3. node.state = "Active"
  BY <1>2 DEF RestoredRow, NodeType
<1> HIDE DEF n, node
<1>4. Put(n, node, p) /\ Exists(n) /\ Undoable(p, n)
  BY DEF n, node
<1>. QED
  BY <1>1, <1>3, <1>4 DEF TaskWrites

\* What the steps of a task write.
LEMMA PublishWrites ==
  ASSUME Typed, AtomicIInv, InsertStaged \/ Supersede \/ Activate
  PROVE  TaskWrites(task.r) /\ task.kind \in {"stage", "complete"}
<1>0. PICK p : p = task.r
  OBVIOUS
<1>1. CASE InsertStaged
  <2>1. task.work # <<>> /\ Head(task.work).do = "stage" /\ Put(Out[p], StagedRow(p), p)
    BY <1>0, <1>1 DEF InsertStaged, Doing
  <2>2. p \in Runs /\ task.kind = "stage" /\ runs[p].status \in Early
    BY <1>0, <2>1, HeadFits DEF AtomicIInv, StagingFits, Early
  <2>3. Out[p] \in Nodes /\ StagedRow(p) \in NodeType /\ StagedRow(p).state = "Pending"
    BY <2>2, OutInNodes, RowsTyped DEF StagedRow, Row
  <2>. QED
    BY <1>0, <2>1, <2>2, <2>3 DEF TaskWrites
<1>2. CASE Supersede
  <2>1. task.work # <<>> /\ Head(task.work).do = "supersede"
    BY <1>2 DEF Supersede, Doing
  <2>2. p \in Runs /\ task.kind = "complete" /\ Completing(p)
        /\ \E s \in Targets(p) : Head(task.work) = OnTarget("supersede", s)
    BY <1>0, <2>1, HeadFits DEF AtomicIInv
  <2>3. PICK s \in Targets(p) : Head(task.work) = OnTarget("supersede", s)
    BY <2>2
  <2>4. Head(task.work).target = s /\ OnTarget("supersede", s) \in Left
    BY <2>1, <2>3, HeadFits, ItemFacts DEF AtomicIInv
  <2> DEFINE n == s.node
             node == [nodes[n] EXCEPT !.state = "Superseded", !.to = "now"]
  <2>5. n \in Nodes /\ Exists(n)
    BY <2>2, <2>3, <2>4, TargetTyped DEF Completing, Exists
  <2>6. node \in NodeType
    BY <2>5, RowsTyped
  <2>7. node.state = "Superseded"
    BY <2>5 DEF Typed, NodeType
  <2>8. Put(n, node, p)
    BY <1>0, <1>2, <2>4 DEF Supersede
  <2> HIDE DEF n, node
  <2>. QED
    BY <1>0, <2>2, <2>5, <2>6, <2>7, <2>8 DEF TaskWrites, UndoingKinds
<1>3. CASE Activate
  <2> DEFINE n == Out[p]
             node == [nodes[n] EXCEPT !.state = "Active"]
  <2>1. task.work # <<>> /\ Head(task.work).do = "activate" /\ Put(n, node, p)
    BY <1>0, <1>3 DEF Activate, Doing
  <2>2. p \in Runs /\ task.kind = "complete" /\ Completing(p) /\ runs[p].created
    BY <1>0, <2>1, HeadFits DEF AtomicIInv
  <2>3. n \in Nodes /\ Exists(n)
    BY <2>2, OutInNodes DEF Completing, StillStaged
  <2>4. node \in NodeType
    BY <2>3, RowsTyped
  <2>5. node.state = "Active"
    BY <2>3 DEF Typed, NodeType
  <2> HIDE DEF n, node
  <2>. QED
    BY <1>0, <2>1, <2>2, <2>3, <2>4, <2>5 DEF TaskWrites, UndoingKinds
<1>. QED
  BY <1>1, <1>2, <1>3

LEMMA UndoWrites ==
  ASSUME Typed, AtomicIInv,
         Cleanup \/ RollbackOutput \/ Restore \/ RetractOutput \/ Reinstate
  PROVE  UNCHANGED <<nodes, writer>> \/ TaskWrites(task.r)
<1>0. PICK p : p = task.r
  OBVIOUS
<1> SUFFICES ASSUME ~UNCHANGED <<nodes, writer>> PROVE TaskWrites(p)
  BY <1>0
<1>1. CASE Cleanup \/ RollbackOutput
  <2>1. /\ task.work # <<>> /\ Head(task.work).do \in {"cleanup", "rollback"}
        /\ Put(Out[p], RetractedRow(Out[p]), p)
        /\ StillStaged(p, {"Pending", "Active"})
    BY <1>0, <1>1 DEF Cleanup, RollbackOutput, Doing, UndoOutput, StillStaged
  <2>2. p \in Runs /\ Exists(Out[p]) /\ Undoable(p, Out[p])
    BY <1>0, <2>1, HeadTyped DEF StillStaged, Undoable
  <2>. QED
    BY <2>1, <2>2, RetractWrites
<1>2. CASE Restore
  <2>1. task.work # <<>> /\ Head(task.work).do = "restore"
    BY <1>2 DEF Restore, Doing
  <2>2. p \in Runs /\ RollingBack(p)
        /\ \E s \in Targets(p) : Head(task.work) = OnTarget("restore", s)
    BY <1>0, <2>1, HeadFits DEF AtomicIInv
  <2>3. PICK s \in Targets(p) : Head(task.work) = OnTarget("restore", s)
    BY <2>2
  <2>4. Head(task.work).target = s
    BY <2>3, ItemFacts
  <2>5. /\ Exists(s.node) /\ nodes[s.node].rev = s.after
        /\ nodes[s.node].state = "Superseded" /\ Put(s.node, RestoredRow(s), p)
    BY <1>0, <1>2, <2>4 DEF Restore
  <2>6. Recorded(p) /\ Undoable(p, s.node)
    BY <2>2, <2>5 DEF AtomicIInv, Fits, RollingBack, Undoable
  <2>. QED
    BY <2>2, <2>5, <2>6, RestoreWrites
<1>3. CASE RetractOutput
  <2>1. /\ task.work # <<>> /\ Head(task.work).do = "retract"
        /\ Exists(Out[p]) /\ Put(Out[p], RetractedRow(Out[p]), p)
    BY <1>0, <1>3 DEF RetractOutput, Doing
  <2>2. p \in Runs /\ Undoable(p, Out[p])
    BY <1>0, <2>1, HeadFits DEF AtomicIInv, Reverting, Undoable
  <2>. QED
    BY <2>1, <2>2, RetractWrites
<1>4. CASE Reinstate
  <2>1. task.work # <<>> /\ Head(task.work).do = "reinstate"
    BY <1>4 DEF Reinstate, Doing
  <2>2. p \in Runs /\ Reverting(p)
        /\ \E s \in Targets(p) : Head(task.work) = OnTarget("reinstate", s)
    BY <1>0, <2>1, HeadFits DEF AtomicIInv
  <2>3. PICK s \in Targets(p) : Head(task.work) = OnTarget("reinstate", s)
    BY <2>2
  <2>4. Head(task.work).target = s
    BY <2>3, ItemFacts
  <2>5. Exists(s.node) /\ Put(s.node, RestoredRow(s), p)
    BY <1>0, <1>4, <2>4 DEF Reinstate
  <2>6. Recorded(p) /\ Undoable(p, s.node)
    BY <2>2 DEF AtomicIInv, Fits, Reverting, Undoable
  <2>. QED
    BY <2>2, <2>5, <2>6, RestoreWrites
<1>. QED
  BY <1>1, <1>2, <1>3, <1>4

\* An edge is added by the run that publishes it; a run that is undone removes
\* its own edges, a revert whatever is in their place.
TaskEdges(p) ==
    \E e \in AllEdges :
        /\ \A f \in AllEdges : f # e => edges'[f] = edges[f]
        /\ \/ task.kind = "complete" /\ edges'[e].by = p
           \/ /\ edges'[e] = NoEdge
              /\ edges[e].by = p \/ (runs[p].status = "Reverting" /\ e \in Planned(p))

LEMMA EdgeWrites ==
  ASSUME Typed, AtomicIInv, AddEdge \/ DropEdge \/ RemoveEdge
  PROVE  task.r \in Runs /\ (UNCHANGED edges \/ TaskEdges(task.r))
<1>0. PICK p : p = task.r
  OBVIOUS
<1> DEFINE e == Head(task.work).edge
<1>1. task.work # <<>> /\ Head(task.work).do \in {"addEdge", "dropEdge", "removeEdge"}
  BY DEF AddEdge, DropEdge, RemoveEdge, Doing
<1>2. p \in Runs /\ e \in AllEdges
  BY <1>0, <1>1, HeadTyped
<1>3. CASE AddEdge
  <2>1. Head(task.work).do = "addEdge" /\ (UNCHANGED edges \/ PutEdge(e, p))
    BY <1>0, <1>3 DEF AddEdge, Doing
  <2>2. task.kind = "complete"
    BY <1>1, <2>1, HeadFits DEF AtomicIInv
  <2> HIDE DEF e
  <2>3. PutEdge(e, p) =>
          edges'[e].by = p /\ \A f \in AllEdges : f # e => edges'[f] = edges[f]
    BY <1>2 DEF PutEdge, Typed
  <2>. QED
    BY <1>0, <1>2, <2>1, <2>2, <2>3 DEF TaskEdges
<1>4. CASE DropEdge
  <2>1. edges' = [edges EXCEPT ![e] = IF @ = [rev |-> 1, by |-> p] THEN NoEdge ELSE @]
    BY <1>0, <1>4 DEF DropEdge
  <2> HIDE DEF e
  <2>2. CASE edges[e] = [rev |-> 1, by |-> p]
    <3>1. /\ edges[e].by = p /\ edges'[e] = NoEdge
          /\ \A f \in AllEdges : f # e => edges'[f] = edges[f]
      BY <1>2, <2>1, <2>2 DEF Typed
    <3>. QED
      BY <1>0, <1>2, <3>1 DEF TaskEdges
  <2>3. CASE edges[e] # [rev |-> 1, by |-> p]
    <3>1. edges' = edges
      BY <1>2, <2>1, <2>3 DEF Typed
    <3>. QED
      BY <1>0, <1>2, <3>1
  <2>. QED
    BY <2>2, <2>3
<1>5. CASE RemoveEdge
  <2>1. Head(task.work).do = "removeEdge" /\ edges' = [edges EXCEPT ![e] = NoEdge]
    BY <1>5 DEF RemoveEdge, Doing
  <2>2. Reverting(p) /\ \E f \in Planned(p) : Head(task.work) = OnEdge("removeEdge", f)
    BY <1>0, <1>1, <2>1, HeadFits DEF AtomicIInv
  <2>3. runs[p].status = "Reverting" /\ e \in Planned(p)
    BY <2>2, ItemFacts DEF Reverting
  <2> HIDE DEF e
  <2>4. edges'[e] = NoEdge /\ \A f \in AllEdges : f # e => edges'[f] = edges[f]
    BY <1>2, <2>1 DEF Typed
  <2>. QED
    BY <1>0, <1>2, <2>3, <2>4 DEF TaskEdges
<1>. QED
  BY <1>3, <1>4, <1>5

\* How a step may leave a node: as it was, deleted, one revision further on by a
\* run or by a caller, new, or the staged output of an early run.
Grows(n) ==
    \/ nodes'[n] = nodes[n] /\ writer'[n] = writer[n]
    \/ nodes'[n].state = "Gone"
    \/ /\ Exists(n) /\ nodes'[n].rev = nodes[n].rev + 1 /\ nodes'[n].state # "Unborn"
       /\ \/ writer'[n] # 0
          \/ /\ nodes'[n].state \in {nodes[n].state, "Retracted"}
             /\ \A q \in Runs : Fingerprint(nodes'[n]) # Fingerprint(StagedRow(q))
    \/ nodes[n].state = "Unborn" /\ n \in Raw
    \/ \E p \in Runs :
          /\ n = Out[p] /\ runs[p].status \in Early
          /\ \/ writer'[n] # 0
             \/ /\ Exists(n) /\ writer'[n] = writer[n]
                /\ Fingerprint(nodes'[n]) = Fingerprint(nodes[n])

\* No caller wrote in the step.
Uncalled ==
    /\ \A n \in Nodes : writer'[n] = writer[n] \/ writer'[n] # 0
    /\ \A e \in AllEdges : edges'[e] \in {edges[e], NoEdge} \/ edges'[e].by # 0

LEMMA TaskGrows ==
  ASSUME Typed, AtomicIInv, TaskStep
  PROVE  (\A n \in Nodes : Grows(n)) /\ Uncalled
<1>0. PICK p : p = task.r
  OBVIOUS
<1>1. p \in Runs
  <2>1. task.work # <<>>
    BY DEF TaskStep, RecordId, RecordFingerprint, InsertStaged, RecordPlan, AddEdge, Supersede,
       Activate, CaptureRevision, PublishStatus, Cleanup, RollbackOutput, DropEdge, Restore,
       RemoveEdge, RetractOutput, Reinstate, Doing
  <2>. QED
    BY <1>0, <2>1, HeadTyped
<1>2. UNCHANGED <<nodes, writer>> \/ TaskWrites(p)
  <2>1. CASE InsertStaged \/ Supersede \/ Activate
    BY <1>0, <2>1, PublishWrites
  <2>2. CASE Cleanup \/ RollbackOutput \/ Restore \/ RetractOutput \/ Reinstate
    BY <1>0, <2>2, UndoWrites
  <2>3. CASE RecordId \/ RecordFingerprint \/ RecordPlan \/ CaptureRevision \/ PublishStatus
    BY <2>3 DEF RecordId, RecordFingerprint, RecordPlan, CaptureRevision, PublishStatus
  <2>4. CASE AddEdge \/ DropEdge \/ RemoveEdge
    BY <2>4 DEF AddEdge, DropEdge, RemoveEdge
  <2>. QED
    BY <2>1, <2>2, <2>3, <2>4 DEF TaskStep
<1>3. UNCHANGED edges \/ TaskEdges(p)
  <2>1. CASE AddEdge \/ DropEdge \/ RemoveEdge
    BY <1>0, <2>1, EdgeWrites
  <2>2. CASE ~(AddEdge \/ DropEdge \/ RemoveEdge)
    BY <2>2 DEF TaskStep, RecordId, RecordFingerprint, InsertStaged, RecordPlan, Supersede,
       Activate, CaptureRevision, PublishStatus, Cleanup, RollbackOutput, Restore,
       RetractOutput, Reinstate
  <2>. QED
    BY <2>1, <2>2
<1>4. p # 0
  BY <1>1 DEF Runs
<1>5. (\A n \in Nodes : Grows(n) /\ (writer'[n] = writer[n] \/ writer'[n] # 0))
  <2>1. CASE UNCHANGED <<nodes, writer>>
    BY <2>1 DEF Grows
  <2>2. CASE TaskWrites(p)
    <3>1. PICK n \in Nodes, node \in NodeType :
            /\ Put(n, node, p) /\ node.state # "Unborn"
            /\ Exists(n) \/ (n = Out[p] /\ runs[p].status \in Early)
      BY <2>2 DEF TaskWrites
    <3>2. /\ nodes'[n].state = node.state /\ writer'[n] = p
          /\ nodes'[n].rev = IF Exists(n) THEN nodes[n].rev + 1 ELSE 1
          /\ \A m \in Nodes : m # n => nodes'[m] = nodes[m] /\ writer'[m] = writer[m]
      BY <1>1, <3>1, PutFacts
    <3>3. Grows(n)
      BY <1>1, <1>4, <3>1, <3>2 DEF Grows
    <3>. QED
      BY <1>4, <3>2, <3>3 DEF Grows
  <2>. QED
    BY <1>2, <2>1, <2>2
<1>6. \A e \in AllEdges : edges'[e] \in {edges[e], NoEdge} \/ edges'[e].by # 0
  BY <1>3, <1>4 DEF TaskEdges
<1>. QED
  BY <1>5, <1>6 DEF Uncalled

LEMMA CallerGrows ==
  ASSUME Typed, NEW n \in Nodes, Insert(n) \/ Retract(n) \/ Delete(n), NEW m \in Nodes
  PROVE  Grows(m)
<1>1. CASE Delete(n)
  <2>1. nodes'[n] = NoRow("Gone") /\ NoRow("Gone").state = "Gone"
        /\ \A k \in Nodes : k # n => nodes'[k] = nodes[k] /\ writer'[k] = writer[k]
    BY <1>1 DEF Delete, Typed, NoRow, Row
  <2>. QED
    BY <2>1 DEF Grows
<1>2. CASE /\ nodes[n].state = "Unborn" /\ n \in Raw
           /\ Put(n, Row("Active", "raw", NoOwner), 0)
  <2> DEFINE node == Row("Active", "raw", NoOwner)
  <2>1. node \in NodeType
    BY RowsTyped
  <2> HIDE DEF node
  <2>2. \A k \in Nodes : k # n => nodes'[k] = nodes[k] /\ writer'[k] = writer[k]
    BY <1>2, <2>1, PutFacts DEF node
  <2>. QED
    BY <1>2, <2>2 DEF Grows
<1>3. ASSUME NEW node \in NodeType, Put(n, node, 0), Exists(n),
             node.state \in {nodes[n].state, "Retracted"},
             node.tag = "edited" \/ node.to = "now"
      PROVE  Grows(m)
  <2>1. /\ nodes'[n].state = node.state /\ Fingerprint(nodes'[n]) = Fingerprint(node)
        /\ nodes'[n].rev = nodes[n].rev + 1
        /\ \A k \in Nodes : k # n => nodes'[k] = nodes[k] /\ writer'[k] = writer[k]
    BY <1>3, PutFacts
  <2>2. \A q \in Runs : Fingerprint(node) # Fingerprint(StagedRow(q))
    BY <1>3 DEF Fingerprint, StagedRow, Row
  <2>3. nodes'[n].state # "Unborn"
    BY <1>3, <2>1 DEF Exists
  <2>. QED
    BY <1>3, <2>1, <2>2, <2>3 DEF Grows
<1>4. CASE Exists(n) /\ Put(n, [nodes[n] EXCEPT !.tag = "edited"], 0)
  <2> DEFINE node == [nodes[n] EXCEPT !.tag = "edited"]
  <2>1. node \in NodeType
    BY RowsTyped
  <2>2. node.tag = "edited" /\ node.state = nodes[n].state
    BY DEF Typed, NodeType
  <2> HIDE DEF node
  <2>3. Put(n, node, 0)
    BY <1>4 DEF node
  <2>. QED
    BY <1>3, <1>4, <2>1, <2>2, <2>3
<1>5. CASE Retract(n)
  <2> DEFINE node == [nodes[n] EXCEPT !.state = "Retracted", !.to = "now"]
  <2>1. node \in NodeType
    BY RowsTyped
  <2>2. node.to = "now" /\ node.state = "Retracted"
    BY DEF Typed, NodeType
  <2>3. Exists(n)
    BY <1>5 DEF Retract
  <2> HIDE DEF node
  <2>4. Put(n, node, 0)
    BY <1>5 DEF Retract, node
  <2>. QED
    BY <1>3, <2>1, <2>2, <2>3, <2>4
<1>. QED
  BY <1>1, <1>2, <1>4, <1>5 DEF Insert

LEMMA ProjectGrows ==
  ASSUME Typed, AtomicIInv, NEW r \in Runs, Project(r), NEW m \in Nodes
  PROVE  Grows(m)
<1>1. UNCHANGED writer /\ call[r].pc = "staged"
      /\ (UNCHANGED nodes \/ (Exists(Out[r]) /\ nodes' = [nodes EXCEPT ![Out[r]].rev = @ + 1]))
  BY DEF Project
<1>2. runs[r].status \in Early
  BY <1>1 DEF AtomicIInv, CallsFit, CallFits, Early
<1>3. CASE UNCHANGED nodes
  BY <1>1, <1>3 DEF Grows
<1>4. CASE Exists(Out[r]) /\ nodes' = [nodes EXCEPT ![Out[r]].rev = @ + 1]
  <2>1. Out[r] \in Nodes /\ nodes \in [Nodes -> NodeType]
    BY OutInNodes DEF Typed
  <2>2. /\ nodes'[Out[r]].tag = nodes[Out[r]].tag
        /\ nodes'[Out[r]].owner = nodes[Out[r]].owner /\ nodes'[Out[r]].to = nodes[Out[r]].to
        /\ m # Out[r] => nodes'[m] = nodes[m]
    BY <1>4, <2>1 DEF NodeType
  <2>3. Fingerprint(nodes'[Out[r]]) = Fingerprint(nodes[Out[r]])
    BY <2>2 DEF Fingerprint
  <2>. QED
    BY <1>1, <1>2, <1>4, <2>2, <2>3 DEF Grows
<1>. QED
  BY <1>1, <1>3, <1>4

\* A step that leaves the run as it is keeps what is spared of it.
LEMMA GrowsSpares ==
  ASSUME Typed, NEW r \in Runs, Recorded(r), Spared(r),
         \A n \in Nodes : Grows(n),
         runs'[r].status = runs[r].status, runs'[r].superseded = runs[r].superseded,
         runs'[r].edges = runs[r].edges, runs'[r].created = runs[r].created,
         runs'[r].status = "Completed" => runs'[r].captured = runs[r].captured,
         runs[r].status = "Reverting" => Uncalled
  PROVE  Spared(r)'
<1> DEFINE o == Out[r]
<1>0. o \in Nodes /\ o \notin Raw /\ \A p \in Runs : o = Out[p] => p = r
  BY OutInNodes, DreamAssumption, FreshAssumption
<1>1. Targets(r)' = Targets(r) /\ Planned(r)' = Planned(r)
  BY DEF Targets, Planned
<1>2. StagedRow(r)' = StagedRow(r)
  BY DEF StagedRow, Row
<1>3. \A n \in Nodes : nodes[n].rev \in Nat
  BY DEF Typed, NodeType
<1>4. OutputSpared(r)'
  <2>1. Exists(o)' /\ writer'[o] = 0 => Fingerprint(nodes'[o]) # Fingerprint(StagedRow(r))
    BY <1>0 DEF Grows, Spared, OutputSpared, Exists
  <2>. QED
    BY <1>2, <2>1 DEF OutputSpared, Fingerprint
<1>5. TargetsSpared(r)'
  <2> SUFFICES ASSUME runs[r].status \in {"Completing", "Completed"}, NEW s \in Targets(r)
               PROVE  /\ nodes'[s.node].state # "Unborn"
                      /\ Exists(s.node)' =>
                           /\ nodes'[s.node].rev + 1 >= s.after
                           /\ nodes'[s.node].rev + 1 = s.after => nodes'[s.node].state = "Active"
                           /\ nodes'[s.node].rev = s.after /\ nodes'[s.node].state = "Superseded"
                                => writer'[s.node] # 0
    BY <1>1 DEF TargetsSpared, Exists
  <2>1. s.node \in Nodes /\ s.after \in Nat /\ nodes[s.node].rev \in Nat
    BY <1>3, TargetTyped DEF SnapshotType
  <2>2. \A p \in Runs : s.node = Out[p] => runs[p].status \notin Early
    BY DEF Recorded
  <2>3. /\ nodes[s.node].state # "Unborn"
        /\ Exists(s.node) =>
             /\ nodes[s.node].rev + 1 >= s.after
             /\ nodes[s.node].rev + 1 = s.after => nodes[s.node].state = "Active"
             /\ nodes[s.node].rev = s.after /\ nodes[s.node].state = "Superseded" =>
                    writer[s.node] # 0
    BY DEF Spared, TargetsSpared
  <2> DEFINE n == s.node
  <2> HIDE DEF n
  <2>4. Grows(n)
    BY <2>1 DEF n
  <2>5. CASE nodes'[n] = nodes[n] /\ writer'[n] = writer[n]
    BY <2>3, <2>5 DEF n, Exists
  <2>6. CASE nodes'[n].state = "Gone"
    BY <2>6 DEF n, Exists
  <2>7. CASE /\ Exists(n) /\ nodes'[n].rev = nodes[n].rev + 1 /\ nodes'[n].state # "Unborn"
             /\ writer'[n] # 0 \/ nodes'[n].state \in {nodes[n].state, "Retracted"}
    BY <2>1, <2>3, <2>7 DEF n
  <2>. QED
    BY <2>2, <2>3, <2>4, <2>5, <2>6, <2>7 DEF Grows, n
<1>6. CapturedSpared(r)'
  <2> SUFFICES ASSUME runs[r].status = "Completed", runs[r].created
               PROVE  /\ nodes'[o].state # "Unborn"
                      /\ Exists(o)' => /\ nodes'[o].rev >= runs[r].captured
                                       /\ nodes'[o].rev = runs[r].captured => writer'[o] # 0
    BY DEF CapturedSpared, Exists
  <2>1. runs[r].captured \in Nat /\ nodes[o].rev \in Nat
    BY <1>0, <1>3 DEF Typed, RunType
  <2>2. /\ nodes[o].state # "Unborn"
        /\ Exists(o) => /\ nodes[o].rev >= runs[r].captured
                        /\ nodes[o].rev = runs[r].captured => writer[o] # 0
    BY DEF Spared, CapturedSpared
  <2>3. runs[r].status \notin Early
    BY DEF Early
  <2> HIDE DEF o
  <2>4. Grows(o)
    BY <1>0
  <2>5. CASE nodes'[o] = nodes[o] /\ writer'[o] = writer[o]
    BY <2>2, <2>5 DEF Exists
  <2>6. CASE nodes'[o].state = "Gone"
    BY <2>6 DEF Exists
  <2>7. CASE Exists(o) /\ nodes'[o].rev = nodes[o].rev + 1 /\ nodes'[o].state # "Unborn"
    BY <2>1, <2>2, <2>7
  <2>. QED
    BY <1>0, <2>2, <2>3, <2>4, <2>5, <2>6, <2>7 DEF Grows
<1>7. RevertSpared(r)'
  <2> SUFFICES ASSUME runs[r].status = "Reverting"
               PROVE  /\ \A e \in Planned(r) : edges'[e] = NoEdge \/ edges'[e].by # 0
                      /\ runs[r].created => writer'[o] # 0
                      /\ \A s \in Targets(r) : writer'[s.node] # 0
    BY <1>1 DEF RevertSpared
  <2>1. \A e \in Planned(r) : e \in AllEdges
    BY DEF Typed, RunType, Planned, Range
  <2>2. \A s \in Targets(r) : s.node \in Nodes
    BY TargetTyped
  <2>. QED
    BY <1>0, <2>1, <2>2 DEF Spared, RevertSpared, Uncalled
<1>. QED
  BY <1>4, <1>5, <1>6, <1>7 DEF Spared

LEMMA InitEdits ==
  ASSUME Init
  PROVE  EditsIInv
<1>1. \A r \in Runs : runs[r] = NoRun /\ NoRun.status = "None"
  BY DEF Init, NoRun
<1>2. ASSUME NEW r \in Runs PROVE ~Exists(Out[r])
  <2>1. Out[r] \in Nodes /\ Out[r] \notin Raw /\ Out[r] \notin Derived
    BY DreamAssumption, OutInNodes
  <2>2. nodes[Out[r]] = NoRow("Unborn")
    BY <2>1 DEF Init
  <2>. QED
    BY <2>2 DEF NoRow, Row, Exists
<1>. QED
  BY <1>1, <1>2 DEF EditsIInv, Spared, OutputSpared, TargetsSpared, CapturedSpared, RevertSpared

\* Steps that change no node.
LEMMA SameOutputSpared ==
  ASSUME NEW r, OutputSpared(r), UNCHANGED <<nodes, writer>>
  PROVE  OutputSpared(r)'
  BY DEF OutputSpared, Exists, Fingerprint, StagedRow, Row

\* The publication of a run begins: its targets are as they were recorded.
LEMMA CompleteEdits ==
  ASSUME Typed, AtomicIInv, EditsIInv, NEW p \in Runs, Complete(p), Completable(p)
  PROVE  Spared(p)'
<1>1. /\ runs[p].status = "Pending" /\ UNCHANGED <<nodes, edges, writer>>
      /\ runs' = [runs EXCEPT ![p].status = "Completing"]
  BY DEF Complete
<1>2. runs'[p].status = "Completing" /\ runs'[p].superseded = runs[p].superseded
  BY <1>1, StatusFacts
<1>3. Targets(p)' = Targets(p)
  BY <1>2 DEF Targets
<1>4. \A s \in Targets(p) :
        /\ Exists(s.node) /\ nodes[s.node].rev + 1 = s.after /\ nodes[s.node].state = s.state
  BY DEF Completable, Targets, Range
<1>5. \A s \in Targets(p) : s.state = "Active"
  BY DEF AtomicIInv, Fits, Recorded
<1>6. \A s \in Targets(p) : nodes[s.node].rev \in Nat
  BY TargetTyped DEF Typed, NodeType
<1>7. TargetsSpared(p)'
  <2> SUFFICES ASSUME NEW s \in Targets(p)
               PROVE  /\ nodes[s.node].state = "Active"
                      /\ nodes[s.node].rev + 1 >= s.after /\ nodes[s.node].rev # s.after
    BY <1>1, <1>3 DEF TargetsSpared, Exists
  <2>. QED
    BY <1>4, <1>5, <1>6
<1>8. OutputSpared(p)'
  BY <1>1, SameOutputSpared DEF EditsIInv, Spared
<1>. QED
  BY <1>2, <1>7, <1>8 DEF Spared, CapturedSpared, RevertSpared

\* A run is published: its output is at the revision it captured.
LEMMA PublishEdits ==
  ASSUME Typed, AtomicIInv, EditsIInv, PublishStatus, NEW p \in Runs, p = task.r
  PROVE  Spared(p)'
<1> DEFINE status == Head(task.work).status
<1>1. /\ task.work # <<>> /\ Head(task.work).do = "status"
      /\ UNCHANGED <<nodes, edges, writer>>
      /\ runs' = [runs EXCEPT ![p].status = status]
  BY DEF PublishStatus, Doing
<1>2. \/ Completing(p) /\ status = "Completed"
      \/ status \in {"Failed", "Repaired", "Reverted"}
  BY <1>1, HeadFits DEF AtomicIInv
<1>3. \A x \in Left : x.do = "status"
  BY <1>1, LastWrite DEF AtomicIInv
<1> HIDE DEF status
<1>4. /\ runs'[p].status = status /\ runs'[p].superseded = runs[p].superseded
      /\ runs'[p].created = runs[p].created /\ runs'[p].captured = runs[p].captured
  BY <1>1, <1>2, StatusFacts
<1>5. Spared(p) /\ OutputSpared(p)'
  BY <1>1, <1>2, SameOutputSpared DEF EditsIInv, Spared
<1>6. CASE status \in {"Failed", "Repaired", "Reverted"}
  BY <1>4, <1>5, <1>6 DEF Spared, TargetsSpared, CapturedSpared, RevertSpared
<1>7. CASE Completing(p) /\ status = "Completed"
  <2>1. Targets(p)' = Targets(p)
    BY <1>4 DEF Targets
  <2>2. TargetsSpared(p)'
    BY <1>1, <1>5, <1>7, <2>1 DEF Spared, TargetsSpared, Completing, Exists
  <2>3. runs[p].created => StillStaged(p, {"Active"}) /\ runs[p].captured = nodes[Out[p]].rev
    BY <1>3, <1>7, ItemFacts DEF Completing
  <2>4. runs[p].created => nodes[Out[p]].state = "Active" /\ writer[Out[p]] # 0
    BY <1>5, <2>3 DEF StillStaged, Spared, OutputSpared
  <2>5. nodes[Out[p]].rev \in Nat
    BY <1>2, OutInNodes DEF Typed, NodeType
  <2>6. CapturedSpared(p)'
    BY <1>1, <1>4, <2>3, <2>4, <2>5 DEF CapturedSpared
  <2>. QED
    BY <1>4, <1>5, <1>7, <2>2, <2>6 DEF Spared, RevertSpared
<1>. QED
  BY <1>2, <1>6, <1>7

\* A revert begins only where no caller has written.
LEMMA RevertEdits ==
  ASSUME Typed, EditsIInv, NEW p \in Runs, Revert(p)
  PROVE  Spared(p)'
<1>1. /\ runs[p].status = "Completed" /\ UNCHANGED <<nodes, edges, writer>>
      /\ runs' = [runs EXCEPT ![p].status = "Reverting"] /\ Revertible(p)
  BY DEF Revert
<1>2. /\ runs'[p].status = "Reverting" /\ runs'[p].superseded = runs[p].superseded
      /\ runs'[p].created = runs[p].created /\ runs'[p].edges = runs[p].edges
  BY <1>1, StatusFacts
<1>3. Targets(p)' = Targets(p) /\ Planned(p)' = Planned(p)
  BY <1>2 DEF Targets, Planned
<1>4. Spared(p) /\ OutputSpared(p)'
  BY <1>1, SameOutputSpared DEF EditsIInv, Spared
<1>5. \A s \in Targets(p) : writer[s.node] # 0
  <2>1. \A s \in Targets(p) :
          Exists(s.node) /\ nodes[s.node].rev = s.after /\ nodes[s.node].state = "Superseded"
    BY <1>1 DEF Revertible, Targets, Range
  <2>. QED
    BY <1>1, <1>4, <2>1 DEF Spared, TargetsSpared
<1>6. runs[p].created => writer[Out[p]] # 0
  BY <1>1, <1>4 DEF Revertible, Spared, CapturedSpared
<1>7. \A e \in Planned(p) : edges[e].by # 0
  <2>1. \A e \in Planned(p) : edges[e] = [rev |-> 1, by |-> p]
    BY <1>1 DEF Revertible, Planned, Range
  <2>. QED
    BY <2>1 DEF Runs
<1>8. RevertSpared(p)'
  BY <1>1, <1>2, <1>3, <1>5, <1>6, <1>7 DEF RevertSpared
<1>. QED
  BY <1>2, <1>4, <1>8 DEF Spared, TargetsSpared, CapturedSpared

\* A run that has just been staged has no targets yet.
LEMMA EarlySpares ==
  ASSUME NEW r \in Runs, OutputSpared(r)', runs'[r].status \in Early
  PROVE  Spared(r)'
  BY DEF Spared, TargetsSpared, CapturedSpared, RevertSpared, Early

LEMMA NextEdits == IInv /\ AtomicIInv /\ RevertUnbroken /\ EditsIInv /\ [Next]_vars => EditsIInv'
<1> SUFFICES ASSUME IInv, AtomicIInv, RevertUnbroken, EditsIInv, [Next]_vars, NEW r \in Runs
             PROVE  Spared(r)'
  BY DEF EditsIInv
<1>0. Typed /\ Spared(r) /\ Recorded(r) /\ OutputSpared(r)
  BY DEF IInv, AtomicIInv, EditsIInv, Fits, Spared
<1>1. ASSUME UNCHANGED <<nodes, edges, writer>>
      PROVE  Uncalled /\ (\A n \in Nodes : Grows(n)) /\ OutputSpared(r)'
  BY <1>0, <1>1, SameOutputSpared DEF Uncalled, Grows
<1>2. CASE UNCHANGED durable \/ UNCHANGED vars
  BY <1>0, <1>1, <1>2, GrowsSpares DEF durable, vars
<1>3. CASE \/ \E n \in Nodes : Insert(n) \/ Retract(n) \/ Delete(n)
           \/ \E e \in EdgeKeys : CallAddEdge(e)
  <2>1. phase = "open" /\ task = NoTask /\ UNCHANGED runs
    BY <1>3 DEF Insert, Retract, Delete, CallAddEdge, Begin, Locked
  <2>2. runs[r].status # "Reverting"
    BY <2>1 DEF RevertUnbroken, NoTask
  <2>3. \A n \in Nodes : Grows(n)
    <3>1. CASE \E n \in Nodes : Insert(n) \/ Retract(n) \/ Delete(n)
      BY <1>0, <3>1, CallerGrows
    <3>2. CASE \E e \in EdgeKeys : CallAddEdge(e)
      BY <3>2 DEF CallAddEdge, Grows
    <3>. QED
      BY <1>3, <3>1, <3>2
  <2>. QED
    BY <1>0, <2>1, <2>2, <2>3, GrowsSpares
<1>4. ASSUME NEW p \in Runs, Project(p) PROVE Spared(r)'
  <2>1. UNCHANGED <<edges, runs, writer>>
    BY <1>4 DEF Project
  <2>2. Uncalled /\ \A n \in Nodes : Grows(n)
    BY <1>0, <1>4, <2>1, ProjectGrows DEF Uncalled
  <2>. QED
    BY <1>0, <2>1, <2>2, GrowsSpares
<1>5. ASSUME NEW p \in Runs, Complete(p) \/ Revert(p) PROVE Spared(r)'
  <2>1. UNCHANGED <<nodes, edges, writer>> /\ (r # p => runs'[r] = runs[r])
    BY <1>0, <1>5 DEF Complete, Revert, Typed
  <2>2. UNCHANGED runs \/ r # p \/ Revert(p) \/ (Complete(p) /\ Completable(p))
    BY <1>5 DEF Complete
  <2>. QED
    BY <1>0, <1>1, <1>5, <2>1, <2>2, GrowsSpares, CompleteEdits, RevertEdits DEF EditsIInv
<1>6. ASSUME NEW p \in Runs, NEW plan \in Plans, Answer(p, plan) PROVE Spared(r)'
  <2>1. UNCHANGED <<nodes, edges, writer>>
    BY <1>6 DEF Answer
  <2>2. UNCHANGED runs \/ runs' = [runs EXCEPT ![p] = [NoRun EXCEPT !.status = "Pending",
                                     !.hash = call[p].hash, !.cites = plan.cites]]
    BY <1>6 DEF Answer
  <2>3. runs'[r] = runs[r] \/ runs'[r].status = "Pending"
    <3>1. [NoRun EXCEPT !.status = "Pending", !.hash = call[p].hash,
                        !.cites = plan.cites].status = "Pending"
      BY DEF NoRun
    <3>. QED
      BY <1>0, <2>2, <3>1 DEF Typed
  <2>. QED
    BY <1>0, <1>1, <2>1, <2>3, GrowsSpares, EarlySpares DEF Early
<1>7. CASE TaskStep
  <2>1. (\A n \in Nodes : Grows(n)) /\ Uncalled
    BY <1>0, <1>7, TaskGrows
  <2>2. CASE PublishStatus
    <3>1. UNCHANGED <<nodes, edges, writer>> /\ (r # task.r => runs'[r] = runs[r])
      <4>1. runs' = [runs EXCEPT ![task.r].status = Head(task.work).status]
            /\ UNCHANGED <<nodes, edges, writer>>
        BY <2>2 DEF PublishStatus
      <4>. QED
        BY <1>0, <4>1 DEF Typed
    <3>. QED
      BY <1>0, <2>1, <2>2, <3>1, GrowsSpares, PublishEdits DEF Runs
  <2>3. CASE RecordId \/ RecordFingerprint \/ RecordPlan \/ CaptureRevision
    <3>0. PICK p : p = task.r
      OBVIOUS
    <3>1. task.work # <<>> /\ UNCHANGED <<nodes, edges, writer>>
          /\ Head(task.work).do \in {"id", "fingerprint", "plan", "capture"}
      BY <2>3 DEF RecordId, RecordFingerprint, RecordPlan, CaptureRevision, Doing
    <3>2. p \in Runs /\ runs[p] \in RunType /\ runs \in [Runs -> RunType]
      BY <1>0, <3>0, <3>1, HeadTyped DEF Typed
    <3>3. runs[p].status = "Pending" \/ (CaptureRevision /\ runs[p].status = "Completing")
      <4>1. RecordId \/ RecordFingerprint \/ RecordPlan => StagingFits(p)
        BY <1>0, <3>0, HeadFits DEF AtomicIInv, RecordId, RecordFingerprint, RecordPlan, Doing
      <4>2. CaptureRevision => Completing(p)
        BY <1>0, <3>0, HeadFits DEF AtomicIInv, CaptureRevision, Doing
      <4>. QED
        BY <2>3, <4>1, <4>2 DEF StagingFits, Completing
    <3>4. r # p => runs'[r] = runs[r]
      BY <2>3, <3>0, <3>2 DEF RecordId, RecordFingerprint, RecordPlan, CaptureRevision
    <3>5. runs'[p].status = runs[p].status
      <4>1. RecordId => runs'[p].status = runs[p].status
        BY <3>0, <3>2 DEF RecordId, RunType
      <4>2. RecordFingerprint => runs'[p].status = runs[p].status
        BY <3>0, <3>2 DEF RecordFingerprint, RunType
      <4>3. RecordPlan => runs'[p].status = runs[p].status
        BY <3>0, <3>2 DEF RecordPlan, RunType
      <4>4. CaptureRevision => runs'[p].status = runs[p].status
        BY <3>0, <3>2 DEF CaptureRevision, RunType
      <4>. QED
        BY <2>3, <4>1, <4>2, <4>3, <4>4
    <3>6. CaptureRevision => /\ runs'[p].superseded = runs[p].superseded
                             /\ runs'[p].edges = runs[p].edges
                             /\ runs'[p].created = runs[p].created
      BY <3>0, <3>2 DEF CaptureRevision, RunType
    <3>7. CASE r # p
      BY <1>0, <2>1, <3>4, <3>7, GrowsSpares
    <3>8. CASE r = p /\ runs[p].status = "Pending"
      BY <1>1, <3>1, <3>5, <3>8, EarlySpares DEF Early
    <3>9. CASE r = p /\ CaptureRevision /\ runs[p].status = "Completing"
      BY <1>0, <2>1, <3>5, <3>6, <3>9, GrowsSpares
    <3>. QED
      BY <3>3, <3>7, <3>8, <3>9
  <2>4. CASE \/ InsertStaged \/ AddEdge \/ Supersede \/ Activate \/ Cleanup
             \/ RollbackOutput \/ DropEdge \/ Restore \/ RemoveEdge \/ RetractOutput
             \/ Reinstate
    <3>1. UNCHANGED runs
      BY <2>4 DEF InsertStaged, AddEdge, Supersede, Activate, Cleanup, RollbackOutput,
         DropEdge, Restore, RemoveEdge, RetractOutput, Reinstate
    <3>. QED
      BY <1>0, <2>1, <3>1, GrowsSpares
  <2>. QED
    BY <1>7, <2>2, <2>3, <2>4 DEF TaskStep
<1>8. CASE \E p \in Runs : Ask(p) \/ Cancel(p)
  BY <1>2, <1>8 DEF Ask, Cancel
<1>9. CASE Open \/ Repair \/ Fault \/ Crash
  BY <1>2, <1>9 DEF Open, Repair, Fault, Crash
<1>. QED
  BY <1>2, <1>3, <1>4, <1>5, <1>6, <1>7, <1>8, <1>9 DEF Next

THEOREM EditsInvariance == Spec /\ []ActiveTargets /\ []RevertUnbroken => []EditsIInv
  BY InitEdits, Invariance, AtomicInvariance, NextEdits, PTL DEF Spec

\* Whatever is undone was written by a run.
LEMMA UndoableIsOurs ==
  ASSUME NEW p \in Runs, Spared(p), NEW n, Exists(n), Undoable(p, n)
  PROVE  writer[n] # 0
<1>1. CASE n = Out[p] /\ StillStaged(p, {"Pending", "Active"})
  BY <1>1 DEF Spared, OutputSpared, StillStaged
<1>2. CASE /\ runs[p].status = "Completing"
           /\ \E s \in Targets(p) :
                 n = s.node /\ nodes[n].rev = s.after /\ nodes[n].state = "Superseded"
  BY <1>2 DEF Spared, TargetsSpared
<1>3. CASE /\ runs[p].status = "Reverting"
           /\ \/ n = Out[p] /\ runs[p].created
              \/ \E s \in Targets(p) : n = s.node
  BY <1>3 DEF Spared, RevertSpared
<1>. QED
  BY <1>1, <1>2, <1>3 DEF Undoable

LEMMA UndoSparesEdits ==
  ASSUME Typed, AtomicIInv, EditsIInv, Next, task.kind \in UndoingKinds
  PROVE  /\ \A n \in Nodes : nodes'[n] # nodes[n] => writer[n] # 0
         /\ \A e \in AllEdges : edges'[e] # edges[e] => edges[e].by # 0
<1>1. task # NoTask
  BY DEF NoTask, UndoingKinds
<1>2. UNCHANGED durable \/ TaskStep
  BY <1>1 DEF Next, Insert, Retract, Delete, CallAddEdge, Ask, Cancel, Project, Complete, Revert,
     Answer, Begin, Locked, Open, Repair, Fault, Crash
<1>3. CASE UNCHANGED durable
  BY <1>3 DEF durable
<1>4. CASE TaskStep
  <2>0. PICK p : p = task.r
    OBVIOUS
  <2>1. p \in Runs /\ Spared(p) /\ p # 0
    BY <1>1, <2>0 DEF Typed, TaskTyped, EditsIInv, Runs
  <2>2. UNCHANGED <<nodes, writer>> \/ TaskWrites(p)
    <3>1. CASE InsertStaged \/ Supersede \/ Activate
      BY <2>0, <3>1, PublishWrites
    <3>2. CASE Cleanup \/ RollbackOutput \/ Restore \/ RetractOutput \/ Reinstate
      BY <2>0, <3>2, UndoWrites
    <3>3. CASE ~(InsertStaged \/ Supersede \/ Activate \/ Cleanup \/ RollbackOutput
                   \/ Restore \/ RetractOutput \/ Reinstate)
      BY <1>4, <3>3 DEF TaskStep, RecordId, RecordFingerprint, RecordPlan, CaptureRevision,
         PublishStatus, AddEdge, DropEdge, RemoveEdge
    <3>. QED
      BY <3>1, <3>2, <3>3
  <2>3. UNCHANGED edges \/ TaskEdges(p)
    <3>1. CASE AddEdge \/ DropEdge \/ RemoveEdge
      BY <2>0, <3>1, EdgeWrites
    <3>2. CASE ~(AddEdge \/ DropEdge \/ RemoveEdge)
      BY <1>4, <3>2 DEF TaskStep, RecordId, RecordFingerprint, InsertStaged, RecordPlan,
         Supersede, Activate, CaptureRevision, PublishStatus, Cleanup, RollbackOutput, Restore,
         RetractOutput, Reinstate
    <3>. QED
      BY <3>1, <3>2
  <2>4. ASSUME TaskWrites(p), NEW m \in Nodes, nodes'[m] # nodes[m] PROVE writer[m] # 0
    <3>1. PICK n \in Nodes, node \in NodeType :
            Put(n, node, p) /\ Exists(n) /\ Undoable(p, n)
      BY <2>4 DEF TaskWrites, UndoingKinds
    <3>2. m = n
      BY <2>1, <2>4, <3>1, PutFacts
    <3>. QED
      BY <2>1, <3>1, <3>2, UndoableIsOurs
  <2>5. ASSUME TaskEdges(p), NEW f \in AllEdges, edges'[f] # edges[f] PROVE edges[f].by # 0
    <3>1. PICK e \in AllEdges :
            /\ \A g \in AllEdges : g # e => edges'[g] = edges[g]
            /\ edges'[e] = NoEdge
            /\ edges[e].by = p \/ (runs[p].status = "Reverting" /\ e \in Planned(p))
      BY <2>5 DEF TaskEdges, UndoingKinds
    <3>2. f = e
      BY <2>5, <3>1
    <3>. QED
      BY <2>1, <2>5, <3>1, <3>2 DEF Spared, RevertSpared
  <2>. QED
    BY <2>2, <2>3, <2>4, <2>5
<1>. QED
  BY <1>2, <1>3, <1>4

\* Undoing a run, in the call or on reopen, never rewrites a node that a caller
\* wrote last and never removes an edge that a caller wrote, and a completed run
\* has what its revert needs (rollback_completing_dream, retract_dream_outputs,
\* revert_dream), as long as no failing storage call breaks off a revert.
THEOREM RevertSparesEdits == Spec /\ []ActiveTargets /\ []RevertUnbroken => RevertIsSafe
<1>1. IInv /\ AtomicIInv /\ EditsIInv /\ [Next]_vars => [EditsPreserved]_vars
  BY UndoSparesEdits DEF IInv, EditsPreserved, UndoingKinds
<1>. QED
  BY <1>1, Invariance, AtomicInvariance, EditsInvariance, CompletedFully, PTL DEF Spec, RevertIsSafe

==============================================================================
