-------------------------------- MODULE Dream --------------------------------
(***************************************************************************)
(* Dream maintenance (dream.rs).  maintain selects raw memories, asks a    *)
(* dreamer without the node mutation lock, stages the answer as a Pending  *)
(* run under the lock, projects the staged output without it, and takes    *)
(* the lock again to publish the run: a durable Completing status, the     *)
(* planned edges, the supersessions, the activation of the output, then    *)
(* Completed.  revert_dream undoes a completed run; opening the database   *)
(* rolls unfinished runs back.                                             *)
(*                                                                         *)
(* The holder of the lock is the current task: a sequence of durable       *)
(* writes still to be made, between any two of which the process can stop  *)
(* or a storage call fail.  A run creates at most one output; a node is    *)
(* its revision, state, content tag, owning run and end of validity.       *)
(***************************************************************************)
EXTENDS Integers, Sequences, SequencesExt

CONSTANTS
    Raw,            \* memories of the host
    Derived,        \* active outputs of an earlier run
    NumRuns,        \* maintain calls 1 .. NumRuns
    Out,            \* the output node of each run
    EdgeKeys,       \* pairs of nodes that callers may join
    Plans,          \* what the dreamer may answer
    MaxOps, MaxCrashes, MaxFaults

Runs == 1 .. NumRuns
Outputs == {Out[r] : r \in Runs}
Nodes == Raw \cup Derived \cup Outputs
AllEdges == EdgeKeys \cup (Outputs \X Nodes)

ASSUME DreamAssumption ==
    /\ NumRuns \in Nat /\ MaxOps \in Nat /\ MaxCrashes \in Nat /\ MaxFaults \in Nat
    /\ DOMAIN Out = Runs
    /\ Raw \cap Derived = {} /\ Outputs \cap (Raw \cup Derived) = {}
    /\ EdgeKeys \subseteq Nodes \X Nodes
    /\ \A plan \in Plans :
          /\ plan = [cites |-> plan.cites, links |-> plan.links, supersede |-> plan.supersede]
          /\ plan.cites \subseteq Nodes /\ IsFiniteSet(plan.cites)
          /\ plan.links \in Seq(EdgeKeys) /\ plan.supersede \in Seq(Nodes)

\* Every run stages its output under a fresh identifier (Ulid::new).
ASSUME FreshAssumption == \A r, q \in Runs : Out[r] = Out[q] => r = q

VARIABLES
    nodes,      \* durable: node rows
    edges,      \* durable: edges
    runs,       \* durable: dream runs
    call,       \* the maintain calls, lost when the process stops
    phase,      \* is the database closed, being opened or open?
    task,       \* the holder of the node mutation lock
    ops, crashes, faults,
    writer      \* history: who wrote each node last, 0 for a caller

vars == <<nodes, edges, runs, call, phase, task, ops, crashes, faults, writer>>
durable == <<nodes, edges, runs, writer>>
counters == <<ops, crashes, faults>>
------------------------------------------------------------------------------
(* Data. *)

States == {"Unborn", "Pending", "Active", "Superseded", "Retracted", "Gone"}
NoOwner == 0
EarlierRun == NumRuns + 1
Row(state, tag, owner) ==
    [rev |-> 1, state |-> state, tag |-> tag, owner |-> owner, to |-> "none"]
NoRow(state) == [Row(state, "none", NoOwner) EXCEPT !.rev = 0]
Exists(n) == nodes[n].state \notin {"Unborn", "Gone"}

\* dream_output_fingerprint: content, metadata and validity, not the revision.
Fingerprint(node) == <<node.tag, node.owner, node.to>>

NoEdge == [rev |-> 0, by |-> 0]

\* What the dreamer answers: the sources its output cites (none: no output),
\* the edges between sources and the derived memories it supersedes.
Plan(cites, links, supersede) ==
    [cites |-> cites, links |-> links, supersede |-> supersede]

NoRun == [status |-> "None", hash |-> {}, created |-> FALSE, fingerprint |-> FALSE,
          captured |-> 0, cites |-> {}, edges |-> <<>>, superseded |-> <<>>]
\* Runs in these states keep their sources from being dreamed again.
Counted == {"Pending", "Completing", "Completed", "Reverting", "Reverted"}
Unfinished == {"Pending", "Completing", "Reverting"}

NoCall == [pc |-> "idle", hash |-> {}]
NoTask == [kind |-> "none", r |-> 0, work |-> <<>>, plan |-> Plan({}, <<>>, <<>>)]

\* One durable write, on an edge, a supersession or the run itself.
OnEdge(do, e) == [do |-> do, edge |-> e]
OnTarget(do, s) == [do |-> do, target |-> s]
OnRun(do) == [do |-> do]
SetStatus(status) == [do |-> "status", status |-> status]
EachEdge(do, r) == [i \in DOMAIN runs[r].edges |-> OnEdge(do, runs[r].edges[i])]
EachTarget(do, r) == [i \in DOMAIN runs[r].superseded |-> OnTarget(do, runs[r].superseded[i])]
IfCreated(r, work) == IF runs[r].created THEN work ELSE <<>>

Start(kind, r, work) == [kind |-> kind, r |-> r, work |-> work, plan |-> NoTask.plan]
Doing(do) == task.work # <<>> /\ Head(task.work).do = do
Done == task' = [task EXCEPT !.work = Tail(@)]

\* insert_inner_unlocked.
Put(n, node, who) ==
    /\ nodes' = [nodes EXCEPT ![n] =
                    [node EXCEPT !.rev = IF Exists(n) THEN nodes[n].rev + 1 ELSE 1]]
    /\ writer' = [writer EXCEPT ![n] = who]
------------------------------------------------------------------------------
(* Other callers of the database. *)

Locked == phase = "open" /\ task = NoTask

Begin ==
    /\ Locked
    /\ ops < MaxOps
    /\ ops' = ops + 1

\* Database::insert: a new raw memory, or new content for a node.
Insert(n) ==
    /\ Begin
    /\ \/ nodes[n].state = "Unborn" /\ n \in Raw /\ Put(n, Row("Active", "raw", NoOwner), 0)
       \/ Exists(n) /\ Put(n, [nodes[n] EXCEPT !.tag = "edited"], 0)
    /\ UNCHANGED <<edges, runs, call, phase, task, crashes, faults>>

Retract(n) ==
    /\ Begin
    /\ Exists(n)
    /\ ~(nodes[n].state = "Retracted" /\ nodes[n].to # "none")
    /\ Put(n, [nodes[n] EXCEPT !.state = "Retracted", !.to = "now"], 0)
    /\ UNCHANGED <<edges, runs, call, phase, task, crashes, faults>>

Delete(n) ==
    /\ Begin
    /\ Exists(n)
    /\ nodes' = [nodes EXCEPT ![n] = NoRow("Gone")]
    /\ writer' = [writer EXCEPT ![n] = 0]
    /\ UNCHANGED <<edges, runs, call, phase, task, crashes, faults>>

\* add_edge_unlocked over whatever edge is there.
PutEdge(e, by) == edges' = [edges EXCEPT ![e] = [rev |-> @.rev + 1, by |-> by]]

CallAddEdge(e) ==
    /\ Begin
    /\ PutEdge(e, 0)
    /\ UNCHANGED <<nodes, runs, call, phase, task, crashes, faults, writer>>
------------------------------------------------------------------------------
(* maintain. *)

\* select_dream_sources: the raw memories no run has processed and, when there
\* are any, the active derived ones.
Processed == {x[1] : x \in UNION {runs[r].hash : r \in {q \in Runs : runs[q].status \in Counted}}}
IsDerived(n) == nodes[n].owner # NoOwner
Selectable == {n \in Nodes : nodes[n].state = "Active"}
PendingSources == {n \in Selectable : ~IsDerived(n) /\ n \notin Processed}
Sources ==
    IF PendingSources = {} THEN {}
    ELSE PendingSources \cup {n \in Selectable : IsDerived(n)}

\* dream_source_hash: the sources and their revisions.
Hash(sources) == {<<n, nodes[n].rev>> : n \in sources}
Duplicate(hash) == \E r \in Runs : runs[r].status \in Counted /\ runs[r].hash = hash
SourcesOf(hash) == {x[1] : x \in hash}

\* Reads without the lock, then waits for the dreamer.
Ask(r) ==
    /\ phase = "open" /\ call[r] = NoCall
    /\ Sources # {}
    /\ ~Duplicate(Hash(Sources))
    /\ call' = [call EXCEPT ![r] = [pc |-> "asked", hash |-> Hash(Sources)]]
    /\ UNCHANGED <<durable, phase, task, counters>>

\* validate_dream_proposal: unchanged active sources, edges that are new, and
\* supersessions of derived memories.
SourcesUnchanged(hash) ==
    \A x \in hash : nodes[x[1]].rev = x[2] /\ nodes[x[1]].state = "Active"

ValidPlan(plan, hash) ==
    /\ SourcesUnchanged(hash)
    /\ plan.cites \subseteq SourcesOf(hash)
    /\ \A i \in DOMAIN plan.links :
          /\ plan.links[i][1] \in SourcesOf(hash) /\ plan.links[i][2] \in SourcesOf(hash)
          /\ edges[plan.links[i]] = NoEdge
          /\ \A j \in 1 .. i - 1 : plan.links[j] # plan.links[i]
    /\ \A i \in DOMAIN plan.supersede :
          Exists(plan.supersede[i]) /\ IsDerived(plan.supersede[i])

\* The call returns, with a run, with nothing or with an error.
Return(r) == call' = [call EXCEPT ![r] = [NoCall EXCEPT !.pc = "done"]]

StageWork(plan) ==
    (IF plan.cites = {} THEN <<>> ELSE <<OnRun("id"), OnRun("fingerprint"), OnRun("stage")>>)
        \o <<OnRun("plan")>>

\* Mutant of Answer: what was looked up before the call is trusted.
AnswerUnchecked(r, plan) ==
    /\ Locked
    /\ call[r].pc = "asked"
    /\ IF ~ValidPlan(plan, call[r].hash)
       THEN /\ Return(r)
            /\ UNCHANGED <<runs, task>>
       ELSE /\ runs' = [runs EXCEPT ![r] = [NoRun EXCEPT !.status = "Pending",
                            !.hash = call[r].hash, !.cites = plan.cites]]
            /\ task' = [Start("stage", r, StageWork(plan)) EXCEPT !.plan = plan]
            /\ UNCHANGED call
    /\ UNCHANGED <<nodes, edges, phase, counters, writer>>

\* The answer arrives: deduplicated and validated under the lock, then the run
\* is stored as Pending.
Answer(r, plan) ==
    /\ Locked
    /\ call[r].pc = "asked"
    /\ IF Duplicate(call[r].hash) \/ ~ValidPlan(plan, call[r].hash)
       THEN /\ Return(r)
            /\ UNCHANGED <<runs, task>>
       ELSE /\ runs' = [runs EXCEPT ![r] = [NoRun EXCEPT !.status = "Pending",
                            !.hash = call[r].hash, !.cites = plan.cites]]
            /\ task' = [Start("stage", r, StageWork(plan)) EXCEPT !.plan = plan]
            /\ UNCHANGED call
    /\ UNCHANGED <<nodes, edges, phase, counters, writer>>

\* The future is dropped at an await, or the client fails.
Cancel(r) ==
    /\ phase = "open"
    /\ call[r].pc = "asked" \/ (call[r].pc \in {"staged", "projected"} /\ task.r # r)
    /\ Return(r)
    /\ UNCHANGED <<durable, phase, task, counters>>

RecordId ==
    /\ Doing("id")
    /\ runs' = [runs EXCEPT ![task.r].created = TRUE]
    /\ Done
    /\ UNCHANGED <<nodes, edges, call, phase, counters, writer>>

RecordFingerprint ==
    /\ Doing("fingerprint")
    /\ runs' = [runs EXCEPT ![task.r].fingerprint = TRUE]
    /\ Done
    /\ UNCHANGED <<nodes, edges, call, phase, counters, writer>>

StagedRow(r) == Row("Pending", "dream", r)

InsertStaged ==
    /\ Doing("stage")
    /\ Put(Out[task.r], StagedRow(task.r), task.r)
    /\ Done
    /\ UNCHANGED <<edges, runs, call, phase, counters>>

\* The planned edges and the snapshots of the supersession targets.
Snapshot(n) == [node |-> n, state |-> nodes[n].state, to |-> nodes[n].to,
                after |-> nodes[n].rev + 1]
PlannedEdges(r, plan) ==
    LET cited == SetToSeq(plan.cites)
    IN  [i \in DOMAIN cited |-> <<Out[r], cited[i]>>] \o plan.links

RecordPlan ==
    /\ Doing("plan")
    /\ runs' = [runs EXCEPT
                    ![task.r].edges = PlannedEdges(task.r, task.plan),
                    ![task.r].superseded =
                        [i \in DOMAIN task.plan.supersede |-> Snapshot(task.plan.supersede[i])]]
    /\ task' = NoTask
    /\ call' = [call EXCEPT ![task.r].pc = "staged"]
    /\ UNCHANGED <<nodes, edges, phase, counters, writer>>

\* project_configured writes an embedding into the staged output.
Project(r) ==
    /\ Locked
    /\ call[r].pc = "staged" /\ runs[r].created
    /\ call' = [call EXCEPT ![r].pc = "projected"]
    /\ IF Exists(Out[r]) /\ nodes[Out[r]].tag = "dream"
       THEN nodes' = [nodes EXCEPT ![Out[r]].rev = @ + 1]
       ELSE UNCHANGED nodes
    /\ UNCHANGED <<edges, runs, phase, task, counters, writer>>
------------------------------------------------------------------------------
(* complete_dream_run_unlocked. *)

\* Mutant of StillStaged: ownership is enough.
StillOwned(r, states) ==
    /\ Exists(Out[r]) /\ runs[r].fingerprint
    /\ nodes[Out[r]].state \in states
    /\ nodes[Out[r]].owner = r

\* The output is as it was staged, up to its revision, in one of the states.
StillStaged(r, states) ==
    /\ Exists(Out[r]) /\ runs[r].fingerprint
    /\ nodes[Out[r]].state \in states
    /\ Fingerprint(nodes[Out[r]]) = Fingerprint(StagedRow(r))

Completable(r) ==
    /\ runs[r].created => StillStaged(r, {"Pending"})
    /\ \A i \in DOMAIN runs[r].edges : edges[runs[r].edges[i]] = NoEdge
    /\ \A i \in DOMAIN runs[r].superseded :
          LET s == runs[r].superseded[i]
          IN  /\ Exists(s.node)
              /\ nodes[s.node].rev + 1 = s.after
              /\ nodes[s.node].state = s.state /\ nodes[s.node].to = s.to

CleanupWork(r, status) == IfCreated(r, <<OnRun("cleanup")>>) \o <<SetStatus(status)>>
CompleteWork(r) ==
    EachEdge("addEdge", r) \o EachTarget("supersede", r)
        \o IfCreated(r, <<OnRun("activate"), OnRun("capture")>>) \o <<SetStatus("Completed")>>
RollbackWork(r, status) ==
    EachEdge("dropEdge", r) \o IfCreated(r, <<OnRun("rollback")>>)
        \o EachTarget("restore", r) \o <<SetStatus(status)>>

Complete(r) ==
    /\ Locked
    /\ call[r].pc \in {"staged", "projected"}
    /\ runs[r].status = "Pending"
    /\ Return(r)
    /\ IF Completable(r)
       THEN /\ runs' = [runs EXCEPT ![r].status = "Completing"]
            /\ task' = Start("complete", r, CompleteWork(r))
       ELSE /\ task' = Start("undo", r, CleanupWork(r, "Failed"))
            /\ UNCHANGED runs
    /\ UNCHANGED <<nodes, edges, phase, counters, writer>>

\* An error while the run is being published.
RollBack == task' = Start("undo", task.r, RollbackWork(task.r, "Failed"))

\* add_edge_unlocked wants the evidence of the edge to exist.
AddEdge ==
    /\ Doing("addEdge")
    /\ IF \A n \in runs[task.r].cites : Exists(n)
       THEN PutEdge(Head(task.work).edge, task.r) /\ Done
       ELSE RollBack /\ UNCHANGED edges
    /\ UNCHANGED <<nodes, runs, call, phase, counters, writer>>

Supersede ==
    LET s == Head(task.work).target
    IN  /\ Doing("supersede")
        /\ Put(s.node, [nodes[s.node] EXCEPT !.state = "Superseded", !.to = "now"], task.r)
        /\ IF nodes'[s.node].rev = s.after THEN Done ELSE RollBack
        /\ UNCHANGED <<edges, runs, call, phase, counters>>

Activate ==
    /\ Doing("activate")
    /\ Put(Out[task.r], [nodes[Out[task.r]] EXCEPT !.state = "Active"], task.r)
    /\ Done
    /\ UNCHANGED <<edges, runs, call, phase, counters>>

CaptureRevision ==
    /\ Doing("capture")
    /\ runs' = [runs EXCEPT ![task.r].captured = nodes[Out[task.r]].rev]
    /\ Done
    /\ UNCHANGED <<nodes, edges, call, phase, counters, writer>>

PublishStatus ==
    /\ Doing("status")
    /\ runs' = [runs EXCEPT ![task.r].status = Head(task.work).status]
    /\ task' = NoTask
    /\ UNCHANGED <<nodes, edges, call, phase, counters, writer>>
------------------------------------------------------------------------------
(* cleanup_pending_dream, rollback_completing_dream and retract_dream_outputs. *)

RetractedRow(n) == [nodes[n] EXCEPT !.state = "Retracted", !.to = "now"]

\* An output that still is what was staged is retracted; another one is kept.
UndoOutput(states) ==
    IF StillStaged(task.r, states)
    THEN Put(Out[task.r], RetractedRow(Out[task.r]), task.r)
    ELSE UNCHANGED <<nodes, writer>>

Cleanup ==
    /\ Doing("cleanup")
    /\ UndoOutput({"Pending"})
    /\ Done
    /\ UNCHANGED <<edges, runs, call, phase, counters>>

\* Mutant of RollbackOutput: only an output that is still Pending is undone.
RollbackPending ==
    /\ Doing("rollback")
    /\ UndoOutput({"Pending"})
    /\ Done
    /\ UNCHANGED <<edges, runs, call, phase, counters>>

RollbackOutput ==
    /\ Doing("rollback")
    /\ UndoOutput({"Pending", "Active"})
    /\ Done
    /\ UNCHANGED <<edges, runs, call, phase, counters>>

\* same_edge_revision: only the edge this run added is removed.
DropEdge ==
    LET e == Head(task.work).edge
    IN  /\ Doing("dropEdge")
        /\ edges' = [edges EXCEPT ![e] = IF @ = [rev |-> 1, by |-> task.r] THEN NoEdge ELSE @]
        /\ Done
        /\ UNCHANGED <<nodes, runs, call, phase, counters, writer>>

RestoredRow(s) == [nodes[s.node] EXCEPT !.state = s.state, !.to = s.to]

\* A target is restored while it is as the run left it.
Restore ==
    LET s == Head(task.work).target
    IN  /\ Doing("restore")
        /\ IF Exists(s.node) /\ nodes[s.node].rev = s.after /\ nodes[s.node].state = "Superseded"
           THEN Put(s.node, RestoredRow(s), task.r)
           ELSE UNCHANGED <<nodes, writer>>
        /\ Done
        /\ UNCHANGED <<edges, runs, call, phase, counters>>

\* A revert removes whatever edge is there,
RemoveEdge ==
    /\ Doing("removeEdge")
    /\ edges' = [edges EXCEPT ![Head(task.work).edge] = NoEdge]
    /\ Done
    /\ UNCHANGED <<nodes, runs, call, phase, counters, writer>>

\* retracts the output unless it is retracted
RetractOutput ==
    LET n == Out[task.r]
    IN  /\ Doing("retract")
        /\ IF Exists(n) /\ ~(nodes[n].state = "Retracted" /\ nodes[n].to # "none")
           THEN Put(n, RetractedRow(n), task.r)
           ELSE UNCHANGED <<nodes, writer>>
        /\ Done
        /\ UNCHANGED <<edges, runs, call, phase, counters>>

\* and gives every target its former state.
Reinstate ==
    LET s == Head(task.work).target
    IN  /\ Doing("reinstate")
        /\ IF Exists(s.node) /\ ~(nodes[s.node].state = s.state /\ nodes[s.node].to = s.to)
           THEN Put(s.node, RestoredRow(s), task.r)
           ELSE UNCHANGED <<nodes, writer>>
        /\ Done
        /\ UNCHANGED <<edges, runs, call, phase, counters>>
------------------------------------------------------------------------------
(* revert_dream and repair_dream_runs. *)

RevertWork(r) ==
    EachEdge("removeEdge", r) \o IfCreated(r, <<OnRun("retract")>>)
        \o EachTarget("reinstate", r) \o <<SetStatus("Reverted")>>

\* Nothing the run made has changed since it completed.
Revertible(r) ==
    /\ \A i \in DOMAIN runs[r].superseded :
          LET s == runs[r].superseded[i]
          IN  Exists(s.node) /\ nodes[s.node].rev = s.after /\ nodes[s.node].state = "Superseded"
    /\ runs[r].created =>
          /\ Exists(Out[r])
          /\ nodes[Out[r]].rev = runs[r].captured
          /\ nodes[Out[r]].state = "Active" /\ nodes[Out[r]].owner = r
    /\ \A i \in DOMAIN runs[r].edges : edges[runs[r].edges[i]] = [rev |-> 1, by |-> r]

Revert(r) ==
    /\ Begin
    /\ runs[r].status = "Completed"
    /\ Revertible(r)
    /\ runs' = [runs EXCEPT ![r].status = "Reverting"]
    /\ task' = Start("revert", r, RevertWork(r))
    /\ UNCHANGED <<nodes, edges, call, phase, crashes, faults, writer>>

Open ==
    /\ phase = "closed"
    /\ phase' = "opening"
    /\ UNCHANGED <<durable, call, task, counters>>

ToRepair == {r \in Runs : runs[r].status \in Unfinished}

RepairWork(r) ==
    CASE runs[r].status = "Pending" -> CleanupWork(r, "Repaired")
      [] runs[r].status = "Completing" -> RollbackWork(r, "Repaired")
      [] runs[r].status = "Reverting" -> RevertWork(r)

\* Mutant of Repair: the database is handed out unrepaired.
OpenUnrepaired ==
    /\ phase = "opening" /\ task = NoTask
    /\ phase' = "open"
    /\ UNCHANGED <<durable, call, task, counters>>

\* The unfinished runs one after the other; then the database is handed out.
Repair ==
    /\ phase = "opening" /\ task = NoTask
    /\ IF ToRepair = {}
       THEN phase' = "open" /\ UNCHANGED task
       ELSE /\ \E r \in ToRepair :
                  /\ \A q \in ToRepair : r <= q
                  /\ task' = Start("repair", r, RepairWork(r))
            /\ UNCHANGED phase
    /\ UNCHANGED <<durable, call, counters>>

\* A storage call of the lock's holder fails.  What is being staged or
\* published is undone; an undo, a revert or an open just ends.
Fault ==
    /\ task # NoTask
    /\ faults < MaxFaults
    /\ faults' = faults + 1
    /\ CASE task.kind = "stage" -> task' = Start("undo", task.r, CleanupWork(task.r, "Failed"))
         [] task.kind = "complete" -> RollBack
         [] OTHER -> task' = NoTask
    /\ phase' = IF task.kind = "repair" THEN "closed" ELSE phase
    /\ call' = IF task.kind = "stage" THEN [call EXCEPT ![task.r] = [NoCall EXCEPT !.pc = "done"]]
               ELSE call
    /\ UNCHANGED <<durable, ops, crashes>>

Crash ==
    /\ phase # "closed"
    /\ crashes < MaxCrashes
    /\ crashes' = crashes + 1
    /\ phase' = "closed"
    /\ task' = NoTask
    /\ call' = [r \in Runs |-> IF call[r] = NoCall THEN NoCall ELSE [NoCall EXCEPT !.pc = "done"]]
    /\ UNCHANGED <<durable, ops, faults>>
------------------------------------------------------------------------------
Init ==
    /\ \E raw \in SUBSET Raw :
          nodes = [n \in Nodes |-> IF n \in raw THEN Row("Active", "raw", NoOwner)
                                   ELSE IF n \in Derived THEN Row("Active", "dream", EarlierRun)
                                   ELSE NoRow("Unborn")]
    /\ edges = [e \in AllEdges |-> NoEdge]
    /\ runs = [r \in Runs |-> NoRun]
    /\ call = [r \in Runs |-> NoCall]
    /\ phase = "open" /\ task = NoTask
    /\ ops = 0 /\ crashes = 0 /\ faults = 0
    /\ writer = [n \in Nodes |-> 0]

TaskStep ==
    \/ RecordId \/ RecordFingerprint \/ InsertStaged \/ RecordPlan
    \/ AddEdge \/ Supersede \/ Activate \/ CaptureRevision \/ PublishStatus
    \/ Cleanup \/ RollbackOutput \/ DropEdge \/ Restore
    \/ RemoveEdge \/ RetractOutput \/ Reinstate

Next ==
    \/ \E n \in Nodes : Insert(n) \/ Retract(n) \/ Delete(n)
    \/ \E e \in EdgeKeys : CallAddEdge(e)
    \/ \E r \in Runs :
          \/ Ask(r) \/ Cancel(r) \/ Project(r) \/ Complete(r) \/ Revert(r)
          \/ \E plan \in Plans : Answer(r, plan)
    \/ TaskStep
    \/ Open \/ Repair \/ Fault \/ Crash

Spec == Init /\ [][Next]_vars

\* A call that has the lock goes on, and a closed database is opened again.
FairSpec == Spec /\ WF_vars(TaskStep) /\ WF_vars(Repair) /\ WF_vars(Open)
------------------------------------------------------------------------------
(* Properties. *)

\* Every variable has its type.
TypeOK ==
    /\ nodes \in [Nodes -> [rev : Nat, state : States, tag : {"none", "raw", "dream", "edited"},
                            owner : 0 .. NumRuns + 1, to : {"none", "now"}]]
    /\ edges \in [AllEdges -> [rev : Nat, by : Runs \cup {0}]]
    /\ \A r \in Runs :
          /\ runs[r].status \in Counted \cup {"None", "Failed", "Repaired"}
          /\ runs[r].captured \in Nat
          /\ runs[r].created \in BOOLEAN /\ runs[r].fingerprint \in BOOLEAN
          /\ runs[r].fingerprint => runs[r].created
          /\ call[r].pc \in {"idle", "asked", "staged", "projected", "done"}
    /\ phase \in {"closed", "opening", "open"}
    /\ task.kind \in {"none", "stage", "complete", "undo", "revert", "repair"}
    /\ task.r \in Runs \cup {0}
    /\ writer \in [Nodes -> Runs \cup {0}]

\* Two maintain calls that asked about the same memories never both count,
\* although each looked before it waited for the dreamer.
NeverDreamedTwice ==
    \A r, q \in Runs :
        (r # q /\ runs[r].status \in Counted /\ runs[q].status \in Counted)
            => runs[r].hash # runs[q].hash

\* What run r has made visible and is still there as r left it.
Visible(r) ==
    \/ \E e \in AllEdges : edges[e].by = r
    \/ \E i \in DOMAIN runs[r].superseded :
          LET s == runs[r].superseded[i]
          IN  writer[s.node] = r /\ nodes[s.node].state = "Superseded" /\ s.state # "Superseded"
    \/ writer[Out[r]] = r /\ nodes[Out[r]].state = "Active"

\* A run that failed, was repaired or was reverted leaves nothing of its own
\* behind: no edge, no active output and no memory it superseded.
UndoneLeavesNothing ==
    \A r \in Runs : runs[r].status \in {"Failed", "Repaired", "Reverted"} => ~Visible(r)

\* Nothing of a run is visible before its Completing status is durable.
NothingBeforeCompleting ==
    \A r \in Runs : runs[r].status \in {"None", "Pending"} => ~Visible(r)

\* A dream run is published as a whole or not at all (complete_run, rollback,
\* revert_dream, repair_dream_runs).
RunsAreAtomic == TypeOK /\ UndoneLeavesNothing /\ NothingBeforeCompleting

\* Undoing a run, also on reopen, never rewrites a node that a caller wrote
\* last and never removes an edge that a caller wrote: edits are preserved.
EditsPreserved ==
    task.kind \in {"undo", "revert", "repair"} =>
        /\ \A n \in Nodes : nodes'[n] # nodes[n] => writer[n] # 0
        /\ \A e \in AllEdges : edges'[e] # edges[e] => edges[e].by # 0

\* A run that becomes Completed is complete, and could be reverted at once.
CompletedIsRevertible ==
    \A r \in Runs :
        (runs[r].status # "Completed" /\ runs'[r].status = "Completed") => Revertible(r)'

\* revert_dream finds what it needs in a completed run, and undoing a run
\* spares the edits of others.
RevertIsSafe == [][EditsPreserved /\ CompletedIsRevertible]_vars

\* Once the database is closed, an unfinished run is undone on reopen.
ReopenSettles ==
    \A r \in Runs :
        (phase = "closed" /\ runs[r].status \in Unfinished)
            ~> runs[r].status \in {"Repaired", "Reverted"}
==============================================================================
