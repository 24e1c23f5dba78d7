-------------------------- MODULE MCContextSessions --------------------------
(* A small context store for TLC. *)
EXTENDS ContextSessions

Workload(calls, most) == [calls |-> calls, most |-> most]

AllWorkloads ==
    {Workload({"objects", "checkpoints"}, 4),
     Workload({"objects", "actions"}, 3), Workload({"checkpoints", "actions"}, 3),
     Workload({"types", "relations"}, 3),
     Workload({"objects", "relations"}, 3), Workload({"relations", "extraction"}, 2),
     Workload({"checkpoints", "extraction"}, 2), Workload({"extraction"}, 3), Workload({"entities"}, 4)}

CONSTANTS MaxHistory, MaxObjects, MaxCheckpoints, MaxExecutions

LimitDef ==
    [k \in KindSet |->
       CASE k = "History" -> MaxHistory
         [] k = "Type" -> 3
         [] k = "Object" -> MaxObjects
         [] k = "Relation" -> 1
         [] k = "Checkpoint" -> MaxCheckpoints
         [] k = "Action" -> 1
         [] k = "ActionExecution" -> MaxExecutions]
=============================================================================
