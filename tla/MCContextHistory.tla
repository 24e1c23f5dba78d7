-------------------------- MODULE MCContextHistory --------------------------
(* A small history for TLC. *)
EXTENDS ContextHistory

CONSTANT MaxHistory

LimitDef == [k \in KindSet |-> IF k = "History" THEN MaxHistory ELSE 0]
=============================================================================
