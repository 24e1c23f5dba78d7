-------------------------- MODULE MCNativeSignals ---------------------------
(* A small native memory store with relation signals for TLC.  Runs start  *)
(* from a store four operations old: a user claim was remembered, two      *)
(* evaluators were put, and a profile of the first one.                    *)
EXTENDS NativeSignals

CONSTANTS MaxEvidence, MaxClaims, Home

LimitDef ==
    [k \in Kinds |-> CASE k = "Evidence" -> MaxEvidence
                       [] k = "Claim" -> MaxClaims
                       [] OTHER -> 0]

e1 == <<"Evidence", 1>>
c1 == <<"Claim", 1>>
Fresh(dims) == [revision |-> 1, state |-> "Active", dims |-> dims]

SeededInit ==
    /\ db = InsertClaim(InsertEvidence(EmptyDb, e1, "UserAssertion", Home),
                        c1, "UserNote", Home, {e1})
    /\ derived = [EmptyDerived EXCEPT !.evaluators = [e \in {1, 2} |-> Fresh(Dimensions)],
          !.profiles = 1 :> [revision |-> 1, state |-> "Active", evaluator |-> <<1, 1>>,
                             heads |-> Dimensions]]
    /\ operations = <<{<<e1, 1>>, <<c1, 1>>}, {<<EvaluatorRef(1), 1>>}, {<<EvaluatorRef(2), 1>>},
                     {<<ProfileRef(1), 1>>}>>
    /\ audit = [op \in Ops |-> IF op <= 4 THEN 1 ELSE 0]
    /\ root = "ready" /\ opening = "none" /\ open = TRUE /\ crashes = 0 /\ preview = None

MCSpec == SeededInit /\ [][SignalsNext]_memVars
=============================================================================
