---------------------------- MODULE MCProjection ----------------------------
(* Small instances of Projection: two embedding profiles of one or two models. *)
EXTENDS Projection

CONSTANTS p1, m1, m2, c3

TwoModels == [id \in Ids |-> IF id = p1 THEN m1 ELSE m2]
OneModel == [id \in Ids |-> m1]

\* No profile supports the third content.
MostSupported == Ids \X (Contents \ {c3})
=============================================================================
