---------------------------- MODULE MCProposals ----------------------------
(* Small instances of Proposals: two nodes and the proposals a lawyer makes. *)
EXTENDS Proposals

CONSTANTS n1, n2

OneEdge == {<<n2, n1>>}

\* Two changes of one node around an edge; a validity interval and a state.
TwoTemplates ==
    { <<State(n1, "Superseded"), AddedEdge(n2, n1, "a"), Validity(n1, "proposed", "proposed")>>,
      <<Validity(n2, "proposed", "none"), State(n1, "Active")>> }

\* A validity interval whose start is left open.
OpenStart == { <<Validity(n1, "none", "proposed")>> }

Pair == { <<State(n1, "Superseded"), State(n2, "Superseded")>> }
=============================================================================
