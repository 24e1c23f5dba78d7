------------------------- MODULE MCNativeProposals --------------------------
(* A small native memory store with proposals for TLC. *)
EXTENDS NativeProposals

CONSTANTS MaxEvidence, MaxClaims, MaxEntities, MaxRelations, MaxProposals, MaxReviews

ShapesDef ==
    {<<"CreateClaim", "CreateClaim">>, <<"CreateClaim", "Supersede">>,
     <<"CreateEntity", "CreateRelation">>, <<"Retract", "Retract">>}

\* A bundle that relates one record and retracts another.
MixedShapes == {<<"Retract", "CreateRelation">>}

LimitDef ==
    [k \in Kinds |->
       CASE k = "Evidence" -> MaxEvidence
         [] k = "Claim" -> MaxClaims
         [] k = "Entity" -> MaxEntities
         [] k = "SemanticRelation" -> MaxRelations
         [] k = "Proposal" -> MaxProposals
         [] k = "ProposalReview" -> MaxReviews
         [] OTHER -> 0]
=============================================================================
