--------------------------- MODULE MCNativeMemory ---------------------------
(* A small native memory store for TLC. *)
EXTENDS NativeMemory

CONSTANTS MaxEvidence, MaxClaims, MaxRelations, MaxArtifacts, MaxPassages

LimitDef ==
    [k \in Kinds |->
       CASE k = "Evidence" -> MaxEvidence
         [] k = "Claim" -> MaxClaims
         [] k = "SemanticRelation" -> MaxRelations
         [] k \in {"ArtifactCollection", "ArtifactSnapshot"} -> MaxArtifacts
         [] k = "ArtifactPassage" -> MaxPassages
         [] OTHER -> 0]
=============================================================================
