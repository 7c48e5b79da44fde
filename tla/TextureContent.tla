--------------------------- MODULE TextureContent ---------------------------
(***************************************************************************)
(* What a texture promises its user when resources are lazily cleared:     *)
(* every subresource reads as zero until it is written, and afterwards as  *)
(* the data written. logical[sr] is what subresource sr holds for the user; *)
(* lastRead is the set of values the last read returned.                   *)
(***************************************************************************)
CONSTANTS Subresources, ReadRanges

VARIABLES logical, lastRead

Values == {"zero", "data"}

Init ==
    /\ logical = [sr \in Subresources |-> "zero"]
    /\ lastRead = {}

\* A write of a whole or of part of a subresource.
Write(sr) ==
    /\ logical' = [logical EXCEPT ![sr] = "data"]
    /\ UNCHANGED lastRead

\* A read (sampling, copy from the texture) of a range of subresources.
Read(rs) ==
    /\ lastRead' = {logical[sr] : sr \in rs}
    /\ UNCHANGED logical

Next ==
    \/ \E sr \in Subresources : Write(sr)
    \/ \E rs \in ReadRanges : Read(rs)

Spec == Init /\ [][Next]_<<logical, lastRead>>

TypeOK ==
    /\ logical \in [Subresources -> Values]
    /\ lastRead \subseteq Values
=============================================================================
