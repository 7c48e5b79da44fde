------------------------ MODULE MC_BindGroupTracker ------------------------
(***************************************************************************)
(* Model-checking instance of BindGroupTracker: three slots, two bind      *)
(* group layouts (L2 has one dynamic buffer binding), three bind groups.   *)
(***************************************************************************)
EXTENDS BindGroupTracker

CONSTANTS L1, L2, Unused, PA, PB, PC, PD, G1a, G1b, G2a

MCBindGroupLayouts == {L1, L2}

\* Pipeline layouts that all use slots 0 and 1 (slot 2 is never used):
\* PA = (L1, L2), PB = (L1, L1), PC = (L2, L2).
MCLayoutsSameMask == [pl \in {PA, PB, PC} |->
    CASE pl = PA -> <<L1, L2, Unused>>
      [] pl = PB -> <<L1, L1, Unused>>
      [] pl = PC -> <<L2, L2, Unused>>]

\* The same, plus PD = (L1) which uses slot 0 only.
MCLayoutsWithGap == [pl \in {PA, PB, PC, PD} |->
    IF pl = PD THEN <<L1, Unused, Unused>> ELSE MCLayoutsSameMask[pl]]

MCPipelineLayoutsSameMask == DOMAIN MCLayoutsSameMask
MCPipelineLayoutsWithGap == DOMAIN MCLayoutsWithGap

\* Sequences are indexed from 1, slots from 0.
MCLayoutSameMask == [pl \in MCPipelineLayoutsSameMask |->
                       [i \in 0 .. 2 |-> MCLayoutsSameMask[pl][i + 1]]]
MCLayoutWithGap == [pl \in MCPipelineLayoutsWithGap |->
                       [i \in 0 .. 2 |-> MCLayoutsWithGap[pl][i + 1]]]

MCBindGroups == {G1a, G1b, G2a}
MCBindGroupLayoutOf == [g \in MCBindGroups |-> IF g = G2a THEN L2 ELSE L1]
MCDynamicCount == [l \in MCBindGroupLayouts |-> IF l = L2 THEN 1 ELSE 0]
MCDynamicOffsetValues == {0, 256}
=============================================================================
