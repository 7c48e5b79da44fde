\* Vulkan specialisation with a pipeline layout PD that uses fewer slots
\* than the others: switching back to the last applied layout.
CONSTANTS
    kMaxBindGroups = 3
    MaxDynamicOffsets = 1
    NULL = NULL
    NoBindGroupLayout = Unused
    L1 = L1  L2 = L2  Unused = Unused
    PA = PA  PB = PB  PC = PC  PD = PD
    G1a = G1a  G1b = G1b  G2a = G2a
    BindGroupLayouts <- MCBindGroupLayouts
    PipelineLayouts <- MCPipelineLayoutsWithGap
    Layout <- MCLayoutWithGap
    BindGroups <- MCBindGroups
    BindGroupLayoutOf <- MCBindGroupLayoutOf
    DynamicCount <- MCDynamicCount
    DynamicOffsetValues <- MCDynamicOffsetValues
    Specialisations = {TRUE}
SPECIFICATION Spec
PROPERTY BoundAtDraw
