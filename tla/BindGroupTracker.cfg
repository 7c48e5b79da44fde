\* Both specialisations: Vulkan (CanInheritBindGroups = TRUE) and the other
\* backends (FALSE); every pipeline layout uses the same slots.
CONSTANTS
    kMaxBindGroups = 3
    MaxDynamicOffsets = 1
    NULL = NULL
    NoBindGroupLayout = Unused
    L1 = L1  L2 = L2  Unused = Unused
    PA = PA  PB = PB  PC = PC  PD = PD
    G1a = G1a  G1b = G1b  G2a = G2a
    BindGroupLayouts <- MCBindGroupLayouts
    PipelineLayouts <- MCPipelineLayoutsSameMask
    Layout <- MCLayoutSameMask
    BindGroups <- MCBindGroups
    BindGroupLayoutOf <- MCBindGroupLayoutOf
    DynamicCount <- MCDynamicCount
    DynamicOffsetValues <- MCDynamicOffsetValues
    Specialisations = {TRUE, FALSE}
SPECIFICATION Spec
INVARIANT TypeOK CleanSlotsBound
PROPERTY BoundAtDraw NoSpuriousApply
