\* Two samplers sharing two driver handles (so a failed create, handle
\* reuse and deferred deletion all occur), one swap chain, serials up to 3.
CONSTANTS
    Samplers = {S1, S2}
    Handles = {H1, H2}
    NULL = NULL
    Free = Free
    SamplerDescriptors <- MCSamplerDescriptors
    FailedCreateOutputs <- MCUntouchedOutput
    TextureUsage = "Present"
    MaxSerial = 3
SPECIFICATION Spec
INVARIANT TypeOK
PROPERTY NoDestroyWhileInUse RetiredSamplersDestroyed
