\* A non-renderable texture whose staging buffer allocation may fail.
CONSTANTS
    NumMipLevels = 1
    NumArrayLayers = 1
    Formats <- MCNonRenderableFormats
    BufferSizeExceedsUint32 = FALSE
    AllocationMayFail = TRUE
    LazyClearResourceOnFirstUse = TRUE
    NonzeroClearResourcesOnCreationForTesting = FALSE
    MultiSubresourceRanges = FALSE
SPECIFICATION Spec
PROPERTY ReadsAsZeroUntilWritten
