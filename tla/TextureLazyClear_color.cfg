\* A renderable color texture of 3 mip levels and 2 array layers, created with the non-zero testing clear.
CONSTANTS
    NumMipLevels = 3
    NumArrayLayers = 2
    Formats <- MCColorFormats
    BufferSizeExceedsUint32 = FALSE
    AllocationMayFail = TRUE
    LazyClearResourceOnFirstUse = TRUE
    NonzeroClearResourcesOnCreationForTesting = TRUE
    MultiSubresourceRanges = FALSE
SPECIFICATION Spec
INVARIANT TypeOK
PROPERTY ReadsAsZeroUntilWritten
