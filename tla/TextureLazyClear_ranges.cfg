\* A renderable color texture of 2 mip levels and 2 layers used through ranges of several subresources.
CONSTANTS
    NumMipLevels = 2
    NumArrayLayers = 2
    Formats <- MCColorFormats
    BufferSizeExceedsUint32 = FALSE
    AllocationMayFail = TRUE
    LazyClearResourceOnFirstUse = TRUE
    NonzeroClearResourcesOnCreationForTesting = TRUE
    MultiSubresourceRanges = TRUE
SPECIFICATION Spec
PROPERTY ReadsAsZeroUntilWritten
