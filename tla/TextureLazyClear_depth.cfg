\* A depth/stencil texture of 2 mip levels.
CONSTANTS
    NumMipLevels = 2
    NumArrayLayers = 1
    Formats <- MCDepthStencilFormats
    BufferSizeExceedsUint32 = FALSE
    AllocationMayFail = FALSE
    LazyClearResourceOnFirstUse = TRUE
    NonzeroClearResourcesOnCreationForTesting = TRUE
    MultiSubresourceRanges = FALSE
SPECIFICATION Spec
PROPERTY ReadsAsZeroUntilWritten
