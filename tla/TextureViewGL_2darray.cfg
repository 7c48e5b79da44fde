\* A sampled single-layer texture, whose one layer may be viewed as a 2D array.
CONSTANTS
    TextureDescriptors <- MCSingleLayerDescriptors
    Views = {v1, v2}
SPECIFICATION Spec
\* The program may stop once every object is released.
CHECK_DEADLOCK FALSE
PROPERTY ViewBindingIsValid
