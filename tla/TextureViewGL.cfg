\* A six-layer texture with two mip levels (every view dimension, including
\* cube views that keep the texture's name count), a multisampled texture
\* and an attachment-only texture; two views.
CONSTANTS
    TextureDescriptors <- MCTextureDescriptors
    Views = {v1, v2}
SPECIFICATION Spec
\* The program may stop once every object is released.
CHECK_DEADLOCK FALSE
INVARIANT NamesDeletedOnce
PROPERTY ViewBindingIsValid
