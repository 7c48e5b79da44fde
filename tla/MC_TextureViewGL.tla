--------------------------- MODULE MC_TextureViewGL ---------------------------
EXTENDS TextureViewGL

\* Textures whose views all have a target their name can be bound with.
MCTextureDescriptors ==
    { [levels |-> 2, layers |-> 6, samples |-> 1, usage |-> {"Sampled"}],
      [levels |-> 1, layers |-> 1, samples |-> 4, usage |-> {"Sampled"}],
      [levels |-> 2, layers |-> 1, samples |-> 1, usage |-> {"OutputAttachment"}] }

\* A single-layer, single-sampled texture that may be sampled.
MCSingleLayerDescriptors ==
    { [levels |-> 2, layers |-> 1, samples |-> 1, usage |-> {"Sampled"}] }
=============================================================================
