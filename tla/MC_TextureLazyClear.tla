------------------------ MODULE MC_TextureLazyClear ------------------------
(* Texture formats for checking TextureLazyClear, by the paths of          *)
(* ClearTexture they take.                                                 *)
EXTENDS TextureLazyClear

\* RGBA8Unorm and other renderable color formats.
MCColorFormat == [isCompressed |-> FALSE, isRenderable |-> TRUE, hasDepthOrStencil |-> FALSE]
\* Depth24PlusStencil8 and the other depth/stencil formats.
MCDepthStencilFormat == [isCompressed |-> FALSE, isRenderable |-> TRUE, hasDepthOrStencil |-> TRUE]
\* Non-renderable, uncompressed color formats (e.g. snorm formats).
MCNonRenderableFormat == [isCompressed |-> FALSE, isRenderable |-> FALSE, hasDepthOrStencil |-> FALSE]
\* BC compressed formats.
MCCompressedFormat == [isCompressed |-> TRUE, isRenderable |-> FALSE, hasDepthOrStencil |-> FALSE]

MCColorFormats == {MCColorFormat}
MCDepthStencilFormats == {MCDepthStencilFormat}
\* The formats cleared through a staging buffer, which may not be made.
MCNonRenderableFormats == {MCNonRenderableFormat}
=============================================================================
