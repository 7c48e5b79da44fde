-------------------------- MODULE TextureLazyClear --------------------------
(***************************************************************************)
(* Lazy clearing of an OpenGL texture (src/src/dawn_native/opengl/         *)
(* TextureGL.cpp): the constructor's optional non-zero clear, ClearTexture *)
(* and EnsureSubresourceContentInitialized, with the per-subresource       *)
(* "content initialized" flags of TextureBase.                             *)
(*                                                                         *)
(* The command buffer (not in this repository) drives the texture: a full  *)
(* write marks a subresource initialized; a partial write and a read first *)
(* call EnsureSubresourceContentInitialized on their range.                *)
(*                                                                         *)
(* content[sr] abstracts the texels of subresource sr = <<level, layer>>:  *)
(* "garbage" (never written), "zero", "nonzero" (the testing clear value), *)
(* "data" (written by the user), "mixed" (a partial write over garbage).   *)
(***************************************************************************)
EXTENDS Naturals, FiniteSets

CONSTANTS
    NumMipLevels,               \* GetNumMipLevels()
    NumArrayLayers,             \* GetArrayLayers()
    Formats,                    \* the formats the texture may be created with
    BufferSizeExceedsUint32,    \* the staging buffer of a level-0-sized clear exceeds uint32
    AllocationMayFail,          \* whether creating/mapping the staging buffer may fail
    LazyClearResourceOnFirstUse,                \* device toggles
    NonzeroClearResourcesOnCreationForTesting,
    MultiSubresourceRanges      \* whether uses may span several subresources

ASSUME /\ NumMipLevels \in Nat \ {0} /\ NumArrayLayers \in Nat \ {0}
       /\ Formats \subseteq [isCompressed : BOOLEAN, isRenderable : BOOLEAN,
                             hasDepthOrStencil : BOOLEAN] /\ Formats # {}
       /\ {BufferSizeExceedsUint32, AllocationMayFail, LazyClearResourceOnFirstUse,
           NonzeroClearResourcesOnCreationForTesting, MultiSubresourceRanges} \subseteq BOOLEAN

VARIABLES
    content,            \* content[sr]: what the texels of sr hold
    initialized,        \* TextureBase's flags: the set of initialized subresources
    lazyClearCount,     \* Device::IncrementLazyClearCountForTesting
    lastRead,           \* the values the last read returned
    format              \* GetFormat(): fixed at creation

vars == <<content, initialized, lazyClearCount, lastRead, format>>

Levels == 0 .. NumMipLevels - 1
Layers == 0 .. NumArrayLayers - 1
Subresources == Levels \X Layers
Contents == {"garbage", "zero", "nonzero", "data", "mixed"}

\* The (baseMipLevel, levelCount, baseArrayLayer, layerCount) arguments.
Ranges == {r \in [baseMipLevel : Levels, levelCount : 1 .. NumMipLevels,
                   baseArrayLayer : Layers, layerCount : 1 .. NumArrayLayers] :
              /\ r.baseMipLevel + r.levelCount <= NumMipLevels
              /\ r.baseArrayLayer + r.layerCount <= NumArrayLayers
              /\ MultiSubresourceRanges \/ (r.levelCount = 1 /\ r.layerCount = 1)}
RangeLevels(r) == r.baseMipLevel .. r.baseMipLevel + r.levelCount - 1
RangeLayers(r) == r.baseArrayLayer .. r.baseArrayLayer + r.layerCount - 1
SubresourcesOf(r) == RangeLevels(r) \X RangeLayers(r)
WholeTexture == [baseMipLevel |-> 0, levelCount |-> NumMipLevels,
                 baseArrayLayer |-> 0, layerCount |-> NumArrayLayers]
SingleSubresource(sr) == [baseMipLevel |-> sr[1], levelCount |-> 1,
                          baseArrayLayer |-> sr[2], layerCount |-> 1]

(***************************************************************************)
(* Texture::ClearTexture: the subresources it really writes. mapOk says    *)
(* whether the staging buffer could be created and mapped.                 *)
(***************************************************************************)
\* Mutant: the level loops stop one level early.
ClearLevels_OffByOne(r) == r.baseMipLevel .. r.baseMipLevel + r.levelCount - 2

\* The levels both clear loops visit: baseMipLevel <= level < baseMipLevel + levelCount.
ClearLevels(r) == r.baseMipLevel .. r.baseMipLevel + r.levelCount - 1

ClearedSubresources(r, mapOk) ==
    CASE format.isCompressed -> {}       \* "initialize the textures with compressed formats" is TODO
      \* Depth/stencil: one framebuffer with level 0 attached by
      \* FramebufferTexture2D, whatever the range; an array texture cannot
      \* be attached that way, so nothing is cleared.
      [] format.isRenderable /\ format.hasDepthOrStencil ->
             IF NumArrayLayers = 1 THEN {<<0, 0>>} ELSE {}
      \* Color: ClearTexSubImage of the layers of every level of the range.
      [] format.isRenderable -> ClearLevels(r) \X RangeLayers(r)
      \* Otherwise: copy from a staging buffer sized for one layer with
      \* TexSubImage2D, which only a 2D (single layer) target accepts.
      [] OTHER -> IF BufferSizeExceedsUint32 \/ ~mapOk \/ NumArrayLayers > 1
                  THEN {}
                  ELSE ClearLevels(r) \X {0}

ClearTexture(c, r, value, mapOk) ==
    [sr \in Subresources |-> IF sr \in ClearedSubresources(r, mapOk) THEN value ELSE c[sr]]

MapOutcomes == IF AllocationMayFail THEN BOOLEAN ELSE {TRUE}

(***************************************************************************)
(* Texture::EnsureSubresourceContentInitialized, as the new content, flags *)
(* and counter. The ClearTexture error is consumed and the range marked    *)
(* initialized whatever it did.                                            *)
(***************************************************************************)
NeedsClear(r) ==
    /\ LazyClearResourceOnFirstUse
    /\ ~(SubresourcesOf(r) \subseteq initialized)   \* IsSubresourceContentInitialized

EnsuredContent(r, mapOk) ==
    IF NeedsClear(r) THEN ClearTexture(content, r, "zero", mapOk) ELSE content

EnsuredInitialized(r) ==
    IF NeedsClear(r) THEN initialized \cup SubresourcesOf(r) ELSE initialized

\* Mutant: the counter is incremented on every lazy call, cleared or not.
EnsuredLazyClearCount_Always(r, isLazyClear) ==
    IF isLazyClear THEN lazyClearCount + 1 ELSE lazyClearCount

EnsuredLazyClearCount(r, isLazyClear) ==
    IF NeedsClear(r) /\ isLazyClear THEN lazyClearCount + 1 ELSE lazyClearCount

\* The Texture constructor: storage allocated (its texels are garbage), then
\* the optional non-zero clear of the whole texture, nothing initialized.
Init ==
    /\ format \in Formats
    /\ \E mapOk \in MapOutcomes :
           content = IF NonzeroClearResourcesOnCreationForTesting
                     THEN ClearTexture([sr \in Subresources |-> "garbage"], WholeTexture,
                                       "nonzero", mapOk)
                     ELSE [sr \in Subresources |-> "garbage"]
    /\ initialized = {}
    /\ lazyClearCount = 0
    /\ lastRead = {}

EnsureSubresourceContentInitialized(r, isLazyClear, mapOk) ==
    /\ content' = EnsuredContent(r, mapOk)
    /\ initialized' = EnsuredInitialized(r)
    /\ lazyClearCount' = EnsuredLazyClearCount(r, isLazyClear)

(***************************************************************************)
(* The callers in the command buffer.                                      *)
(***************************************************************************)
\* A copy or render that overwrites all of sr: marked initialized, no clear.
WriteWhole(sr) ==
    /\ content' = [content EXCEPT ![sr] = "data"]
    /\ initialized' = initialized \cup {sr}
    /\ UNCHANGED <<lazyClearCount, lastRead>>

\* A write of part of sr (a partial copy, a render pass that loads): lazy
\* clear first, then the written texels are data and the rest stays.
WritePart(sr, mapOk) ==
    LET c == EnsuredContent(SingleSubresource(sr), mapOk) IN
    /\ content' = [c EXCEPT ![sr] = IF @ \in {"zero", "data"} THEN "data" ELSE "mixed"]
    /\ initialized' = EnsuredInitialized(SingleSubresource(sr)) \cup {sr}
    /\ lazyClearCount' = EnsuredLazyClearCount(SingleSubresource(sr), TRUE)
    /\ UNCHANGED lastRead

\* A sample or copy from range r: lazy clear, then read.
Read(r, mapOk) ==
    /\ EnsureSubresourceContentInitialized(r, TRUE, mapOk)
    /\ lastRead' = {content'[sr] : sr \in SubresourcesOf(r)}

Next ==
    /\ \/ \E sr \in Subresources : WriteWhole(sr)
       \/ \E sr \in Subresources, mapOk \in MapOutcomes : WritePart(sr, mapOk)
       \/ \E r \in Ranges, mapOk \in MapOutcomes : Read(r, mapOk)
    /\ UNCHANGED format

Spec == Init /\ [][Next]_vars

(***************************************************************************)
(* Properties                                                              *)
(***************************************************************************)
\* Types, and the lazy-clear counter counts one clear per call that found
\* an uninitialized subresource, so it never exceeds their number.
TypeOK ==
    /\ content \in [Subresources -> Contents]
    /\ initialized \subseteq Subresources
    /\ lazyClearCount \in 0 .. Cardinality(Subresources)
    /\ lastRead \subseteq Contents
    /\ format \in Formats

\* What the user sees of sr: zero until it is marked initialized, then its
\* texels.
Logical == [sr \in Subresources |-> IF sr \in initialized THEN content[sr] ELSE "zero"]

TC == INSTANCE TextureContent WITH
          logical <- Logical,
          lastRead <- lastRead,
          ReadRanges <- {SubresourcesOf(r) : r \in Ranges}

\* The lazily cleared texture implements TextureContent: every read returns
\* zero for what was never written and the data for what was, and no
\* EnsureSubresourceContentInitialized (clear and mark) changes what the
\* user sees, neither by marking uncleared texels nor by clearing data.
ReadsAsZeroUntilWritten == TC!Spec
=============================================================================
