---------------------------- MODULE TextureViewGL ----------------------------
(***************************************************************************)
(* GL texture names of an OpenGL texture and its views                     *)
(* (src/src/dawn_native/opengl/TextureGL.cpp): the texture's target and    *)
(* name, Texture::DestroyImpl, and the TextureView constructor, which      *)
(* either reuses the texture's name or makes a new one with glTextureView, *)
(* and its destructor.                                                     *)
(*                                                                         *)
(* The environment (frontend validation, reference counting, the GL        *)
(* command buffer that binds a view to sample it) is not in this           *)
(* repository; it is modelled from Dawn's documented rules:                *)
(*  - a view's range lies in the texture, a 2D view has one layer, a cube  *)
(*    view six, a cube-array view a multiple of six, and a multisampled    *)
(*    texture only has 2D views (the ASSERT of TargetForTextureView-       *)
(*    Dimension);                                                          *)
(*  - a view keeps its texture alive, so ~Texture follows every ~TextureView;*)
(*  - only a view of a live texture with Sampled usage is bound.           *)
(*                                                                         *)
(* GL names are 1, 2, ...; 0 is "no texture", which DeleteTextures skips.  *)
(***************************************************************************)
EXTENDS Naturals, FiniteSets

CONSTANTS
    TextureDescriptors,     \* descriptors the texture may be created with
    Views                   \* TextureView objects the user may create

ASSUME TextureDescriptors \subseteq [levels : Nat \ {0}, layers : Nat \ {0},
                                     samples : {1, 4}, usage : SUBSET {"Sampled", "Storage", "OutputAttachment"}]

VARIABLES
    tex,        \* the Texture: [state, desc, handle, target]
    views,      \* views[v]: [state, handle, target, owns]
    glTarget,   \* GL: the target each generated name was created with
    deletes,    \* GL history: DeleteTextures calls per name
    bound       \* GL: the <<target, name>> last bound to sample from

vars == <<tex, views, glTarget, deletes, bound>>

MaxNames == 1 + Cardinality(Views)
Names == 1 .. MaxNames
NoTarget == "none"
Targets == {"TEXTURE_2D", "TEXTURE_2D_ARRAY", "TEXTURE_2D_MULTISAMPLE",
            "TEXTURE_CUBE_MAP", "TEXTURE_CUBE_MAP_ARRAY"}
ViewDimensions == {"2D", "2DArray", "Cube", "CubeArray"}

\* View descriptors the frontend accepts for a texture descriptor td.
ViewDescriptors(td) ==
    {d \in [dimension : ViewDimensions, baseMipLevel : 0 .. td.levels - 1,
            mipLevelCount : 1 .. td.levels, baseArrayLayer : 0 .. td.layers - 1,
            arrayLayerCount : 1 .. td.layers] :
        /\ d.baseMipLevel + d.mipLevelCount <= td.levels
        /\ d.baseArrayLayer + d.arrayLayerCount <= td.layers
        /\ d.dimension = "2D" => d.arrayLayerCount = 1
        /\ d.dimension = "Cube" => d.arrayLayerCount = 6
        /\ d.dimension = "CubeArray" => d.arrayLayerCount % 6 = 0
        /\ td.samples > 1 => d.dimension = "2D"}

(***************************************************************************)
(* Helpers of the anonymous namespace                                      *)
(***************************************************************************)
TargetForTexture(td) ==
    IF td.layers > 1 THEN "TEXTURE_2D_ARRAY"
    ELSE IF td.samples > 1 THEN "TEXTURE_2D_MULTISAMPLE" ELSE "TEXTURE_2D"

TargetForTextureViewDimension(dimension, sampleCount) ==
    CASE dimension = "2D" -> IF sampleCount > 1 THEN "TEXTURE_2D_MULTISAMPLE" ELSE "TEXTURE_2D"
      [] dimension = "2DArray" -> "TEXTURE_2D_ARRAY"
      [] dimension = "Cube" -> "TEXTURE_CUBE_MAP"
      [] dimension = "CubeArray" -> "TEXTURE_CUBE_MAP_ARRAY"

UsageNeedsTextureView(usage) == usage \cap {"Storage", "Sampled"} # {}

\* Mutant: the cube dimensions are not forced to a new view.
RequiresCreatingNewTextureView_NoCube(td, d) ==
    \/ td.layers # d.arrayLayerCount
    \/ td.levels # d.mipLevelCount

\* The view format always equals the texture format under the frontend's
\* validation, so the format comparison never holds and is left out.
RequiresCreatingNewTextureView(td, d) ==
    \/ td.layers # d.arrayLayerCount
    \/ td.levels # d.mipLevelCount
    \/ d.dimension \in {"Cube", "CubeArray"}

\* GenTexture: the lowest name GL has not handed out.
GenTexture == CHOOSE n \in Names : glTarget[n] = NoTarget /\ \A m \in 1 .. n - 1 : glTarget[m] # NoTarget

\* gl.DeleteTextures(1, &h): a call with 0 is ignored.
DeleteTexture(d, h) == IF h = 0 THEN d ELSE [d EXCEPT ![h] = @ + 1]

(***************************************************************************)
(* The texture                                                             *)
(***************************************************************************)
\* Texture::Texture: GenTexture, then BindTexture(mTarget, mHandle) gives
\* the name its target; the storage is allocated with TexStorage*.
Init ==
    \E td \in TextureDescriptors :
        /\ tex = [state |-> "alive", desc |-> td, handle |-> 1, target |-> TargetForTexture(td)]
        /\ glTarget = [n \in Names |-> IF n = 1 THEN TargetForTexture(td) ELSE NoTarget]
        /\ views = [v \in Views |-> [state |-> "none", handle |-> 0,
                                     target |-> NoTarget, owns |-> FALSE]]
        /\ deletes = [n \in Names |-> 0]
        /\ bound = <<NoTarget, 0>>

\* Texture::DestroyImpl: delete the name (the callers then set mHandle to 0).
DestroyImpl == DeleteTexture(deletes, tex.handle)

\* Texture::Destroy by the user (TextureBase::DestroyInternal of an
\* internally owned texture).
DestroyTexture ==
    /\ tex.state = "alive"
    /\ deletes' = DestroyImpl
    /\ tex' = [tex EXCEPT !.handle = 0, !.state = "destroyed"]
    /\ UNCHANGED <<views, glTarget, bound>>

\* Texture::~Texture, once the last view released its reference:
\* DestroyInternal runs DestroyImpl unless Destroy already did.
FreeTexture ==
    /\ tex.state \in {"alive", "destroyed"}
    /\ \A v \in Views : views[v].state # "live"
    /\ IF tex.state = "alive" THEN deletes' = DestroyImpl ELSE UNCHANGED deletes
    /\ tex' = [tex EXCEPT !.handle = 0, !.state = "freed"]
    /\ UNCHANGED <<views, glTarget, bound>>

(***************************************************************************)
(* Texture views                                                           *)
(***************************************************************************)
\* TextureView::TextureView of view v with descriptor d.
CreateView(v, d) ==
    LET td == tex.desc
        target == TargetForTextureViewDimension(d.dimension, td.samples)
        new == GenTexture
    IN
    /\ views[v].state = "none"
    /\ tex.state = "alive"
    /\ IF UsageNeedsTextureView(td.usage) /\ RequiresCreatingNewTextureView(td, d)
       THEN \* GenTexture and gl.TextureView(mHandle, mTarget, texture handle, ...)
            /\ views' = [views EXCEPT ![v] = [state |-> "live", handle |-> new,
                                              target |-> target, owns |-> TRUE]]
            /\ glTarget' = [glTarget EXCEPT ![new] = target]
       ELSE /\ views' = [views EXCEPT ![v] = [state |-> "live",
                              handle |-> IF UsageNeedsTextureView(td.usage) THEN tex.handle ELSE 0,
                              target |-> target, owns |-> FALSE]]
            /\ UNCHANGED glTarget
    /\ UNCHANGED <<tex, deletes, bound>>

\* Mutant: the destructor deletes the handle whether or not the view owns it.
ViewDeletes_IgnoreOwns(v) == DeleteTexture(deletes, views[v].handle)

\* What TextureView::~TextureView deletes.
ViewDeletes(v) == IF views[v].owns THEN DeleteTexture(deletes, views[v].handle) ELSE deletes

ReleaseView(v) ==
    /\ views[v].state = "live"
    /\ deletes' = ViewDeletes(v)
    /\ views' = [views EXCEPT ![v].state = "released"]
    /\ UNCHANGED <<tex, glTarget, bound>>

\* The GL command buffer binds a sampled view: BindTexture(GetGLTarget(),
\* GetHandle()).
BindView(v) ==
    /\ views[v].state = "live"
    /\ tex.state = "alive"
    /\ "Sampled" \in tex.desc.usage
    /\ bound' = <<views[v].target, views[v].handle>>
    /\ UNCHANGED <<tex, views, glTarget, deletes>>

Next ==
    \/ DestroyTexture
    \/ FreeTexture
    \/ \E v \in Views, d \in ViewDescriptors(tex.desc) : CreateView(v, d)
    \/ \E v \in Views : ReleaseView(v)
    \/ \E v \in Views : BindView(v)

Spec == Init /\ [][Next]_vars

(***************************************************************************)
(* Properties                                                              *)
(***************************************************************************)
TypeOK ==
    /\ tex.state \in {"alive", "destroyed", "freed"} /\ tex.handle \in 0 .. MaxNames
    /\ \A v \in Views : views[v].state \in {"none", "live", "released"}
                        /\ views[v].handle \in 0 .. MaxNames
    /\ glTarget \in [Names -> Targets \cup {NoTarget}]
    /\ deletes \in [Names -> Nat]
    /\ bound \in (Targets \cup {NoTarget}) \X (0 .. MaxNames)

\* Every GL name Dawn generated is deleted at most once, by the texture or
\* by the one view that owns it, and once the texture and all its views
\* are gone, every one of them has been deleted (no double delete of a
\* name a view shares with its texture, and no leak).
NamesDeletedOnce ==
    /\ \A n \in Names : deletes[n] <= 1
    /\ tex.state = "freed" =>
           \A n \in Names : glTarget[n] # NoTarget => deletes[n] = 1

\* Binding a view for sampling binds a live name that GL created with the
\* same target: glBindTexture with another target is GL_INVALID_OPERATION,
\* and a deleted name would be a fresh empty texture. This is what the
\* reuse of the texture's name by TextureView relies on.
ViewBindingIsValid ==
    [][\A v \in Views :
           BindView(v) => LET h == views[v].handle IN
                              /\ h # 0 /\ deletes[h] = 0
                              /\ glTarget[h] = views[v].target]_vars
=============================================================================
