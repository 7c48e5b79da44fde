-------------------------- MODULE AnimometerFrame --------------------------
(***************************************************************************)
(* The frame loop of the Animometer sample (src/examples/Animometer.cpp)   *)
(* driving the backend's BindGroupTracker. init() creates one pipeline     *)
(* layout {bgl_frame, bgl1} shared by two pipelines, a static bind group   *)
(* for slot 0 and two instance bind groups for slot 1, whose uniform       *)
(* binding is dynamic. Each frame records, for every triangle i,           *)
(* SetPipeline(pipeline[i&1]), SetBindGroup(0, bindGroupFrame),            *)
(* SetBindGroup(1, bindGroupInstance[i&1], i * sizeof(ShaderData)), Draw.  *)
(* The backend replays the recorded commands in the same order through its *)
(* tracker; every frame is a new command buffer, so nothing is bound when  *)
(* it starts.                                                              *)
(***************************************************************************)
EXTENDS Naturals, Sequences

CONSTANTS
    kNumTriangles, kNumFrames,      \* set by -t and -f
    CanInheritBindGroups,           \* the backend (TRUE: Vulkan)
    bgl_frame, bgl1, NoBindGroupLayout,
    pipelineLayout_,                \* the PipelineLayout object of init()
    bindGroupFrame, bindGroupInstance0, bindGroupInstance1,
    NULL

ASSUME kNumTriangles \in Nat \ {0} /\ kNumFrames \in Nat

VARIABLES
    dirtyBindGroups, dirtyBindGroupsObjectChangedOrIsDynamic, bindGroupLayoutsMask,
    bindGroups, dynamicOffsetCounts, dynamicOffsets, pipelineLayout,
    lastAppliedPipelineLayout, native,
    f,      \* frames started
    i,      \* the triangle being recorded
    pc      \* the next call of the loop body

tracker == <<dirtyBindGroups, dirtyBindGroupsObjectChangedOrIsDynamic, bindGroupLayoutsMask,
             bindGroups, dynamicOffsetCounts, dynamicOffsets, pipelineLayout,
             lastAppliedPipelineLayout, native>>
vars == <<tracker, f, i, pc>>

(***************************************************************************)
(* The objects init() creates.                                             *)
(***************************************************************************)
kMaxBindGroups == 4
\* sizeof(ShaderData): five floats, alignas(kMinDynamicBufferOffsetAlignment).
kShaderDataSize == 256
\* pipelineLayout = MakeBasicPipelineLayout(device, {bgl_frame, bgl1}).
SampleLayout == [pl \in {pipelineLayout_} |->
                   [s \in 0 .. kMaxBindGroups - 1 |->
                      CASE s = 0 -> bgl_frame [] s = 1 -> bgl1 [] OTHER -> NoBindGroupLayout]]
\* bgl_frame: one static uniform buffer; bgl1: a dynamic uniform buffer,
\* a sampler and a sampled texture.
SampleDynamicCount == [l \in {bgl_frame, bgl1} |-> IF l = bgl1 THEN 1 ELSE 0]
SampleBindGroupLayoutOf ==
    [g \in {bindGroupFrame, bindGroupInstance0, bindGroupInstance1} |->
       IF g = bindGroupFrame THEN bgl_frame ELSE bgl1]
\* Both pipelines are created from the same descriptor, hence one layout.
pipeline == [k \in 0 .. 1 |-> pipelineLayout_]
bindGroupInstance == [k \in 0 .. 1 |-> IF k = 0 THEN bindGroupInstance0 ELSE bindGroupInstance1]
\* uint64_t offset = i * sizeof(ShaderData).
TriangleOffset(t) == t * kShaderDataSize

T == INSTANCE BindGroupTracker WITH
         kMaxBindGroups <- kMaxBindGroups,
         Specialisations <- {CanInheritBindGroups},
         MaxDynamicOffsets <- 1,
         BindGroupLayouts <- {bgl_frame, bgl1},
         PipelineLayouts <- {pipelineLayout_},
         Layout <- SampleLayout,
         BindGroups <- {bindGroupFrame, bindGroupInstance0, bindGroupInstance1},
         BindGroupLayoutOf <- SampleBindGroupLayoutOf,
         DynamicCount <- SampleDynamicCount,
         DynamicOffsetValues <- {TriangleOffset(t) : t \in 0 .. kNumTriangles - 1}

(***************************************************************************)
(* main() and frame()                                                      *)
(***************************************************************************)
Init ==
    /\ T!Init
    /\ f = 0
    /\ i = 0
    /\ pc = "frame"

\* frame() up to BeginRenderPass: a new command buffer and pass, nothing
\* bound, a fresh tracker.
BeginFrame ==
    /\ pc = "frame"
    /\ f < kNumFrames
    /\ f' = f + 1
    /\ i' = 0
    /\ pc' = "setPipeline"
    /\ T!ResetTracker
    /\ native' = [s \in T!Slots |-> NULL]

\* The loop of main() ends after kNumFrames frames or when ShouldQuit().
Quit ==
    /\ pc = "frame"
    /\ pc' = "done"
    /\ UNCHANGED <<tracker, f, i>>

SetPipeline ==
    /\ pc = "setPipeline"
    /\ i < kNumTriangles
    /\ T!OnSetPipeline(pipeline[i % 2])
    /\ pc' = "setFrameGroup"
    /\ UNCHANGED <<f, i>>

SetFrameGroup ==
    /\ pc = "setFrameGroup"
    /\ T!OnSetBindGroup(0, bindGroupFrame, <<>>)
    /\ pc' = "setInstanceGroup"
    /\ UNCHANGED <<f, i>>

SetInstanceGroup ==
    /\ pc = "setInstanceGroup"
    /\ T!OnSetBindGroup(1, bindGroupInstance[i % 2], <<TriangleOffset(i)>>)
    /\ pc' = "draw"
    /\ UNCHANGED <<f, i>>

DrawTriangle ==
    /\ pc = "draw"
    /\ T!Draw
    /\ i' = i + 1
    /\ pc' = "setPipeline"
    /\ UNCHANGED f

\* EndPass, Finish, Submit, Present.
EndFrame ==
    /\ pc = "setPipeline"
    /\ i = kNumTriangles
    /\ pc' = "frame"
    /\ UNCHANGED <<tracker, f, i>>

Next == BeginFrame \/ Quit \/ SetPipeline \/ SetFrameGroup \/ SetInstanceGroup
        \/ DrawTriangle \/ EndFrame

Spec == Init /\ [][Next]_vars

(***************************************************************************)
(* Properties                                                              *)
(***************************************************************************)
\* Every triangle is drawn with the frame group at slot 0 and its own
\* instance group and offset i * sizeof(ShaderData) at slot 1, natively
\* bound with the sample's layout.
DrawSeesTriangle ==
    [][DrawTriangle =>
         /\ native'[0].group = bindGroupFrame
         /\ native'[1] = [group |-> bindGroupInstance[i % 2],
                          offsets |-> <<TriangleOffset(i)>>,
                          layout |-> pipelineLayout_]]_vars

\* The tracker rebinds both groups for the first triangle of a frame and
\* only the instance group afterwards: switching between the two pipelines
\* of one layout and re-setting the same frame group cost no rebind.
RebindsOnlyInstanceGroup ==
    [][DrawTriangle =>
         dirtyBindGroupsObjectChangedOrIsDynamic = IF i = 0 THEN {0, 1} ELSE {1}]_vars
=============================================================================
