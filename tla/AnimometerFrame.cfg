\* Animometer with 8 triangles per frame and 4 frames, on a backend without bind group inheritance (OpenGL, D3D12, Metal).
CONSTANTS
    kNumTriangles = 8
    kNumFrames = 4
    CanInheritBindGroups = FALSE
    bgl_frame = bgl_frame
    bgl1 = bgl1
    NoBindGroupLayout = NoBindGroupLayout
    pipelineLayout_ = pipelineLayout_
    bindGroupFrame = bindGroupFrame
    bindGroupInstance0 = bindGroupInstance0
    bindGroupInstance1 = bindGroupInstance1
    NULL = NULL
SPECIFICATION Spec
\* The sample exits after its last frame.
CHECK_DEADLOCK FALSE
PROPERTY DrawSeesTriangle RebindsOnlyInstanceGroup
