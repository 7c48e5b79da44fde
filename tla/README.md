# TLA+ models of the Dawn bind group tracking core

This directory holds TLA+ specifications of the parts of this Dawn excerpt
whose correctness depends on sequences of calls: chiefly the bind group dirty-state
tracker (`src/src/dawn_native/BindGroupTracker.h`), the wire client's map
doers, the OpenGL texture lazy clear and the Animometer sample's frame loop.
It also has the TLC
configurations that check them. `PROJECT.json` lists every component, run,
mutant, finding and hazard. Its `map` ties each TLA+ definition to the source
lines it translates.

## 1. Inventory

### Components and their state

| Component | Source | State | Operations |
|---|---|---|---|
| BindGroupTrackerBase | `dawn_native/BindGroupTracker.h` | two dirty bitsets (`mDirtyBindGroups`, `mDirtyBindGroupsObjectChangedOrIsDynamic`), `mBindGroupLayoutsMask`, per slot the bind group, dynamic offset count and offset array, `mPipelineLayout`, `mLastAppliedPipelineLayout` | `OnSetBindGroup`, `OnSetPipeline`, `DidApply`, `SetDynamicOffsets` (two specialisations) |
| PipelineLayout compatibility | `PipelineLayout.cpp` (not in excerpt; spec 4.1) | immutable: one BindGroupLayout per slot | `GetBindGroupLayoutsMask`, `InheritedGroupsMask` |
| Backend apply step | backends' `CommandBuffer*.cpp` (not in excerpt; spec 4.2) | the native command list's bound sets | bind each slot of `mDirtyBindGroupsObjectChangedOrIsDynamic`, then `DidApply` |
| Frontend validation | not in excerpt; tests in `tests/unittests/validation/BindGroupValidationTests.cpp` | none (checks) | BindGroup creation rules (count, slots, kinds, alignment, overflow-safe range), draw-time dynamic offset count/alignment/bounds |
| Wire client doers | `dawn_wire/client/ClientDoers.cpp`, `client/Device.h` | per buffer: outstanding map requests by serial, read/write handle; fence completed value; device error scopes by serial | `DoBufferMapReadAsyncCallback`, `DoBufferMapWriteAsyncCallback`, `DoFenceUpdateCompletedValue`, `DoDeviceUncapturedErrorCallback`, `DoDevicePopErrorScopeCallback` |
| OpenGL textures | `dawn_native/opengl/TextureGL.cpp` | GL handle and target; per-subresource "content initialised" flags (in TextureBase); view handle ownership | constructor (optional non-zero clear), `ClearTexture`, `EnsureSubresourceContentInitialized`, `TextureView` ctor/dtor |
| Animometer sample | `examples/Animometer.cpp` | two pipelines sharing one layout; per-triangle dynamic offsets | per frame: for each triangle `SetPipeline`, `SetBindGroup(0)`, `SetBindGroup(1, offset)`, `Draw` |
| Errors | `dawn_native/ErrorData.cpp`, `ErrorScope.h` | error type, message, backtrace | `GetType` (enum mapping); ErrorScope only declared |
| Vulkan sampler / swap chain | `vulkan/SamplerVk.cpp`, `vulkan/SwapChainVk.cpp` | a native handle | enum conversions, create, deferred delete, next texture, present barrier |
| D3D12 recording context, buddy allocator | headers only | open flag / per-heap refcounts | declarations only |

### How they interact

User code records `SetPipeline`, `SetBindGroup` and `Draw` on a pass encoder.
The frontend validates the stream, so only valid command buffers reach a
backend. When it replays the stream, the backend forwards `SetPipeline` and
`SetBindGroup` to its tracker. At each `Draw`/`Dispatch` the backend binds the
slots the tracker reports dirty and calls `DidApply`. The tracker makes no
native calls itself: it is a cache of what the native command list already
holds. It is correct only if every slot it treats as clean really is
natively bound to what the user last set, in a way the current pipeline
layout can use. Vulkan keeps bound descriptor sets across a pipeline layout
change for the compatible prefix of layouts ("inheritance"). The other backends
keep nothing.

The wire client is another process boundary. The server answers map requests
and error-scope pops with callbacks that may arrive after the buffer was
unmapped or destroyed, and the client must drop those without error.

The Vulkan backend ties native object lifetimes to the device's command
serials. Work is recorded into a pending recording context and submitted
as the next serial. A `Sampler` whose last reference goes away hands its
`VkSampler` to the `FencedDeleter`, which destroys it in `Device::Tick` once
the serial pending at that moment has completed. The swap chain's
`OnBeforePresent` records its barrier into the same pending context and
submits it. Its submission therefore also carries the serial that sampler
deletions wait for.

### What is hard

* Sequences of calls on one encoder: the tracker is single-threaded, but its
  correctness depends on the order of `SetBindGroup`, `SetPipeline` and draws,
  across layouts with different slot sets and shared prefixes.
* Staleness: the tracker compares the new layout with the *last applied* one,
  while its mask and dirty bits describe the *last set* one.
* Dynamic offsets: the same bind group object with new offsets must be re-bound.
* Wire callbacks: late, duplicated or malformed replies; re-entrant `Unmap`
  from inside a callback; two outstanding map requests on one buffer.
* Lazy clear: a subresource marked initialised although the clear was skipped
  or failed.
* GL names: a view may share its texture's name and target, and `Destroy`,
  `~TextureView` and `~Texture` run in any order.
* Vulkan lifetimes: `~Sampler` may run right after a submit that uses the
  handle, the driver may reuse a destroyed handle value, and a failed create
  still runs the destructor.
* Fixed-width arithmetic: `offset + size` overflow in BindGroup validation; the
  Vulkan narrowing of 64-bit offsets to `uint32_t`.

### Properties that make each component correct

* Tracker: every slot outside the dirty set is natively bound correctly
  (`CleanSlotsBound`); every draw sees the bind groups and offsets the user last
  set (`BoundAtDraw`); the backend is never asked to bind a slot the layout
  lacks (`NoSpuriousApply`).
* PipelineLayout: `InheritedGroupsMask` is exactly the longest common prefix.
* Validation: a range accepted by the overflow-safe check lies inside the buffer
  (reference: unbounded arithmetic).
* Wire client: each map callback fires exactly once. A successful read or write
  callback leaves the buffer with exactly one handle. A late reply never changes
  a buffer that was unmapped.
* Lazy clear: no subresource is read before it is written or cleared.
* Vulkan: no `VkSampler` is destroyed while submitted work uses it, every
  released one is eventually destroyed.

## 2. Plan

Modules, in order of importance (1, 3, 5 and 6 are done; for 7, the abstract
specification and refinement written so far are for texture content):

1. **`BindGroupTracker`** (done): the tracker composed with frontend draw
   validation and the backend apply step / native binding state.
   `MC_BindGroupTracker` instantiates it.
2. **`PipelineLayoutMasks`**: `InheritedGroupsMask` as a loop over slots,
   checked against the prefix definition for all layout pairs over small
   alphabets. This module will also be INSTANCEd by BindGroupTracker.
3. **`WireClientMap`** (done): `DoBufferMapReadAsyncCallback`,
   `DoBufferMapWriteAsyncCallback` with the client's MapReadAsync/MapWriteAsync/
   Unmap/Destroy and a server that may answer late or misbehave.
   Properties: exactly-once callbacks (safety), eventual callback (liveness under
   fairness of the server's reply), one handle at a time.
4. **`DynamicOffsetValidation`** and **`BufferBindingValidation`**: the
   overflow-safe range and alignment rules over w-bit integers (`% 2^w`), checked
   against an unbounded reference.
5. **`TextureLazyClear`** (done): per-subresource initialised flags, writes, samples and
   `EnsureSubresourceContentInitialized`, including the compressed-format and
   depth-stencil early paths.
6. **`AnimometerFrame`** (done): the sample's frame loop as a workload driving
   `BindGroupTracker` (two pipelines, one layout), showing the one-slot
   re-bind per triangle.
7. **`BindingState`** (abstract): logical bindings only, with a draw that sees
   them. `BindGroupTracker` is shown to implement it by a refinement mapping from
   the native bindings, in a configuration where the early-return finding cannot
   occur. Not done yet: the project's abstract specification is `TextureContent`
   (section 3), which `TextureLazyClear` implements.
8. **`VulkanResources`** (done): `Sampler` and `SwapChain` of the Vulkan
   backend, composed through the device's serials and the `FencedDeleter`.

## 3. Modules and runs

### BindGroupTracker

`BindGroupTracker.tla` models `BindGroupTrackerBase<BindGroup, CanInheritBindGroups>`:

* Each `std::bitset<kMaxBindGroups>` is a subset of `Slots`. Bind groups, bind
  group layouts and pipeline layouts are model values: the tracker compares
  them by identity only. `Layout[pl][i]` is the BindGroupLayout of slot `i`
  of `pl`.
* `OnSetBindGroup`, `OnSetPipeline` and `DidApply` translate the three member
  functions line by line. `SetDynamicOffsets` copies the first `count`
  offsets and leaves the rest of the per-slot array as it was. The frontend
  rejects calls whose offset count differs from the layout's dynamic binding
  count, so only matching calls are enumerated.
* `Draw` is the backend's draw: the frontend's check that every used slot holds a
  bind group of the right layout (`DrawIsValid`), then `ApplyBindGroups` (bind
  every slot of `dirtyBindGroupsObjectChangedOrIsDynamic` with the current
  layout), then `DidApply`.
* `native[i]` records the group, offsets and pipeline layout of the last native
  bind at slot `i`. `Usable(q, p, i)` says whether a binding made with layout
  `q` still serves layout `p`. On Vulkan that holds when slots `0..i` have
  identical BindGroupLayouts; on the other backends only when `q = p`.
* `BeginPass` gives the pass a fresh tracker. The command list keeps its native
  bindings.
* The template parameter is the variable `CanInheritBindGroups`. `Init` picks it
  from the constant `Specialisations`, and `Next` never changes it, so a single
  run checks every specialisation the cfg lists, each in its own behaviours.

Bounds (`MC_BindGroupTracker`): 3 slots; layouts L1 (static) and L2 (one
dynamic binding); bind groups G1a, G1b (L1) and G2a (L2); offsets {0, 256}. There
are three pipeline layouts PA=(L1,L2), PB=(L1,L1), PC=(L2,L2), all using slots 0
and 1, with slot 2 unused. This covers inheritance of a prefix of length 0, 1
and 2, a dynamic group re-set with new offsets, a static group replaced by
another of the same layout, a bind group set on an unused slot, and set-before-
pipeline. The "gap" configurations add PD=(L1) using slot 0 only. The search is
exhaustive: no depth bound is needed, since all state is finite.

| Run | Expect | Properties | What it shows |
|---|---|---|---|
| `tracker` | pass | TypeOK, CleanSlotsBound, BoundAtDraw, NoSpuriousApply | for both specialisations (Vulkan with inheritance; D3D12/Metal/GL without), every clean slot is natively bound correctly and every draw sees the user's groups and offsets, if all layouts use the same slots (80k states) |
| `tracker_switch_back_stale` | violation | BoundAtDraw | finding 1 below |

Every property of a passing run is broken by a mutant of the code
(`PROJECT.json` "mutants"):

* leaving the first diverging slot in `InheritedGroupsMask` breaks `CleanSlotsBound`;
* dropping the mask clear (lines 85–86) makes the backend bind unused slots
  (`NoSpuriousApply`), which breaks TypeOK through a null group;
* setting only `mDirtyBindGroups` on an object change breaks `BoundAtDraw`;
* dirtying all slots instead of the mask breaks `NoSpuriousApply`.

`OnSetBindGroup_NoDynamicDirty`, which drops the dynamic-offset dirtying (line
53), is kept in the module as a further mutant of `BoundAtDraw`.

`tracker_switch_back_stale` shows finding 1. Finding 1 also covers the
second symptom of the same early return, a spurious bind of an unused slot.
With `PROPERTY NoSpuriousApply` in place of `BoundAtDraw`, the gap cfg is
also violated (TLC, 2.7k distinct states). No run keeps that check: a
violation run checks one property, and this one checks `BoundAtDraw`. The
passing `tracker` run uses layouts that all share one mask, so none of its
properties can see finding 1.

### WireClientMap

`WireClientMap.tla` models the two map doers and the uncaptured-error doer of
`dawn_wire/client/ClientDoers.cpp`. The doers are the only part of the wire
layer in this repository. Everything around them is an environment whose
behaviour is inferred from the doers' comments ("the buffer might have been
deleted", "the requests can have been deleted via an Unmap", "buffer.Unmap()
is called inside the callback"). The environment's definitions are therefore
not in the `map`:

* the client buffer: `MapAsync` records `requests[b][serial]` and sends a
  command; `Unmap` and `Destroy` drop both handles and fire every outstanding
  request with UNKNOWN (`ClearMapRequests`); `Teardown` destroys every buffer
  once a doer has returned false;
* the server: it handles the command stream `c2s` in order. A native buffer
  takes one map at a time, and a second map is answered with ERROR.
  `Unmap` and `Destroy` fire a pending map with UNKNOWN. A pending map
  completes with SUCCESS or CONTEXT_LOST. When `ServerMisbehaves`,
  `ServerForgeReply` adds up to `MaxForged` replies of any buffer, serial,
  kind and status in `ForgedStatuses`, with data that may not deserialize,
  or error callbacks whose type word is in `ForgedErrorTypes`. The device's
  uncaptured-error callback sends up to `MaxErrors` errors of
  `ServerErrorTypes` (`ServerUncapturedError`).

A doer step (`ClientHandleReply`) takes the head of `s2c`:

* `IgnoreReply` covers a reply for a destroyed buffer or for a dropped request.
* Otherwise the request is erased (`Remaining`) and `GetMappedDataRead` /
  `GetMappedDataWrite` decides success:
  * a reply of the other kind fails;
  * SUCCESS on a mapped buffer fails;
  * a failed `DeserializeInitialData` or `WriteHandle::Open` fails. The `Open`
    outcome is a free choice, since it is an allocation.
* Then the callback gets the status, or DEVICE_LOST (`CallbackStatuses`). The
  buffer takes the handle on SUCCESS, and a failure sets `wireError`.
* The user callback may call `Unmap` inside the doer (the second disjunct of
  `MapCallback`).
* An error reply goes to `DoDeviceUncapturedErrorCallback`. A type word that
  names no `DawnErrorType` fails the doer. Otherwise the type reaches the
  user's error callback (`errorCalls`).

The history variables `issued` and `calls` record each request's kind and the
statuses its callback received.

Bounds: one buffer, because the doers never relate two buffers. There are
2 requests, 1 Unmap, one honest validation error and one forged reply of
every shape, including an error with a valid and an out-of-range type word
(597k states, under two minutes). That
is enough for:
* two outstanding requests;
* a late reply after an Unmap;
* an Unmap inside a callback;
* a re-map after an Unmap;
* a forged reply before, between or after the real ones.

Without the error doer, three requests and two Unmaps with forging take 20
minutes, and the properties also hold at those bounds.

| Run | Expect | Properties | What it shows |
|---|---|---|---|
| `wire_misbehaving` | pass | TypeOK, CallbackAtMostOnce, AtMostOneHandle, HandleMatchesCallback, EveryRequestAnswered | even with a forged reply, every map callback fires exactly once and eventually (including on the fatal path), malformed, duplicate or wrong-kind replies never map a buffer wrongly, and the error callback only receives `DawnErrorType` values |
| `wire_status_unchecked` | violation | TypeOK | finding 2 below |

Each passing property is broken by one of these mutants:

* erasing the request after its callback (`CallbackAtMostOnce`: the Unmap
  inside the callback fires it again);
* skipping the callback when `GetMappedData` fails (`EveryRequestAnswered`);
* dropping the "already mapped" check (`AtMostOneHandle`);
* dropping the write doer's kind check (`HandleMatchesCallback`);
* dropping the error doer's type switch (`TypeOK`: an out-of-range type
  reaches the error callback).

`TypeOK` is the property that `wire_status_unchecked` violates for the map
status. The pass run shows that the same property holds for the error type,
which its doer checks.

### TextureLazyClear and TextureContent (refinement)

`TextureContent.tla` is the abstract specification of what a texture promises
its user: every subresource reads as zero until it is written, then as what was
written (`logical`, `lastRead`; actions `Write` and `Read`).

`TextureLazyClear.tla` models `dawn_native/opengl/TextureGL.cpp`:

* `content[sr]` abstracts the texels of each (level, layer) as garbage, zero,
  nonzero (the testing clear), data or mixed. `initialized` is TextureBase's
  set of initialised subresources, and `lazyClearCount` is the device's test
  counter.
* `Init` is the constructor with its optional non-zero clear.
* `ClearedSubresources` is what `ClearTexture` really writes on each path:
  * compressed formats: nothing (a TODO);
  * depth/stencil: level 0 only, and nothing for array textures;
  * renderable colour: `ClearTexSubImage` over levels × layers;
  * other formats: a staging buffer copied by `TexSubImage2D`. This path
    fails when the size exceeds uint32 or the map fails, and it writes
    layer 0 only.
* `EnsureSubresourceContentInitialized` asks whether the whole range is
  initialised. If not, it clears the whole range and marks it initialised,
  whatever the clear did.
* The command buffer is not in this repository, so its callers are modelled
  as the environment:
  * a whole-subresource write (`WriteWhole`);
  * a partial write (`WritePart`), which calls the ensure function first;
  * a read (`Read`), which also calls the ensure function first.

The refinement mapping is `Logical`: a subresource reads as zero if it is not
initialised, and as its content if it is. `ReadsAsZeroUntilWritten == TC!Spec`
checks the implementation against `TextureContent` through
`INSTANCE ... WITH`. The format is the variable `format`, chosen by `Init` from
the constant `Formats` and never changed, as `GetFormat()` is fixed at creation.
`MC_TextureLazyClear` supplies the format sets.

Bounds:
* 3 levels × 2 layers for colour, which covers an array texture and every level
  loop;
* the violation runs use the smallest texture that shows their failure.

| Run | Expect | Properties | What it shows |
|---|---|---|---|
| `texture_color` | pass | TypeOK, ReadsAsZeroUntilWritten | with single-subresource uses, the colour path (with the non-zero clear) implements TextureContent (4.5k states) |
| `texture_ranges_partial` | violation | ReadsAsZeroUntilWritten | finding 3 |
| `texture_depth_level0` | violation | ReadsAsZeroUntilWritten | finding 4 |
| `texture_clear_failure` | violation | ReadsAsZeroUntilWritten | finding 5 |

Mutants:
* stopping the clear loops one level early breaks `ReadsAsZeroUntilWritten`;
* counting every lazy call, rather than only the calls that clear, breaks the
  counter bound in `TypeOK`.

### AnimometerFrame (composition)

`AnimometerFrame.tla` composes the sample `examples/Animometer.cpp` with
`BindGroupTracker` (`T == INSTANCE BindGroupTracker WITH ...`). Its constants
are the objects `init()` creates:
* one pipeline layout, with `bgl_frame` at slot 0 and `bgl1` at slot 1
  (`bgl1` has one dynamic uniform buffer);
* two pipelines that share that layout;
* one frame bind group and two instance bind groups.

`frame()` becomes a sequence of actions, with `i` the triangle counter:
* `BeginFrame` starts a pass with a fresh tracker and nothing bound natively.
* For each triangle, the sequence is:
  1. `SetPipeline(pipeline[i % 2])`;
  2. `SetFrameGroup`;
  3. `SetInstanceGroup`, with offset `i * sizeof(ShaderData)`;
  4. `DrawTriangle`, the tracker's draw with the apply step.
* `EndFrame` ends the pass.
* The loop of `main()` repeats frames, and `Quit` ends the run.

The run uses the tracker without inheritance (OpenGL, D3D12 and Metal). Its
bounds are 8 triangles and 4 frames (142 states). The sample ends after its
last frame, so deadlock is not checked.

| Run | Expect | Properties | What it shows |
|---|---|---|---|
| `animometer_gl` | pass | DrawSeesTriangle, RebindsOnlyInstanceGroup | every triangle is drawn with the frame group and its own instance group and offset, and after the first triangle only slot 1 is re-bound |

Mutants:
* storing no dynamic offsets breaks `DrawSeesTriangle`;
* removing the early return in `OnSetPipeline` (line 65) breaks
  `RebindsOnlyInstanceGroup`.

Without inheritance, every pipeline switch would then re-bind both slots. The
early return behind finding 1 is therefore what keeps this workload cheap, so
a fix should compare with the last *set* layout rather than drop the return.

### TextureViewGL

`TextureViewGL.tla` models the GL names of an OpenGL texture and its views
(`TextureGL.cpp`):
* `Init` is the texture constructor. `GenTexture` hands out a name, and
  `BindTexture(mTarget, ...)` gives it the target that `TargetForTexture`
  computes from the descriptor. The descriptor is chosen from
  `TextureDescriptors`.
* `CreateView` is the `TextureView` constructor. It takes its target from
  `TargetForTextureViewDimension`. Its handle is one of three:
  * 0, when `UsageNeedsTextureView` is false;
  * the texture's own name, when `RequiresCreatingNewTextureView` is false;
  * otherwise a new name made by `glTextureView` with the view's target,
    which the view owns.
* `ReleaseView` is `~TextureView`, which deletes the name only if the view owns
  it (`ViewDeletes`).
* `DestroyTexture` (the user's `Destroy`) and `FreeTexture` (`~Texture`) run
  `DestroyImpl`, which deletes the texture's name. `FreeTexture` follows the
  release of every view, because a view holds a reference to its texture.
* `BindView` is the GL command buffer binding a sampled view with
  `BindTexture(GetGLTarget(), GetHandle())`.

GL is modelled by `glTarget` (the target each name was created with) and
`deletes` (a history of `DeleteTextures` calls per name). Frontend validation
is not in this repository, and `ViewDescriptors` models it:
* a 2D view has one layer, a cube view six, and a cube-array view a multiple
  of six;
* a multisampled texture only has 2D views.

The view format always equals the texture format, so the format comparison of
`RequiresCreatingNewTextureView` never holds and is left out.

Bounds: two views over each of three textures. The six-layer, two-level
texture reaches every dimension and both the reuse and the create paths. The
multisampled texture and the attachment-only texture (handle 0) cover the
other branches (1.3k states).

| Run | Expect | Properties | What it shows |
|---|---|---|---|
| `texture_views` | pass | NamesDeletedOnce, ViewBindingIsValid | every bound view binds a live name with the target it was created with, and every name is deleted exactly once in any order of `Destroy`, `~TextureView` and `~Texture` |
| `texture_view_2darray` | violation | ViewBindingIsValid | finding 6 |

Mutants:
* dropping the cube case of `RequiresCreatingNewTextureView` breaks
  `ViewBindingIsValid`;
* deleting the handle in `~TextureView` whether or not the view owns it breaks
  `NamesDeletedOnce`.

### VulkanResources (composition with the device)

`VulkanResources.tla` models `vulkan/SamplerVk.cpp` and `vulkan/SwapChainVk.cpp`.
The device, `FencedDeleter`, `Queue` and `TextureVk` are not in this repository.
They are modelled as the environment, after the Vulkan backend of the same
Dawn revision (the module header lists what is assumed of them).

* `sampler[s]` holds each `Sampler`'s state and `mHandle`. `vk[h]` is the
  driver's object behind handle value `h` (its `VkSamplerCreateInfo`), or
  `Free`. Handle values are reused once destroyed.
* `VulkanSamplerAddressMode`, `VulkanSamplerFilter` and `VulkanMipMapMode`
  are the conversions, and `CreateInfo` is the create info that `Initialize`
  builds from them.
* `CreateSampler` is `Create` with a successful `Initialize`.
* `CreateSamplerFails` is a failed `vkCreateSampler`. `DAWN_TRY` returns the
  error, and the `unique_ptr` runs `~Sampler` (`SamplerDestructor`) on
  whatever the call left in `mHandle`.
* `ReleaseSampler` is `~Sampler` when the last reference is dropped.
* `UseSampler` is a `Queue::Submit` whose commands use `GetHandle()`.
* The device side is four actions:
  * `RecordPendingWork`: an upload left in the pending context;
  * `SubmitPendingCommands`;
  * `GpuCompletes`: a fence passes;
  * `Tick`: `FencedDeleter::Tick`, then a submit of the pending context.
* `GetNextTextureImpl` either reports the implementation's error through
  `HandleError` or wraps a new image. `RenderToTexture` is a submitted
  render pass. `OnBeforePresent` transitions to `mTextureUsage` and submits.
* `retired` is a history variable. It holds `<<h, serial>>` for each
  `~Sampler` of `h` that the driver has not yet destroyed.

Bounds: 2 samplers and 2 handle values, so creation can run out of handles,
fail, and reuse a handle destroyed earlier. There are 2 descriptors (one of
them a comparison sampler) and serials up to 3, which is enough for a use, a
release and a later submit that lets the deletion proceed (69k states).

| Run | Expect | Properties | What it shows |
|---|---|---|---|
| `vulkan_sampler_swapchain` | pass | TypeOK, NoDestroyWhileInUse, RetiredSamplersDestroyed | no `VkSampler` is destroyed while submitted work or a live sampler uses it; every released handle is destroyed once its serial has been submitted, with the swap chain's presents also submitting the shared pending context |

Mutants:
* dropping the `VK_NULL_HANDLE` check of `~Sampler` breaks `TypeOK`, which
  queues a null handle;
* destroying the handle in `~Sampler` at once breaks `NoDestroyWhileInUse`;
* not handing it to the deleter breaks `RetiredSamplersDestroyed`.

No property is stated about the present itself. `OnBeforePresent` records the
barrier and submits in one call, which is one step of the model, so such a
property would only restate that step.

Vulkan leaves the output of a failed `vkCreateSampler` undefined. The run
assumes that the driver leaves `mHandle` untouched (`FailedCreateOutputs =
{NULL}`). With `FailedCreateOutputs = {NULL} \cup Handles`,
`NoDestroyWhileInUse` fails: a failed create of one sampler queues another
live sampler's handle, and `Tick` destroys it. This is listed as a hazard
(`SamplerVk.cpp:90`) rather than a finding, because the value written is up
to the driver.

### Findings

1. **Switching back to the last applied layout keeps a stale mask**
   (`BindGroupTracker.h:65`). The early return `if (mLastAppliedPipelineLayout ==
   mPipelineLayout) return;` skips the update of `mBindGroupLayoutsMask`. An
   intermediate `OnSetPipeline` that was never drawn with may already have
   changed the mask and the dirty bits. TLC's trace: draw with PC; set G2a at
   slot 1 with a new offset (dirty); `SetPipeline(PD)` clears slot 1's dirty bit
   (PD does not use slot 1); `SetPipeline(PC)` returns early with PD's mask; the
   draw with PC binds nothing at slot 1, and the GPU reads the old offset. The
   tests switch between layouts of equal size only, so this sequence is not
   exercised.
   The same early return has a second symptom: the backend is asked to bind
   a slot the layout does not have. With PD applied, `SetPipeline(PA)` dirties slot 1, and
   `SetPipeline(PD)` returns early, keeping PA's mask and the dirty bit. The next
   draw with PD asks the backend to bind slot 1 (PD has one set) with a bind
   group that was never set (null).

2. **The map status from the server is not validated**
   (`ClientDoers.cpp:112`, `:176`). `DoDeviceUncapturedErrorCallback` rejects an
   error type outside the enum, but both map doers pass the reply's `uint32_t`
   status to the user callback through `static_cast<DawnBufferMapAsyncStatus>`.
   One forged reply with an out-of-range status reaches the callback as a
   value that names no enumerator.

3. **A range clear zeroes data already written** (`TextureGL.cpp:309`).
   `IsSubresourceContentInitialized` is true only if the whole range is
   initialised. When part of the range is initialised, `ClearTexture` zeroes
   the whole range, including subresources that hold user data.
4. **Depth/stencil clears level 0 only** (`TextureGL.cpp:212`). The lazy
   clear of level 1 zeroes level 0 and leaves level 1 uncleared, yet marks it
   initialised. A partial write to level 1 then leaves garbage that reads back.
5. **A failed clear is marked initialised** (`TextureGL.cpp:316`). The
   staging-buffer clear can fail (map failure, or a size above uint32). Its error
   is consumed, and the range is still marked initialised, so garbage is read.
   `texture_clear_failure` creates a one-subresource texture of a
   non-renderable format with allocation failures allowed. TLC's trace is one
   partial write: the staging buffer cannot be made, the write lands on the
   uncleared texels (content "mixed"), and the subresource is marked
   initialised, so TextureContent's zero-or-written promise is broken. The
   compressed path (`:188`) returns before clearing anything and then goes
   through the same marking; the run does not check that format.

6. **A 2D-array view of a single-layer texture cannot be bound**
   (`TextureGL.cpp:92`). `RequiresCreatingNewTextureView` forces a new view
   only for the cube dimensions. A 2D-array view that covers the one layer and
   every level therefore reuses the texture's name, which was created with
   `GL_TEXTURE_2D`. The command buffer binds it with `GL_TEXTURE_2D_ARRAY`,
   which is `GL_INVALID_OPERATION`, and the view cannot be sampled.

Finding 1 disappears if the mask update and dirtying are done whenever the
layout changes from the last *set* one, or at apply time.

## 4. Fairness

The tracker runs synchronously on one thread, and no step of it is promised
to happen, so its runs state no fairness and check safety only.

`WireClientMap` checks `EveryRequestAnswered` under weak fairness of four
actions:

* the server handling its next command;
* each pending native map completing;
* the client handling its next reply;
* `Teardown` after a doer failed.

The first three are the wire protocol's promise that commands and replies
are eventually processed, which the comment at `ClientDoers.cpp:106` relies
on. The fourth is the embedder's duty: after a fatal error the client handles
no more replies, so it is torn down, and that fires every callback still
outstanding. No fairness is assumed for the user's `MapAsync`, `Unmap` or
`Destroy`, nor for the forged reply of a misbehaving server. Liveness holds
even with a forged reply, because the honest replies are still processed.

`VulkanResources` checks `RetiredSamplersDestroyed` under weak fairness of
`GpuCompletes` and `Tick`. The GPU finishes submitted work. Dawn requires the
application to keep calling `Device::Tick` for deferred work to progress, and
`Tick` is always enabled. No fairness is assumed for the user's creates, uses,
releases and presents, so the property only promises destruction once the
serial the handle waits for has been submitted.

`TextureViewGL` states no fairness. Its lifetimes are the user's choice,
so it checks safety only.

## 5. Not modelled, and why

* Native API semantics beyond bind-set retention (descriptor contents, pixels).
* ErrorData/ErrorScope, CommandRecordingContext and BuddyMemoryAllocator:
  enum mappings or headers without implementation (see `PROJECT.json`
  components).
* The Vulkan device, `FencedDeleter` and `TextureVk` themselves: they are not
  in this repository and appear only as the environment of `VulkanResources`.
  The same holds for the swap chain implementation's `Init`/`GetNextTexture`/
  `Present` callbacks. Its error is a nondeterministic choice.
* The wire serialization itself, `Client::HandleCommands`, the client `Buffer`
  and the server: they are not in this repository and appear only as the
  environment of the doers. The same holds for fences and error scopes, whose
  doers only forward to `Fence`/`Device` code that is absent.
* The external-ownership path of the wrapped-handle texture constructor. Whether
  `DestroyImpl` runs for it is decided in `TextureBase`, which is not in this
  repository.
* Animometer's shaders, random per-triangle data, uniform updates and
  command-line parsing (see the `:287` hazard in `PROJECT.json`).
* Offsets of 2^32 and above (the Vulkan narrowing, hazard `BindGroupTracker.h:124`).
  The code's own comment admits that truncation is wrong ("it is not
  correct"). Offsets counted in 256-byte alignment units would fit TLC's
  integers, but the run would have to be one more violation run of
  `BoundAtDraw`.
