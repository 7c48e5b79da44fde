-------------------------- MODULE VulkanResources --------------------------
(***************************************************************************)
(* Vulkan backend objects whose native lifetime follows the device's       *)
(* command serials (src/src/dawn_native/vulkan/): the Sampler              *)
(* (SamplerVk.cpp: Create, Initialize, ~Sampler, GetHandle) and the        *)
(* SwapChain (SwapChainVk.cpp: constructor, GetNextTextureImpl,            *)
(* OnBeforePresent).                                                       *)
(*                                                                         *)
(* The two meet at the device. Device, FencedDeleter, Queue and TextureVk  *)
(* are not in this repository; they are the environment, modelled as the   *)
(* Vulkan backend of the same Dawn revision behaves:                       *)
(*  - commands are recorded into a pending recording context; a            *)
(*    SubmitPendingCommands with a used context submits it as serial       *)
(*    lastSubmittedSerial + 1 (GetPendingCommandSerial);                   *)
(*  - Queue::Submit records a command buffer and submits it at once;       *)
(*    uploads (SetSubData) only record into the pending context;           *)
(*  - the GPU completes serials in order, and CheckPassedFences raises      *)
(*    completedSerial;                                                     *)
(*  - FencedDeleter::DeleteWhenUnused(h) queues h with the pending serial,  *)
(*    and Device::Tick runs FencedDeleter::Tick(completedSerial), which    *)
(*    calls vkDestroySampler on every queued handle whose serial is        *)
(*    completed, then submits the pending context if it is used;          *)
(*  - Texture::TransitionUsageNow records a barrier unless the texture is  *)
(*    already in that usage.                                               *)
(***************************************************************************)
EXTENDS Naturals, FiniteSets

CONSTANTS
    Samplers,               \* Sampler objects the user may create
    Handles,                \* VkSampler values the driver may hand out
    NULL,                   \* VK_NULL_HANDLE
    Free,                   \* no driver object behind a handle value
    SamplerDescriptors,     \* descriptors Device::CreateSampler is called with
    FailedCreateOutputs,    \* what a failed vkCreateSampler leaves in mHandle
    TextureUsage,           \* im.textureUsage of the swap chain implementation
    MaxSerial               \* bound on the device's command serials

AddressModes == {"Repeat", "MirrorRepeat", "ClampToEdge"}
FilterModes == {"Linear", "Nearest"}
CompareFunctions == {"Never", "Less", "LessEqual", "Greater", "GreaterEqual",
                     "Equal", "NotEqual", "Always"}
TextureUsages == {"None", "OutputAttachment", "Present"}

ASSUME /\ SamplerDescriptors \subseteq
              [magFilter : FilterModes, minFilter : FilterModes, mipmapFilter : FilterModes,
               addressModeU : AddressModes, addressModeV : AddressModes,
               addressModeW : AddressModes, compare : CompareFunctions,
               lodMinClamp : Nat, lodMaxClamp : Nat]
       /\ NULL \notin Handles /\ NULL \in FailedCreateOutputs
       /\ FailedCreateOutputs \subseteq Handles \cup {NULL}
       /\ TextureUsage \in TextureUsages /\ MaxSerial \in Nat \ {0}

VARIABLES
    sampler,                \* sampler[s]: [state, handle]; handle is mHandle
    vk,                     \* vk[h]: the driver's sampler object, or Free
    lastSubmittedSerial,    \* Device: serial of the last vkQueueSubmit
    completedSerial,        \* Device: last serial whose fence passed
    pendingUsed,            \* Device: mRecordingContext.used
    lastUse,                \* lastUse[h]: last serial whose commands use h
    deleter,                \* FencedDeleter: queued [handle, serial] pairs
    retired,                \* history: <<h, pending serial>> of each ~Sampler of h
                            \* whose h the driver has not destroyed since
    scTexture,              \* the swap chain's current texture: [state, usage]
    uncapturedError         \* an error was reported through HandleError

vars == <<sampler, vk, lastSubmittedSerial, completedSerial, pendingUsed,
          lastUse, deleter, retired, scTexture, uncapturedError>>

Serials == 0 .. MaxSerial
VkFilters == {"VK_FILTER_LINEAR", "VK_FILTER_NEAREST"}
VkMipmapModes == {"VK_SAMPLER_MIPMAP_MODE_LINEAR", "VK_SAMPLER_MIPMAP_MODE_NEAREST"}
VkAddressModes == {"VK_SAMPLER_ADDRESS_MODE_REPEAT", "VK_SAMPLER_ADDRESS_MODE_MIRRORED_REPEAT",
                   "VK_SAMPLER_ADDRESS_MODE_CLAMP_TO_EDGE"}

(***************************************************************************)
(* The enum conversions of the anonymous namespace. A CASE with no OTHER   *)
(* is the UNREACHABLE() of the default label.                              *)
(***************************************************************************)
VulkanSamplerAddressMode(mode) ==
    CASE mode = "Repeat" -> "VK_SAMPLER_ADDRESS_MODE_REPEAT"
      [] mode = "MirrorRepeat" -> "VK_SAMPLER_ADDRESS_MODE_MIRRORED_REPEAT"
      [] mode = "ClampToEdge" -> "VK_SAMPLER_ADDRESS_MODE_CLAMP_TO_EDGE"

VulkanSamplerFilter(filter) ==
    CASE filter = "Linear" -> "VK_FILTER_LINEAR"
      [] filter = "Nearest" -> "VK_FILTER_NEAREST"

VulkanMipMapMode(filter) ==
    CASE filter = "Linear" -> "VK_SAMPLER_MIPMAP_MODE_LINEAR"
      [] filter = "Nearest" -> "VK_SAMPLER_MIPMAP_MODE_NEAREST"

\* ToVulkanCompareOp (UtilsVulkan.cpp, environment).
VkCompareOp == [c \in CompareFunctions |->
                   CASE c = "Never" -> "VK_COMPARE_OP_NEVER"
                     [] c = "Less" -> "VK_COMPARE_OP_LESS"
                     [] c = "LessEqual" -> "VK_COMPARE_OP_LESS_OR_EQUAL"
                     [] c = "Greater" -> "VK_COMPARE_OP_GREATER"
                     [] c = "GreaterEqual" -> "VK_COMPARE_OP_GREATER_OR_EQUAL"
                     [] c = "Equal" -> "VK_COMPARE_OP_EQUAL"
                     [] c = "NotEqual" -> "VK_COMPARE_OP_NOT_EQUAL"
                     [] c = "Always" -> "VK_COMPARE_OP_ALWAYS"]

\* Sampler::Initialize: the VkSamplerCreateInfo built from the descriptor
\* (the fields set to constants are left out).
CreateInfo(d) ==
    [magFilter |-> VulkanSamplerFilter(d.magFilter),
     minFilter |-> VulkanSamplerFilter(d.minFilter),
     mipmapMode |-> VulkanMipMapMode(d.mipmapFilter),
     addressModeU |-> VulkanSamplerAddressMode(d.addressModeU),
     addressModeV |-> VulkanSamplerAddressMode(d.addressModeV),
     addressModeW |-> VulkanSamplerAddressMode(d.addressModeW),
     compareOp |-> VkCompareOp[d.compare],
     compareEnable |-> VkCompareOp[d.compare] # "VK_COMPARE_OP_NEVER",
     minLod |-> d.lodMinClamp, maxLod |-> d.lodMaxClamp]

CreateInfos ==
    [magFilter : VkFilters, minFilter : VkFilters, mipmapMode : VkMipmapModes,
     addressModeU : VkAddressModes, addressModeV : VkAddressModes,
     addressModeW : VkAddressModes, compareOp : {VkCompareOp[c] : c \in CompareFunctions},
     compareEnable : BOOLEAN, minLod : Nat, maxLod : Nat]

(***************************************************************************)
(* The device (environment)                                                *)
(***************************************************************************)
PendingSerial == lastSubmittedSerial + 1    \* GetPendingCommandSerial

\* Device::SubmitPendingCommands after this step's recording: used says
\* whether the pending context holds commands.
SubmitPendingCommands(used) ==
    /\ lastSubmittedSerial' = IF used THEN lastSubmittedSerial + 1 ELSE lastSubmittedSerial
    /\ pendingUsed' = FALSE

\* FencedDeleter::DeleteWhenUnused(h).
DeleteWhenUnused(h) == deleter \cup {[handle |-> h, serial |-> PendingSerial]}

\* A buffer upload recorded into the pending context, not yet submitted.
RecordPendingWork ==
    /\ lastSubmittedSerial < MaxSerial
    /\ pendingUsed' = TRUE
    /\ UNCHANGED <<sampler, vk, lastSubmittedSerial, completedSerial, lastUse,
                   deleter, retired, scTexture, uncapturedError>>

\* The GPU finishes the oldest submitted serial and CheckPassedFences sees it.
GpuCompletes ==
    /\ completedSerial < lastSubmittedSerial
    /\ completedSerial' = completedSerial + 1
    /\ UNCHANGED <<sampler, vk, lastSubmittedSerial, pendingUsed, lastUse,
                   deleter, retired, scTexture, uncapturedError>>

\* Device::Tick: FencedDeleter::Tick(completedSerial), then the pending
\* context is submitted.
Tick ==
    LET ready == {e \in deleter : e.serial <= completedSerial}
        doomed == {e.handle : e \in ready}
    IN /\ vk' = [h \in Handles |-> IF h \in doomed THEN Free ELSE vk[h]]
       /\ deleter' = deleter \ ready
       /\ SubmitPendingCommands(pendingUsed)
       /\ retired' = {r \in retired : r[1] \notin doomed}
       /\ UNCHANGED <<sampler, completedSerial, lastUse, scTexture, uncapturedError>>

(***************************************************************************)
(* The sampler                                                             *)
(***************************************************************************)
\* Mutant: ~Sampler destroys the handle at once instead of deferring it.
SamplerDestructor_Immediate(s, h) ==
    /\ vk' = IF h # NULL THEN [vk EXCEPT ![h] = Free] ELSE vk
    /\ sampler' = [sampler EXCEPT ![s] = [state |-> "gone", handle |-> NULL]]
    /\ UNCHANGED deleter

\* Mutant: ~Sampler forgets to hand the handle to the FencedDeleter.
SamplerDestructor_Leak(s, h) ==
    /\ sampler' = [sampler EXCEPT ![s] = [state |-> "gone", handle |-> NULL]]
    /\ UNCHANGED <<vk, deleter>>

\* Mutant: ~Sampler without the VK_NULL_HANDLE check.
SamplerDestructor_NoNullCheck(s, h) ==
    /\ deleter' = DeleteWhenUnused(h)
    /\ sampler' = [sampler EXCEPT ![s] = [state |-> "gone", handle |-> NULL]]
    /\ UNCHANGED vk

\* Sampler::~Sampler of sampler s whose mHandle is h.
SamplerDestructor(s, h) ==
    /\ deleter' = IF h # NULL THEN DeleteWhenUnused(h) ELSE deleter
    /\ sampler' = [sampler EXCEPT ![s] = [state |-> "gone", handle |-> NULL]]
    /\ UNCHANGED vk

\* What ~Sampler of h adds to the history.
Retire(h) == IF h # NULL THEN retired \cup {<<h, PendingSerial>>} ELSE retired

GetHandle(s) == sampler[s].handle

\* Sampler::Create with a successful Initialize: vkCreateSampler returns a
\* handle the driver does not use for another live sampler.
CreateSampler(s, d) ==
    /\ sampler[s].state = "none"
    /\ \E h \in Handles :
          /\ vk[h] = Free
          /\ vk' = [vk EXCEPT ![h] = CreateInfo(d)]
          /\ sampler' = [sampler EXCEPT ![s] = [state |-> "live", handle |-> h]]
    /\ UNCHANGED <<lastSubmittedSerial, completedSerial, pendingUsed, lastUse,
                   deleter, retired, scTexture, uncapturedError>>

\* Sampler::Create when vkCreateSampler fails (out of memory, or no handle
\* left): CheckVkSuccess gives an error, DAWN_TRY returns it, and the
\* unique_ptr runs ~Sampler on what the call left in mHandle.
CreateSamplerFails(s) ==
    /\ sampler[s].state = "none"
    /\ \E out \in FailedCreateOutputs :
          /\ SamplerDestructor(s, out)
          /\ retired' = Retire(out)
    /\ UNCHANGED <<lastSubmittedSerial, completedSerial, pendingUsed, lastUse,
                   scTexture, uncapturedError>>

\* Queue::Submit of a command buffer whose bind group holds s: its commands,
\* which use GetHandle(), are recorded and submitted at once.
UseSampler(s) ==
    /\ sampler[s].state = "live"
    /\ lastSubmittedSerial < MaxSerial
    /\ lastUse' = [lastUse EXCEPT ![GetHandle(s)] = PendingSerial]
    /\ SubmitPendingCommands(TRUE)
    /\ UNCHANGED <<sampler, vk, completedSerial, deleter, retired, scTexture,
                   uncapturedError>>

\* The last reference to s (user, bind groups, command buffers) is dropped.
ReleaseSampler(s) ==
    /\ sampler[s].state = "live"
    /\ SamplerDestructor(s, sampler[s].handle)
    /\ retired' = Retire(sampler[s].handle)
    /\ UNCHANGED <<lastSubmittedSerial, completedSerial, pendingUsed, lastUse,
                   scTexture, uncapturedError>>

(***************************************************************************)
(* The swap chain                                                          *)
(***************************************************************************)
\* SwapChain::GetNextTextureImpl: im.GetNextTexture either reports an
\* error, which goes to HandleError and gives no texture, or wraps the
\* VkImage in a new Texture, which starts with no usage.
GetNextTextureImpl ==
    /\ scTexture.state = "none"
    /\ \/ /\ uncapturedError' = TRUE
          /\ UNCHANGED scTexture
       \/ /\ scTexture' = [state |-> "acquired", usage |-> "None"]
          /\ UNCHANGED uncapturedError
    /\ UNCHANGED <<sampler, vk, lastSubmittedSerial, completedSerial, pendingUsed,
                   lastUse, deleter, retired>>

\* Queue::Submit of a render pass into the swap chain texture.
RenderToTexture ==
    /\ scTexture.state = "acquired"
    /\ lastSubmittedSerial < MaxSerial
    /\ scTexture' = [scTexture EXCEPT !.usage = "OutputAttachment"]
    /\ SubmitPendingCommands(TRUE)
    /\ UNCHANGED <<sampler, vk, completedSerial, lastUse, deleter, retired,
                   uncapturedError>>

\* SwapChainBase::Present: SwapChain::OnBeforePresent transitions the
\* texture to mTextureUsage in the pending context and submits it; then
\* im.Present hands the image to the presentation engine and the texture
\* is released.
OnBeforePresent ==
    /\ scTexture.state = "acquired"
    /\ lastSubmittedSerial < MaxSerial
    /\ scTexture' = [state |-> "none", usage |-> TextureUsage]
    /\ SubmitPendingCommands(pendingUsed \/ scTexture.usage # TextureUsage)
    /\ UNCHANGED <<sampler, vk, completedSerial, lastUse, deleter, retired,
                   uncapturedError>>

(***************************************************************************)
(* The specification                                                       *)
(***************************************************************************)
\* The device with no sampler yet and a swap chain just constructed:
\* im.Init has run and mTextureUsage is im.textureUsage, which the
\* constructor asserts is not NONE.
Init ==
    /\ TextureUsage # "None"
    /\ sampler = [s \in Samplers |-> [state |-> "none", handle |-> NULL]]
    /\ vk = [h \in Handles |-> Free]
    /\ lastSubmittedSerial = 0 /\ completedSerial = 0 /\ pendingUsed = FALSE
    /\ lastUse = [h \in Handles |-> 0]
    /\ deleter = {} /\ retired = {}
    /\ scTexture = [state |-> "none", usage |-> "None"]
    /\ uncapturedError = FALSE

Next ==
    \/ \E s \in Samplers, d \in SamplerDescriptors : CreateSampler(s, d)
    \/ \E s \in Samplers : CreateSamplerFails(s) \/ UseSampler(s) \/ ReleaseSampler(s)
    \/ RecordPendingWork \/ GpuCompletes \/ Tick
    \/ GetNextTextureImpl \/ RenderToTexture \/ OnBeforePresent

\* The GPU finishes what it was given, and the application keeps calling
\* Device::Tick, as Dawn requires of it for deferred work to progress.
Spec == Init /\ [][Next]_vars /\ WF_vars(GpuCompletes) /\ WF_vars(Tick)

(***************************************************************************)
(* Properties                                                              *)
(***************************************************************************)
TypeOK ==
    /\ sampler \in [Samplers -> [state : {"none", "live", "gone"}, handle : Handles \cup {NULL}]]
    /\ vk \in [Handles -> CreateInfos \cup {Free}]
    /\ lastSubmittedSerial \in Serials /\ completedSerial \in 0 .. lastSubmittedSerial
    /\ pendingUsed \in BOOLEAN
    /\ lastUse \in [Handles -> Serials]
    /\ deleter \subseteq [handle : Handles, serial : 1 .. MaxSerial + 1]
    /\ retired \subseteq Handles \X (1 .. MaxSerial + 1)
    /\ scTexture \in [state : {"none", "acquired"}, usage : TextureUsages]
    /\ uncapturedError \in BOOLEAN

\* No step destroys a VkSampler (the FencedDeleter's vkDestroySampler, or
\* any other) while commands that use it may still run on the GPU, or
\* while a live Sampler still holds it: ~Sampler may run right after a
\* Queue::Submit that uses the handle, and only the pending serial given to
\* DeleteWhenUnused keeps the handle alive until that submission completes.
NoDestroyWhileInUse ==
    [][\A h \in Handles :
          vk[h] # Free /\ vk'[h] = Free =>
              /\ lastUse[h] <= completedSerial
              /\ \A s \in Samplers : sampler'[s].state = "live" => sampler'[s].handle # h]_vars

\* Every handle whose Sampler was destroyed is eventually destroyed in the
\* driver once the serial it waits for has been submitted: ~Sampler does
\* not leak the VkSampler, and FencedDeleter::Tick reaches it.
RetiredSamplersDestroyed ==
    \A h \in Handles, n \in 1 .. MaxSerial + 1 :
        (<<h, n>> \in retired /\ n <= lastSubmittedSerial) ~> vk[h] = Free
=============================================================================
