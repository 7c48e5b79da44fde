------------------------- MODULE MC_VulkanResources -------------------------
(* Descriptors and driver behaviour for checking VulkanResources.          *)
EXTENDS VulkanResources

\* A comparison sampler for shadow maps and a plain linear, repeating one.
MCSamplerDescriptors ==
    {[magFilter |-> "Linear", minFilter |-> "Linear", mipmapFilter |-> "Nearest",
      addressModeU |-> "Repeat", addressModeV |-> "MirrorRepeat",
      addressModeW |-> "ClampToEdge", compare |-> "Never",
      lodMinClamp |-> 0, lodMaxClamp |-> 1000],
     [magFilter |-> "Nearest", minFilter |-> "Nearest", mipmapFilter |-> "Linear",
      addressModeU |-> "ClampToEdge", addressModeV |-> "ClampToEdge",
      addressModeW |-> "ClampToEdge", compare |-> "LessEqual",
      lodMinClamp |-> 0, lodMaxClamp |-> 1000]}

\* A failed vkCreateSampler leaves mHandle as it was (VK_NULL_HANDLE).
MCUntouchedOutput == {NULL}
=============================================================================
