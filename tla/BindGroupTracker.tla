-------------------------- MODULE BindGroupTracker --------------------------
(***************************************************************************)
(* BindGroupTrackerBase (src/src/dawn_native/BindGroupTracker.h): the      *)
(* per-pass dirty-bit tracker that decides, at each draw or dispatch,      *)
(* which bind group slots the backend must re-bind natively.               *)
(*                                                                         *)
(* The tracker is composed with the two things it is a cache of:           *)
(*   - the frontend validation that only lets valid command streams reach  *)
(*     the backend (bind group layouts match the pipeline layout, dynamic  *)
(*     offset count matches), and                                          *)
(*   - the native binding state of the backend command list, written by    *)
(*     the backend's Apply step for exactly the slots the tracker reports  *)
(*     dirty.                                                              *)
(* std::bitset<kMaxBindGroups> is modelled as a subset of Slots.           *)
(***************************************************************************)
EXTENDS Naturals, Sequences, FiniteSets

CONSTANTS
    kMaxBindGroups,          \* number of bind group slots
    MaxDynamicOffsets,       \* length of each per-slot dynamic offset array
    BindGroupLayouts,        \* BindGroupLayout objects (model values)
    NoBindGroupLayout,       \* a pipeline layout slot that is unused
    PipelineLayouts,         \* PipelineLayout objects (model values)
    Layout,                  \* Layout[pl][i]: the BindGroupLayout of slot i of pl
    BindGroups,              \* BindGroup objects (model values)
    BindGroupLayoutOf,       \* the layout each bind group was created with
    DynamicCount,            \* number of dynamic bindings of each layout
    DynamicOffsetValues,     \* the dynamic offsets the user may pass
    Specialisations,         \* the values of CanInheritBindGroups built in
    NULL

Slots == 0 .. kMaxBindGroups - 1

ASSUME kMaxBindGroups \in Nat \ {0}
ASSUME Layout \in [PipelineLayouts -> [Slots -> BindGroupLayouts \cup {NoBindGroupLayout}]]
ASSUME BindGroupLayoutOf \in [BindGroups -> BindGroupLayouts]
ASSUME DynamicCount \in [BindGroupLayouts -> 0 .. MaxDynamicOffsets]
\* 0 is the value-initialised offset; every value fits in uint32_t, so the
\* Vulkan specialisation of SetDynamicOffsets copies it like the memcpy one.
ASSUME 0 \in DynamicOffsetValues /\ DynamicOffsetValues \subseteq Nat
ASSUME Specialisations \subseteq BOOLEAN /\ Specialisations # {}

VARIABLES
    dirtyBindGroups,
    dirtyBindGroupsObjectChangedOrIsDynamic,
    bindGroupLayoutsMask,
    bindGroups,
    dynamicOffsetCounts,
    dynamicOffsets,
    pipelineLayout,
    lastAppliedPipelineLayout,
    native,         \* native[i]: what the backend last bound at slot i
    CanInheritBindGroups    \* the template parameter (TRUE: Vulkan), fixed
                            \* for the lifetime of a tracker's backend

tracker == <<dirtyBindGroups, dirtyBindGroupsObjectChangedOrIsDynamic,
             bindGroupLayoutsMask, bindGroups, dynamicOffsetCounts,
             dynamicOffsets, pipelineLayout, lastAppliedPipelineLayout>>
vars == <<tracker, native, CanInheritBindGroups>>

OffsetArray == [1 .. MaxDynamicOffsets -> DynamicOffsetValues]
NativeBinding == [group : BindGroups, offsets : Seq(DynamicOffsetValues),
                  layout : PipelineLayouts]

(***************************************************************************)
(* PipelineLayoutBase                                                      *)
(***************************************************************************)
\* The slots a pipeline layout uses.
GetBindGroupLayoutsMask(pl) == {i \in Slots : Layout[pl][i] # NoBindGroupLayout}

\* Mutant: InheritedGroupsMask that also keeps the first diverging slot.
InheritedGroupsMask_OffByOne(pl, other) ==
    {i \in Slots : \A j \in 0 .. i - 1 : Layout[pl][j] = Layout[other][j]}

\* Slot i may be inherited iff slots 0..i have identical BindGroupLayouts.
InheritedGroupsMask(pl, other) ==
    {i \in Slots : \A j \in 0 .. i : Layout[pl][j] = Layout[other][j]}

(***************************************************************************)
(* The native binding model: a binding made with layout q is usable by a   *)
(* draw with layout p if the backend keeps it across the change q -> p.    *)
(* Vulkan keeps the compatible prefix; the other backends keep nothing     *)
(* across a pipeline layout change.                                        *)
(***************************************************************************)
Usable(q, p, i) ==
    IF CanInheritBindGroups
      THEN \A j \in 0 .. i : Layout[q][j] = Layout[p][j]
      ELSE q = p

\* The offsets of slot i the backend passes: the first count entries.
CurrentOffsets(i) == SubSeq(dynamicOffsets[i], 1, dynamicOffsetCounts[i])

\* Slot i is natively bound to the group and offsets the user set, in a way
\* usable by the pipeline layout p.
BoundCorrectly(nat, i, p) ==
    /\ nat[i] # NULL
    /\ nat[i].group = bindGroups[i]
    /\ nat[i].offsets = CurrentOffsets(i)
    /\ Usable(nat[i].layout, p, i)

(***************************************************************************)
(* BindGroupTrackerBase                                                    *)
(***************************************************************************)
Init ==
    /\ dirtyBindGroups = {}
    /\ dirtyBindGroupsObjectChangedOrIsDynamic = {}
    /\ bindGroupLayoutsMask = {}
    /\ bindGroups = [i \in Slots |-> NULL]
    /\ dynamicOffsetCounts = [i \in Slots |-> 0]
    /\ dynamicOffsets = [i \in Slots |-> [k \in 1 .. MaxDynamicOffsets |-> 0]]
    /\ pipelineLayout = NULL
    /\ lastAppliedPipelineLayout = NULL
    /\ native = [i \in Slots |-> NULL]
    /\ CanInheritBindGroups \in Specialisations

\* Mutant: SetDynamicOffsets that copies nothing (a zero-length memcpy).
SetDynamicOffsets_NoCopy(data, count, offsets) == data

\* SetDynamicOffsets: copies the first count offsets, leaves the rest.
SetDynamicOffsets(data, count, offsets) ==
    [k \in DOMAIN data |-> IF k <= count THEN offsets[k] ELSE data[k]]

(***************************************************************************)
(* Mutants: plausible slips in the code below, used to show that the       *)
(* properties can detect them.                                             *)
(***************************************************************************)
\* OnSetBindGroup without the dirtying of a slot given dynamic offsets.
OnSetBindGroup_NoDynamicDirty(index, bindGroup, offsets) ==
    LET count == Len(offsets) IN
    /\ count = DynamicCount[BindGroupLayoutOf[bindGroup]]
    /\ IF index \in bindGroupLayoutsMask /\ bindGroups[index] # bindGroup
         THEN /\ dirtyBindGroups' = dirtyBindGroups \cup {index}
              /\ dirtyBindGroupsObjectChangedOrIsDynamic' =
                     dirtyBindGroupsObjectChangedOrIsDynamic \cup {index}
         ELSE UNCHANGED <<dirtyBindGroups, dirtyBindGroupsObjectChangedOrIsDynamic>>
    /\ bindGroups' = [bindGroups EXCEPT ![index] = bindGroup]
    /\ dynamicOffsetCounts' = [dynamicOffsetCounts EXCEPT ![index] = count]
    /\ dynamicOffsets' = [dynamicOffsets EXCEPT
                            ![index] = SetDynamicOffsets(@, count, offsets)]
    /\ UNCHANGED <<bindGroupLayoutsMask, pipelineLayout, lastAppliedPipelineLayout, native>>

\* OnSetBindGroup that sets only mDirtyBindGroups when the object changes.
OnSetBindGroup_NoObjectDirty(index, bindGroup, offsets) ==
    LET count == Len(offsets) IN
    /\ count = DynamicCount[BindGroupLayoutOf[bindGroup]]
    /\ IF index \in bindGroupLayoutsMask
         THEN /\ dirtyBindGroups' = dirtyBindGroups \cup
                    (IF bindGroups[index] # bindGroup THEN {index} ELSE {})
              /\ dirtyBindGroupsObjectChangedOrIsDynamic' =
                    dirtyBindGroupsObjectChangedOrIsDynamic \cup
                    (IF count > 0 THEN {index} ELSE {})
         ELSE UNCHANGED <<dirtyBindGroups, dirtyBindGroupsObjectChangedOrIsDynamic>>
    /\ bindGroups' = [bindGroups EXCEPT ![index] = bindGroup]
    /\ dynamicOffsetCounts' = [dynamicOffsetCounts EXCEPT ![index] = count]
    /\ dynamicOffsets' = [dynamicOffsets EXCEPT
                            ![index] = SetDynamicOffsets(@, count, offsets)]
    /\ UNCHANGED <<bindGroupLayoutsMask, pipelineLayout, lastAppliedPipelineLayout, native>>

\* OnSetPipeline without "Clear any bind groups not in the mask".
OnSetPipeline_NoMaskClear(pl) ==
    /\ pipelineLayout' = pl
    /\ IF lastAppliedPipelineLayout = pl
         THEN UNCHANGED <<dirtyBindGroups, dirtyBindGroupsObjectChangedOrIsDynamic,
                          bindGroupLayoutsMask>>
         ELSE LET mask == GetBindGroupLayoutsMask(pl) IN
              /\ bindGroupLayoutsMask' = mask
              /\ IF CanInheritBindGroups /\ lastAppliedPipelineLayout # NULL
                   THEN LET dirtiedGroups ==
                                Slots \ InheritedGroupsMask(pl, lastAppliedPipelineLayout)
                        IN /\ dirtyBindGroups' = dirtyBindGroups \cup dirtiedGroups
                           /\ dirtyBindGroupsObjectChangedOrIsDynamic' =
                                dirtyBindGroupsObjectChangedOrIsDynamic \cup dirtiedGroups
                   ELSE /\ dirtyBindGroups' = mask
                        /\ dirtyBindGroupsObjectChangedOrIsDynamic' = mask
    /\ UNCHANGED <<bindGroups, dynamicOffsetCounts, dynamicOffsets,
                   lastAppliedPipelineLayout, native>>

\* OnSetPipeline that dirties every slot, not the layout's, without inheritance.
OnSetPipeline_DirtyAllSlots(pl) ==
    /\ pipelineLayout' = pl
    /\ IF lastAppliedPipelineLayout = pl
         THEN UNCHANGED <<dirtyBindGroups, dirtyBindGroupsObjectChangedOrIsDynamic,
                          bindGroupLayoutsMask>>
         ELSE LET mask == GetBindGroupLayoutsMask(pl) IN
              /\ bindGroupLayoutsMask' = mask
              /\ IF CanInheritBindGroups /\ lastAppliedPipelineLayout # NULL
                   THEN LET dirtiedGroups ==
                                Slots \ InheritedGroupsMask(pl, lastAppliedPipelineLayout)
                        IN /\ dirtyBindGroups' = (dirtyBindGroups \cup dirtiedGroups) \cap mask
                           /\ dirtyBindGroupsObjectChangedOrIsDynamic' =
                                (dirtyBindGroupsObjectChangedOrIsDynamic \cup dirtiedGroups) \cap mask
                   ELSE /\ dirtyBindGroups' = Slots
                        /\ dirtyBindGroupsObjectChangedOrIsDynamic' = Slots
    /\ UNCHANGED <<bindGroups, dynamicOffsetCounts, dynamicOffsets,
                   lastAppliedPipelineLayout, native>>

\* OnSetBindGroup(index, bindGroup, dynamicOffsetCount, dynamicOffsets).
\* The frontend only lets a call with as many offsets as the group's
\* layout has dynamic bindings reach the backend.
OnSetBindGroup(index, bindGroup, offsets) ==
    LET count == Len(offsets) IN
    /\ count = DynamicCount[BindGroupLayoutOf[bindGroup]]
    /\ IF index \in bindGroupLayoutsMask
         THEN LET changed == IF bindGroups[index] # bindGroup THEN {index} ELSE {}
                  dynamic == IF count > 0 THEN {index} ELSE {}
              IN /\ dirtyBindGroups' = dirtyBindGroups \cup changed
                 /\ dirtyBindGroupsObjectChangedOrIsDynamic' =
                        dirtyBindGroupsObjectChangedOrIsDynamic \cup changed \cup dynamic
         ELSE UNCHANGED <<dirtyBindGroups, dirtyBindGroupsObjectChangedOrIsDynamic>>
    /\ bindGroups' = [bindGroups EXCEPT ![index] = bindGroup]
    /\ dynamicOffsetCounts' = [dynamicOffsetCounts EXCEPT ![index] = count]
    /\ dynamicOffsets' = [dynamicOffsets EXCEPT
                            ![index] = SetDynamicOffsets(@, count, offsets)]
    /\ UNCHANGED <<bindGroupLayoutsMask, pipelineLayout, lastAppliedPipelineLayout, native>>

\* OnSetPipeline without the early return for the last applied layout.
OnSetPipeline_NoEarlyReturn(pl) ==
    LET mask == GetBindGroupLayoutsMask(pl) IN
    /\ pipelineLayout' = pl
    /\ bindGroupLayoutsMask' = mask
    /\ IF CanInheritBindGroups /\ lastAppliedPipelineLayout # NULL
         THEN LET dirtiedGroups == Slots \ InheritedGroupsMask(pl, lastAppliedPipelineLayout)
              IN /\ dirtyBindGroups' = (dirtyBindGroups \cup dirtiedGroups) \cap mask
                 /\ dirtyBindGroupsObjectChangedOrIsDynamic' =
                        (dirtyBindGroupsObjectChangedOrIsDynamic \cup dirtiedGroups) \cap mask
         ELSE /\ dirtyBindGroups' = mask
              /\ dirtyBindGroupsObjectChangedOrIsDynamic' = mask
    /\ UNCHANGED <<bindGroups, dynamicOffsetCounts, dynamicOffsets,
                   lastAppliedPipelineLayout, native>>

\* OnSetPipeline(pipeline), with pl = pipeline->GetLayout().
OnSetPipeline(pl) ==
    /\ pipelineLayout' = pl
    /\ IF lastAppliedPipelineLayout = pl
         THEN UNCHANGED <<dirtyBindGroups, dirtyBindGroupsObjectChangedOrIsDynamic,
                          bindGroupLayoutsMask>>
         ELSE LET mask == GetBindGroupLayoutsMask(pl) IN
              /\ bindGroupLayoutsMask' = mask
              /\ IF CanInheritBindGroups /\ lastAppliedPipelineLayout # NULL
                   THEN LET dirtiedGroups ==
                                Slots \ InheritedGroupsMask(pl, lastAppliedPipelineLayout)
                        IN /\ dirtyBindGroups' = (dirtyBindGroups \cup dirtiedGroups) \cap mask
                           /\ dirtyBindGroupsObjectChangedOrIsDynamic' =
                                (dirtyBindGroupsObjectChangedOrIsDynamic \cup dirtiedGroups) \cap mask
                   ELSE /\ dirtyBindGroups' = mask
                        /\ dirtyBindGroupsObjectChangedOrIsDynamic' = mask
    /\ UNCHANGED <<bindGroups, dynamicOffsetCounts, dynamicOffsets,
                   lastAppliedPipelineLayout, native>>

\* DidApply: the single commit point after the backend bound the dirty slots.
DidApply ==
    /\ dirtyBindGroups' = {}
    /\ dirtyBindGroupsObjectChangedOrIsDynamic' = {}
    /\ lastAppliedPipelineLayout' = pipelineLayout

\* The frontend's draw-time validation: a pipeline is set and every slot its
\* layout uses holds a bind group created with that slot's layout.
DrawIsValid ==
    /\ pipelineLayout # NULL
    /\ \A i \in GetBindGroupLayoutsMask(pipelineLayout) :
          /\ bindGroups[i] # NULL
          /\ BindGroupLayoutOf[bindGroups[i]] = Layout[pipelineLayout][i]

\* The backend's Apply: bind every slot of
\* dirtyBindGroupsObjectChangedOrIsDynamic with the current layout.
ApplyBindGroups ==
    native' = [i \in Slots |->
                 IF i \in dirtyBindGroupsObjectChangedOrIsDynamic
                   THEN [group |-> bindGroups[i], offsets |-> CurrentOffsets(i),
                         layout |-> pipelineLayout]
                   ELSE native[i]]

\* Draw or Dispatch: validate, apply the dirty slots, then DidApply.
Draw ==
    /\ DrawIsValid
    /\ ApplyBindGroups
    /\ DidApply
    /\ UNCHANGED <<bindGroupLayoutsMask, bindGroups, dynamicOffsetCounts,
                   dynamicOffsets, pipelineLayout>>

\* The member initializers of a new tracker.
ResetTracker ==
    /\ dirtyBindGroups' = {}
    /\ dirtyBindGroupsObjectChangedOrIsDynamic' = {}
    /\ bindGroupLayoutsMask' = {}
    /\ bindGroups' = [i \in Slots |-> NULL]
    /\ dynamicOffsetCounts' = [i \in Slots |-> 0]
    /\ dynamicOffsets' = [i \in Slots |-> [k \in 1 .. MaxDynamicOffsets |-> 0]]
    /\ pipelineLayout' = NULL
    /\ lastAppliedPipelineLayout' = NULL

\* A new pass gets a fresh tracker; the command list keeps its bindings.
BeginPass == ResetTracker /\ UNCHANGED native

Next ==
    /\ \/ \E i \in Slots, g \in BindGroups :
             \E offs \in [1 .. DynamicCount[BindGroupLayoutOf[g]] -> DynamicOffsetValues] :
                OnSetBindGroup(i, g, offs)
       \/ \E pl \in PipelineLayouts : OnSetPipeline(pl)
       \/ Draw
       \/ BeginPass
    \* The backend, and so the specialisation, never changes.
    /\ UNCHANGED CanInheritBindGroups

Spec == Init /\ [][Next]_vars

(***************************************************************************)
(* Invariants and properties                                               *)
(***************************************************************************)
TypeOK ==
    /\ dirtyBindGroups \subseteq Slots
    /\ dirtyBindGroupsObjectChangedOrIsDynamic \subseteq Slots
    /\ bindGroupLayoutsMask \subseteq Slots
    /\ bindGroups \in [Slots -> BindGroups \cup {NULL}]
    /\ dynamicOffsetCounts \in [Slots -> 0 .. MaxDynamicOffsets]
    /\ dynamicOffsets \in [Slots -> OffsetArray]
    /\ pipelineLayout \in PipelineLayouts \cup {NULL}
    /\ lastAppliedPipelineLayout \in PipelineLayouts \cup {NULL}
    /\ native \in [Slots -> NativeBinding \cup {NULL}]
    /\ CanInheritBindGroups \in Specialisations

\* Every slot the tracker treats as clean (used by its mask, not in
\* dirtyBindGroupsObjectChangedOrIsDynamic) is already natively bound to the
\* group and offsets the user set, through a binding the backend keeps for
\* the current pipeline layout: the assumption under which Apply skips it.
CleanSlotsBound ==
    pipelineLayout # NULL =>
        \A i \in bindGroupLayoutsMask \ dirtyBindGroupsObjectChangedOrIsDynamic :
            BoundCorrectly(native, i, pipelineLayout)

\* Every draw or dispatch runs with each slot of its pipeline layout natively
\* bound to the bind group and dynamic offsets last set by the user, through
\* a binding the backend keeps for this layout (OnSetBindGroup,
\* OnSetPipeline and DidApply together decide which slots are re-bound).
BoundAtDraw ==
    [][Draw => \A i \in GetBindGroupLayoutsMask(pipelineLayout) :
                  BoundCorrectly(native', i, pipelineLayout)]_vars

\* The backend is never asked to bind a slot the current pipeline layout
\* does not have: the dirty slots Apply iterates are always slots of the
\* layout set by the last OnSetPipeline.
NoSpuriousApply ==
    [][Draw => dirtyBindGroupsObjectChangedOrIsDynamic
                 \subseteq GetBindGroupLayoutsMask(pipelineLayout)]_vars

=============================================================================
