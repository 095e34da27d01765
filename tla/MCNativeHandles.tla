-------------------------- MODULE MCNativeHandles --------------------------
(* All isl and CUDA wrappers, in three slots.                              *)
EXTENDS NativeHandles, CudaOperations, IslLibrary, TLC

AllSignatures == IslSignatures \cup CudaSignatures
AllMembers == IslMembers \cup CudaMembers
Symmetric == Permutations(Slots) \cup Permutations(Natives)
=============================================================================
