------------------------------ MODULE MCTensor ------------------------------
(* Instances of Tensor for TLC: interchangeable addresses, Buffers and tensors. *)
EXTENDS Tensor, TLC

Symmetry == Permutations(CudaPtr) \cup Permutations(CpuPtr)
              \cup Permutations(Buffers) \cup Permutations(Tensors)
=============================================================================
