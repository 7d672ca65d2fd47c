--------------------------- MODULE MCCudaKernels ---------------------------
(* A block of four threads in two warps; loops of one round, of two and of a *)
(* partial one, grids of one block and a partial one; rows of three query      *)
(* heads and one key head of four elements.                                  *)
EXTENDS CudaKernels

MCKernels ==
  [kernel : {"attention", "rmsnorm", "matmul"}, count : {1, 4, 6}]
    \cup [kernel : {"swiglu", "add"}, count : {3, 6}]
    \cup [kernel : {"rope"}, count : {6, 12}]
=============================================================================
