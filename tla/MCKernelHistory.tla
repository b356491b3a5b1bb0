-------------------------- MODULE MCKernelHistory --------------------------
(* MCKernel's instances of the kernel with its history. *)
EXTENDS MCKernel, KernelHistory
=============================================================================
