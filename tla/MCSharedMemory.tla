--------------------------- MODULE MCSharedMemory ---------------------------
(* Constants of SharedMemoryManager for TLC. *)
EXTENDS SharedMemoryManager

TwoDescriptors == {3, 4}
=============================================================================
