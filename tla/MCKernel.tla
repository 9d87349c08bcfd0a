------------------------------- MODULE MCKernel -------------------------------
(***************************************************************************)
(* Three slots for the scheduler's scan, two descriptors beyond the         *)
(* standard ones, pids that come round to 0 after three programs, files of *)
(* zero and two bytes, reads of up to three, queues of one and two, and    *)
(* two keys for the kernel's shell: one more than exec asks for.           *)
(***************************************************************************)
EXTENDS Kernel

MCFileSizes == {0, 2}
==============================================================================
