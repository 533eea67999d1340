-------------------------- MODULE MCMemoryProvider --------------------------
(* Three caller slots, so that a block can be live while another          *)
(* allocation fails and clears the global memfd flag.                     *)
EXTENDS MemoryProvider

CONSTANTS p1, p2, p3

MCPtrs == {p1, p2, p3}
\* a kernel with working memfd_secret and one without the syscall
MCKernelsStable == {KERNEL_OK, KERNEL_NONE}
\* a kernel on which a memfd_secret allocation may fail at any step
MCKernelsFlaky == {KERNEL_FLAKY}
\* mlock succeeds, or fails with an errno the code tolerates
MCMlockTolerated == {"OK", "EPERM", "EAGAIN"}
\* mlock fails with ENOMEM (locked-memory limit reached)
MCMlockHard == {"OK", "ENOMEM"}
=============================================================================
