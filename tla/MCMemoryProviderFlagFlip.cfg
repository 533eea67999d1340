CONSTANTS
  p1 = p1
  p2 = p2
  p3 = p3
  Ptrs <- MCPtrs
  HAVE_SYS_MEMFD = TRUE
  KernelKinds <- MCKernelsFlaky
  MlockErrnos <- MCMlockTolerated
  MemalignFails = TRUE
SPECIFICATION Spec
INVARIANT ReleaseMatchesAllocation
