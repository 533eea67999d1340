--------------------------- MODULE MemoryProvider ---------------------------
(***************************************************************************)
(* The Linux memory provider of src/internal/src/memory_support_linux.c:  *)
(* lc_alloc_aligned, lc_alloc_aligned_secure (memfd_secret with a        *)
(* fallback to locked heap memory) and lc_free.                            *)
(*                                                                         *)
(* An allocation is identified by the caller's pointer slot p.  What the  *)
(* kernel does with a memfd_secret allocation is fixed per run: it always *)
(* succeeds, never has the syscall, or may fail at any of its three steps *)
(* (as when secret memory exceeds RLIMIT_MEMLOCK).                        *)
(***************************************************************************)
EXTENDS Naturals, FiniteSets

CONSTANTS
  Ptrs,            \* caller pointer slots
  HAVE_SYS_MEMFD,  \* LC_USE_MEMFD_SECURE: the build knows SYS_memfd_secret
  KernelKinds,     \* kernels a run may start on
  MlockErrnos,     \* outcomes of mlock: "OK" or an errno
  MemalignFails    \* whether posix_memalign may fail

KERNEL_OK == "memfd_ok"
KERNEL_NONE == "no_memfd"
KERNEL_FLAKY == "flaky"

ASSUME KernelKinds \subseteq {KERNEL_OK, KERNEL_NONE, KERNEL_FLAKY}
ASSUME HAVE_SYS_MEMFD \in BOOLEAN /\ MemalignFails \in BOOLEAN

(* Where a memfd_secret allocation stops: "none" is success.               *)
MemfdOutcomes(k) ==
  CASE k = KERNEL_OK    -> {"none"}
    [] k = KERNEL_NONE  -> {"memfd_secret"}
    [] k = KERNEL_FLAKY -> {"none", "memfd_secret", "ftruncate", "mmap"}

FREE_BLK == [live |-> FALSE, kind |-> "none"]

VARIABLES
  kernel,      \* the kernel this run executes on
  have_memfd,  \* lc_alloc_have_memfd_secret
  blk,         \* blk[p]: the block the caller holds in slot p, if any
  openfds,     \* slots whose memfd descriptor is open
  releases     \* history: how each block was released, by allocator kind

vars == <<kernel, have_memfd, blk, openfds, releases>>

(* alloc_aligned_secure_internal(memptr, alignment, size, secure): the    *)
(* outcomes as a set of [blk, rel] results.  A failed mlock other than   *)
(* EPERM/EAGAIN calls lc_free on the raw posix_memalign pointer, which    *)
(* lc_free takes for a user pointer and shifts back by 32 bytes.          *)
AllocInternal(secure) ==
  (IF MemalignFails THEN {[blk |-> FREE_BLK, rel |-> {}]} ELSE {})
  \cup
  {IF secure /\ e \notin {"OK", "EPERM", "EAGAIN"}
     THEN [blk |-> FREE_BLK, rel |-> {[alloc |-> "heap", via |-> "free_shifted"]}]
     ELSE [blk |-> [live |-> TRUE, kind |-> "heap"], rel |-> {}]
   : e \in (IF secure THEN MlockErrnos ELSE {"OK"})}

-----------------------------------------------------------------------------
Init ==
  /\ kernel \in KernelKinds
  /\ have_memfd = IF HAVE_SYS_MEMFD THEN 1 ELSE 0
  /\ blk = [p \in Ptrs |-> FREE_BLK]
  /\ openfds = {}
  /\ releases = {}

(* lc_alloc_aligned(memptr, alignment, size)                               *)
AllocAligned(p) ==
  /\ ~blk[p].live
  /\ \E r \in AllocInternal(FALSE) :
       /\ blk' = [blk EXCEPT ![p] = r.blk]
       /\ releases' = releases \cup r.rel
  /\ UNCHANGED <<kernel, have_memfd, openfds>>

(* lc_alloc_aligned_secure(memptr, alignment, size): with the flag clear *)
(* or no syscall in the build, the locked heap path; otherwise            *)
(* memfd_secret, ftruncate, mmap, and on any failure close the fd, clear *)
(* the flag and take the heap path.                                       *)
AllocSecure(p) ==
  /\ ~blk[p].live
  /\ IF ~HAVE_SYS_MEMFD \/ have_memfd = 0
       THEN /\ \E r \in AllocInternal(TRUE) :
                 /\ blk' = [blk EXCEPT ![p] = r.blk]
                 /\ releases' = releases \cup r.rel
            /\ UNCHANGED <<have_memfd, openfds>>
       ELSE \E o \in MemfdOutcomes(kernel) :
              IF o = "none"
                THEN /\ blk' = [blk EXCEPT ![p] = [live |-> TRUE, kind |-> "memfd"]]
                     /\ openfds' = openfds \cup {p}
                     /\ UNCHANGED <<have_memfd, releases>>
                ELSE /\ have_memfd' = 0
                     /\ \E r \in AllocInternal(TRUE) :
                          /\ blk' = [blk EXCEPT ![p] = r.blk]
                          /\ releases' = releases \cup r.rel
                     /\ UNCHANGED openfds
  /\ UNCHANGED kernel

(* Mutation: the release path is chosen from the global flag alone.      *)
ReleaseViaFlagOnly(flag, kind) == IF flag = 1 THEN "munmap" ELSE "free"

(* lc_free_internal: munmap and close when the flag is set and the block *)
(* header holds a descriptor, free() otherwise.                           *)
ReleaseVia(flag, kind) ==
  IF flag = 1 /\ kind = "memfd" THEN "munmap" ELSE "free"

(* Mutation: the munmap path does not close the descriptor.               *)
FdsAfterReleaseNoClose(fds, p, via) == fds

FdsAfterRelease(fds, p, via) == IF via = "munmap" THEN fds \ {p} ELSE fds

(* lc_free(ptr)                                                            *)
Free(p) ==
  /\ blk[p].live
  /\ LET via == ReleaseVia(have_memfd, blk[p].kind)
     IN  /\ openfds' = FdsAfterRelease(openfds, p, via)
         /\ releases' = releases \cup {[alloc |-> blk[p].kind, via |-> via]}
  /\ blk' = [blk EXCEPT ![p] = FREE_BLK]
  /\ UNCHANGED <<kernel, have_memfd>>

Next == \E p \in Ptrs : AllocAligned(p) \/ AllocSecure(p) \/ Free(p)

Spec == Init /\ [][Next]_vars

-----------------------------------------------------------------------------
MatchingRelease == [heap |-> "free", memfd |-> "munmap"]

(* Every block is handed back to the allocator that produced it: heap    *)
(* blocks to free() at their own address, memfd_secret blocks to munmap  *)
(* (lc_free_internal choosing by the flag and the header's fd, and the   *)
(* mlock error path of alloc_aligned_secure_internal).                    *)
ReleaseMatchesAllocation ==
  \A r \in releases : r.via = MatchingRelease[r.alloc]

(* No descriptor leaks: the open memfd descriptors are exactly those of  *)
(* the live memfd_secret blocks (the error path of                        *)
(* lc_alloc_aligned_secure and the munmap path of lc_free_internal).      *)
NoFdLeak ==
  openfds = {p \in Ptrs : blk[p].live /\ blk[p].kind = "memfd"}

=============================================================================
