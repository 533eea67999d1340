----------------------------- MODULE CpuFeatures -----------------------------
(***************************************************************************)
(* The ARMv8 CPU-feature detector of src/internal/src/leancrypto_init.c:  *)
(* the process-wide cache features, filled lazily by the first callers of *)
(* lc_cpu_feature_available from ID_AA64ISAR0_EL1, and the test API that  *)
(* disables, re-enables or forces it.                                      *)
(*                                                                         *)
(* features is a plain static: each statement that writes it is a step of *)
(* its own, and features |= f is a load step and a store step, so callers *)
(* racing on first use interleave as the hardware lets them.  A feature   *)
(* mask is the set of flags it holds, LC_CPU_FEATURE_UNSET the empty set. *)
(* On Linux the register is read with mrs and is given by its 4-bit      *)
(* fields; on Apple it is assembled from the sysctlbyname answers, given  *)
(* by the set of queries that succeeded with a nonzero answer.  A        *)
(* register value is the set of its bit positions, and val & MASK is a   *)
(* set intersection.                                                      *)
(***************************************************************************)
EXTENDS Integers, FiniteSets

CONSTANTS
  Callers,       \* threads calling lc_cpu_feature_available once each
  Hardware,      \* machines: [os |-> "linux", aes, sha1, sha2, sha3] with the
                 \* ID_AA64ISAR0_EL1 field values, or [os |-> "apple", feat]
  Forcible,      \* feature masks a test passes to lc_cpu_feature_set
  MaxTestCalls   \* bound on calls of the test API

VARIABLES
  hw,         \* the register of this machine
  features,   \* static enum lc_cpu_features features
  pc,         \* each caller's position in lc_cpu_feature_available
  k,          \* each caller's current feature test
  tmp,        \* the value a caller loaded for its pending |=
  ret,        \* the value each caller returned
  forced,     \* every mask the test API has written
  testcalls   \* test API calls made

vars == <<hw, features, pc, k, tmp, ret, forced, testcalls>>

LC_CPU_FEATURE_UNSET == {}

(* The register bits of a field value v at bit offset off.                *)
FieldBits(v, off) == {off + b : b \in {b \in 0..3 : (v \div 2^b) % 2 = 1}}

ARM8_SHA3_FEATURE      == 32..35             \* 0xf << 32
ARM8_SHA256_FEATURE    == {12}               \* 0x1 << 12
ARM8_SHA256512_FEATURE == {13}               \* 0x1 << 13
ARM8_AES_FEATURE       == {4, 8}             \* 0x11 << 4
(* Mutation: the PMULL bit taken one too low.                             *)
ARM8_PMULL_FEATURE_LOW == {4}
ARM8_PMULL_FEATURE     == {5}                \* 0x1 << 5

(* The sysctlbyname queries of the Apple path, in the order of the code, *)
(* with the mask each ORs into the value and the flag it stands for.     *)
AppleQueries ==
  << [name |-> "FEAT_SHA256", mask |-> ARM8_SHA256_FEATURE,    flag |-> "ARM_SHA2"],
     [name |-> "FEAT_SHA512", mask |-> ARM8_SHA256512_FEATURE, flag |-> "ARM_SHA2_512"],
     [name |-> "FEAT_AES",    mask |-> ARM8_AES_FEATURE,       flag |-> "ARM_AES"],
     [name |-> "FEAT_SHA3",   mask |-> ARM8_SHA3_FEATURE,      flag |-> "ARM_SHA3"],
     [name |-> "FEAT_PMULL",  mask |-> ARM8_PMULL_FEATURE,     flag |-> "ARM_PMULL"] >>

(* arm_id_aa64isar0_el1_feature: on Apple, each query that succeeds with  *)
(* a nonzero answer ORs its mask into the value (a failing query leaves  *)
(* it out); elsewhere the value is the register read by mrs.              *)
RegValue(h) ==
  IF h.os = "apple"
  THEN UNION {AppleQueries[i].mask : i \in {i \in 1..5 : AppleQueries[i].name \in h.feat}}
  ELSE FieldBits(h.aes, 4) \cup FieldBits(h.sha1, 8) \cup FieldBits(h.sha2, 12)
         \cup FieldBits(h.sha3, 32)

(* The tests of lc_cpu_feature_available, in the order of the code.       *)
Tests == << [mask |-> ARM8_AES_FEATURE,       flag |-> "ARM_AES"],
            [mask |-> ARM8_SHA256_FEATURE,    flag |-> "ARM_SHA2"],
            [mask |-> ARM8_SHA256512_FEATURE, flag |-> "ARM_SHA2_512"],
            [mask |-> ARM8_SHA3_FEATURE,      flag |-> "ARM_SHA3"],
            [mask |-> ARM8_PMULL_FEATURE,     flag |-> "ARM_PMULL"] >>

Base == {"ARM", "ARM_NEON"}

(* What one undisturbed run of the detection stores.                      *)
Decode(h) ==
  Base \cup {Tests[i].flag : i \in {i \in 1..5 : Tests[i].mask \cap RegValue(h) # {}}}

Init ==
  /\ hw \in Hardware
  /\ features = LC_CPU_FEATURE_UNSET
  /\ pc = [t \in Callers |-> "check"]
  /\ k = [t \in Callers |-> 1]
  /\ tmp = [t \in Callers |-> LC_CPU_FEATURE_UNSET]
  /\ ret = [t \in Callers |-> LC_CPU_FEATURE_UNSET]
  /\ forced = {}
  /\ testcalls = 0

-----------------------------------------------------------------------------
(* lc_cpu_feature_available.                                               *)

(* if (features == LC_CPU_FEATURE_UNSET)                                   *)
Check(t) ==
  /\ pc[t] = "check"
  /\ pc' = [pc EXCEPT ![t] = IF features = LC_CPU_FEATURE_UNSET THEN "base" ELSE "ret"]
  /\ UNCHANGED <<hw, features, k, tmp, ret, forced, testcalls>>

(* read the register; features = LC_CPU_FEATURE_ARM | LC_CPU_FEATURE_ARM_NEON *)
StoreBase(t) ==
  /\ pc[t] = "base"
  /\ features' = Base
  /\ pc' = [pc EXCEPT ![t] = "test"]
  /\ UNCHANGED <<hw, k, tmp, ret, forced, testcalls>>

(* The next test of the sequence, or the return after the last.          *)
NextTest(t) ==
  /\ pc' = [pc EXCEPT ![t] = IF k[t] = 5 THEN "ret" ELSE "test"]
  /\ k' = [k EXCEPT ![t] = IF k[t] = 5 THEN k[t] ELSE k[t] + 1]

(* if (val & mask): load features for the |=, or skip the test.           *)
LoadFeature(t) ==
  /\ pc[t] = "test"
  /\ IF Tests[k[t]].mask \cap RegValue(hw) # {}
     THEN /\ tmp' = [tmp EXCEPT ![t] = features]
          /\ pc' = [pc EXCEPT ![t] = "store"]
          /\ UNCHANGED k
     ELSE /\ NextTest(t)
          /\ UNCHANGED tmp
  /\ UNCHANGED <<hw, features, ret, forced, testcalls>>

(* ... features |= flag: store the loaded value with the flag added.      *)
StoreFeature(t) ==
  /\ pc[t] = "store"
  /\ features' = tmp[t] \cup {Tests[k[t]].flag}
  /\ NextTest(t)
  /\ UNCHANGED <<hw, tmp, ret, forced, testcalls>>

(* return features: the global is read again.                             *)
Return(t) ==
  /\ pc[t] = "ret"
  /\ ret' = [ret EXCEPT ![t] = features]
  /\ pc' = [pc EXCEPT ![t] = "done"]
  /\ UNCHANGED <<hw, features, k, tmp, forced, testcalls>>

CallerStep(t) ==
  Check(t) \/ StoreBase(t) \/ LoadFeature(t) \/ StoreFeature(t) \/ Return(t)

-----------------------------------------------------------------------------
(* The test API, called from a thread of its own.                          *)
TestWrite(v) ==
  /\ testcalls < MaxTestCalls
  /\ features' = v
  /\ forced' = forced \cup {v}
  /\ testcalls' = testcalls + 1
  /\ UNCHANGED <<hw, pc, k, tmp, ret>>

lc_cpu_feature_disable == TestWrite({"ARM"})
lc_cpu_feature_enable  == TestWrite(LC_CPU_FEATURE_UNSET)
lc_cpu_feature_set(feature) == TestWrite(feature)

Next ==
  \/ \E t \in Callers : CallerStep(t)
  \/ lc_cpu_feature_disable
  \/ lc_cpu_feature_enable
  \/ \E f \in Forcible : lc_cpu_feature_set(f)

(* A caller inside lc_cpu_feature_available runs straight-line code with  *)
(* no lock or wait, so the scheduler lets it finish; the test thread may  *)
(* stop calling at any time.                                              *)
Fairness == \A t \in Callers : WF_vars(CallerStep(t))

Spec == Init /\ [][Next]_vars /\ Fairness

-----------------------------------------------------------------------------
(* The features the machine advertises: on Apple the flags of the        *)
(* queries answered yes; elsewhere by the Arm ARM field values: AES 1 =   *)
(* AES, 2 = AES and PMULL; SHA2 1 = SHA256, 2 = SHA256 and SHA512; SHA3  *)
(* 1 = SHA3.                                                               *)
Advertised(h) ==
  IF h.os = "apple"
  THEN Base \cup {AppleQueries[i].flag : i \in {i \in 1..5 : AppleQueries[i].name \in h.feat}}
  ELSE Base \cup {f \in {"ARM_AES"} : h.aes >= 1} \cup {f \in {"ARM_PMULL"} : h.aes = 2}
       \cup {f \in {"ARM_SHA2"} : h.sha2 >= 1}
       \cup {f \in {"ARM_SHA2_512"} : h.sha2 = 2}
       \cup {f \in {"ARM_SHA3"} : h.sha3 = 1}

(* No interleaving of first callers, stale stores and test writes makes   *)
(* the cache or a returned value claim an instruction the CPU lacks,      *)
(* unless a test forced it: a dispatcher trusting it would execute an    *)
(* undefined instruction.                                                  *)
NoPhantomFeature ==
  LET allowed == Advertised(hw) \cup UNION forced
  IN  /\ features \subseteq allowed
      /\ \A t \in Callers : ret[t] \subseteq allowed

(* A caller that is alone on a machine returns every feature the          *)
(* register advertises and nothing else.                                   *)
FeaturesMatchHardware ==
  \A t \in Callers : pc[t] = "done" => ret[t] = Advertised(hw)

(* Without test calls, once the first callers are done, the cache holds   *)
(* what one detection decodes from the register and keeps it (the latch  *)
(* of a lazily detected value is set once).                               *)
DetectionSettles == <>[](features = Decode(hw))

=============================================================================
