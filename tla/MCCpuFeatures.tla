---------------------------- MODULE MCCpuFeatures ----------------------------
(* Registers of shipped Armv8 cores: no crypto extension; AES without    *)
(* PMULL; the v8.0 crypto extension (AES+PMULL, SHA1, SHA256); and v8.2  *)
(* with SHA512 and SHA3.  Two more sets probe the masks field value by    *)
(* field value.  The Apple machines answer the sysctl queries of an M1   *)
(* (no SHA3) and of an M2 or later, and one has a failing SHA256 query.  *)
EXTENDS CpuFeatures

Reg(a, s1, s2, s3) ==
  [os |-> "linux", aes |-> a, sha1 |-> s1, sha2 |-> s2, sha3 |-> s3]
Apple(feat) == [os |-> "apple", feat |-> feat]

MCApple == { Apple({"FEAT_SHA256", "FEAT_SHA512", "FEAT_AES", "FEAT_PMULL"}),
             Apple({"FEAT_SHA256", "FEAT_SHA512", "FEAT_AES", "FEAT_SHA3",
                    "FEAT_PMULL"}),
             Apple({"FEAT_SHA512", "FEAT_AES", "FEAT_PMULL"}) }

MCHardware == { Reg(0, 0, 0, 0), Reg(1, 1, 1, 0), Reg(2, 1, 1, 0),
                Reg(2, 1, 2, 1) } \cup MCApple
MCCryptoV80 == { Reg(2, 1, 1, 0) }
(* The AES and SHA1 fields at the values 0 and 1, other fields clear.   *)
MCAesSha1Hardware == { Reg(a, s1, 0, 0) : a \in 0..1, s1 \in 0..1 }
(* A field at value 2: AES with PMULL, and SHA256 with SHA512.           *)
MCFieldTwoHardware == { Reg(2, 0, 0, 0), Reg(0, 0, 2, 0) }
MCForcible == { {"ARM", "ARM_NEON"}, {"ARM", "ARM_NEON", "ARM_SHA3"} }
=============================================================================
