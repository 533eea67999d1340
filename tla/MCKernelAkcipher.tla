--------------------------- MODULE MCKernelAkcipher ---------------------------
(* Two of the three registered algorithms, a transform of the second, two *)
(* key pairs, and four calls: enough for a good key, a failing or foreign *)
(* setkey over it, and a sign or verify after that.                      *)
EXTENDS KernelAkcipher

(* lc_dilithium_ed448_sig_size: ML-DSA signature plus the 114-byte Ed448  *)
(* signature.                                                             *)
MCSigSize(t) == CASE t = 44 -> 2420 + 114
                  [] t = 65 -> 3309 + 114
                  [] t = 87 -> 4627 + 114
                  [] OTHER  -> 0
=============================================================================
