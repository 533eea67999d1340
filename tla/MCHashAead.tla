------------------------------ MODULE MCHashAead ------------------------------
(* A two-byte keystream block, so that three plaintext bytes need one     *)
(* refresh and a three-byte call straddles the block boundary.            *)
EXTENDS HashAead

MCChunkLens == {1, 2, 3}
MCAadLens == {0, 1}
\* a truncated tag, the full digest, and a taglen above the digest size
MCTagLens == {1, 2, 3}
\* a zero-length tag, which lc_hc_decrypt_authenticate does not reject
MCTagLensZero == {0}

=============================================================================
