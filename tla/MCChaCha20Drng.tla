--------------------------- MODULE MCChaCha20Drng ---------------------------
(* ChaCha20 DRNG with 2-bit counter words so that counter[0] wraps after   *)
(* four blocks and the nonce carries into counter[2] after four updates.   *)
EXTENDS ChaCha20Drng

\* empty, partial chunk, exactly one key, one key plus a byte
MCSeedLens == {0, 1, 32, 33}
\* partial words, exactly 8 words, 9 words, whole blocks, block plus tail
MCGenLens == {3, 32, 33, 64, 100, 128}
\* one request of five blocks, more than counter[0] can number
MCGenLensLong == {320}
=============================================================================
