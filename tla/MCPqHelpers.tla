----------------------------- MODULE MCPqHelpers -----------------------------
(* Field elements: every byte as first operand, against the powers of 2  *)
(* (one per window and the top bit) and dense patterns.  Trees of height *)
(* 0 to 3, the first and second tree of a layer.  One-byte WOTS+         *)
(* messages (two message digits) with the three checksum digits of the   *)
(* parameter sets, so the checksum shift is 4 bits as in the real ones.  *)
EXTENDS PqHelpers

MCGfOperandsB == {0, 1, 2, 3, 4, 8, 16, 32, 64, 128, 129, 83, 255}
MCCmovBytes   == {<<0, 0>>, <<255, 1>>, <<90, 165>>}
MCCmovInt16s  == {-32768, -1, 0, 1, 32767}
MCCmovUint32s == {<<0, 0>>, <<0, 1>>, <<32768, 0>>, <<65535, 65535>>, <<4660, 22136>>}
MCWotsSigned  == {<<0>>, <<1>>, <<16>>, <<127>>, <<128>>, <<254>>, <<255>>}
MCWotsClaimed == {<<b>> : b \in 0..255}
(* Two addresses whose words differ in every byte position used.          *)
MCSpxAddrs == {[k \in 0 .. 7 |-> k + 1], [k \in 0 .. 7 |-> 65536 * k + 515]}
=============================================================================
