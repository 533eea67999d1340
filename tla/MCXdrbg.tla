------------------------------ MODULE MCXdrbg ------------------------------
(* XDRBG with a two-byte V and a two-byte chunk, so that one generate     *)
(* call runs the fast-key-erasure loop more than once.                     *)
EXTENDS Xdrbg

CONSTANTS s1, s2   \* seed bytes, model values

\* empty seed, and two different one-byte seeds
MCSeeds == {<< >>, <<s1>>, <<s2>>}
\* no alpha, the longest alpha encoded exactly, an alpha that is clamped
MCAlphaLens == {0, 84, 85}
\* within one chunk, exactly one chunk, and three chunks
MCOutLens == {1, 2, 5}
=============================================================================
