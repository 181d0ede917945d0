---------------------------- MODULE MCBitVector ----------------------------
(* Model-checking instance of BitVector: 4-bit chunks, so a 7-bit vector   *)
(* has a full chunk and a partial last chunk with one padding bit, and     *)
(* runs of up to 3 bits cross the chunk boundary.                          *)
EXTENDS BitVector

MCNumBits == 7
MCW == 4
MCMaxLen == 3
=============================================================================
