----------------------------- MODULE MCInodeMap -----------------------------
(* Model-checking instances of InodeMap: a ten-inode map in two map blocks *)
(* of 8 bits (block_size 1), chunks of 4 bits.  Ten is not a multiple of   *)
(* the chunk width, like num_blocks >> 2 on most volumes.                  *)
EXTENDS InodeMap, TLC

CONSTANTS t1, t2

MCThreads1 == {t1}
MCThreads2 == {t1, t2}
Symmetry == Permutations(MCThreads2)
=============================================================================
