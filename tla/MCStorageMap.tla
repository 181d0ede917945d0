---------------------------- MODULE MCStorageMap ----------------------------
(* Model-checking instances of StorageMap.  Chunks are 4 bits (W) so that  *)
(* runs cross chunks and the hint wraps; block_size is in bytes, so a      *)
(* bitmap block holds 8 * BlockSize bits.                                  *)
EXTENDS StorageMap, TLC

CONSTANTS c1, c2

MCCallers == {c1, c2}
MCW == 4

(* One bitmap block, two whole chunks: the configuration fsh formats,     *)
(* scaled down.  Callers free block by block, as dstream.c does.           *)
MCNumBlocks == 8
MCBlockSize == 1
MCAllocLens == {1, 2, 3}
MCFreeLens == {1}
MCMaxHeld == 3
Symmetry == Permutations(MCCallers)
=============================================================================
