----------------------------- MODULE StorageMap -----------------------------
(***************************************************************************)
(* The block bitmap of src/bitmap.c: the in-memory BitVector of all disk   *)
(* blocks, its on-disk copy in blocks 1 .. num_bitmap_blocks, and the      *)
(* superblock's used_blocks counter.                                       *)
(*                                                                         *)
(* real_allocate_blocks, myfs_free_blocks and myfs_check_blocks run their  *)
(* whole body under bbm_sem, so each is one atomic action here; the        *)
(* callers are a set of clients that each hold the blocks they were        *)
(* granted (ghost variable owned) and free them again.                     *)
(*                                                                         *)
(* disk is the set of bits that are set in the on-disk bitmap.  A write    *)
(* of disk block b (1 <= b <= num_bitmap_blocks) copies bits               *)
(* (b-1)*BB .. b*BB-1 of memory to disk, BB = 8 * block_size.  A write     *)
(* to any other block (the superblock, or the inode map after the bitmap)  *)
(* is recorded in clobbered.                                               *)
(***************************************************************************)
EXTENDS Integers, FiniteSets

CONSTANTS
  NumBlocks,   \* dsb.num_blocks
  W,           \* BITS_IN_CHUNK
  BlockSize,   \* dsb.block_size, in bytes
  Callers,     \* threads calling the allocator
  AllocLens,   \* lengths passed to myfs_allocate_blocks
  FreeLens,    \* lengths the callers pass to myfs_free_blocks
  MaxHeld,     \* a caller allocates only while it holds fewer blocks
  IOErrors     \* whether write_blocks may fail

ASSUME AllocLens \subseteq Nat \ {0} /\ FreeLens \subseteq Nat \ {0}
ASSUME IOErrors \in BOOLEAN

VARIABLES bv, used_blocks, disk, clobbered, owned, ret
vars == <<bv, used_blocks, disk, clobbered, owned, ret>>

BV == INSTANCE BitVector WITH NumBits <- NumBlocks, MaxLen <- 0

EXACT   == "EXACT_ALLOCATION"
LOOSE   == "LOOSE_ALLOCATION"
TRYHARD == "TRY_HARD_ALLOCATION"
Policies == {EXACT, LOOSE, TRYHARD}

BB == 8 * BlockSize            \* bits per bitmap block

(* myfs_create_storage_map: num_blocks/8 rounded up to a block, in blocks. *)
NumBitmapBlocks ==
  LET n       == NumBlocks \div 8
      rounded == ((n + BlockSize - 1) \div BlockSize) * BlockSize  \* & ~(bsize-1)
  IN rounded \div BlockSize

(* The superblock and the bitmap blocks, allocated at format time. *)
Reserved == 0 .. NumBitmapBlocks

(* The disk and clobbered after copying memory bits to disk blocks. *)
CopyBlocks(bits, blocks) ==
  LET mapped == {b \in blocks : b \in 1 .. NumBitmapBlocks}
      region == UNION {(b - 1) * BB .. b * BB - 1 : b \in mapped}
  IN [disk |-> (disk \ region) \cup (bits \cap region),
      clobbered |-> clobbered \cup (blocks \ (1 .. NumBitmapBlocks))]

(* write_blocks(myfs, n, bits, len) refuses a range past the end of the    *)
(* volume; otherwise the device write succeeds unless an I/O error occurs. *)
OutOfVolume(n, len) == n >= NumBlocks \/ n + len > NumBlocks

WriteOutcomes == IF IOErrors THEN BOOLEAN ELSE {TRUE}

(***************************************************************************)
(* The search loop of real_allocate_blocks:                                *)
(*   for(nblocks=*num_blocks; nblocks >= 1; nblocks /= 2) { ... }          *)
(* Every GetFreeRangeOfBits call may set is_full, so the bit vector is     *)
(* threaded through.  Each pass is split at the code's three scans; a      *)
(* scan's result is bound once ({... : r \in {scan}}) and handed to the    *)
(* rest of the pass.  The result is [start, len |-> final nblocks, bv].    *)
(***************************************************************************)
Pick(S) == CHOOSE x \in S : TRUE

MaxOf(a, b) == IF a > b THEN a ELSE b
MinOf(a, b) == IF a < b THEN a ELSE b

RECURSIVE AllocLoop(_, _, _), FirstTry(_, _, _, _), AfterLoose(_, _, _, _),
          AfterTryHard(_, _, _)

(* Mutant: the halving loop stops before trying a single block. *)
AllocLoopStopsAtTwo(v, nblocks, policy) ==
  IF nblocks < 2 THEN [start |-> -1, len |-> nblocks, bv |-> v]
  ELSE Pick({FirstTry(nblocks, MaxOf(r1.biggest, 1), policy, r1) :
               r1 \in {BV!GetFreeRangeOfBits(v, nblocks)}})

(* The loop test and the first scan; max_free_chunk is 1 at the top of     *)
(* every pass and becomes the biggest free run that scan saw.              *)
AllocLoop(v, nblocks, policy) ==
  IF nblocks < 1 THEN [start |-> -1, len |-> nblocks, bv |-> v]
  ELSE Pick({FirstTry(nblocks, MaxOf(r1.biggest, 1), policy, r1) :
               r1 \in {BV!GetFreeRangeOfBits(v, nblocks)}})

(* LOOSE retargets nblocks to the biggest free run when it is at least    *)
(* nblocks >> 4 and scans again; otherwise the first scan's vector stands. *)
FirstTry(nblocks, mfc, policy, r1) ==
  IF r1.start # -1 THEN [start |-> r1.start, len |-> nblocks, bv |-> r1.bv]
  ELSE IF policy = LOOSE /\ r1.biggest > 0 /\ r1.biggest >= nblocks \div 16
    THEN Pick({AfterLoose(r1.biggest, mfc, policy, r2) :
                 r2 \in {BV!GetFreeRangeOfBits(r1.bv, r1.biggest)}})
    ELSE AfterLoose(nblocks, mfc, policy, [start |-> -1, bv |-> r1.bv])

(* EXACT gives up; TRY_HARD scans once more for min(max_free_chunk,       *)
(* nblocks) when max_free_chunk > 1; LOOSE caps nblocks at twice          *)
(* max_free_chunk before the loop halves it.                              *)
AfterLoose(nblocks, mfc, policy, r2) ==
  CASE r2.start # -1 -> [start |-> r2.start, len |-> nblocks, bv |-> r2.bv]
    [] policy = EXACT -> [start |-> -1, len |-> nblocks, bv |-> r2.bv]
    [] policy = TRYHARD /\ mfc > 1 ->
         Pick({AfterTryHard(MinOf(mfc, nblocks), policy, r3) :
                 r3 \in {BV!GetFreeRangeOfBits(r2.bv, MinOf(mfc, nblocks))}})
    [] policy = LOOSE /\ nblocks > mfc * 2 -> AllocLoop(r2.bv, (mfc * 2) \div 2, policy)
    [] OTHER -> AllocLoop(r2.bv, nblocks \div 2, policy)

AfterTryHard(nblocks, policy, r3) ==
  IF r3.start # -1 THEN [start |-> r3.start, len |-> nblocks, bv |-> r3.bv]
  ELSE AllocLoop(r3.bv, nblocks \div 2, policy)

Ret(op, c, req, policy, err, start, len) ==
  [op |-> op, c |-> c, req |-> req, policy |-> policy,
   err |-> err, start |-> start, len |-> len]

(* The bitmap blocks written back for a range: the one holding start, and  *)
(* nblocks/8/bsize more.  The +1 accounts for the superblock.              *)
(* Mutant: the superblock offset forgotten. *)
FirstBitmapBlockNoSuper(start) == (start \div 8) \div BlockSize

FirstBitmapBlock(start) == (start \div 8) \div BlockSize + 1
(* Mutant: the rounding +1 dropped, so a short run writes nothing back. *)
BitmapBlockCountFloor(nblocks) == (nblocks \div 8) \div BlockSize

BitmapBlockCount(nblocks) == (nblocks \div 8) \div BlockSize + 1

-----------------------------------------------------------------------------
Init ==
  \* myfs_create_storage_map: mark the superblock and bitmap blocks used
  \* in a calloc'ed vector and write the whole bitmap out.
  LET r == BV!GetFreeRangeOfBits(BV!EmptyBV, NumBitmapBlocks + 1) IN
  /\ r.start = 0
  /\ bv = r.bv
  /\ used_blocks = NumBitmapBlocks + 1
  /\ disk = r.bv.bits
  /\ clobbered = {}
  /\ owned = [c \in Callers |-> {}]
  /\ ret = Ret("none", CHOOSE c \in Callers : TRUE, 0, EXACT, "OK", -1, 0)

(* Mutant: used_blocks advanced by the request, not the grant. *)
AllocateCountsRequest(c, req, policy) ==
  /\ Cardinality(owned[c]) < MaxHeld
  /\ IF req > NumBlocks - used_blocks
       THEN /\ ret' = Ret("alloc", c, req, policy, "ENOSPC", -1, 0)
            /\ UNCHANGED <<bv, used_blocks, disk, clobbered, owned>>
       ELSE
       \E r \in {AllocLoop(bv, req, policy)} :
       IF r.start = -1
         THEN /\ bv' = r.bv
              /\ ret' = Ret("alloc", c, req, policy, "ENOSPC", -1, 0)
              /\ UNCHANGED <<used_blocks, disk, clobbered, owned>>
         ELSE
         LET n   == FirstBitmapBlock(r.start)
             cnt == BitmapBlockCount(r.len)
             wr  == CopyBlocks(r.bv.bits, n .. n + cnt - 1)
         IN
         /\ bv' = r.bv
         /\ \E ok \in WriteOutcomes :
              IF OutOfVolume(n, cnt) \/ ~ok
                THEN /\ ret' = Ret("alloc", c, req, policy, "EINVAL", r.start, r.len)
                     /\ UNCHANGED <<used_blocks, disk, clobbered, owned>>
                ELSE /\ disk' = wr.disk
                     /\ clobbered' = wr.clobbered
                     /\ used_blocks' = used_blocks + req
                     /\ owned' = [owned EXCEPT ![c] = @ \cup BV!Run(r.start, r.len)]
                     /\ ret' = Ret("alloc", c, req, policy, "OK", r.start, r.len)

(* real_allocate_blocks(myfs, &req, &start, _, policy), via                *)
(* myfs_allocate_blocks.  The ENOSPC fast path compares against the        *)
(* cached used_blocks, not the bitmap.                                     *)
Allocate(c, req, policy) ==
  /\ Cardinality(owned[c]) < MaxHeld
  /\ IF req > NumBlocks - used_blocks
       THEN /\ ret' = Ret("alloc", c, req, policy, "ENOSPC", -1, 0)
            /\ UNCHANGED <<bv, used_blocks, disk, clobbered, owned>>
       ELSE
       \E r \in {AllocLoop(bv, req, policy)} :
       IF r.start = -1
         THEN /\ bv' = r.bv
              /\ ret' = Ret("alloc", c, req, policy, "ENOSPC", -1, 0)
              /\ UNCHANGED <<used_blocks, disk, clobbered, owned>>
         ELSE
         LET n   == FirstBitmapBlock(r.start)
             cnt == BitmapBlockCount(r.len)
             wr  == CopyBlocks(r.bv.bits, n .. n + cnt - 1)
         IN
         /\ bv' = r.bv
         /\ \E ok \in WriteOutcomes :
              IF OutOfVolume(n, cnt) \/ ~ok
                THEN /\ ret' = Ret("alloc", c, req, policy, "EINVAL", r.start, r.len)
                     /\ UNCHANGED <<used_blocks, disk, clobbered, owned>>
                ELSE /\ disk' = wr.disk
                     /\ clobbered' = wr.clobbered
                     /\ used_blocks' = used_blocks + r.len
                     /\ owned' = [owned EXCEPT ![c] = @ \cup BV!Run(r.start, r.len)]
                     /\ ret' = Ret("alloc", c, req, policy, "OK", r.start, r.len)

(* Mutant: the freed range cleared but is_full left as it was. *)
ClearRangeKeepFull(v, start, len) == BV!UnSetRangeBV(v, start, len)

(* Mutant: the range cleared one block short. *)
ClearRangeShort(v, start, len) ==
  [BV!UnSetRangeBV(v, start, len - 1) EXCEPT !.is_full = FALSE]

(* UnSetRangeBV(bv, start, num_blocks) and bv->is_full = 0. *)
ClearRange(v, start, len) ==
  [BV!UnSetRangeBV(v, start, len) EXCEPT !.is_full = FALSE]

(* myfs_free_blocks(myfs, start, len) of a run the caller holds.  Each     *)
(* bitmap block is written separately and the first failure returns        *)
(* before used_blocks is updated.                                          *)
Free(c, start, len) ==
  LET v    == ClearRange(bv, start, len)
      n    == FirstBitmapBlock(start)
      cnt  == BitmapBlockCount(len)
  IN
  /\ BV!Run(start, len) \subseteq owned[c]
  /\ bv' = v
  /\ owned' = [owned EXCEPT ![c] = @ \ BV!Run(start, len)]
  \* m blocks are written before the loop stops; it stops early only at a
  \* block write_blocks refuses or an I/O error
  /\ \E m \in 0 .. cnt :
       /\ \A i \in 0 .. m - 1 : ~OutOfVolume(n + i, 1)
       /\ m < cnt => (IOErrors \/ OutOfVolume(n + m, 1))
       /\ LET wr == CopyBlocks(v.bits, n .. n + m - 1) IN
          /\ disk' = wr.disk
          /\ clobbered' = wr.clobbered
          /\ IF m < cnt
               THEN /\ ret' = Ret("free", c, len, EXACT, "EINVAL", start, len)
                    /\ UNCHANGED used_blocks
               ELSE /\ used_blocks' = used_blocks - cnt
                    /\ ret' = Ret("free", c, len, EXACT, "OK", start, len)

(* sanity_check_bitmap: the set bits among words 0 .. numbits/32 - 1,    *)
(* which becomes used_blocks.                                              *)
SanityCheckBitmap(bits) ==
  Cardinality({p \in bits : p < (NumBlocks \div W) * W})

(* myfs_shutdown_storage_map then myfs_init_storage_map: the bitmap is     *)
(* read back into a calloc'ed vector, block 0 is patched if clear, and     *)
(* sanity_check_bitmap replaces used_blocks by its count of set bits in    *)
(* the first numbits / (sizeof(int)*8) whole words.  A failed             *)
(* read_blocks (bitmap.c:137-141) fails the mount with EINVAL and no call  *)
(* follows it: that behaviour is a prefix of one the model has, so it is   *)
(* left out.                                                               *)
Remount ==
  LET bits == disk \cup {0} IN
  /\ bv' = [bits |-> bits, next_free |-> 0, is_full |-> FALSE]
  /\ disk' = bits
  /\ used_blocks' = SanityCheckBitmap(bits)
  /\ ret' = Ret("remount", CHOOSE c \in Callers : TRUE, 0, EXACT, "OK", -1, 0)
  /\ UNCHANGED <<clobbered, owned>>

Next ==
  \/ \E c \in Callers, req \in AllocLens, p \in Policies : Allocate(c, req, p)
  \/ \E c \in Callers, s \in 0 .. NumBlocks - 1, l \in FreeLens : Free(c, s, l)
  \/ Remount

Spec == Init /\ [][Next]_vars

-----------------------------------------------------------------------------
(* The type of the state; used_blocks stays within the volume and no bit  *)
(* past num_blocks is ever set.                                            *)
TypeOK ==
  /\ bv \in BV!BV
  /\ used_blocks \in 0 .. NumBlocks
  /\ bv.bits \subseteq BV!InRange
  /\ disk \subseteq 0 .. NumBitmapBlocks * BB - 1
  /\ clobbered \subseteq 0 .. NumBlocks - 1
  /\ owned \in [Callers -> SUBSET BV!InRange]
  /\ ret.op \in {"none", "alloc", "free", "remount"}
  /\ ret.err \in {"OK", "ENOSPC", "EINVAL"}

(* Spec 8 "the allocator never double-allocates": the blocks the callers   *)
(* hold are pairwise disjoint, set in the in-memory bitmap and never the   *)
(* superblock or a bitmap block, across allocations under every policy,    *)
(* frees and remounts that reload the bitmap from its on-disk copy.        *)
NoDoubleAllocation ==
  /\ \A c, d \in Callers : c # d => owned[c] \cap owned[d] = {}
  /\ \A c \in Callers : owned[c] \subseteq bv.bits \ Reserved

(* Spec 4.2 / 8: used_blocks counts the set bits of the bitmap; allocate   *)
(* adds the granted length and free subtracts the freed length, and a      *)
(* remount's sanity_check_bitmap recomputes it.                            *)
UsedBlocksAccurate == used_blocks = Cardinality(bv.bits)

(* Spec 4.2: every allocate and free writes back the bitmap blocks that    *)
(* span the changed bits, so the on-disk bitmap equals the in-memory one   *)
(* after each call.                                                        *)
DiskMirrorsMemory == disk = bv.bits

(* Spec 3 and 4.2: the bitmap occupies blocks 1 .. num_bitmap_blocks and  *)
(* allocate and free write back only those; no write-back of the bitmap    *)
(* ever lands on the superblock or on the inode map and inodes after it.   *)
NoBitmapOverflow == clobbered = {}

(* A successful real_allocate_blocks grants between 1 and the requested    *)
(* number of blocks, all of them free before the call; LOOSE and TRY_HARD  *)
(* shrink the request but never grow it.                                   *)
GrantIsFreeAndWithinRequest ==
  [][ret'.op = "alloc" /\ ret'.err = "OK" =>
       /\ ret'.len \in 1 .. ret'.req
       /\ BV!Run(ret'.start, ret'.len) \subseteq BV!FreeBits(bv)]_vars

(* Spec 4.2: LOOSE and TRY_HARD accept a smaller run, so when used_blocks  *)
(* admits the request and any block is free they do not report ENOSPC.    *)
(* This depends on is_full being cleared by every free and remount.        *)
NonExactAllocSucceeds ==
  [][ret'.op = "alloc" /\ ret'.policy # EXACT
     /\ ret'.req <= NumBlocks - used_blocks /\ BV!FreeBits(bv) # {}
       => ret'.err # "ENOSPC"]_vars


(* The allocator's promise (module Allocator): under the mapping below,    *)
(* every step of real_allocate_blocks, myfs_free_blocks and the remount    *)
(* is a step of the abstract allocator.  A successful allocation sets      *)
(* exactly the bits it grants, a free clears exactly the bits it releases, *)
(* and an ENOSPC or EINVAL return frees nothing and grants nothing.        *)
AbstractAllocator == INSTANCE Allocator WITH
  Blocks <- BV!InRange \ Reserved, Clients <- Callers,
  free <- BV!FreeBits(bv), held <- owned,
  out <- [op |-> ret.op, c |-> ret.c, ok |-> ret.err = "OK",
          blocks |-> IF ret.start >= 0 THEN BV!Run(ret.start, ret.len) ELSE {}]

AllocatorRefined == AbstractAllocator!Spec
=============================================================================
