----------------------------- MODULE DataStream -----------------------------
(***************************************************************************)
(* The data streams of src/dstream.c over the block bitmap of bitmap.c.    *)
(*                                                                         *)
(* Each file f has a data stream ds[f] = [size, direct, indirect, ind]:    *)
(* mi->data.size, mi->data.direct[], mi->data.indirect and the pointers    *)
(* held in the indirect block (ind, what get_block(indirect) returns).     *)
(* data.double_indirect is never set by any code of src/ (grow_dstream     *)
(* returns E2BIG before that tier), so it is always 0 and                  *)
(* shrink_double_indirect is never entered.                                *)
(*                                                                         *)
(* grow_dstream and shrink_dstream allocate and free one block per call    *)
(* of myfs_allocate_blocks(..., 1, EXACT_ALLOCATION) and                   *)
(* myfs_free_blocks(..., 1); those are StorageMap's translation, taken by  *)
(* INSTANCE.  The callers (fsh, one thread; spec 5: the vnode layer holds  *)
(* the inode) run one data-stream call at a time, so each call is one      *)
(* action.  The bitmap's on-disk copy is StorageMap's concern and left out.*)
(*                                                                         *)
(* A call is computed as a record s = [bv, used, ds, err, addr] threaded   *)
(* through the code's loops; err is "none" while the call runs.  Every     *)
(* intermediate record is bound once ({... : t \in {e}}) before it is used.*)
(***************************************************************************)
EXTENDS Integers, FiniteSets, Sequences

CONSTANTS
  NumBlocks,     \* dsb.num_blocks
  W,             \* BITS_IN_CHUNK
  BlockSize,     \* dsb.block_size, in bytes
  NumDirect,     \* NUM_DIRECT_BLOCKS
  PtrsPerBlock,  \* bsize / sizeof(fs_off_t): pointers in an indirect block
  Files,         \* the inodes whose streams are modelled
  SetSizes,      \* new sizes passed to myfs_set_file_size
  WritePos,      \* positions passed to myfs_write_data_stream
  WriteLens,     \* lengths passed to myfs_write_data_stream
  ReadPos,       \* positions passed to myfs_read_data_stream
  ReadLens,      \* lengths passed to myfs_read_data_stream
  SuperWord      \* the first fs_off_t of block 0 (the superblock's name)

ASSUME BlockSize >= 2 /\ NumDirect >= 1 /\ PtrsPerBlock >= 1
ASSUME WriteLens \subseteq Nat \ {0} /\ WritePos \subseteq Nat
ASSUME ReadLens \subseteq Nat /\ ReadPos \subseteq Int /\ SuperWord \in Nat

VARIABLES bv, used_blocks, ds, data, ret
vars == <<bv, used_blocks, ds, data, ret>>

SM == INSTANCE StorageMap WITH disk <- {}, clobbered <- {},
        owned <- [c \in {} |-> {}], Callers <- {}, AllocLens <- {1},
        FreeLens <- {1}, MaxHeld <- 0, IOErrors <- FALSE

B == BlockSize
Pick(S) == CHOOSE x \in S : TRUE
Die == -2

MAX_DIRECT_RANGE          == NumDirect * B
MAX_INDIRECT_RANGE        == PtrsPerBlock * B + MAX_DIRECT_RANGE
MAX_DOUBLE_INDIRECT_RANGE == PtrsPerBlock * PtrsPerBlock * B + MAX_INDIRECT_RANGE
DIRECT_SIZE               == NumDirect * B

(* Mutant: x & ~(bsize - 1), rounding down (a negative x, new_size - 1   *)
(* of a free, taken as 0).                                                  *)
RoundDown(x) == IF x < 0 THEN 0 ELSE (x \div B) * B

(* (x + bsize - 1) & ~(bsize - 1), for x >= -1 and bsize a power of two. *)
RoundUp(x) == ((x + B - 1) \div B) * B

EmptyStream == [size |-> 0, direct |-> [i \in 0 .. NumDirect - 1 |-> 0],
                indirect |-> 0, ind |-> [j \in 0 .. PtrsPerBlock - 1 |-> 0]]

MinOf(a, b) == IF a < b THEN a ELSE b

(***************************************************************************)
(* file_pos_to_disk_addr.  An address outside the volume is myfs_die,      *)
(* which never returns: Die.  get_block of a zero indirect pointer reads   *)
(* block 0, the superblock, whose first words (its name, which no code of  *)
(* src/ sets) are SuperWord.  The double-indirect tier reads SuperWord as  *)
(* the index block's address (data.double_indirect is always 0), passes   *)
(* the range check when it lies in the volume, and then falls through to  *)
(* the final "return -1": that branch has no "return addr".  Past it,     *)
(* -1.                                                                     *)
(***************************************************************************)
PosToAddr(d, pos) ==
  LET addr == IF pos < NumDirect * B THEN d.direct[pos \div B]
              ELSE IF pos >= MAX_INDIRECT_RANGE \/ d.indirect = 0 THEN SuperWord
              ELSE d.ind[(pos - MAX_DIRECT_RANGE) \div B]
  IN IF pos >= MAX_DOUBLE_INDIRECT_RANGE THEN -1
     ELSE IF addr < 0 \/ addr > NumBlocks THEN Die
     ELSE IF pos >= MAX_INDIRECT_RANGE THEN -1
     ELSE addr

(***************************************************************************)
(* myfs_allocate_blocks(myfs, inum, &1, &addr, EXACT_ALLOCATION): the      *)
(* ENOSPC fast path, StorageMap's search loop, used_blocks += nblocks.     *)
(* myfs_free_blocks(myfs, b, 1): UnSetRangeBV, is_full = 0, and            *)
(* used_blocks -= len, len = 1/8/bsize + 1 bitmap blocks.                  *)
(***************************************************************************)
(* Mutant: used_blocks not advanced by the grant. *)
AllocBlockNoCount(s) ==
  IF 1 > NumBlocks - s.used THEN [s EXCEPT !.err = "ENOSPC", !.addr = -1]
  ELSE Pick({IF r.start = -1 THEN [s EXCEPT !.bv = r.bv, !.err = "ENOSPC", !.addr = -1]
             ELSE [s EXCEPT !.bv = r.bv, !.addr = r.start]
             : r \in {SM!AllocLoop(s.bv, 1, SM!EXACT)}})

AllocBlock(s) ==
  IF 1 > NumBlocks - s.used THEN [s EXCEPT !.err = "ENOSPC", !.addr = -1]
  ELSE Pick({IF r.start = -1 THEN [s EXCEPT !.bv = r.bv, !.err = "ENOSPC", !.addr = -1]
             ELSE [s EXCEPT !.bv = r.bv, !.used = @ + r.len, !.addr = r.start]
             : r \in {SM!AllocLoop(s.bv, 1, SM!EXACT)}})

FreeBlock(s, b) ==
  [s EXCEPT !.bv = SM!ClearRange(@, b, 1), !.used = @ - SM!BitmapBlockCount(1)]

(***************************************************************************)
(* grow_dstream(myfs, mi, new_size).                                       *)
(* GrowDirect and GrowIndirect are its two "for(; i < num_blocks_needed && *)
(* index < ...; i++, index++)" loops; i is counted in s.i.  A failed       *)
(* allocation returns at once, leaving size and the slots filled so far.   *)
(***************************************************************************)
PutDirect(t, index) ==
  IF t.err # "none" THEN t
  ELSE [t EXCEPT !.ds.direct[index] = t.addr, !.ds.size = @ + B, !.i = @ + 1]

PutIndirect(t, index) ==
  IF t.err # "none" THEN t
  ELSE [t EXCEPT !.ds.ind[index] = t.addr, !.ds.size = @ + B, !.i = @ + 1]

RECURSIVE GrowDirect(_, _, _), GrowIndirect(_, _, _)
(* Mutant: the indirect loop runs one slot past the block. *)
GrowIndirectPastBlock(s, index, need) ==
  IF s.i < need /\ index <= PtrsPerBlock
    THEN Pick({IF t.err # "none" THEN t ELSE GrowIndirect(t, index + 1, need)
               : t \in {PutIndirect(AllocBlock(s), index)}})
    ELSE s

GrowDirect(s, index, need) ==
  IF s.i < need /\ index < NumDirect
    THEN Pick({IF t.err # "none" THEN t ELSE GrowDirect(t, index + 1, need)
               : t \in {PutDirect(AllocBlock(s), index)}})
    ELSE s

GrowIndirect(s, index, need) ==
  IF s.i < need /\ index < PtrsPerBlock
    THEN Pick({IF t.err # "none" THEN t ELSE GrowIndirect(t, index + 1, need)
               : t \in {PutIndirect(AllocBlock(s), index)}})
    ELSE s

(* "all done!": the size becomes new_size and the call returns 0. *)
Done(t, new_size) == [t EXCEPT !.ds.size = new_size, !.err = "OK"]

(* The direct tier: a non-zero slot where growth starts is myfs_die. *)
GrowDirectTier(s, new_size, need) ==
  LET index == s.ds.size \div B IN
  IF s.ds.direct[index] # 0 THEN [s EXCEPT !.err = "die"]
  ELSE Pick({IF t.err = "none" /\ t.ds.size >= new_size THEN Done(t, new_size) ELSE t
             : t \in {GrowDirect(s, index, need)}})

(* The indirect block is allocated on first use and read by               *)
(* get_empty_block, which zeroes it; otherwise get_block reads it as it    *)
(* is on disk.                                                             *)
NewIndirect(t) ==
  IF t.err # "none" THEN t
  ELSE [t EXCEPT !.ds.indirect = t.addr,
                 !.ds.ind = [j \in 0 .. PtrsPerBlock - 1 |-> 0]]

GrowIndirectTier(s, need) ==
  Pick({IF t.err # "none" THEN t
        ELSE GrowIndirect(t, (t.ds.size - MAX_DIRECT_RANGE) \div B, need)
        : t \in {IF s.ds.indirect = 0 THEN NewIndirect(AllocBlock(s)) ELSE s}})

(* Past the indirect tier: E2BIG ("grow the double indirect blocks"), or   *)
(* the final return -1.                                                    *)
AfterIndirect(s) ==
  [s EXCEPT !.err = IF s.ds.size >= MAX_INDIRECT_RANGE THEN "E2BIG" ELSE "-1"]

GrowRest(s, new_size, need) ==
  IF s.err # "none" THEN s
  ELSE IF s.ds.size >= MAX_DIRECT_RANGE /\ s.ds.size < MAX_INDIRECT_RANGE
    THEN Pick({IF t.err # "none" THEN t
               ELSE IF t.ds.size >= new_size THEN Done(t, new_size)
               ELSE AfterIndirect(t)
               : t \in {GrowIndirectTier(s, need)}})
    ELSE AfterIndirect(s)

Grow(s, new_size) ==
  LET cur == RoundUp(s.ds.size)
      nsr == RoundUp(new_size)
      s1  == [s EXCEPT !.ds.size = cur, !.i = 0]
  IN
  IF new_size > MAX_DOUBLE_INDIRECT_RANGE THEN [s EXCEPT !.err = "E2BIG"]
  ELSE IF cur = nsr THEN Done(s, new_size)
  ELSE Pick({GrowRest(t, new_size, (nsr - cur) \div B)
             : t \in {IF cur < DIRECT_SIZE
                        THEN GrowDirectTier(s1, new_size, (nsr - cur) \div B)
                        ELSE s1}})

(***************************************************************************)
(* shrink_dstream(myfs, mi, new_size).  The indirect tier frees the        *)
(* pointers from index i on up to the first zero one, without clearing     *)
(* them in the block, and frees the block itself when i is 0; the direct   *)
(* tier frees and zeroes slots from new_size_rounded/bsize on.  A failed   *)
(* myfs_free_blocks is only printed.                                       *)
(***************************************************************************)
RECURSIVE FreeInd(_, _), FreeDirect(_, _)
FreeInd(s, i) ==
  IF i < PtrsPerBlock /\ s.ds.ind[i] # 0
    THEN Pick({FreeInd(t, i + 1) : t \in {FreeBlock(s, s.ds.ind[i])}})
    ELSE s

FreeDirect(s, i) ==
  IF i < NumDirect /\ s.ds.direct[i] # 0
    THEN Pick({FreeDirect(t, i + 1)
               : t \in {[FreeBlock(s, s.ds.direct[i]) EXCEPT !.ds.direct[i] = 0]}})
    ELSE s

ShrinkIndirectTier(s, nsr) ==
  IF nsr < MAX_INDIRECT_RANGE /\ s.ds.indirect # 0
    THEN LET i0 == IF nsr > MAX_DIRECT_RANGE
                     THEN (nsr - MAX_DIRECT_RANGE) \div B ELSE 0
         IN Pick({IF i0 = 0
                    THEN [FreeBlock(t, t.ds.indirect) EXCEPT !.ds.indirect = 0]
                    ELSE t
                  : t \in {FreeInd(s, i0)}})
    ELSE s

ShrinkDirectTier(s, nsr) ==
  IF nsr < DIRECT_SIZE THEN FreeDirect(s, nsr \div B) ELSE s

(* new_size_rounded = (new_size - 1 + bsize - 1) & ~(bsize - 1). *)
Shrink(s, new_size) ==
  LET cur == RoundUp(s.ds.size)
      nsr == RoundUp(new_size - 1)
  IN
  IF new_size > MAX_DOUBLE_INDIRECT_RANGE THEN [s EXCEPT !.err = "E2BIG"]
  ELSE IF cur = nsr THEN Done(s, new_size)
  ELSE Pick({Done(t, new_size)
             : t \in {ShrinkDirectTier(u, nsr)
                      : u \in {ShrinkIndirectTier(s, nsr)}}})

-----------------------------------------------------------------------------
Call(f) == [bv |-> bv, used |-> used_blocks, ds |-> ds[f], err |-> "none",
            addr |-> -1, i |-> 0]

(* A block as get_empty_block leaves it once grow_dstream has stored       *)
(* pointers in it; its bytes are not file data.                            *)
PtrBlock == [o \in 0 .. B - 1 |-> "ptr"]

(* The indirect block a call allocated, if any, now holds pointers. *)
NewIndirectBlock(dt, d, d2) ==
  IF d2.indirect # 0 /\ d2.indirect # d.indirect
    THEN [dt EXCEPT ![d2.indirect] = PtrBlock] ELSE dt

(* The blocks a call freed keep their bytes on disk; which file's bytes   *)
(* they were is not told apart by any property, so they become "stale".    *)
Released(dt, old, new) ==
  [b \in DOMAIN dt |-> IF b \in old.bits /\ b \notin new.bits
                         THEN [o \in 0 .. B - 1 |-> "stale"] ELSE dt[b]]

Ret(op, f, pos, len, err, tg) ==
  [op |-> op, f |-> f, pos |-> pos, len |-> len, err |-> err, targets |-> tg]

(* The end of a call: its bitmap, count and stream become the state (the   *)
(* in-memory inode keeps what a failed call did) and err is returned.      *)
Commit(f, op, pos, len, t) ==
  /\ bv' = t.bv
  /\ used_blocks' = t.used
  /\ ds' = [ds EXCEPT ![f] = t.ds]
  /\ data' = Released(NewIndirectBlock(data, ds[f], t.ds), bv, t.bv)
  /\ ret' = Ret(op, f, pos, len, t.err, {})

(* mkfile writes a zeroed volume; myfs_create_storage_map and the          *)
(* superblock fill the reserved blocks.                                    *)
Init ==
  LET r == SM!BV!GetFreeRangeOfBits(SM!BV!EmptyBV, SM!NumBitmapBlocks + 1) IN
  /\ bv = r.bv
  /\ used_blocks = SM!NumBitmapBlocks + 1
  /\ ds = [f \in Files |-> EmptyStream]
  /\ data = [b \in 0 .. NumBlocks - 1 |->
               [o \in 0 .. B - 1 |-> IF b \in SM!Reserved THEN "meta" ELSE "zero"]]
  /\ ret = Ret("none", CHOOSE f \in Files : TRUE, 0, 0, "OK", {})

(* myfs_die stops the file system: no call runs after it. *)
Running == ret.err # "die"

(* myfs_set_file_size: nothing for the same size, else shrink or grow. *)
SetFileSize(f, n) ==
  /\ Running
  /\ IF n = ds[f].size
       THEN ret' = Ret("setsize", f, n, 0, "OK", {})
            /\ UNCHANGED <<bv, used_blocks, ds, data>>
       ELSE \E t \in {IF n < ds[f].size THEN Shrink(Call(f), n)
                      ELSE Grow(Call(f), n)} :
              Commit(f, "setsize", n, 0, t)

(* The blocks file_pos_to_disk_addr names for pos .. pos+len-1: the first  *)
(* one's, then one per block of the main loop.                             *)
Targets(d, pos, len) ==
  {PosToAddr(d, p) : p \in {pos} \cup {k * B : k \in (pos + B - 1) \div B .. (pos + len - 1) \div B}}

(* memcpy into get_block(addr): bytes off .. off+amt-1 of block b become v.*)
Fill(dt, b, off, amt, v) ==
  [dt EXCEPT ![b] = [o \in 0 .. B - 1 |-> IF off <= o /\ o < off + amt THEN v ELSE @[o]]]

(* The main loops of the write and read paths, from a block-aligned p:    *)
(* one block per turn, amt = min(len - *_len, bsize), each block's         *)
(* address checked first ("if (addr < 0) return EINVAL").                  *)
RECURSIVE WriteLoop(_, _, _, _, _)
WriteLoop(d, dt, p, n, v) ==
  IF n <= 0 THEN [data |-> dt, err |-> "OK"]
  ELSE LET addr == PosToAddr(d, p) IN
       IF addr = Die THEN [data |-> dt, err |-> "die"]
       ELSE IF addr < 0 THEN [data |-> dt, err |-> "EINVAL"]
       ELSE WriteLoop(d, Fill(dt, addr, 0, MinOf(n, B), v), p + B, n - B, v)

WriteBytes(d, dt, pos, len, v) ==
  LET addr == PosToAddr(d, pos)  amt == MinOf(len, B - (pos % B)) IN
  IF addr = Die THEN [data |-> dt, err |-> "die"]
  ELSE IF addr < 0 THEN [data |-> dt, err |-> "EINVAL"]
  ELSE IF pos % B # 0
    THEN WriteLoop(d, Fill(dt, addr, pos % B, amt, v), pos + amt, len - amt, v)
  ELSE WriteLoop(d, dt, pos, len, v)

(* myfs_write_data_stream(myfs, mi, pos, buf, &len): grow first when the   *)
(* write ends past the size, then copy.  The buffer's bytes are the        *)
(* writer's name f.                                                        *)
Write(f, pos, len) ==
  /\ Running
  /\ \E t \in {IF pos + len > ds[f].size THEN Grow(Call(f), pos + len)
               ELSE [Call(f) EXCEPT !.err = "OK"]} :
       IF t.err # "OK"
         THEN Commit(f, "write", pos, len, t)
         ELSE \E w \in {WriteBytes(t.ds, NewIndirectBlock(data, ds[f], t.ds),
                                   pos, len, f)} :
              /\ bv' = t.bv
              /\ used_blocks' = t.used
              /\ ds' = [ds EXCEPT ![f] = t.ds]
              /\ data' = w.data
              /\ ret' = Ret("write", f, pos, len, w.err, Targets(t.ds, pos, len))

(* memcpy(buf, &block[offset], amt) out of get_block(addr). *)
Bytes(b, off, amt) == [k \in 1 .. amt |-> data[b][off + k - 1]]

RECURSIVE ReadLoop(_, _, _, _)
ReadLoop(d, p, n, acc) ==
  IF n <= 0 THEN [bytes |-> acc, err |-> "OK"]
  ELSE LET addr == PosToAddr(d, p) IN
       IF addr = Die THEN [bytes |-> acc, err |-> "die"]
       ELSE IF addr < 0 THEN [bytes |-> acc, err |-> "EINVAL"]
       ELSE ReadLoop(d, p + B, n - B, acc \o Bytes(addr, 0, MinOf(n, B)))

(* Mutant: the partial first block is copied from the block's start. *)
ReadBytesAtBlockStart(d, pos0, len0) ==
  LET pos  == IF pos0 < 0 THEN 0 ELSE pos0
      len  == MinOf(len0, d.size - pos)
      addr == PosToAddr(d, pos)
      amt  == MinOf(len, B - (pos % B))
  IN IF len0 = 0 \/ pos > d.size THEN [bytes |-> <<>>, err |-> "OK"]
     ELSE IF addr = Die THEN [bytes |-> <<>>, err |-> "die"]
     ELSE IF addr < 0 THEN [bytes |-> <<>>, err |-> "EINVAL"]
     ELSE IF pos % B # 0
       THEN ReadLoop(d, pos + amt, len - amt, Bytes(addr, 0, amt))
     ELSE ReadLoop(d, pos, len, <<>>)

(* myfs_read_data_stream: the early returns for len 0 and pos > size, the *)
(* length clamped to the size, the first address checked before anything *)
(* is copied, then the partial first block and the main loop.             *)
ReadBytes(d, pos0, len0) ==
  LET pos  == IF pos0 < 0 THEN 0 ELSE pos0
      len  == MinOf(len0, d.size - pos)
      addr == PosToAddr(d, pos)
      amt  == MinOf(len, B - (pos % B))
  IN IF len0 = 0 \/ pos > d.size THEN [bytes |-> <<>>, err |-> "OK"]
     ELSE IF addr = Die THEN [bytes |-> <<>>, err |-> "die"]
     ELSE IF addr < 0 THEN [bytes |-> <<>>, err |-> "EINVAL"]
     ELSE IF pos % B # 0
       THEN ReadLoop(d, pos + amt, len - amt, Bytes(addr, pos % B, amt))
     ELSE ReadLoop(d, pos, len, <<>>)

(* myfs_free_data_stream: shrink_dstream(myfs, mi, 0), on unlink. *)
FreeDataStream(f) ==
  /\ Running
  /\ \E t \in {Shrink(Call(f), 0)} : Commit(f, "free", 0, 0, t)

Next ==
  \E f \in Files :
    \/ \E n \in SetSizes : SetFileSize(f, n)
    \/ \E pos \in WritePos, len \in WriteLens : Write(f, pos, len)
    \/ FreeDataStream(f)

Spec == Init /\ [][Next]_vars

-----------------------------------------------------------------------------
(* Blocks implied by a stream's size: size rounded up, in blocks. *)
NBlocks(d) == RoundUp(d.size) \div B

(* The places a stream holds a block number: direct slots, the indirect   *)
(* pointer and, while there is an indirect block, its entries.            *)
Slots == ({"direct"} \X (0 .. NumDirect - 1)) \cup {<<"indirect", 0>>}
           \cup ({"ind"} \X (0 .. PtrsPerBlock - 1))

Addr(d, k) ==
  CASE k[1] = "direct"   -> d.direct[k[2]]
    [] k[1] = "indirect" -> d.indirect
    [] OTHER             -> IF d.indirect # 0 THEN d.ind[k[2]] ELSE 0

Refs == {<<f, k>> \in Files \X Slots : Addr(ds[f], k) # 0}

(* The data blocks a stream maps. *)
DataBlocks(d) == {Addr(d, k) : k \in Slots \ {<<"indirect", 0>>}} \ {0}

TypeOK ==
  /\ bv \in SM!BV!BV
  /\ bv.bits \subseteq SM!BV!InRange
  /\ used_blocks \in 0 .. NumBlocks
  /\ ds \in [Files -> [size: 0 .. MAX_INDIRECT_RANGE,
                       direct: [0 .. NumDirect - 1 -> 0 .. NumBlocks - 1],
                       indirect: 0 .. NumBlocks - 1,
                       ind: [0 .. PtrsPerBlock - 1 -> 0 .. NumBlocks - 1]]]
  /\ data \in [0 .. NumBlocks - 1 -> [0 .. B - 1 -> Files \cup {"zero", "ptr", "meta", "stale"}]]
  /\ ret.op \in {"none", "setsize", "write", "free"}

(* Spec 3 "any entry beyond the range implied by size (rounded up to block *)
(* size) must be zero" and 4.3: grow fills, and shrink frees and zeroes,   *)
(* exactly the slots between the old and the new size, so after any        *)
(* sequence of set_file_size, write and free_data_stream calls, including  *)
(* ones that fail with ENOSPC or E2BIG part way, a slot holds a block iff  *)
(* it lies below the rounded size, and a stream past the direct tier has   *)
(* an indirect block.  FreeInd (shrink_dstream's indirect loop) frees      *)
(* block[i] without zeroing it, so one shrink to a size inside the         *)
(* indirect tier breaks this: MCDataStreamShrinkInd.cfg.                   *)
MapMatchesSize ==
  \A f \in Files :
    LET d == ds[f] IN
    /\ \A i \in 0 .. NumDirect - 1 : d.direct[i] # 0 <=> i < NBlocks(d)
    /\ NBlocks(d) > NumDirect => d.indirect # 0
    /\ d.indirect # 0 =>
         \A j \in 0 .. PtrsPerBlock - 1 : d.ind[j] # 0 <=> NumDirect + j < NBlocks(d)

(* Spec 3 "block addresses it references are exclusively owned by that    *)
(* inode and must be returned to the Storage Map when the inode shrinks or *)
(* is deleted": the set bits of the bitmap are exactly the superblock, the *)
(* bitmap blocks and the blocks the streams reference, and no block is     *)
(* referenced from two places, across grows that stop at ENOSPC or E2BIG   *)
(* and shrinks of every tier.  The pointer FreeInd leaves behind names a   *)
(* block the bitmap has freed after one shrink inside the indirect tier:   *)
(* MCDataStreamShrinkInd.cfg with this invariant.                          *)
BitmapMatchesStreams ==
  /\ \A x, y \in Refs : x # y => Addr(ds[x[1]], x[2]) # Addr(ds[y[1]], y[2])
  /\ bv.bits = SM!Reserved \cup {Addr(ds[x[1]], x[2]) : x \in Refs}

(* Spec 4.2: used_blocks counts the set bits, across the single-block     *)
(* allocations of grow_dstream and the frees of shrink_dstream.            *)
UsedBlocksAccurate == used_blocks = Cardinality(bv.bits)

(* Spec 4.3: a write lands only in data blocks of the file written, never *)
(* in the superblock (block 0, what a zero slot maps to) or another file's *)
(* blocks: file_pos_to_disk_addr's range check lets 0 through.             *)
WritesStayInFile ==
  [][ret'.op = "write" /\ ret'.err = "OK" =>
       ret'.targets \subseteq DataBlocks(ds'[ret'.f])]_vars

(* The byte at position i of stream d, where file_pos_to_disk_addr sends it.*)
ByteAt(d, i) ==
  LET a == PosToAddr(d, i) IN
  IF a \in 0 .. NumBlocks - 1 THEN data[a][i % B] ELSE "none"

(* A file's bytes as its stream maps them, and the call just made. *)
File == INSTANCE FileContent WITH
          content <- [f \in Files |-> [k \in 1 .. ds[f].size |-> ByteAt(ds[f], k - 1)]],
          out <- [op |-> ret.op, f |-> ret.f, pos |-> ret.pos, len |-> ret.len,
                  ok |-> ret.err = "OK"]

ReadReturnsContent ==
  \A f \in Files, pos \in ReadPos, len \in ReadLens :
    ReadBytes(ds[f], pos, len) = [bytes |-> File!ReadResult(f, pos, len), err |-> "OK"]
====
