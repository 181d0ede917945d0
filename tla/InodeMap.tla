------------------------------ MODULE InodeMap ------------------------------
(***************************************************************************)
(* The inode map of src/inode.c: a BitVector of num_inodes bits kept in    *)
(* memory (myfs->inode_map) and on disk in blocks inode_map_start ..       *)
(* inode_map_start + num_inode_map_blocks - 1.                             *)
(*                                                                         *)
(* myfs_allocate_inode and myfs_free_inode take no lock.  A thread's call  *)
(* of GetFreeRangeOfBits(&inode_map, 1) is split where another thread can  *)
(* run in between: Scan reads the map and picks the first free bit; Take   *)
(* sets it, moves the hint and writes the map block back.  With one        *)
(* thread (the fsh shell) Scan and Take follow each other.                 *)
(*                                                                         *)
(* held is a ghost variable: the inodes each thread was handed and has not *)
(* freed.  disk is the set of set bits of the on-disk map.                 *)
(***************************************************************************)
EXTENDS Integers, FiniteSets

CONSTANTS
  NumInodes,     \* dsb.num_inodes = inode_map.numbits
  W,             \* BITS_IN_CHUNK
  MapBlockBits,  \* 8 * block_size: map bits per disk block
  NumMapBlocks,  \* dsb.num_inode_map_blocks
  Threads,       \* threads calling the vnode operations
  MaxHeld        \* a thread allocates only while it holds fewer inodes

ASSUME NumInodes \in Nat \ {0} /\ MapBlockBits \in Nat \ {0}
ASSUME NumMapBlocks \in Nat \ {0} /\ MaxHeld \in Nat

VARIABLES inode_map, disk, pc, scanned, held, ret
vars == <<inode_map, disk, pc, scanned, held, ret>>

IM == INSTANCE BitVector WITH NumBits <- NumInodes, MaxLen <- 0, bv <- inode_map

(* The map block holding bit ia: offset = ia / 8 / bsize. *)
MapOffset(ia) == ia \div MapBlockBits

(* write_blocks(inode_map_start + offset, &block[offset*bsize], 1): the    *)
(* disk copy of that block's bits becomes the memory copy.                 *)
WriteMapBlock(bits, ia) ==
  LET region == MapOffset(ia) * MapBlockBits .. (MapOffset(ia) + 1) * MapBlockBits - 1
  IN (disk \ region) \cup (bits \cap region)

(* Mutant: format forgets to reserve inode 0. *)
InitNoReserve ==
  /\ inode_map = IM!EmptyBV
  /\ disk = {}
  /\ pc = [t \in Threads |-> "idle"]
  /\ scanned = [t \in Threads |-> -1]
  /\ held = [t \in Threads |-> {}]
  /\ ret = [op |-> "none", t |-> CHOOSE t \in Threads : TRUE, ia |-> -1]

(* myfs_create_inodes: a calloc'ed map in which GetFreeRangeOfBits takes   *)
(* inode 0, written to the first map block; then every thread is idle.     *)
Init ==
  LET r == IM!GetFreeRangeOfBits(IM!EmptyBV, 1) IN
  /\ inode_map = r.bv
  /\ disk = r.bv.bits \cap 0 .. MapBlockBits - 1
  /\ pc = [t \in Threads |-> "idle"]
  /\ scanned = [t \in Threads |-> -1]
  /\ held = [t \in Threads |-> {}]
  /\ ret = [op |-> "none", t |-> CHOOSE t \in Threads : TRUE, ia |-> -1]

(* myfs_allocate_inode up to the scan.  A failed scan returns NULL ("no    *)
(* inodes left!"), having possibly set is_full.                            *)
Scan(t) ==
  LET r == IM!GetFreeRangeOfBits(inode_map, 1) IN
  /\ pc[t] = "idle"
  /\ Cardinality(held[t]) < MaxHeld
  /\ IF r.start < 0
       THEN /\ inode_map' = r.bv
            /\ ret' = [op |-> "alloc", t |-> t, ia |-> -1]
            /\ UNCHANGED <<disk, pc, scanned, held>>
       ELSE /\ pc' = [pc EXCEPT ![t] = "scanned"]
            /\ scanned' = [scanned EXCEPT ![t] = r.start]
            /\ UNCHANGED <<inode_map, disk, held, ret>>

(* Mutant: the slot recorded after it was reset. *)
TakeReadsReset(t) ==
  LET ia == scanned[t]
      m  == IM!Found(inode_map, ia, 1).bv
  IN
  /\ pc[t] = "scanned"
  /\ inode_map' = m
  /\ scanned' = [scanned EXCEPT ![t] = -1]
  /\ IF MapOffset(ia) >= NumMapBlocks
       THEN /\ pc' = [pc EXCEPT ![t] = "dead"]
            /\ UNCHANGED <<disk, held, ret>>
       ELSE /\ disk' = WriteMapBlock(m.bits, ia)
            /\ pc' = [pc EXCEPT ![t] = "idle"]
            /\ held' = [held EXCEPT ![t] = @ \cup {scanned'[t]}]
            /\ ret' = [op |-> "alloc", t |-> t, ia |-> ia]

(* The rest: the bit found is set in the map as it is now, the hint moved, *)
(* and the changed map block written; an offset past the map block count  *)
(* is myfs_die, which spins forever.                                       *)
Take(t) ==
  LET ia == scanned[t]
      m  == IM!Found(inode_map, ia, 1).bv
  IN
  /\ pc[t] = "scanned"
  /\ inode_map' = m
  /\ scanned' = [scanned EXCEPT ![t] = -1]
  /\ IF MapOffset(ia) >= NumMapBlocks
       THEN /\ pc' = [pc EXCEPT ![t] = "dead"]
            /\ UNCHANGED <<disk, held, ret>>
       ELSE /\ disk' = WriteMapBlock(m.bits, ia)
            /\ pc' = [pc EXCEPT ![t] = "idle"]
            /\ held' = [held EXCEPT ![t] = @ \cup {ia}]
            /\ ret' = [op |-> "alloc", t |-> t, ia |-> ia]

(* Mutant: the freed bit cleared in memory only. *)
FreeNoWrite(t, ia) ==
  LET m == IM!UnSetBV(inode_map, ia) IN
  /\ pc[t] = "idle"
  /\ ia \in held[t]
  /\ inode_map' = m
  /\ held' = [held EXCEPT ![t] = @ \ {ia}]
  /\ ret' = [op |-> "free", t |-> t, ia |-> ia]
  /\ UNCHANGED <<disk, pc, scanned>>

(* myfs_free_inode(myfs, ia) of an inode the thread holds: UnSetBV and the *)
(* write of its map block.                                                 *)
Free(t, ia) ==
  LET m == IM!UnSetBV(inode_map, ia) IN
  /\ pc[t] = "idle"
  /\ ia \in held[t]
  /\ inode_map' = m
  /\ disk' = WriteMapBlock(m.bits, ia)
  /\ held' = [held EXCEPT ![t] = @ \ {ia}]
  /\ ret' = [op |-> "free", t |-> t, ia |-> ia]
  /\ UNCHANGED <<pc, scanned>>

Next ==
  \E t \in Threads :
    \/ Scan(t)
    \/ Take(t)
    \/ \E ia \in 0 .. NumInodes - 1 : Free(t, ia)

Spec == Init /\ [][Next]_vars

-----------------------------------------------------------------------------
TypeOK ==
  /\ inode_map \in IM!BV
  /\ inode_map.bits \subseteq IM!InRange
  /\ disk \subseteq 0 .. NumMapBlocks * MapBlockBits - 1
  /\ pc \in [Threads -> {"idle", "scanned", "dead"}]
  /\ scanned \in [Threads -> -1 .. NumInodes - 1]
  /\ held \in [Threads -> SUBSET IM!InRange]
  /\ ret.op \in {"none", "alloc", "free"} /\ ret.ia \in -1 .. NumInodes - 1

(* Spec 3: inode 0 is reserved and never handed out, no inode is held by  *)
(* two threads, and none is held while clear in the map (a free of an      *)
(* inode not allocated).  The inode_map run has one                        *)
(* thread, as fsh: any sequence of myfs_allocate_inode and                 *)
(* myfs_free_inode calls, the hint wrapping and the map full.  Two threads *)
(* break it, since neither call takes a lock between its scan and its set  *)
(* (MCInodeMapRace.cfg).                                                   *)
InodesExclusive ==
  /\ \A t, u \in Threads : t # u => held[t] \cap held[u] = {}
  /\ \A t \in Threads : held[t] \subseteq inode_map.bits \ {0}

(* Spec 3 and 4.2: every change to the inode map is written back, so the  *)
(* on-disk map read by myfs_init_inodes at the next mount equals the one  *)
(* in memory whenever no call is half done.                                *)
DiskMirrorsMemory ==
  (\A t \in Threads : pc[t] = "idle") => disk = inode_map.bits

(* Spec 4.1: clearing a bit resets is_full, so myfs_allocate_inode fails  *)
(* only when every inode is in use.                                        *)
AllocSucceedsWhenFree ==
  [][ret'.op = "alloc" /\ ret'.ia = -1 => IM!FreeBits(inode_map) = {}]_vars

=============================================================================
