----------------------------- MODULE BitVector -----------------------------
(***************************************************************************)
(* The bit vector of src/bitvector.c, shared by the block bitmap           *)
(* (bitmap.c) and the inode map (inode.c).                                 *)
(*                                                                         *)
(* A bit vector is a record                                                *)
(*   [bits |-> the set of set bit positions,                               *)
(*    next_free |-> the search hint, is_full |-> the cached "full" flag].  *)
(* The storage is Count chunks of W bits each (typedef int chunk, so W is  *)
(* 32 in the build); positions NumBits .. Count*W-1 are the padding bits   *)
(* of the last chunk.  The code is generic in BITS_IN_CHUNK, so a small W  *)
(* exercises the same chunk-crossing paths as 32.                          *)
(*                                                                         *)
(* The operations are pure operators from a bit vector to a bit vector (or *)
(* a result record), so the wrappers can compose them into their own       *)
(* actions.  The second half of the module is a client that calls every    *)
(* operation with any argument, used to check GetFreeRangeOfBits alone.    *)
(***************************************************************************)
EXTENDS Integers, FiniteSets

CONSTANTS
  NumBits,   \* bv->numbits
  W          \* BITS_IN_CHUNK

ASSUME NumBits \in Nat \ {0}
ASSUME W \in Nat \ {0}

(* Number of chunks the scan visits: numbits / BITS_IN_CHUNK, rounded up. *)
Count == (NumBits + W - 1) \div W

Positions == 0 .. Count * W - 1
InRange   == 0 .. NumBits - 1

BV == [bits: SUBSET Positions, next_free: 0 .. NumBits, is_full: BOOLEAN]

(* A freshly calloc'ed bit vector. *)
EmptyBV == [bits |-> {}, next_free |-> 0, is_full |-> FALSE]

Run(start, len) == start .. start + len - 1

(* bv->bits[begin] == (chunk)(~0) *)
ChunkFull(bits, c) == \A b \in 0 .. W - 1 : c * W + b \in bits

(* Mutant: the bound test of SetBV off by one, so bit numbits is settable. *)
SetBVPastEnd(bv, which) ==
  IF which > NumBits \/ which < 0 THEN bv
  ELSE [bv EXCEPT !.bits = @ \cup {which}]

SetBV(bv, which) ==
  IF which >= NumBits \/ which < 0 THEN bv
  ELSE [bv EXCEPT !.bits = @ \cup {which}]

(* Clears one bit and makes it the hint.  It leaves is_full alone.         *)
UnSetBV(bv, which) ==
  IF which >= NumBits \/ which < 0 THEN bv
  ELSE [bv EXCEPT !.bits = @ \ {which}, !.next_free = which]

(* Mutant: the range cleared one bit too long. *)
UnSetRangeBVOverrun(bv, start, len) ==
  IF start < 0 \/ len < 0 \/ start + len > NumBits THEN bv
  ELSE [bv EXCEPT !.bits = @ \ Run(start, len + 1), !.next_free = start]

UnSetRangeBV(bv, start, len) ==
  IF start < 0 \/ len < 0 \/ start + len > NumBits THEN bv
  ELSE [bv EXCEPT !.bits = @ \ Run(start, len), !.next_free = start]

IsSetBV(bv, which) == which \in InRange /\ which \in bv.bits

(***************************************************************************)
(* GetFreeRangeOfBits(bv, len, &biggest_free_chunk).                       *)
(*                                                                         *)
(* The result is [start |-> first bit or -1, bv |-> the bit vector after   *)
(* the call, biggest |-> *biggest_free_chunk].                             *)
(*                                                                         *)
(* Extend is the inner "for(k=0; ...)" loop that grows a run from the free *)
(* bit p: a (chunk n, bit) pair is always the position n*W+bit, so it is   *)
(* kept as one position.  It stops at a set bit, at NumBits, or at len.    *)
(***************************************************************************)
(* Mutant: the run is grown without testing the bits it crosses. *)
RECURSIVE ExtendBlind(_, _, _, _)
ExtendBlind(bits, p, k, len) ==
  IF k < len /\ p < NumBits
    THEN ExtendBlind(bits, p + 1, k + 1, len)
    ELSE [k |-> k, p |-> p]

RECURSIVE Extend(_, _, _, _)
Extend(bits, p, k, len) ==
  IF k < len /\ p < NumBits /\ p \notin bits
    THEN Extend(bits, p + 1, k + 1, len)
    ELSE [k |-> k, p |-> p]

(* Success: set the len bits at start and move the hint past them when the *)
(* bit just after the run (if it lies in the storage) is clear.            *)
(* Mutant: the found run is set one bit too long. *)
FoundOverrun(bv, start, len) ==
  LET bits2 == bv.bits \cup Run(start, len + 1)
      after == start + len
  IN [start   |-> start,
      biggest |-> -1,
      bv      |-> [bv EXCEPT
                     !.bits = bits2,
                     !.next_free = IF after \div W < Count /\ after \notin bits2
                                     THEN after ELSE @]]

Found(bv, start, len) ==
  LET bits2 == bv.bits \cup Run(start, len)
      after == start + len
  IN [start   |-> start,
      biggest |-> -1,
      bv      |-> [bv EXCEPT
                     !.bits = bits2,
                     !.next_free = IF after \div W < Count /\ after \notin bits2
                                     THEN after ELSE @]]

(* Exhaustion: mark the vector full when every bit seen was set. *)
NotFound(bv, nz, maxf) ==
  [start   |-> -1,
   biggest |-> maxf,
   bv      |-> [bv EXCEPT !.is_full = @ \/ nz >= NumBits]]

(* Outer is the loop over chunks "for(i=0; i < count; i++)", starting at   *)
(* the hint's chunk and wrapping; Inner is the loop over the bits j of     *)
(* chunk begin.  nz is non_zero_bits and maxf is max_free.                 *)
RECURSIVE Outer(_, _, _, _, _), Inner(_, _, _, _, _, _, _)
Outer(bv, len, i, nz, maxf) ==
  IF i >= Count THEN NotFound(bv, nz, maxf)
  ELSE LET begin == ((bv.next_free \div W) + i) % Count
       IN IF ChunkFull(bv.bits, begin)
            THEN Outer(bv, len, i + 1, nz + W, maxf)
            ELSE Inner(bv, len, i, begin, 0, nz, maxf)

Inner(bv, len, i, begin, j, nz, maxf) ==
  IF j >= W THEN Outer(bv, len, i + 1, nz, maxf)
  ELSE
  LET p == begin * W + j IN
  IF p \in bv.bits THEN Inner(bv, len, i, begin, j + 1, nz + 1, maxf)
  ELSE
  LET e   == Extend(bv.bits, p, 0, len)
      n   == e.p \div W
      bit == e.p % W
      mf  == IF e.k > maxf THEN e.k ELSE maxf
  IN
  CASE e.p >= NumBits /\ e.k < len ->
         \* ran off the end: skip what was examined, then the for's i++
         Outer(bv, len, i + (IF n > begin THEN n - begin ELSE 1) + 1, nz, mf)
    [] e.k < len ->
         \* hit a set bit: resume the bit loop just past it, in chunk n
         Inner(bv, len, i + (n - begin), n, bit + 1, nz, mf)
    [] p + len > NumBits ->
         Outer(bv, len, i + 1, nz, mf)
    [] OTHER -> Found(bv, p, len)

GetFreeRangeOfBits(bv, len) ==
  IF len <= 0 \/ len > NumBits \/ bv.is_full
    THEN [start |-> -1, biggest |-> -1, bv |-> bv]
    ELSE Outer(bv, len, 0, 0, -1)

-----------------------------------------------------------------------------
(***************************************************************************)
(* Reference definitions: what a scan over the whole vector can find.      *)
(***************************************************************************)
FreeBits(bv) == InRange \ bv.bits

HasFreeRun(bv, len) ==
  \E s \in 0 .. NumBits - len : Run(s, len) \cap bv.bits = {}

-----------------------------------------------------------------------------
(***************************************************************************)
(* A client calling every operation of bitvector.c with any argument.      *)
(* ret records the last call: its name, its length argument and the start *)
(* GetFreeRangeOfBits returned.                                            *)
(***************************************************************************)
CONSTANT MaxLen   \* largest length passed to the range operations

VARIABLES bv, ret
vars == <<bv, ret>>

Args == -1 .. NumBits

Init ==
  /\ bv = EmptyBV
  /\ ret = [op |-> "none", len |-> 0, start |-> -1]

DoSetBV ==
  \E w \in Args :
    /\ bv' = SetBV(bv, w)
    /\ ret' = [op |-> "set", len |-> 1, start |-> -1]

DoUnSetBV ==
  \E w \in Args :
    /\ bv' = UnSetBV(bv, w)
    /\ ret' = [op |-> "unset", len |-> 1, start |-> -1]

DoUnSetRangeBV ==
  \E s \in Args, l \in 0 .. MaxLen :
    /\ bv' = UnSetRangeBV(bv, s, l)
    /\ ret' = [op |-> "unsetrange", len |-> l, start |-> -1]

DoGetFreeRange ==
  \E l \in 0 .. MaxLen :
    LET r == GetFreeRangeOfBits(bv, l) IN
    /\ bv' = r.bv
    /\ ret' = [op |-> "get", len |-> l, start |-> r.start]

Next == DoSetBV \/ DoUnSetBV \/ DoUnSetRangeBV \/ DoGetFreeRange

Spec == Init /\ [][Next]_vars

-----------------------------------------------------------------------------
(* The type of the state, with the bits past numbits in the last chunk    *)
(* clear: SetBV and UnSetBV refuse positions >= numbits and the scan's      *)
(* end-of-vector tests rely on those padding bits never being set.         *)
TypeOK ==
  /\ bv \in BV
  /\ bv.bits \subseteq InRange
  /\ ret \in [op: {"none", "set", "unset", "unsetrange", "get"},
              len: 0 .. MaxLen, start: -1 .. NumBits]

(* A successful GetFreeRangeOfBits hands out exactly len clear in-range   *)
(* bits, sets exactly those, and moves the hint only to the bit just past them.       *)
GetFreeRangeSound ==
  [][ret'.op = "get" /\ ret'.start # -1 =>
       LET R == Run(ret'.start, ret'.len) IN
       /\ R \subseteq InRange
       /\ R \cap bv.bits = {}
       /\ bv'.bits = bv.bits \cup R
       /\ bv'.next_free \in {bv.next_free, ret'.start + ret'.len}]_vars

(* bitvector.c's header comment and spec 4.1: the scan visits every chunk *)
(* once, wrapping from the hint, so when is_full is clear and some run of  *)
(* len clear bits exists, GetFreeRangeOfBits finds one.                    *)
GetFreeRangeComplete ==
  [][ret'.op = "get" /\ ret'.len \in 1 .. NumBits /\ ~bv.is_full
       /\ HasFreeRun(bv, ret'.len) => ret'.start # -1]_vars

(* Spec 4.1: is_full caches "a full scan found zero free bits", so a     *)
(* GetFreeRangeOfBits call sets it only when no bit of the vector is       *)
(* clear.  The code counts set bits in non_zero_bits as it scans; a chunk *)
(* re-entered after a failed extension is counted again.                   *)
IsFullOnlyWhenExhausted ==
  [][ret'.op = "get" /\ ~bv.is_full /\ bv'.is_full => FreeBits(bv') = {}]_vars

=============================================================================
