------------------------------ MODULE TmpBlocks ------------------------------
(***************************************************************************)
(* The scratch block pool of src/util.c: a list of chunks of              *)
(* NUM_TMP_BLOCKS block buffers, each slot's block_ptrs[i] non-NULL while  *)
(* the buffer is free, under tmp_blocks_sem.  get_tmp_blocks hands out a   *)
(* run of nblocks contiguous free slots of one chunk, searching the chunks *)
(* newest first, and mallocs a new chunk when none has room;              *)
(* free_tmp_blocks puts a run back.                                        *)
(*                                                                         *)
(* A chunk is named by its creation number k (the list head is the         *)
(* highest); free[k][i] is block_ptrs[i] # NULL.  A call is two steps:   *)
(* entering the function (calling[c] records it) and its body, which runs  *)
(* between acquire_sem and release_sem and so is one action, enabled only *)
(* while the semaphore is free; sem records whether it is held after the  *)
(* call.  held (ghost) is the runs each caller was handed and not freed.   *)
(***************************************************************************)
EXTENDS Integers, FiniteSets, Sequences

CONSTANTS
  NUM_TMP_BLOCKS,
  Callers,      \* threads calling get_tmp_blocks / free_tmp_blocks
  Lens,         \* nblocks arguments
  MaxChunks,    \* bound on the chunks malloc'ed
  MallocFails,  \* whether malloc may return NULL
  MaxHeld       \* a caller calls get_tmp_blocks only while it holds fewer runs

ASSUME NUM_TMP_BLOCKS \in Nat \ {0} /\ MallocFails \in BOOLEAN
ASSUME Lens \subseteq Nat \ {0} /\ MaxChunks \in Nat \ {0}

VARIABLES free, sem, held, dead, calling, ret
vars == <<free, sem, held, dead, calling, ret>>

Slots == 0 .. NUM_TMP_BLOCKS - 1
Pick(S) == CHOOSE x \in S : TRUE

(* A run handed out: chunk k, first slot start, nblocks slots. *)
RunSlots(a) == {<<a.k, i>> : i \in a.start .. a.start + a.n - 1}

(***************************************************************************)
(* The slot loop of get_tmp_blocks over one chunk: blocks/start track the *)
(* run of free slots seen so far (start < 0 is "blocks == NULL"), a used   *)
(* slot resets it, and the run is taken when it reaches nblocks.  Returns  *)
(* the run's start or -1.                                                  *)
(***************************************************************************)
RECURSIVE ScanChunk(_, _, _, _)
(* Mutant: the slot that completes the run is returned, not its start. *)
ScanChunkReturnsEnd(f, n, i, start) ==
  IF i >= NUM_TMP_BLOCKS THEN -1
  ELSE LET st == IF start < 0 /\ f[i] THEN i ELSE start IN
       IF st >= 0 /\ f[i] /\ (i + 1) - st = n THEN i
       ELSE ScanChunk(f, n, i + 1, IF f[i] THEN st ELSE -1)

ScanChunk(f, n, i, start) ==
  IF i >= NUM_TMP_BLOCKS THEN -1
  ELSE LET st == IF start < 0 /\ f[i] THEN i ELSE start IN
       IF st >= 0 /\ f[i] /\ (i + 1) - st = n THEN st
       ELSE ScanChunk(f, n, i + 1, IF f[i] THEN st ELSE -1)

(* Mutant: only the newest chunk is searched. *)
FindRunHeadOnly(n) ==
  LET k == Len(free) IN
  IF k > 0 /\ ScanChunk(free[k], n, 0, -1) >= 0
    THEN [k |-> k, start |-> ScanChunk(free[k], n, 0, -1), n |-> n]
    ELSE [k |-> 0, start |-> -1, n |-> n]

(* The chunk loop "for(tmp=myfs->tmp_blocks; tmp; tmp=tmp->next)": the     *)
(* newest chunk with a run wins.                                           *)
FindRun(n) ==
  LET ks == {k \in 1 .. Len(free) : ScanChunk(free[k], n, 0, -1) >= 0} IN
  IF ks = {} THEN [k |-> 0, start |-> -1, n |-> n]
  ELSE LET k == CHOOSE k \in ks : \A k2 \in ks : k2 <= k
       IN [k |-> k, start |-> ScanChunk(free[k], n, 0, -1), n |-> n]

(* Mutant: the new chunk keeps one slot too few of the request. *)
NewChunkShort(n) == [i \in Slots |-> i >= n - 1]

(* A malloc'ed chunk: its first nblocks slots handed out. *)
NewChunk(n) == [i \in Slots |-> i >= n]

None == [op |-> "none"]

Init ==
  \* init_tmp_blocks: one chunk, every slot free.
  /\ free = <<[i \in Slots |-> TRUE]>>
  /\ sem = FALSE
  /\ held = [c \in Callers |-> {}]
  /\ dead = FALSE
  /\ calling = [c \in Callers |-> None]
  /\ ret = [op |-> "none", c |-> Pick(Callers), n |-> 0, ok |-> TRUE]

(* A caller enters get_tmp_blocks(myfs, n) or free_tmp_blocks of a run it *)
(* holds; the body runs once it has tmp_blocks_sem.                        *)
CallGet(c, n) ==
  /\ calling[c] = None /\ Cardinality(held[c]) < MaxHeld
  /\ calling' = [calling EXCEPT ![c] = [op |-> "get", n |-> n]]
  /\ UNCHANGED <<free, sem, held, dead, ret>>

CallFree(c, a) ==
  /\ calling[c] = None /\ a \in held[c]
  /\ calling' = [calling EXCEPT ![c] = [op |-> "free", a |-> a]]
  /\ UNCHANGED <<free, sem, held, dead, ret>>

Return(c) == calling' = [calling EXCEPT ![c] = None]

(* Mutant: the new-chunk path returns without release_sem. *)
NewChunkSemHeld == TRUE

(* Whether tmp_blocks_sem is held once a new chunk has been linked in.     *)
NewChunkSem == FALSE

(* The body of get_tmp_blocks(myfs, nblocks).  The over-limit test comes   *)
(* before acquire_sem; the run found is checked slot by slot (myfs_die on *)
(* one already in use); the two malloc failures return NULL without       *)
(* release_sem.                                                            *)
Get(c) ==
  LET n == calling[c].n IN
  /\ ~dead /\ calling[c].op = "get"
  /\ IF n > NUM_TMP_BLOCKS
       THEN /\ ret' = [op |-> "get", c |-> c, n |-> n, ok |-> FALSE]
            /\ Return(c)
            /\ UNCHANGED <<free, sem, held, dead>>
       ELSE
       /\ ~sem
       /\ \E r \in {FindRun(n)} :
            IF r.start >= 0
              THEN IF \E i \in (r.start .. r.start + n - 1) \cap Slots : ~free[r.k][i]
                     THEN dead' = TRUE /\ UNCHANGED <<free, sem, held, calling, ret>>
                     ELSE
                   /\ free' = [free EXCEPT ![r.k] =
                                 [i \in Slots |-> IF i \in r.start .. r.start + n - 1
                                                    THEN FALSE ELSE @[i]]]
                   /\ held' = [held EXCEPT ![c] = @ \cup {r}]
                   /\ ret' = [op |-> "get", c |-> c, n |-> n, ok |-> TRUE]
                   /\ Return(c)
                   /\ UNCHANGED <<sem, dead>>
              ELSE \E ok \in IF MallocFails THEN BOOLEAN ELSE {TRUE} :
                     /\ ret' = [op |-> "get", c |-> c, n |-> n, ok |-> ok]
                     /\ Return(c)
                     /\ IF ok
                          THEN /\ Len(free) < MaxChunks
                               /\ free' = Append(free, NewChunk(n))
                               /\ held' = [held EXCEPT ![c] =
                                             @ \cup {[k |-> Len(free) + 1, start |-> 0, n |-> n]}]
                               /\ sem' = NewChunkSem
                               /\ UNCHANGED dead
                          ELSE /\ sem' = TRUE
                               /\ UNCHANGED <<free, held, dead>>

(* The body of free_tmp_blocks(myfs, blocks, nblocks): each slot must be  *)
(* in use (else myfs_die) and is made free again.                          *)
Free(c) ==
  LET a == calling[c].a IN
  /\ ~dead /\ ~sem /\ calling[c].op = "free"
  /\ IF \E i \in a.start .. a.start + a.n - 1 : free[a.k][i]
       THEN dead' = TRUE /\ UNCHANGED <<free, sem, held, calling, ret>>
       ELSE /\ free' = [free EXCEPT ![a.k] =
                          [i \in Slots |-> IF i \in a.start .. a.start + a.n - 1
                                             THEN TRUE ELSE @[i]]]
            /\ held' = [held EXCEPT ![c] = @ \ {a}]
            /\ ret' = [op |-> "free", c |-> c, n |-> a.n, ok |-> TRUE]
            /\ Return(c)
            /\ UNCHANGED <<sem, dead>>

Next ==
  \E c \in Callers :
    \/ \E n \in Lens : CallGet(c, n)
    \/ \E a \in held[c] : CallFree(c, a)
    \/ Get(c)
    \/ Free(c)

(* acquire_sem wakes a waiter whenever the semaphore is free, and the body *)
(* of either call runs to its return without blocking again.              *)
Fairness == \A c \in Callers : WF_vars(Get(c)) /\ WF_vars(Free(c))

Spec == Init /\ [][Next]_vars /\ Fairness

-----------------------------------------------------------------------------
(* Reference: chunk f has nblocks contiguous free slots. *)
HasRun(f, n) == \E s \in 0 .. NUM_TMP_BLOCKS - n : \A i \in s .. s + n - 1 : f[i]

Runs == UNION {held[c] : c \in Callers}

TypeOK ==
  /\ free \in Seq([Slots -> BOOLEAN]) /\ Len(free) \in 1 .. MaxChunks
  /\ sem \in BOOLEAN /\ dead \in BOOLEAN
  /\ \A a \in Runs : a.k \in 1 .. Len(free) /\ a.start >= 0
                     /\ a.start + a.n <= NUM_TMP_BLOCKS
  /\ ret.op \in {"none", "get", "free"} /\ ret.ok \in BOOLEAN
  /\ \A c \in Callers : calling[c].op \in {"none", "get", "free"}

(* Spec 5 "a small fixed pool guarded by its own lock": the runs handed    *)
(* out by get_tmp_blocks and not yet freed are pairwise disjoint, in use   *)
(* in their chunk, and the only slots in use, across gets and frees by     *)
(* several callers and chunks malloc'ed on demand; free_tmp_blocks never   *)
(* reaches its "already free" myfs_die.                                    *)
TmpBlocksExclusive ==
  /\ ~dead
  /\ \A c, d \in Callers : \A a \in held[c], b \in held[d] :
       (c # d \/ a # b) => RunSlots(a) \cap RunSlots(b) = {}
  /\ \A k \in 1 .. Len(free), i \in Slots :
       ~free[k][i] <=> \E a \in Runs : <<k, i>> \in RunSlots(a)

(* Spec 5 "exhaustion falls back to a dynamically grown pool": a new chunk *)
(* is malloc'ed only when no existing chunk has nblocks contiguous free    *)
(* slots (the scan's reset on a used slot and its run-length test must    *)
(* find every run).                                                        *)
GrowsOnlyWhenExhausted ==
  [][Len(free') > Len(free) =>
       \A k \in 1 .. Len(free) : ~HasRun(free[k], ret'.n)]_vars

(* Spec 5: tmp_blocks_sem is released on every return of get_tmp_blocks, *)
(* so between calls it is free.                                            *)
SemNotLeaked == ~sem

(* Spec 5: the pool is shared by every thread of the file system, and a   *)
(* caller of get_tmp_blocks or free_tmp_blocks is never left waiting: each *)
(* call, once entered, returns, whatever the other callers do in between.  *)
(* It fails if any path leaves tmp_blocks_sem held or ends in myfs_die.    *)
CallsReturn == \A c \in Callers : calling[c] # None ~> calling[c] = None
====
