----------------------------- MODULE Allocator -----------------------------
(***************************************************************************)
(* What the block allocator of spec 4.2 and 8 promises its callers, with  *)
(* no bitmap, hint, counter or write-back in sight: a set of free blocks  *)
(* and the blocks each client holds.                                       *)
(*                                                                         *)
(* out is the last call: [op, c, blocks, ok], blocks being the run it     *)
(* granted or released.                                                    *)
(*  - a successful allocation moves exactly its blocks, all free, to the  *)
(*    caller;                                                              *)
(*  - a free returns exactly the released blocks, which the caller held,  *)
(*    to the free set, whether or not the bitmap reached the disk;        *)
(*  - a failed allocation grants nothing and frees nothing, though it may *)
(*    leave blocks marked used (spec 8 accepts the divergence a failed    *)
(*    write-back leaves until remount);                                    *)
(*  - a remount never frees a block a client holds.                        *)
(***************************************************************************)
CONSTANTS Blocks, Clients

VARIABLES free, held, out
vars == <<free, held, out>>

Held == UNION {held[c] : c \in Clients}

Init ==
  /\ free = Blocks
  /\ held = [c \in Clients |-> {}]
  /\ out = [op |-> "none", c |-> CHOOSE c \in Clients : TRUE,
            blocks |-> {}, ok |-> TRUE]

Alloc(c) ==
  /\ out'.op = "alloc" /\ out'.c = c
  /\ IF out'.ok
       THEN /\ out'.blocks # {} /\ out'.blocks \subseteq free
            /\ free' = free \ out'.blocks
            /\ held' = [held EXCEPT ![c] = @ \cup out'.blocks]
       ELSE /\ free' \subseteq free
            /\ held' = held

Release(c) ==
  /\ out'.op = "free" /\ out'.c = c
  /\ out'.blocks \subseteq held[c]
  /\ free' = free \cup out'.blocks
  /\ held' = [held EXCEPT ![c] = @ \ out'.blocks]

Remount ==
  /\ out'.op = "remount"
  /\ held' = held
  /\ free' \subseteq Blocks \ Held

Next == \E c \in Clients : Alloc(c) \/ Release(c) \/ Remount

Spec == Init /\ [][Next]_vars
=============================================================================
