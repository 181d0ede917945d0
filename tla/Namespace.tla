----------------------------- MODULE Namespace -----------------------------
(***************************************************************************)
(* What the directory-changing vnode operations promise a client, with no  *)
(* records, buffers, streams or cookies in sight: a set of links           *)
(* <<directory, name, inode>>, the allocated inodes and which of them are  *)
(* directories.  out is the last call: its operation and whether it        *)
(* returned 0.                                                             *)
(*  - create and mkdir that succeed add one link, under a name the         *)
(*    directory did not hold, to one inode that was free, and allocate it; *)
(*  - unlink and rmdir that succeed remove one link and free its inode: a  *)
(*    regular file for unlink, an empty directory for rmdir;               *)
(*  - a call that fails changes nothing (spec 7: out-of-space is reported  *)
(*    with no state corruption; invalid arguments have no side effects);   *)
(*  - opendir, readdir, rewinddir, closedir and the release of a vnode     *)
(*    change nothing.                                                      *)
(***************************************************************************)
EXTENDS FiniteSets

CONSTANTS Inodes, Root, Names

VARIABLES links, used, dirs, out
vars == <<links, used, dirs, out>>

Links == Inodes \X Names \X Inodes

Init ==
  /\ links = {} /\ used = {Root} /\ dirs = {Root}
  /\ out = [op |-> "none", ok |-> TRUE]

(* The names directory d holds among links L. *)
NamesOf(L, d) == {l[2] : l \in {l \in L : l[1] = d}}

(* Each step relates the links before (L) and after (L1) the call. *)
Failed(op, L, L1) ==
  /\ out' = [op |-> op, ok |-> FALSE]
  /\ L1 = L /\ UNCHANGED <<used, dirs>>

Link(op, L, L1) ==
  /\ out' = [op |-> op, ok |-> TRUE]
  /\ \E l \in L1 \ L :
       /\ L1 = L \cup {l}
       /\ l[1] \in dirs /\ l[2] \notin NamesOf(L, l[1]) /\ l[3] \notin used
       /\ used' = used \cup {l[3]}
       /\ dirs' = IF op = "mkdir" THEN dirs \cup {l[3]} ELSE dirs

Remove(op, L, L1) ==
  /\ out' = [op |-> op, ok |-> TRUE]
  /\ \E l \in L \ L1 :
       /\ L1 = L \ {l}
       /\ l[3] \in dirs <=> op = "rmdir"
       /\ op = "rmdir" => NamesOf(L, l[3]) = {}
       /\ used' = used \ {l[3]}
       /\ dirs' = dirs \ {l[3]}

Look(op, L, L1) ==
  /\ out' = [op |-> op, ok |-> TRUE]
  /\ L1 = L /\ UNCHANGED <<used, dirs>>

(* links and links' are bound once per step. *)
Next ==
  \E L \in {links}, L1 \in {links'} :
    \/ \E op \in {"create", "mkdir"} : Link(op, L, L1) \/ Failed(op, L, L1)
    \/ \E op \in {"unlink", "rmdir"} : Remove(op, L, L1) \/ Failed(op, L, L1)
    \/ \E op \in {"opendir", "rewinddir", "readdir", "closedir", "release"} : Look(op, L, L1)

Spec == Init /\ [][Next]_vars
=============================================================================
