--------------------------- MODULE MCShellFiles ---------------------------
EXTENDS Shell

(* The volume of MCShell with one file inode besides the root, so that a  *)
(* file held open by cur_fd and unlinked, and a make finding no free inode *)
(* while the unlinked file is held, both happen; wrtest and rdtest of half *)
(* and one block at 0, 8 or 16, seek back to 0, trunc to 0 and 8 bytes.   *)
MCInodes == {1, 2}
MCNames == {"a", "b"}
MCNameLen == [n \in {".", "..", "a", "b"} |-> IF n = ".." THEN 2 ELSE 1]
MCRootOnly == {1}
MCLatNames == <<"a", "b">>
MCLatSizes == <<0, 16>>
MCTestLens == {8, 16}
MCSeekPos == {0}
MCTruncSizes == {0, 8}
====
