----------------------------- MODULE MCShell -----------------------------
EXTENDS Shell

(* Inode 1 is the root; names of one character (16-byte entries).  lat_fs *)
(* runs over both names with the sizes 0 and one block (its 1024 bytes    *)
(* scaled to the model's 16-byte blocks).                                 *)
MCInodes == {1, 2, 3}
MCNames == {"a", "b"}
MCNameLen == [n \in {".", "..", "a", "b"} |-> IF n = ".." THEN 2 ELSE 1]
MCRootOnly == {1}
MCLatNames == <<"a", "b">>
MCLatSizes == <<0, 16>>

(* No rdtest, wrtest, seek or trunc here: MCShellFiles runs them. *)
MCNoArgs == {}
====
