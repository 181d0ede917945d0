---------------------------- MODULE MCDirectory ----------------------------
EXTENDS Directory

(* Inode 1 is the root; names of one character (16-byte entries). *)
MCInodes == {1, 2, 3}
MCNames == {"a", "b"}
MCNameLen == [n \in {".", "..", "a", "b"} |-> IF n = ".." THEN 2 ELSE 1]
MCRootOnly == {1}
MCAllDirs == {1, 2, 3}
====
