---------------------------- MODULE FileContent ----------------------------
(***************************************************************************)
(* What the data-stream interface of spec 4.3 and 6 promises about the    *)
(* bytes of files, with no blocks in sight: read_data, write_data,         *)
(* set_file_size and free_data on a file f, content[f] its bytes.          *)
(*                                                                         *)
(* out is the last call that changed a file: [op, f, pos, len, ok].  A    *)
(* write of file f stores the value f in every byte it covers (the        *)
(* buffer's contents, abstracted to its writer).  A read changes nothing, *)
(* so it is not a step: ReadResult is what it must return in any state.   *)
(*                                                                         *)
(*  - a read returns the bytes pos .. pos+len-1, clamped to the size:      *)
(*    none at all when pos >= size, and never an error;                    *)
(*  - a successful write stores its bytes at pos .. pos+len-1 and grows    *)
(*    the file to cover them, leaving every other old byte as it was;      *)
(*  - a call that resizes, frees or fails keeps the bytes below the        *)
(*    smaller of the old and the new size;                                 *)
(*  - no call on f changes another file.                                   *)
(* Bytes a file gains without a write (growth past the old size) may hold *)
(* anything: the spec does not say they read back as zero.                *)
(***************************************************************************)
EXTENDS Integers, Sequences

CONSTANT Files

VARIABLES content, out

MinOf(a, b) == IF a < b THEN a ELSE b
MaxOf(a, b) == IF a > b THEN a ELSE b

(* The bytes of c below n are kept in c2. *)
KeepsPrefix(c, c2, n) ==
  \A k \in 1 .. MinOf(n, MinOf(Len(c), Len(c2))) : c2[k] = c[k]

Others(f) == \A g \in Files \ {f} : content'[g] = content[g]

Init ==
  /\ content = [f \in Files |-> <<>>]
  /\ out = [op |-> "none", f |-> CHOOSE f \in Files : TRUE, pos |-> 0,
            len |-> 0, ok |-> TRUE]

(* The bytes read(f, pos, len) returns, pos >= 0. *)
ReadResult(f, pos, len) ==
  IF pos >= Len(content[f]) THEN <<>>
  ELSE SubSeq(content[f], pos + 1, MinOf(pos + len, Len(content[f])))

Write(f) ==
  /\ out'.op = "write" /\ out'.f = f
  /\ Others(f)
  /\ IF out'.ok
       THEN LET c == content[f]  c2 == content'[f]
                lo == out'.pos + 1  hi == out'.pos + out'.len
            IN /\ Len(c2) = MaxOf(Len(c), hi)
               /\ \A k \in lo .. hi : c2[k] = f
               /\ \A k \in (1 .. Len(c)) \ (lo .. hi) : c2[k] = c[k]
       ELSE KeepsPrefix(content[f], content'[f], Len(content[f]))

(* set_file_size(f, pos): the new size on success. *)
SetSize(f) ==
  /\ out'.op = "setsize" /\ out'.f = f
  /\ Others(f)
  /\ out'.ok => Len(content'[f]) = out'.pos
  /\ KeepsPrefix(content[f], content'[f], Len(content[f]))

Free(f) ==
  /\ out'.op = "free" /\ out'.f = f
  /\ Others(f)
  /\ content'[f] = <<>>

Next == \E f \in Files : Write(f) \/ SetSize(f) \/ Free(f)

Spec == Init /\ [][Next]_<<content, out>>
====
