----------------------------- MODULE Directory -----------------------------
(***************************************************************************)
(* The directory layer of src/dir.c with the vnode operations of src/file.c*)
(* that change directories (create, unlink, remove_vnode, release_vnode),  *)
(* over the data streams of dstream.c (DataStream, by INSTANCE).           *)
(*                                                                         *)
(* A directory's bytes are packed myfs_dirent records, each a multiple of  *)
(* 8 bytes (NEXT_MDE rounds up to 8).  They are modelled as a sequence of  *)
(* 8-byte cells: an entry is a head cell [n, i] (name, inode) followed by  *)
(* BODY cells; a cell never written since its block was allocated is JUNK.*)
(* disk[i] is what the stream of inode i holds from byte 0 on;             *)
(* contents[i] is the buffer mi->etc->contents, valid while i \in cached.  *)
(*                                                                         *)
(* The inode map is abstracted to the set alloc (InodeMap checks it); an   *)
(* inode is allocated calloc'ed, with an empty stream.  Error codes are    *)
(* taken as negative, as on the BeOS host the kit targets (compat.h is not *)
(* in src/).  One reader holds a cookie on the root directory; counter    *)
(* comparisons are kept as "synced" (the counter is only compared).        *)
(***************************************************************************)
EXTENDS Integers, FiniteSets, Sequences

CONSTANTS
  NumBlocks, W, BlockSize, NumDirect, PtrsPerBlock,  \* the volume, as DataStream
  Inodes,       \* inode numbers (integers > 0)
  Root,         \* dsb.root_inum
  Names,        \* names passed to create, mkdir, unlink, rmdir
  NameLen,      \* strlen of each name, "." and ".." included
  InumBytes,    \* sizeof(my_ino_t)
  Parents,      \* directories the client creates entries in
  MaxChanges,   \* changes to the root between two readdir calls
  MallocFails   \* whether realloc of a contents buffer may return NULL

ASSUME BlockSize % 8 = 0 /\ Root \in Inodes /\ Parents \subseteq Inodes
ASSUME InumBytes \in {4, 8} /\ MaxChanges \in Nat \ {0} /\ MallocFails \in BOOLEAN
ASSUME Names \cap {".", "..", "body", "junk", "none"} = {}

VARIABLES bv, used_blocks, ds, alloc, isdir, disk, contents, cached,
          cookie, seen, kept, changes, ret
vars == <<bv, used_blocks, ds, alloc, isdir, disk, contents, cached,
          cookie, seen, kept, changes, ret>>

DS == INSTANCE DataStream WITH Files <- Inodes, SetSizes <- {}, WritePos <- {},
        ReadPos <- {}, ReadLens <- {}, SuperWord <- 0, data <- [b \in {} |-> 0],
        WriteLens <- {}
Pick(S) == CHOOSE x \in S : TRUE
First(S) == CHOOSE k \in S : \A j \in S : k <= j

(* The other cells: the rest of an entry, and bytes never written. *)
BODY == [n |-> "body", i |-> 0]
JUNK == [n |-> "junk", i |-> 0]
Dirent(n, i) == [n |-> n, i |-> i]
IsHead(x) == x.n \notin {"body", "junk"}
AllNames == Names \cup {".", ".."}

(* sizeof(myfs_dirent): inum, name_len, name[1], padded to inum's width. *)
SizeofDirent == ((InumBytes + 2 + InumBytes - 1) \div InumBytes) * InumBytes

(* MDE_SIZE: &mde->name[name_len + 1] - mde rounded up to 8. *)
MDE_SIZE(n) == ((InumBytes + 1 + NameLen[n] + 1 + 7) \div 8) * 8

(* MKDIR_BUFSIZE: (2*sizeof(myfs_dirent) + 1 + 2) rounded up to 16. *)
MKDIR_BUFSIZE == ((2 * SizeofDirent + 3 + 15) \div 16) * 16

EntCells(n) == MDE_SIZE(n) \div 8
Entry(n, i) == [k \in 1 .. EntCells(n) |-> IF k = 1 THEN Dirent(n, i) ELSE BODY]

(* The 8-byte cell at offset 8*c of a buffer. *)
Cell(cells, c) == IF c < Len(cells) THEN cells[c + 1] ELSE JUNK

(* The entries "for(; mde < end; mde = NEXT_MDE(mde))" visits, as cell    *)
(* offsets; a cell that is no entry header (garbage name_len) ends the    *)
(* walk with -1.                                                           *)
RECURSIVE Walk(_, _, _)
Walk(cells, endc, c) ==
  IF c >= endc THEN <<>>
  ELSE IF ~IsHead(Cell(cells, c)) THEN <<-1>>
  ELSE <<c>> \o Walk(cells, endc, c + EntCells(Cell(cells, c).n))

(* dir_lookup's scan: the offset of the first entry named name, or -1. *)
Find(cells, size, name) ==
  LET w == Walk(cells, size \div 8, 0)
      hits == {k \in 1 .. Len(w) : w[k] >= 0 /\ Cell(cells, w[k]).n = name}
  IN IF hits = {} THEN -1 ELSE w[First(hits)]

(* Mutant: the re-sync walks one entry more than index - 1. *)
RECURSIVE AdvanceOvershoot(_, _, _, _)
AdvanceOvershoot(cells, endc, c, k) ==
  IF k < 0 \/ c >= endc \/ ~IsHead(Cell(cells, c)) THEN c
  ELSE AdvanceOvershoot(cells, endc, c + EntCells(Cell(cells, c).n), k - 1)

(* The readdir re-sync loop: up to k steps of NEXT_MDE from the start     *)
(* while mde < end.                                                        *)
RECURSIVE Advance(_, _, _, _)
Advance(cells, endc, c, k) ==
  IF k <= 0 \/ c >= endc \/ ~IsHead(Cell(cells, c)) THEN c
  ELSE Advance(cells, endc, c + EntCells(Cell(cells, c).n), k - 1)

(* get_dir_contents: malloc(data.size) and read size bytes of the stream. *)
DiskView(i) == [k \in 1 .. ds[i].size \div 8 |-> Cell(disk[i], k - 1)]
Cache(i) == IF i \in cached THEN contents[i] ELSE DiskView(i)

(* The buffer with the entry at offset c removed: the memcpy of next .. end *)
(* down over it, then the realloc to size - sz.                            *)
Remove(cells, c) ==
  LET sz == EntCells(Cell(cells, c).n) IN
  [k \in 1 .. Len(cells) - sz |-> IF k <= c THEN cells[k] ELSE cells[k + sz]]

(* The stream's bytes after writing len bytes of buf at position 0. *)
Written(d, buf, len) ==
  [k \in 1 .. IF len \div 8 > Len(d) THEN len \div 8 ELSE Len(d) |->
     IF k <= len \div 8 THEN buf[k] ELSE d[k]]

(* What a shrink to n keeps: the blocks below size n; freed ones are lost. *)
Kept(d, n) == SubSeq(d, 1, IF DS!RoundUp(n) \div 8 < Len(d) THEN DS!RoundUp(n) \div 8 ELSE Len(d))

-----------------------------------------------------------------------------
(* The volume as one record, threaded through a call that touches several *)
(* streams; OnStream/Back convert to and from DataStream's call record.    *)
World == [bv |-> bv, used |-> used_blocks, ds |-> ds]
OnStream(w, i) == [bv |-> w.bv, used |-> w.used, ds |-> w.ds[i], err |-> "none",
                   addr |-> -1, i |-> 0]
Back(w, i, t) == [bv |-> t.bv, used |-> t.used, ds |-> [w.ds EXCEPT ![i] = t.ds]]

(* myfs_write_data_stream(myfs, mi, pos, buf, &len): nothing for len 0,  *)
(* grow when pos + len passes the size, then write through the blocks     *)
(* file_pos_to_disk_addr names.                                            *)
WriteAt(s, pos, len) ==
  IF len = 0 THEN [s EXCEPT !.err = "OK"] ELSE
  Pick({IF t.err # "OK" THEN t
        ELSE Pick({[t EXCEPT !.err = CASE DS!Die \in a -> "die"
                                       [] -1 \in a     -> "EINVAL"
                                       [] OTHER        -> "OK"]
                   : a \in {DS!Targets(t.ds, pos, len)}})
        : t \in {IF pos + len > s.ds.size THEN DS!Grow(s, pos + len)
                 ELSE [s EXCEPT !.err = "OK"]}})

(* myfs_set_file_size(myfs, mi, n): nothing for the same size, else       *)
(* shrink_dstream or grow_dstream.                                         *)
SetSize(s, n) ==
  CASE n = s.ds.size -> [s EXCEPT !.err = "OK"]
    [] n < s.ds.size -> DS!Shrink(s, n)
    [] OTHER         -> DS!Grow(s, n)

(* myfs_die (a bad address) stops the file system. *)
Running == ret.err # "die"

(* dir_insert(myfs, dir, name, inum) after its get_dir_contents: realloc  *)
(* the buffer to size + sz, append the entry, write the whole buffer.     *)
(* A failed write returns with the entry left in the buffer.              *)
DirInsert(w, p, pc, n, new) ==
  LET buf == SubSeq(pc, 1, w.ds[p].size \div 8) \o Entry(n, new) IN
  Pick({[w |-> Back(w, p, t), err |-> t.err, buf |-> buf]
        : t \in {WriteAt(OnStream(w, p), 0, Len(buf) * 8)}})

(* dir_insert when realloc(contents, size + sz) returns NULL: ENOMEM,    *)
(* the loaded buffer as it was.                                            *)
InsertNoMem(w, pc) == [w |-> w, err |-> "ENOMEM", buf |-> pc]

(* The outcomes of dir_insert: realloc may fail when MallocFails. *)
DirInserts(w, p, pc, n, new) ==
  {DirInsert(w, p, pc, n, new)} \cup (IF MallocFails THEN {InsertNoMem(w, pc)} ELSE {})

(* Mutant: ".." of a new directory written as inode 0. *)
MakeDirNoParent(w, p, new) ==
  LET buf == Entry(".", new) \o Entry("..", 0) IN
  Pick({[w |-> Back(w, new, t), err |-> t.err, buf |-> buf]
        : t \in {WriteAt(OnStream(w, new), 0, Len(buf) * 8)}})

(* make_dir: "." naming the new inode and ".." the parent, written to the  *)
(* new inode's (empty) stream.                                             *)
MakeDir(w, p, new) ==
  LET buf == Entry(".", new) \o Entry("..", p) IN
  Pick({[w |-> Back(w, new, t), err |-> t.err, buf |-> buf]
        : t \in {WriteAt(OnStream(w, new), 0, Len(buf) * 8)}})

(* Mutant: the trailing myfs_set_file_size(dir, nsize) left out. *)
DirDeleteNoShrink(w, p, pc, c) ==
  LET buf == Remove(SubSeq(pc, 1, w.ds[p].size \div 8), c)
      nsize == Len(buf) * 8
  IN Pick({IF t.err # "OK" THEN [w |-> Back(w, p, t), err |-> t.err, buf |-> buf,
                                  disk |-> disk[p]]
           ELSE [w |-> Back(w, p, t), err |-> "OK", buf |-> buf,
                 disk |-> Written(disk[p], buf, nsize)]
           : t \in {WriteAt(OnStream(w, p), 0, nsize)}})

(* dir_delete after its lookup found name at offset c: the memcpy and     *)
(* realloc, the write of nsize bytes and myfs_set_file_size(dir, nsize).   *)
DirDelete(w, p, pc, c) ==
  LET buf == Remove(SubSeq(pc, 1, w.ds[p].size \div 8), c)
      nsize == Len(buf) * 8
  IN Pick({IF t.err # "OK" THEN [w |-> Back(w, p, t), err |-> t.err, buf |-> buf,
                                  disk |-> disk[p]]
           ELSE Pick({[w |-> Back(w, p, u), err |-> "OK", buf |-> buf,
                       disk |-> Kept(Written(disk[p], buf, nsize), nsize)]
                      : u \in {SetSize([t EXCEPT !.err = "none"], nsize)}})
           : t \in {WriteAt(OnStream(w, p), 0, nsize)}})

(* dir_delete when realloc(contents, size - sz) returns NULL: the memcpy *)
(* of next .. end over the entry at c is done, in the buffer still of its *)
(* old length (its last sz cells unchanged); ENOMEM, data.size and the    *)
(* stream untouched.                                                       *)
DeleteNoMem(p, pc, c) ==
  LET n  == ds[p].size \div 8
      sz == EntCells(Cell(pc, c).n)
  IN [w |-> World, err |-> "ENOMEM", disk |-> disk[p],
      buf |-> [k \in 1 .. Len(pc) |-> IF k <= c \/ k > n - sz THEN pc[k] ELSE pc[k + sz]]]

(* The outcomes of dir_delete: realloc may fail when MallocFails. *)
DirDeletes(p, pc, c) ==
  {DirDelete(World, p, pc, c)} \cup (IF MallocFails THEN {DeleteNoMem(p, pc, c)} ELSE {})

(* Mutant: myfs_remove_vnode frees the inode but not its data stream. *)
RemoveVnodeNoFree(w, v) == w

(* myfs_remove_vnode: myfs_free_data_stream, myfs_free_inode, and the      *)
(* contents buffer freed.                                                  *)
RemoveVnode(w, v) ==
  Pick({Back(w, v, t) : t \in {SetSize(OnStream(w, v), 0)}})

-----------------------------------------------------------------------------
Init ==
  LET r  == DS!SM!BV!GetFreeRangeOfBits(DS!SM!BV!EmptyBV, DS!SM!NumBitmapBlocks + 1)
      w0 == [bv |-> r.bv, used |-> DS!SM!NumBitmapBlocks + 1,
             ds |-> [i \in Inodes |-> DS!EmptyStream]]
      m  == MakeDir(w0, Root, Root)
  IN
  \* myfs_create_root_dir: make_dir(myfs, NULL, ...) on a fresh volume.
  /\ bv = m.w.bv /\ used_blocks = m.w.used /\ ds = m.w.ds
  /\ alloc = {Root}
  /\ isdir = [i \in Inodes |-> i = Root]
  /\ disk = [i \in Inodes |-> IF i = Root THEN m.buf ELSE <<>>]
  /\ contents = [i \in Inodes |-> <<>>]
  /\ cached = {}
  /\ cookie = [open |-> FALSE, cur |-> 0, index |-> 0, synced |-> TRUE]
  /\ seen = {} /\ kept = {} /\ changes = 0
  /\ ret = [op |-> "none", err |-> "OK", name |-> "none"]

LiveDir(p) == p \in alloc /\ isdir[p]

(* A change to the root while the reader's cookie is open (the client     *)
(* bound MaxChanges); counter++ makes the cookie re-sync.                  *)
Quota(p) == ~cookie.open \/ p # Root \/ changes < MaxChanges
Touched(p) ==
  IF p = Root /\ cookie.open
    THEN cookie' = [cookie EXCEPT !.synced = FALSE] /\ changes' = changes + 1
    ELSE UNCHANGED <<cookie, changes>>

(* counter++ follows the realloc: a call that failed there leaves it. *)
TouchedUnless(p, err) == IF err = "ENOMEM" THEN UNCHANGED <<cookie, changes>> ELSE Touched(p)

(* A call that loaded the directory's contents and returned err. *)
LoadedOnly(op, p, pc, err) ==
  /\ cached' = cached \cup {p} /\ contents' = [contents EXCEPT ![p] = pc]
  /\ ret' = [op |-> op, err |-> err, name |-> "none"]
  /\ UNCHANGED <<bv, used_blocks, ds, alloc, isdir, disk, cookie, seen, kept, changes>>

(* myfs_create and myfs_mkdir refuse "." and ".." (EINVAL). *)
BadName(op, p, n) ==
  /\ Running /\ LiveDir(p) /\ p \in Parents
  /\ n \in {".", ".."}
  /\ ret' = [op |-> op, err |-> "EINVAL", name |-> "none"]
  /\ UNCHANGED <<bv, used_blocks, ds, alloc, isdir, disk, contents, cached,
                 cookie, seen, kept, changes>>

(* Mutant: a failed insert leaves the new inode allocated. *)
InsertNewNoFree(op, p, pc, n, new, dir, w, newdisk) ==
  \E r \in DirInserts(w, p, pc, n, new) :
    /\ bv' = r.w.bv /\ used_blocks' = r.w.used /\ ds' = r.w.ds
    /\ cached' = cached \cup {p} /\ contents' = [contents EXCEPT ![p] = r.buf]
    /\ TouchedUnless(p, r.err)
    /\ ret' = [op |-> op, err |-> r.err, name |-> "none"]
    /\ alloc' = alloc \cup {new}
    /\ isdir' = [isdir EXCEPT ![new] = dir]
    /\ disk' = IF r.err = "OK"
               THEN [disk EXCEPT ![new] = newdisk, ![p] = Written(@, r.buf, Len(r.buf) * 8)]
               ELSE [disk EXCEPT ![new] = newdisk]
    /\ UNCHANGED <<seen, kept>>

(* The dir_insert of myfs_create and myfs_mkdir for the new inode, whose   *)
(* stream make_file / make_dir left as w; a failed insert frees the inode  *)
(* with myfs_free_inode and nothing else.                                  *)
InsertNew(op, p, pc, n, new, dir, w, newdisk) ==
  \E r \in DirInserts(w, p, pc, n, new) :
    /\ bv' = r.w.bv /\ used_blocks' = r.w.used /\ ds' = r.w.ds
    /\ cached' = cached \cup {p} /\ contents' = [contents EXCEPT ![p] = r.buf]
    /\ TouchedUnless(p, r.err)
    /\ ret' = [op |-> op, err |-> r.err, name |-> "none"]
    /\ IF r.err = "OK"
         THEN /\ alloc' = alloc \cup {new}
              /\ isdir' = [isdir EXCEPT ![new] = dir]
              /\ disk' = [disk EXCEPT ![new] = newdisk,
                                      ![p] = Written(@, r.buf, Len(r.buf) * 8)]
         ELSE UNCHANGED <<alloc, isdir, disk>>
    /\ UNCHANGED <<seen, kept>>

(* myfs_mkdir(ns, p, n): lookup (EEXIST), make_dir (ENOSPC with no inode; *)
(* a failed write frees the inode and keeps the stream's blocks), then    *)
(* dir_insert.  A new inode is calloc'ed: its stream starts empty.         *)
Mkdir(p, n) ==
  LET pc == Cache(p) IN
  /\ Running /\ LiveDir(p) /\ p \in Parents /\ Quota(p)
  /\ n \notin {".", ".."}
  /\ IF Find(pc, ds[p].size, n) >= 0 \/ alloc = Inodes
       THEN LoadedOnly("mkdir", p, pc,
                       IF Find(pc, ds[p].size, n) >= 0 THEN "EEXIST" ELSE "ENOSPC")
       ELSE \E new \in Inodes \ alloc :
              \E m \in {MakeDir([World EXCEPT !.ds[new] = DS!EmptyStream], p, new)} :
                IF m.err # "OK"
                  THEN /\ bv' = m.w.bv /\ used_blocks' = m.w.used /\ ds' = m.w.ds
                       /\ cached' = cached \cup {p}
                       /\ contents' = [contents EXCEPT ![p] = pc]
                       /\ ret' = [op |-> "mkdir", err |-> m.err, name |-> "none"]
                       /\ UNCHANGED <<alloc, isdir, disk, cookie, seen, kept, changes>>
                  ELSE InsertNew("mkdir", p, pc, n, new, TRUE, m.w, m.buf)

(* myfs_create(ns, p, n): lookup (EEXIST), make_file (ENOSPC with no      *)
(* inode), dir_insert.                                                     *)
Create(p, n) ==
  /\ Running /\ LiveDir(p) /\ p \in Parents /\ Quota(p)
  /\ n \notin {".", ".."}
  /\ \E pc \in {Cache(p)} : \E c \in {Find(pc, ds[p].size, n)} :
     IF c >= 0 \/ alloc = Inodes
     THEN LoadedOnly("create", p, pc, IF c >= 0 THEN "EEXIST" ELSE "ENOSPC")
     ELSE \E new \in Inodes \ alloc :
            InsertNew("create", p, pc, n, new, FALSE,
                      [World EXCEPT !.ds[new] = DS!EmptyStream], <<>>)

(* The end of myfs_unlink and myfs_rmdir once the checks passed:           *)
(* dir_delete, then remove_vnode/put_vnode.  The host runs                 *)
(* myfs_remove_vnode at the put_vnode of the last reference: now, or,      *)
(* when keep (a descriptor still holds the vnode), at its close.           *)
DeleteAndRemove(op, p, pc, c, v, n, keep) ==
  \E r \in DirDeletes(p, pc, c) :
    /\ cached' = (cached \cup {p}) \ {v}
    /\ TouchedUnless(p, r.err)
    /\ ret' = [op |-> op, err |-> r.err, name |-> "none"]
    /\ UNCHANGED <<isdir, seen>>
    /\ IF r.err = "OK"
         THEN \E w \in {IF keep THEN r.w ELSE RemoveVnode(r.w, v)} :
                /\ bv' = w.bv /\ used_blocks' = w.used /\ ds' = w.ds
                /\ alloc' = IF keep THEN alloc ELSE alloc \ {v}
                /\ disk' = [disk EXCEPT ![p] = r.disk, ![v] = IF keep THEN @ ELSE <<>>]
                /\ contents' = [contents EXCEPT ![p] = r.buf, ![v] = IF keep THEN @ ELSE <<>>]
                /\ kept' = IF p = Root THEN kept \ {n} ELSE kept
         ELSE /\ bv' = r.w.bv /\ used_blocks' = r.w.used /\ ds' = r.w.ds
              /\ contents' = [contents EXCEPT ![p] = r.buf]
              /\ UNCHANGED <<alloc, disk, kept>>

(* The inode a lookup found, or 0 for ENOENT. *)
Found(p, pc, n) ==
  IF Find(pc, ds[p].size, n) >= 0 THEN Cell(pc, Find(pc, ds[p].size, n)).i ELSE 0

(* Mutant: the vnode removed at the unlink although a descriptor holds it. *)
UnlinkNoKeep(p, n, open) ==
  /\ Running /\ LiveDir(p) /\ Quota(p)
  /\ \E pc \in {Cache(p)} : \E v \in {Found(p, pc, n)} :
     IF v = 0 \/ v \notin alloc \/ isdir[v]
     THEN LoadedOnly("unlink", p, pc, IF v # 0 /\ v \in alloc THEN "EISDIR" ELSE "ENOENT")
     ELSE \E c \in {Find(pc, ds[p].size, n)} : DeleteAndRemove("unlink", p, pc, c, v, n, FALSE)

(* Mutant: the MY_S_ISDIR check dropped, so unlink removes a directory. *)
UnlinkDirs(p, n, open) ==
  /\ Running /\ LiveDir(p) /\ Quota(p)
  /\ \E pc \in {Cache(p)} : \E v \in {Found(p, pc, n)} :
     IF v = 0 \/ v \notin alloc
     THEN LoadedOnly("unlink", p, pc, "ENOENT")
     ELSE \E c \in {Find(pc, ds[p].size, n)} : DeleteAndRemove("unlink", p, pc, c, v, n, v \in open)

(* myfs_unlink(ns, p, n): dir_lookup (ENOENT), get_vnode (fails for an    *)
(* inode that is not allocated), EISDIR, then the removal; open are the   *)
(* inodes a descriptor of the host holds.                                  *)
UnlinkKeeping(p, n, open) ==
  /\ Running /\ LiveDir(p) /\ Quota(p)
  /\ \E pc \in {Cache(p)} : \E v \in {Found(p, pc, n)} :
     IF v = 0 \/ v \notin alloc \/ isdir[v]
     THEN LoadedOnly("unlink", p, pc, IF v # 0 /\ v \in alloc THEN "EISDIR" ELSE "ENOENT")
     ELSE \E c \in {Find(pc, ds[p].size, n)} : DeleteAndRemove("unlink", p, pc, c, v, n, v \in open)

(* myfs_unlink when no descriptor holds the file. *)
Unlink(p, n) == UnlinkKeeping(p, n, {})

(* The put_vnode that drops the last reference to a vnode unlinked while   *)
(* held: myfs_remove_vnode frees its stream, its inode and its buffer.     *)
RemoveMarked(v) ==
  \E w \in {RemoveVnode(World, v)} :
    /\ bv' = w.bv /\ used_blocks' = w.used /\ ds' = w.ds
    /\ alloc' = alloc \ {v} /\ cached' = cached \ {v}
    /\ disk' = [disk EXCEPT ![v] = <<>>] /\ contents' = [contents EXCEPT ![v] = <<>>]

(* myfs_rmdir(ns, p, n): dir_lookup, get_vnode, ENOTDIR, ENOTEMPTY when    *)
(* data.size > MKDIR_BUFSIZE, dir_delete (EINVAL for "." and ".."), then   *)
(* the removal.                                                            *)
Rmdir(p, n) ==
  /\ Running /\ LiveDir(p) /\ Quota(p)
  /\ \E pc \in {Cache(p)} : \E v \in {Found(p, pc, n)} :
     IF v = 0 \/ v \notin alloc \/ ~isdir[v] \/ ds[v].size > MKDIR_BUFSIZE
            \/ n \in {".", ".."}
       THEN LoadedOnly("rmdir", p, pc,
                       CASE v = 0 \/ v \notin alloc     -> "ENOENT"
                         [] ~isdir[v]                   -> "ENOTDIR"
                         [] ds[v].size > MKDIR_BUFSIZE  -> "ENOTEMPTY"
                         [] OTHER                       -> "EINVAL")
       ELSE \E c \in {Find(pc, ds[p].size, n)} : DeleteAndRemove("rmdir", p, pc, c, v, n, FALSE)

(* The names a buffer's walk up to size visits. *)
NamesIn(cells, size) ==
  LET w == Walk(cells, size \div 8, 0) IN
  {Cell(cells, w[k]).n : k \in {k \in 1 .. Len(w) : w[k] >= 0}}

(* myfs_opendir(ns, Root, &cookie): contents loaded if NULL, cursor at   *)
(* the start with the current counter.  seen and kept are ghost: the      *)
(* names returned so far and the names present now and not deleted since. *)
Opendir ==
  LET pc == Cache(Root) IN
  /\ Running /\ ~cookie.open
  /\ cached' = cached \cup {Root} /\ contents' = [contents EXCEPT ![Root] = pc]
  /\ cookie' = [open |-> TRUE, cur |-> 0, index |-> 0, synced |-> TRUE]
  /\ seen' = {} /\ kept' = NamesIn(pc, ds[Root].size) /\ changes' = 0
  /\ ret' = [op |-> "opendir", err |-> "OK", name |-> "none"]
  /\ UNCHANGED <<bv, used_blocks, ds, alloc, isdir, disk>>

(* myfs_rewinddir: back to the start, with the current counter. *)
Rewinddir ==
  /\ Running /\ cookie.open
  /\ cookie' = [open |-> TRUE, cur |-> 0, index |-> 0, synced |-> TRUE]
  /\ seen' = {} /\ kept' = NamesIn(contents[Root], ds[Root].size) /\ changes' = 0
  /\ ret' = [op |-> "rewinddir", err |-> "OK", name |-> "none"]
  /\ UNCHANGED <<bv, used_blocks, ds, alloc, isdir, disk, contents, cached>>

(* Mutant: the cookie not advanced past the entry returned (curptr and *)
(* index left where the re-sync put them).                               *)
ReaddirNoStep ==
  LET cells == contents[Root]
      endc  == ds[Root].size \div 8
      c0 == IF cookie.synced THEN cookie.cur
            ELSE Advance(cells, endc, 0, cookie.index - 1)
      i0 == IF cookie.synced THEN cookie.index ELSE cookie.index - 1
  IN
  /\ Running /\ cookie.open
  /\ changes' = 0
  /\ IF c0 >= endc \/ ~IsHead(Cell(cells, c0))
       THEN /\ cookie' = [cookie EXCEPT !.cur = c0, !.index = i0, !.synced = TRUE]
            /\ ret' = [op |-> "readdir", err |-> "OK", name |-> "none"]
            /\ UNCHANGED seen
       ELSE /\ cookie' = [cookie EXCEPT !.cur = c0, !.index = i0, !.synced = TRUE]
            /\ seen' = seen \cup {Cell(cells, c0).n}
            /\ ret' = [op |-> "readdir", err |-> "OK", name |-> Cell(cells, c0).n]
  /\ UNCHANGED <<bv, used_blocks, ds, alloc, isdir, disk, contents, cached, kept>>

(* myfs_readdir: when the counter moved, walk index-1 entries from the    *)
(* start and decrement index; then return the entry at the cursor (name  *)
(* "none" at the end) and step past it.  The root's contents stay loaded  *)
(* while the cookie is open (its vnode is referenced), so the "contents   *)
(* == NULL" return is not reached.                                        *)
Readdir ==
  LET cells == contents[Root]
      endc  == ds[Root].size \div 8
      c0 == IF cookie.synced THEN cookie.cur
            ELSE Advance(cells, endc, 0, cookie.index - 1)
      i0 == IF cookie.synced THEN cookie.index ELSE cookie.index - 1
  IN
  /\ Running /\ cookie.open
  /\ changes' = 0
  /\ IF c0 >= endc \/ ~IsHead(Cell(cells, c0))
       THEN /\ cookie' = [cookie EXCEPT !.cur = c0, !.index = i0, !.synced = TRUE]
            /\ ret' = [op |-> "readdir", err |-> "OK", name |-> "none"]
            /\ UNCHANGED seen
       ELSE /\ cookie' = [cookie EXCEPT !.cur = c0 + EntCells(Cell(cells, c0).n),
                                        !.index = i0 + 1, !.synced = TRUE]
            /\ seen' = seen \cup {Cell(cells, c0).n}
            /\ ret' = [op |-> "readdir", err |-> "OK", name |-> Cell(cells, c0).n]
  /\ UNCHANGED <<bv, used_blocks, ds, alloc, isdir, disk, contents, cached, kept>>

(* myfs_closedir and myfs_free_dircookie: the cookie is freed. *)
Closedir ==
  /\ Running /\ cookie.open
  /\ cookie' = [open |-> FALSE, cur |-> 0, index |-> 0, synced |-> TRUE]
  /\ seen' = {} /\ kept' = {} /\ changes' = 0
  /\ ret' = [op |-> "closedir", err |-> "OK", name |-> "none"]
  /\ UNCHANGED <<bv, used_blocks, ds, alloc, isdir, disk, contents, cached>>

(* myfs_release_vnode of an unreferenced directory: contents freed, to be *)
(* read again from the stream by the next get_dir_contents.  The root     *)
(* vnode stays referenced while mounted.                                  *)
Evict(i) ==
  /\ Running /\ i \in cached \ {Root}
  /\ cached' = cached \ {i} /\ contents' = [contents EXCEPT ![i] = <<>>]
  /\ ret' = [op |-> "release", err |-> "OK", name |-> "none"]
  /\ UNCHANGED <<bv, used_blocks, ds, alloc, isdir, disk, cookie, seen, kept, changes>>

Next ==
  \/ \E p \in Inodes, n \in AllNames :
       \/ BadName("mkdir", p, n) \/ Mkdir(p, n) \/ Create(p, n)
       \/ Unlink(p, n) \/ Rmdir(p, n)
  \/ Opendir \/ Rewinddir \/ Readdir \/ Closedir
  \/ \E i \in Inodes : Evict(i)

Spec == Init /\ [][Next]_vars

-----------------------------------------------------------------------------
LiveDirs == {d \in alloc : isdir[d]}
Cells == [n : AllNames, i : Inodes] \cup {BODY, JUNK}

TypeOK ==
  /\ alloc \subseteq Inodes /\ Root \in alloc
  /\ isdir \in [Inodes -> BOOLEAN] /\ cached \subseteq alloc
  /\ \A i \in Inodes : disk[i] \in Seq(Cells) /\ contents[i] \in Seq(Cells)
  /\ cookie.open \in BOOLEAN /\ cookie.synced \in BOOLEAN
  /\ cookie.cur \in 0 .. DS!MAX_INDIRECT_RANGE \div 8
  /\ seen \subseteq AllNames /\ kept \subseteq AllNames
  /\ changes \in 0 .. MaxChanges

(* The entries (name, inode) a walk of directory d's stream visits. *)
WalkOf(d) == Walk(DiskView(d), ds[d].size \div 8, 0)
EntriesIn(v, w) == {Cell(v, w[k]) : k \in {k \in 1 .. Len(w) : w[k] >= 0}}
EntriesOf(d) == EntriesIn(DiskView(d), WalkOf(d))

(* dir_insert appends and dir_delete closes the gap, rewrites the stream   *)
(* and shrinks it; failed writes, ENOSPC part way through a grow, and      *)
(* contents dropped by release_vnode and read back must never leave a      *)
(* directory that does not parse: every live directory's stream, read up   *)
(* to data.size as get_dir_contents does, is a whole number of entries     *)
(* starting with "." (itself) and "..", and a loaded contents buffer       *)
(* agrees with it.                                                         *)
DirsWellFormed ==
  \A d \in LiveDirs :
    LET v == DiskView(d)
        w == WalkOf(d)
    IN /\ Len(w) >= 2
       /\ \A k \in 1 .. Len(w) : w[k] >= 0
       /\ Cell(v, w[1]) = Dirent(".", d) /\ Cell(v, w[2]).n = ".."
       /\ w[Len(w)] + EntCells(Cell(v, w[Len(w)]).n) = Len(v)
       /\ d \in cached => /\ Len(contents[d]) >= Len(v)
                          /\ SubSeq(contents[d], 1, Len(v)) = v

(* The name space is a tree, across create, mkdir, unlink and rmdir with   *)
(* their failure paths (ENOSPC in make_dir or dir_insert frees the inode): *)
(* no entry names a free inode, every allocated inode but the root is      *)
(* named by exactly one entry of a live directory, a directory's ".."      *)
(* names the directory holding it, and no name occurs twice in one        *)
(* directory (the EEXIST lookup).                                         *)
NamespaceConsistent ==
  LET Ent   == UNION {{<<d, e>> : e \in EntriesOf(d)} : d \in LiveDirs}
      Named == {x \in Ent : x[2].n \notin {".", ".."}}
  IN
  /\ \A x \in Named : x[2].i \in alloc
  /\ \A i \in alloc \ {Root} : Cardinality({x \in Named : x[2].i = i}) = 1
  /\ \A x \in Ent : x[2].n = ".." /\ x[1] # Root =>
       \E y \in Named : y[1] = x[2].i /\ y[2].i = x[1]
  /\ \A d \in LiveDirs : \A k, j \in 1 .. Len(WalkOf(d)) :
       k # j => Cell(DiskView(d), WalkOf(d)[k]).n # Cell(DiskView(d), WalkOf(d)[j]).n

(* The counter re-sync of myfs_readdir: a reader that keeps reading while *)
(* entries are created and removed (fsh's rmall unlinks each name it      *)
(* reads) is told the end of the root only after it was returned every    *)
(* name that was there at opendir/rewinddir and has not been removed.     *)
ReaddirComplete ==
  ret.op = "readdir" /\ ret.name = "none" => kept \subseteq seen

(* Spec 3: the blocks a stream references are owned by its inode and go   *)
(* back to the storage map when the inode is deleted.  Across every       *)
(* vnode operation and its failure paths, the set bits of the bitmap are   *)
(* exactly the superblock, the bitmap blocks and the blocks referenced by *)
(* allocated inodes: make_dir and myfs_mkdir free a new inode after a     *)
(* failed write or insert, and its stream must not keep blocks.            *)
NoLeakedBlocks ==
  bv.bits = DS!SM!Reserved \cup ({DS!Addr(ds[i], k) : i \in alloc, k \in DS!Slots} \ {0})

(* The entry heads among the data.size bytes get_dir_contents reads: the *)
(* entries dir_lookup's walk visits whenever the directory is well formed  *)
(* (DirsWellFormed, checked beside the refinement), without the walk.      *)
HeadsOf(d) == {c \in {disk[d][k] : k \in 1 .. DS!MinOf(ds[d].size \div 8, Len(disk[d]))} : IsHead(c)}

(* The name space lookups see: the named entries of every live directory. *)
AbstractNamespace == INSTANCE Namespace WITH
  links <- UNION {{<<d, c.n, c.i>> : c \in {c \in HeadsOf(d) : c.n \notin {".", ".."}}}
                  : d \in LiveDirs},
  used <- alloc, dirs <- LiveDirs,
  out <- [op |-> ret.op, ok |-> ret.err = "OK"]

(* Every create, mkdir, unlink and rmdir is atomic at the interface: one   *)
(* that returns 0 adds or removes exactly one name, of a fresh inode or of *)
(* a regular file (unlink) or an empty directory (rmdir), and allocates or *)
(* frees that inode; one that returns an error (EEXIST, ENOENT, EISDIR,    *)
(* ENOTDIR, ENOSPC from make_dir or dir_insert part way) leaves the names   *)
(* and inodes as they were; readdir and the rest change nothing.           *)
NamespaceRefined == AbstractNamespace!Spec

====
