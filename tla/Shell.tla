------------------------------- MODULE Shell -------------------------------
(***************************************************************************)
(* fsh (src/fsh.c) driving the file system: do_fsh reads one command at a *)
(* time and runs it to completion on its one thread, so the vnode calls of *)
(* a command never interleave with another's.  The commands that change    *)
(* the root directory are modelled over Directory: mkdir, rm, rmdir, and   *)
(* the loops rmall (readdir, unlink each name) and lat_fs (mkfile each     *)
(* name, then unlink each name, once per size).                            *)
(*                                                                         *)
(* A path "/myfs/<name>" reaches the vnode call of the root directory with *)
(* name; sys_open with O_CREAT calls myfs_create and opens the existing    *)
(* file on EEXIST.  The sys_* layer is the host's, not in src/.            *)
(*                                                                         *)
(* sh is the shell's control: the command running (cmd), where in its loop *)
(* it is (pc, i, j, name) and, for lat_fs, ghost copies of the bitmap, the *)
(* used-block count and the inode set when it started (start, fresh).      *)
(*                                                                         *)
(* fd is cur_fd: the inode it holds (0 for -1), the host's file position,  *)
(* and whether the vnode was unlinked while held (the host's remove_vnode  *)
(* mark; myfs_remove_vnode runs at the put_vnode of the close).  The host *)
(* refuses a directory opened O_RDWR.                                      *)
(***************************************************************************)
EXTENDS Directory

CONSTANTS
  LatNames,   \* the names lat_fs creates, sprintf("%.5d", j) in order
  LatSizes,   \* sizes[] of do_lat_fs, in bytes
  TestLens,   \* len of rdtest and wrtest
  SeekPos,    \* pos of seek
  TruncSizes  \* newsize of trunc

ASSUME LatNames \in Seq(Names) /\ LatSizes \in Seq(Nat)
ASSUME TestLens \subseteq Nat \ {0} /\ SeekPos \subseteq Nat /\ TruncSizes \subseteq Nat

VARIABLES sh, fd
shvars == <<vars, sh, fd>>

NoStart == [bits |-> {}, used |-> 0, alloc |-> {}]
Idle == [cmd |-> "idle", pc |-> "none", i |-> 0, j |-> 0, name |-> "none",
         fresh |-> FALSE, start |-> NoStart]

NoFd == [ino |-> 0, pos |-> 0, doomed |-> FALSE]

(* The inodes a descriptor of the host holds. *)
Held == {fd.ino} \ {0}

ShellInit == Init /\ sh = Idle /\ fd = NoFd

(* myfs_write(ns, mi, cookie, pos, buf, &len): myfs_write_data_stream.    *)
WriteFile(v, pos, len) ==
  \E t \in {WriteAt(OnStream(World, v), pos, len)} :
    /\ bv' = t.bv /\ used_blocks' = t.used /\ ds' = [ds EXCEPT ![v] = t.ds]
    /\ ret' = [op |-> "write", err |-> t.err, name |-> "none"]
    /\ UNCHANGED <<alloc, isdir, disk, contents, cached, cookie, seen, kept, changes>>

(* sys_unlink("/myfs/<name>"): myfs_unlink, the vnode kept while cur_fd   *)
(* holds it, and then marked for removal at its close.                    *)
ShUnlink(n) ==
  /\ UnlinkKeeping(Root, n, Held)
  /\ \E v \in {Found(Root, Cache(Root), n)} :
       fd' = [fd EXCEPT !.doomed = @ \/ (v \in Held /\ ret'.err = "OK")]

(* Mutant: the close drops the descriptor but not the marked vnode. *)
CloseFdNoPut ==
  /\ UNCHANGED <<bv, used_blocks, ds, alloc, cached, disk, contents>>
  /\ fd' = NoFd
  /\ UNCHANGED <<isdir, cookie, seen, kept, changes, ret>>

(* do_close: sys_close(cur_fd), the put_vnode of the last reference, and  *)
(* cur_fd = -1.  myfs_close and myfs_free_cookie change nothing.           *)
CloseFd ==
  /\ IF fd.doomed THEN RemoveMarked(fd.ino)
     ELSE UNCHANGED <<bv, used_blocks, ds, alloc, cached, disk, contents>>
  /\ fd' = NoFd
  /\ UNCHANGED <<isdir, cookie, seen, kept, changes, ret>>

(* do_mkdir: one vnode call; an error is printed. *)
DoMkdir(n) == sh.cmd = "idle" /\ Mkdir(Root, n) /\ UNCHANGED <<sh, fd>>
DoClose == sh.cmd = "idle" /\ CloseFd /\ UNCHANGED sh

(* do_open, do_make, do_rm and do_rmdir: do_close when cur_fd >= 0, then  *)
(* the command's one system call.                                          *)
DoOpen(n, cmd) ==
  /\ sh.cmd = "idle"
  /\ sh' = [Idle EXCEPT !.cmd = cmd, !.pc = IF fd.ino # 0 THEN "close" ELSE "call", !.name = n]
  /\ UNCHANGED <<vars, fd>>

OpenClose ==
  /\ sh.cmd \in {"open", "make", "rm", "rmdir"} /\ sh.pc = "close"
  /\ CloseFd
  /\ sh' = [sh EXCEPT !.pc = "call"]

(* do_rm's sys_unlink, with no descriptor left open. *)
RmFile == sh.cmd = "rm" /\ sh.pc = "call" /\ ShUnlink(sh.name) /\ sh' = Idle

(* do_rmdir's sys_rmdir. *)
RmDir == sh.cmd = "rmdir" /\ sh.pc = "call" /\ Rmdir(Root, sh.name) /\ sh' = Idle /\ UNCHANGED fd

(* do_open's sys_open(O_RDWR): the host's lookup (dir_lookup, which loads  *)
(* the root's contents) and myfs_open, which checks nothing.               *)
OpenFile ==
  /\ sh.cmd = "open" /\ sh.pc = "call" /\ Running
  /\ \E pc \in {Cache(Root)} : \E v \in {Found(Root, pc, sh.name)} :
       /\ LoadedOnly("open", Root, pc,
                     CASE v = 0 \/ v \notin alloc -> "ENOENT"
                       [] isdir[v]               -> "EISDIR"
                       [] OTHER                  -> "OK")
       /\ fd' = IF ret'.err = "OK" THEN [NoFd EXCEPT !.ino = v] ELSE NoFd
  /\ sh' = Idle

(* do_make's sys_open(O_RDWR|O_CREAT): myfs_create, or the existing file  *)
(* opened on EEXIST; left open as cur_fd.                                  *)
MakeFile ==
  /\ sh.cmd = "make" /\ sh.pc = "call"
  /\ \E v \in {Found(Root, Cache(Root), sh.name)} :
       /\ Create(Root, sh.name)
       /\ fd' = CASE v # 0 /\ v \in alloc /\ ~isdir[v] -> [NoFd EXCEPT !.ino = v]
                 [] v = 0 /\ ret'.err = "OK" -> [NoFd EXCEPT !.ino = Pick(alloc' \ alloc)]
                 [] OTHER -> NoFd
  /\ sh' = Idle

(* do_rmall: sys_opendir on the root. *)
DoRmall ==
  /\ sh.cmd = "idle"
  /\ Opendir
  /\ sh' = [Idle EXCEPT !.cmd = "rmall", !.pc = "read"]
  /\ UNCHANGED fd

(* The loop's sys_readdir: 0 entries breaks to the closedir, "." and ".."  *)
(* continue, any other name is unlinked next.  readdir never fails here    *)
(* (the root's contents stay loaded), so the max_err path is not taken.    *)
RmallRead ==
  /\ sh.cmd = "rmall" /\ sh.pc = "read"
  /\ Readdir
  /\ sh' = CASE ret'.name = "none"          -> [sh EXCEPT !.pc = "close"]
             [] ret'.name \in {".", ".."}   -> sh
             [] OTHER -> [sh EXCEPT !.pc = "unlink", !.name = ret'.name]
  /\ UNCHANGED fd

(* sys_unlink("/myfs/<name>"); a failure (EISDIR for a directory) is      *)
(* printed and the loop goes on.                                           *)
RmallUnlink ==
  /\ sh.cmd = "rmall" /\ sh.pc = "unlink"
  /\ ShUnlink(sh.name)
  /\ sh' = [sh EXCEPT !.pc = "read", !.name = "none"]

RmallClose ==
  /\ sh.cmd = "rmall" /\ sh.pc = "close"
  /\ Closedir
  /\ sh' = Idle
  /\ UNCHANGED fd

(* do_lat_fs: for each size, mkfile every name, then unlink every name;   *)
(* with iter 0 (or no sizes) it changes nothing.                           *)
DoLatFs ==
  /\ sh.cmd = "idle" /\ Len(LatNames) > 0 /\ Len(LatSizes) > 0
  /\ sh' = [Idle EXCEPT !.cmd = "latfs", !.pc = "create", !.i = 1, !.j = 1,
              !.fresh = \A j \in 1 .. Len(LatNames) : Found(Root, Cache(Root), LatNames[j]) = 0,
              !.start = [bits |-> bv.bits, used |-> used_blocks, alloc |-> alloc]]
  /\ UNCHANGED <<vars, fd>>

(* Mutant: the name loop runs while j <= iter. *)
NextNameSkip(s, phase) ==
  IF s.j <= Len(LatNames) THEN [s EXCEPT !.pc = phase, !.j = s.j + 1, !.name = "none"]
  ELSE IF phase = "create" THEN [s EXCEPT !.pc = "unlink", !.j = 1, !.name = "none"]
  ELSE IF s.i < Len(LatSizes) THEN [s EXCEPT !.pc = "create", !.i = s.i + 1, !.j = 1]
  ELSE Idle

(* After name j of the current pass: the next name, or the next phase. *)
NextName(s, phase) ==
  IF s.j < Len(LatNames) THEN [s EXCEPT !.pc = phase, !.j = s.j + 1, !.name = "none"]
  ELSE IF phase = "create" THEN [s EXCEPT !.pc = "unlink", !.j = 1, !.name = "none"]
  ELSE IF s.i < Len(LatSizes) THEN [s EXCEPT !.pc = "create", !.i = s.i + 1, !.j = 1]
  ELSE Idle

(* mkfile's sys_open(O_RDWR|O_CREAT): myfs_create, or the existing file   *)
(* opened on EEXIST (a directory cannot be opened for writing).  With a   *)
(* size, the write comes next; the sys_close changes nothing.             *)
LatCreate ==
  /\ sh.cmd = "latfs" /\ sh.pc = "create"
  /\ \E n \in {LatNames[sh.j]} : \E v \in {Found(Root, Cache(Root), n)} :
     /\ Create(Root, n)
     /\ sh' = IF (IF v # 0 THEN v \in alloc /\ ~isdir[v] ELSE ret'.err = "OK") /\ LatSizes[sh.i] > 0
              THEN [sh EXCEPT !.pc = "write", !.name = n]
              ELSE NextName(sh, "create")
  /\ UNCHANGED fd

(* mkfile's sys_write of size bytes; a short write is printed. *)
LatWrite ==
  /\ sh.cmd = "latfs" /\ sh.pc = "write"
  /\ Running
  /\ \E v \in {Found(Root, Cache(Root), sh.name)} : WriteFile(v, 0, LatSizes[sh.i])
  /\ sh' = NextName(sh, "create")
  /\ UNCHANGED fd

(* The delete loop's sys_unlink; a failure is printed. *)
LatUnlink ==
  /\ sh.cmd = "latfs" /\ sh.pc = "unlink"
  /\ ShUnlink(LatNames[sh.j])
  /\ sh' = NextName(sh, "unlink")

(* do_write_test: sys_write(cur_fd, buff, len), myfs_write at the        *)
(* descriptor's position, which the host advances by the bytes written.    *)
DoWrite(len) ==
  /\ sh.cmd = "idle" /\ fd.ino # 0 /\ Running
  /\ WriteFile(fd.ino, fd.pos, len)
  /\ fd' = [fd EXCEPT !.pos = IF ret'.err = "OK" THEN @ + len ELSE @]
  /\ UNCHANGED sh

(* myfs_read_data_stream without the bytes: len 0 and pos > size return 0 *)
(* bytes; the length is clamped to the size; the address of pos, and of   *)
(* each block the loop reads, must resolve (at pos = size the lookup is    *)
(* still made).                                                            *)
ReadAt(d, pos, len) ==
  LET n == DS!MinOf(len, d.size - pos) IN
  IF len = 0 \/ pos > d.size THEN [err |-> "OK", n |-> 0]
  ELSE [err |-> CASE DS!Die \in DS!Targets(d, pos, n) -> "die"
                  [] -1 \in DS!Targets(d, pos, n)     -> "EINVAL"
                  [] OTHER                            -> "OK",
        n   |-> n]

(* do_read_test: sys_read(cur_fd, buff, len), myfs_read at the position,   *)
(* which the host advances by the bytes read.                              *)
DoRead(len) ==
  /\ sh.cmd = "idle" /\ fd.ino # 0 /\ Running
  /\ \E r \in {ReadAt(ds[fd.ino], fd.pos, len)} :
       /\ ret' = [op |-> "read", err |-> r.err, name |-> "none"]
       /\ fd' = [fd EXCEPT !.pos = IF r.err = "OK" THEN @ + r.n ELSE @]
  /\ UNCHANGED <<bv, used_blocks, ds, alloc, isdir, disk, contents, cached,
                 cookie, seen, kept, changes, sh>>

(* do_seek: sys_lseek(cur_fd, pos, SEEK_SET). *)
DoSeek(p) ==
  /\ sh.cmd = "idle" /\ fd.ino # 0
  /\ fd' = [fd EXCEPT !.pos = p]
  /\ UNCHANGED <<vars, sh>>

(* do_trunc: sys_wstat("/myfs/<name>", WSTAT_SIZE): the host's lookup,    *)
(* then myfs_wstat: EISDIR for a directory, else myfs_set_file_size, whose *)
(* error is returned (a partial grow stays).                               *)
DoTrunc(n, size) ==
  /\ sh.cmd = "idle" /\ Running
  /\ \E v \in {Found(Root, Cache(Root), n)} :
       IF v = 0 \/ v \notin alloc \/ isdir[v]
       THEN LoadedOnly("wstat", Root, Cache(Root), IF v = 0 \/ v \notin alloc THEN "ENOENT" ELSE "EISDIR")
       ELSE \E t \in {SetSize(OnStream(World, v), size)} :
              /\ bv' = t.bv /\ used_blocks' = t.used /\ ds' = [ds EXCEPT ![v] = t.ds]
              /\ cached' = cached \cup {Root} /\ contents' = [contents EXCEPT ![Root] = Cache(Root)]
              /\ ret' = [op |-> "wstat", err |-> t.err, name |-> "none"]
              /\ UNCHANGED <<alloc, isdir, disk, cookie, seen, kept, changes>>
  /\ UNCHANGED <<sh, fd>>

(* The steps inside a running command. *)
RmallStep == RmallRead \/ RmallUnlink \/ RmallClose
LatStep == LatCreate \/ LatWrite \/ LatUnlink
OpenStep == OpenClose \/ OpenFile \/ MakeFile \/ RmFile \/ RmDir

ShellNext ==
  \/ \E n \in Names : \/ DoMkdir(n) \/ DoOpen(n, "rm") \/ DoOpen(n, "rmdir")
                       \/ DoOpen(n, "open") \/ DoOpen(n, "make")
                       \/ \E size \in TruncSizes : DoTrunc(n, size)
  \/ \E len \in TestLens : DoWrite(len) \/ DoRead(len)
  \/ \E p \in SeekPos : DoSeek(p)
  \/ DoClose \/ DoRmall \/ DoLatFs
  \/ RmallStep \/ LatStep \/ OpenStep

(* A step of whichever command is running. *)
Busy == RmallStep \/ LatStep \/ OpenStep

(* fsh runs a command to its end without waiting on anything: every vnode *)
(* call returns, so a step of the running command that stays enabled is    *)
(* taken.  Nothing is assumed of the user typing the next command.         *)
ShellSpec == ShellInit /\ [][ShellNext]_shvars /\ WF_shvars(Busy)

-----------------------------------------------------------------------------
(* The shell's control stays within its commands, loop phases and loop    *)
(* indexes: lat_fs's for-loops never index past iter or the sizes.        *)
ShellTypeOK ==
  /\ sh.cmd \in {"idle", "rmall", "latfs", "open", "make", "rm", "rmdir"}
  /\ sh.pc \in {"none", "read", "unlink", "close", "create", "write", "call"}
  /\ sh.i \in 0 .. Len(LatSizes) /\ sh.j \in 0 .. Len(LatNames)
  /\ sh.name \in Names \cup {"none"}
  /\ fd.ino \in Inodes \cup {0} /\ fd.pos \in Nat /\ fd.doomed \in BOOLEAN

(* The inodes the root's entries name. *)
NamedInodes == {e.i : e \in {e \in EntriesOf(Root) : e.n \notin {".", ".."}}}

(* do_rmall promises "remove all the files": the readdir re-sync after    *)
(* each unlink must neither skip nor lose a name, so when the loop reaches *)
(* the end of the root no entry of it names a regular file.                *)
RmallRemovesFiles ==
  sh.cmd = "rmall" /\ sh.pc = "close" =>
    \A e \in EntriesOf(Root) : e.n \in {".", ".."} \/ isdir[e.i]

(* lat_fs on names the root does not hold creates, writes and unlinks     *)
(* every file: dir_insert's growth of the root, the files' data blocks    *)
(* and their inodes are all given back by dir_delete's set_file_size and  *)
(* myfs_remove_vnode, so when it returns the bitmap, used_blocks and the   *)
(* allocated inodes are as they were when it started.                     *)
LatFsRestoresVolume ==
  [][sh.cmd = "latfs" /\ sh'.cmd = "idle" /\ sh.fresh =>
       /\ bv'.bits = sh.start.bits
       /\ used_blocks' = sh.start.used
       /\ alloc' = sh.start.alloc]_shvars

(* Every command returns to the prompt: rmall's readdir loop reaches the  *)
(* end of the root although each unlink moves the entries under its       *)
(* cookie and makes the next readdir re-sync from the start; lat_fs's      *)
(* loops and the close-then-call of do_open, do_make, do_rm and do_rmdir. *)
CommandsReturn == sh.cmd # "idle" ~> sh.cmd = "idle"

(* cur_fd keeps its file while it is open, across rmall and lat_fs       *)
(* unlinking its name: the inode stays allocated, is never handed to a     *)
(* new file, and is marked for removal exactly when no entry names it.    *)
OpenFileKept ==
  fd.ino # 0 =>
    /\ fd.ino \in alloc /\ ~isdir[fd.ino]
    /\ fd.doomed <=> fd.ino \notin NamedInodes

(* An unlinked file disappears at the last close: no inode but the root   *)
(* stays allocated unless an entry names it or cur_fd holds it, so the     *)
(* deferred myfs_remove_vnode of do_close (also run by do_open and do_make *)
(* before they open) is never lost.                                        *)
UnlinkedFreedAtClose == alloc \ {Root} \subseteq NamedInodes \cup Held

====
