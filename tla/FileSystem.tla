---------------------------- MODULE FileSystem ----------------------------
(***************************************************************************)
(* The file system: inodes, blocks, directories and path names of          *)
(* xv6/kernel/fs.c, open files of file.c, the system calls of sysfile.c,   *)
(* the initial image of mkfs/mkfs.c, and the reclaiming of orphans at boot.*)
(*                                                                         *)
(* Under the inode's sleep lock every change of an inode is followed by    *)
(* iupdate(), so one copy of it is enough.  A stretch under one sleep lock *)
(* is one step; a lock is state only where it is held while the process    *)
(* waits for another (sys_unlink), or over several steps (iput, create).   *)
(*                                                                         *)
(* A system call is one transaction; Log shows that the disk always holds  *)
(* what was there at a moment when no call was under way.  So a crash in   *)
(* the middle of a call leads where a crash before it leads, and Crash     *)
(* happens only between calls.  The blocks of a file are a sequence, the   *)
(* indirect block after the NDIRECT direct ones.  Offsets and data are     *)
(* left out.                                                               *)
(***************************************************************************)
EXTENDS Integers, Sequences, FiniteSets, FiniteSetsExt, SequencesExt

CONSTANTS Procs, InitProc, None,
          Names,              \* of files, apart from "." and ".."
          Calls,              \* the calls each process makes
          NINODES, NBLOCKS,   \* sb.ninodes - 1, data blocks of the disk
          NDIRECT, NINDIRECT,
          DPB,                \* directory entries per block
          NFILE, NOFILE,
          Image               \* the files mkfs puts in the root directory

Inodes == 1 .. NINODES
Data   == 1 .. NBLOCKS
Files  == 1 .. NFILE
Fds    == 1 .. NOFILE
ROOT   == 1

ASSUME FsAssumption ==
  /\ InitProc \in Procs /\ None \notin Procs
  /\ NDIRECT \in Nat \ {0} /\ DPB \in Nat /\ DPB >= 2
  /\ Len(Image) < NINODES /\ Len(Image) < NBLOCKS /\ ToSet(Image) \subseteq Names

VARIABLES
  type, nlink, ents, blocks,    \* of each inode; entries of a directory
  bitmap,                       \* blocks in use
  ref, valid, lock,             \* of the inode table
  fref, fip, fwr,               \* file table: ref, ip, writable
  ofile, cwd,                   \* of each process
  pc, call, path, ip, ip2,      \* the system call a process is in
  puts,                         \* inodes it is to iput()
  dying,                        \* 1: its iput() has freed the inode
  boot,                         \* next inode for ireclaim(); 0: done
  stray                         \* 1: a removed directory was used as one

disk   == <<type, nlink, ents, blocks, bitmap>>
itable == <<ref, valid, lock>>
ftable == <<fref, fip, fwr>>
procs  == <<ofile, cwd>>
locals == <<call, path, ip, ip2>>
flow   == <<pc, puts, dying>>
vars   == <<disk, itable, ftable, procs, locals, flow, boot, stray>>

NoEnts == [n \in Names \cup {".."} |-> 0]
NoCall == [op |-> "none", path |-> <<>>, new |-> <<>>, create |-> 0, write |-> 0]

\* The image of mkfs: the root directory with "." and ".." and the given
\* files, one block each.
MkfsType   == [i \in Inodes |-> IF i = ROOT THEN "dir"
                                ELSE IF i <= Len(Image) + 1 THEN "file" ELSE "free"]
MkfsEnts   == [i \in Inodes |-> IF i # ROOT THEN NoEnts
                 ELSE [n \in Names \cup {".."} |->
                         IF n = ".." THEN ROOT
                         ELSE IF n \in ToSet(Image)
                              THEN 1 + CHOOSE k \in 1 .. Len(Image) : Image[k] = n ELSE 0]]
MkfsBlocks == [i \in Inodes |-> IF i <= Len(Image) + 1 THEN <<i>> ELSE <<>>]

\* The state after a boot up to ireclaim(): userinit() has made the first
\* process, whose cwd is the root; nothing else is referenced.
Booted ==
  /\ ref' = [i \in Inodes |-> IF i = ROOT THEN 1 ELSE 0]
  /\ valid' = [i \in Inodes |-> 0] /\ lock' = [i \in Inodes |-> None]
  /\ fref' = [f \in Files |-> 0] /\ fip' = [f \in Files |-> 0] /\ fwr' = [f \in Files |-> 0]
  /\ ofile' = [p \in Procs |-> [d \in Fds |-> 0]]
  /\ cwd' = [p \in Procs |-> IF p = InitProc THEN ROOT ELSE 0]
  /\ pc' = [p \in Procs |-> IF p = InitProc THEN "user" ELSE "none"]
  /\ call' = [p \in Procs |-> NoCall] /\ path' = [p \in Procs |-> <<>>]
  /\ ip' = [p \in Procs |-> 0] /\ ip2' = [p \in Procs |-> 0]
  /\ puts' = [p \in Procs |-> <<>>] /\ dying' = [p \in Procs |-> 0]
  /\ boot' = 1

Init ==
  /\ type = MkfsType /\ ents = MkfsEnts /\ blocks = MkfsBlocks
  /\ nlink = [i \in Inodes |-> IF MkfsType[i] = "free" THEN 0 ELSE 1]
  /\ bitmap = 1 .. Len(Image) + 1
  /\ ref = [i \in Inodes |-> IF i = ROOT THEN 1 ELSE 0]
  /\ valid = [i \in Inodes |-> 0] /\ lock = [i \in Inodes |-> None]
  /\ fref = [f \in Files |-> 0] /\ fip = [f \in Files |-> 0] /\ fwr = [f \in Files |-> 0]
  /\ ofile = [p \in Procs |-> [d \in Fds |-> 0]]
  /\ cwd = [p \in Procs |-> IF p = InitProc THEN ROOT ELSE 0]
  /\ pc = [p \in Procs |-> IF p = InitProc THEN "user" ELSE "none"]
  /\ call = [p \in Procs |-> NoCall] /\ path = [p \in Procs |-> <<>>]
  /\ ip = [p \in Procs |-> 0] /\ ip2 = [p \in Procs |-> 0]
  /\ puts = [p \in Procs |-> <<>>] /\ dying = [p \in Procs |-> 0]
  /\ boot = 1 /\ stray = 0

---------------------------------------------------------------------------
(* Blocks and directory entries *)

\* bmap() for the block after the last: what balloc() finds of the blocks it
\* needs, from the free ones given.
Wanted(b)      == IF Len(b) = NDIRECT THEN 2 ELSE 1
balloc(b, bm)  ==
  LET f == Data \ bm
  IN  IF f = {} THEN <<>>
      ELSE IF Wanted(b) = 1 \/ Cardinality(f) = 1 THEN <<Min(f)>>
      ELSE <<Min(f), Min(f \ {Min(f)})>>
Room(b, bm)    == Len(balloc(b, bm)) = Wanted(b)
Full(b)        == Len(b) = NDIRECT + 1 + NINDIRECT

\* dirlink() appends an entry: a directory without a hole in its blocks grows.
Slots(d)    == 2 + Cardinality({n \in Names : ents[d][n] # 0})
Content(b)  == IF Len(b) > NDIRECT THEN Len(b) - 1 ELSE Len(b)
DirGrows(d) == Slots(d) = DPB * Content(blocks[d])

Lookup(d, n) == IF n = "." THEN d ELSE ents[d][n]

---------------------------------------------------------------------------
(* Steps of a process.  Guards: it is in the kernel at l with no iput() due,
   and can have the lock of inode i. *)

At(p, l)   == pc[p] = l /\ puts[p] = <<>> /\ boot = 0
Free(p, i) == lock[i] \in {None, p}
Goto(p, l) == pc' = [pc EXCEPT ![p] = l]
Puts(p, s) == puts' = [puts EXCEPT ![p] = s]

\* The call is over but for the iput()s of s: the next one waits for these.
Return(p, s) ==
  /\ pc' = [pc EXCEPT ![p] = "user"] /\ Puts(p, s)
  /\ call' = [call EXCEPT ![p] = NoCall] /\ path' = [path EXCEPT ![p] = <<>>]
  /\ ip' = [ip EXCEPT ![p] = 0] /\ ip2' = [ip2 EXCEPT ![p] = 0]

\* ilock() reads the inode when the table has not got it.
ilock(i) == valid' = [valid EXCEPT ![i] = 1]
idup(i)  == ref' = [ref EXCEPT ![i] = @ + 1]

\* Where a path starts, and what is left of it.
From(p, s) == IF s[1] = "/" THEN ROOT ELSE cwd[p]
Rest(s)    == IF s[1] = "/" THEN Tail(s) ELSE s

\* begin_op() and the beginning of namex().
Begin(p) ==
  /\ At(p, "user")
  /\ \E c \in Calls[p] :
       /\ call' = [call EXCEPT ![p] = c]
       /\ path' = [path EXCEPT ![p] = Rest(c.path)]
       /\ ip' = [ip EXCEPT ![p] = From(p, c.path)] /\ idup(From(p, c.path))
  /\ Goto(p, "walk")
  /\ UNCHANGED <<disk, valid, lock, ftable, procs, ip2, puts, dying, boot, stray>>

\* The calls that look for the parent of the last element.
nameiparent(p) == call[p].create = 1 \/ call[p].op = "unlink" \/ ip2[p] # 0

\* One round of the loop of namex() that goes on to the next element.
Walk(p) ==
  LET d == ip[p]
      n == Lookup(d, Head(path[p]))
  IN  /\ At(p, "walk") /\ path[p] # <<>> /\ Free(p, d)
      /\ type[d] = "dir" /\ ~(nameiparent(p) /\ Len(path[p]) = 1) /\ n # 0
      /\ ilock(d) /\ idup(n)
      /\ ip' = [ip EXCEPT ![p] = n]
      /\ path' = [path EXCEPT ![p] = Tail(@)]
      /\ Puts(p, <<d>>)
      /\ stray' = IF nlink[d] = 0 /\ Head(path[p]) = ".." THEN 1 ELSE stray
      /\ UNCHANGED <<disk, lock, ftable, procs, call, ip2, pc, dying, boot>>

\* namex() fails, d being put.  sys_link() has its nlink++ to undo.
NamexFails(p) ==
  IF ip2[p] = 0 THEN Return(p, <<ip[p]>>)
  ELSE Puts(p, <<ip[p]>>) /\ Goto(p, "undo") /\ ip' = [ip EXCEPT ![p] = 0]
       /\ UNCHANGED <<call, path, ip2>>

\* There is no such entry, or no directory to look in.
WalkFails(p) ==
  LET d == ip[p]
  IN  /\ At(p, "walk") /\ path[p] # <<>> /\ Free(p, d)
      /\ type[d] # "dir" \/ (~(nameiparent(p) /\ Len(path[p]) = 1) /\ Lookup(d, Head(path[p])) = 0)
      /\ ilock(d)
      /\ NamexFails(p)
      /\ UNCHANGED <<disk, ref, lock, ftable, procs, dying, boot, stray>>

\* nameiparent() of the root.
WalkNoParent(p) ==
  /\ At(p, "walk") /\ path[p] = <<>> /\ nameiparent(p)
  /\ NamexFails(p)
  /\ UNCHANGED <<disk, itable, ftable, procs, dying, boot, stray>>

\* nameiparent() returns, without the lock.
WalkParent(p) ==
  LET d == ip[p]
  IN  /\ At(p, "walk") /\ Len(path[p]) = 1 /\ nameiparent(p)
      /\ Free(p, d) /\ type[d] = "dir" /\ ilock(d)
      /\ Goto(p, "parent")
      /\ UNCHANGED <<disk, ref, lock, ftable, procs, locals, puts, dying, boot, stray>>

\* Call o has the inode, or the directory, it asked namex() for.
Found(p, o)  == At(p, "walk") /\ path[p] = <<>> /\ ~nameiparent(p) /\ call[p].op = o
Parent(p, o) == At(p, "parent") /\ (IF call[p].create = 1 THEN "create" ELSE call[p].op) = o

---------------------------------------------------------------------------
(* iput() *)

\* Not the last reference, or the inode has links.
IputDrop(p) ==
  LET i == Head(puts[p])
  IN  /\ puts[p] # <<>> /\ dying[p] = 0 /\ lock[i] # p
      /\ ~(ref[i] = 1 /\ valid[i] = 1 /\ nlink[i] = 0)
      /\ ref' = [ref EXCEPT ![i] = @ - 1]
      /\ Puts(p, Tail(puts[p]))
      /\ UNCHANGED <<disk, valid, lock, ftable, procs, locals, pc, dying, boot, stray>>

\* The last reference of an inode without links: its lock is taken.
IputLast(p) ==
  LET i == Head(puts[p])
  IN  /\ puts[p] # <<>> /\ dying[p] = 0 /\ lock[i] = None
      /\ ref[i] = 1 /\ valid[i] = 1 /\ nlink[i] = 0
      /\ lock' = [lock EXCEPT ![i] = p]
      /\ UNCHANGED <<disk, ref, valid, ftable, procs, locals, flow, boot, stray>>

bfree(S) == bitmap' = bitmap \ S

\* Mutant: itrunc() does not free the indirect block itself.
TruncatedDirect(i) ==
  /\ bfree({blocks[i][k] : k \in DOMAIN blocks[i] \ {NDIRECT + 1}})
  /\ blocks' = [blocks EXCEPT ![i] = <<>>]

\* itrunc(i)
Truncated(i) ==
  /\ bfree(ToSet(blocks[i]))
  /\ blocks' = [blocks EXCEPT ![i] = <<>>]

\* Mutant: iput() does not reset ip->valid.
IputFreeValid(p) ==
  LET i == Head(puts[p])
  IN  /\ puts[p] # <<>> /\ dying[p] = 0 /\ lock[i] = p
      /\ Truncated(i) /\ ents' = [ents EXCEPT ![i] = NoEnts]
      /\ type' = [type EXCEPT ![i] = "free"]
      /\ lock' = [lock EXCEPT ![i] = None]
      /\ dying' = [dying EXCEPT ![p] = 1]
      /\ UNCHANGED <<nlink, ref, valid, ftable, procs, locals, pc, puts, boot, stray>>

\* The inode is freed; the reference is still there.
IputFree(p) ==
  LET i == Head(puts[p])
  IN  /\ puts[p] # <<>> /\ dying[p] = 0 /\ lock[i] = p
      /\ Truncated(i) /\ ents' = [ents EXCEPT ![i] = NoEnts]
      /\ type' = [type EXCEPT ![i] = "free"]
      /\ valid' = [valid EXCEPT ![i] = 0]
      /\ lock' = [lock EXCEPT ![i] = None]
      /\ dying' = [dying EXCEPT ![p] = 1]
      /\ UNCHANGED <<nlink, ref, ftable, procs, locals, pc, puts, boot, stray>>

\* The end of that iput().
IputEnd(p) ==
  /\ dying[p] = 1
  /\ ref' = [ref EXCEPT ![Head(puts[p])] = @ - 1]
  /\ Puts(p, Tail(puts[p]))
  /\ dying' = [dying EXCEPT ![p] = 0]
  /\ UNCHANGED <<disk, valid, lock, ftable, procs, locals, pc, boot, stray>>

---------------------------------------------------------------------------
(* create(), sys_open(), sys_mkdir(), sys_mknod() *)

NewType(p) == CASE call[p].op = "mkdir" -> "dir" [] call[p].op = "mknod" -> "dev" [] OTHER -> "file"

\* The inode that ialloc() takes.
ialloc == Min({j \in Inodes : type[j] = "free"})

\* create() of a name that exists: the parent is let go before the file is
\* locked, in OpenInode.
CreateFound(p) ==
  LET d == ip[p]
      n == Lookup(d, path[p][1])
  IN  /\ Parent(p, "create") /\ Free(p, d) /\ n # 0
      /\ ilock(d) /\ idup(n)
      /\ ip' = [ip EXCEPT ![p] = n]
      /\ path' = [path EXCEPT ![p] = <<>>]
      /\ Puts(p, <<d>>) /\ Goto(p, "open")
      /\ UNCHANGED <<disk, lock, ftable, procs, call, ip2, dying, boot, stray>>

\* create() when ialloc() finds no free inode.
CreateNoInode(p) ==
  LET d == ip[p]
  IN  /\ Parent(p, "create") /\ Free(p, d) /\ Lookup(d, path[p][1]) = 0
      /\ \A i \in Inodes : type[i] # "free"
      /\ ilock(d)
      /\ Return(p, <<d>>)
      /\ UNCHANGED <<disk, ref, lock, ftable, procs, dying, boot, stray>>

\* create() of a new inode: "." and ".." of a directory, then the entry in
\* the parent.  When there is no block for one of them nlink is 0 again and
\* both inodes are put.  ialloc() writes the type to the disk, so the inode
\* has it only if ilock() reads it.
CreateNew(p) ==
  LET d  == ip[p]
      nm == path[p][1]
      i  == ialloc
      t  == IF valid[i] = 1 THEN "free" ELSE NewType(p)
      b  == IF NewType(p) = "dir" THEN balloc(<<>>, bitmap) ELSE <<>>
      dg == IF DirGrows(d) THEN balloc(blocks[d], bitmap \cup ToSet(b)) ELSE <<>>
      made == NewType(p) = "dir" => b # <<>>
      ok == made /\ (DirGrows(d) => Room(blocks[d], bitmap \cup ToSet(b)))
  IN  /\ Parent(p, "create") /\ Free(p, d) /\ Lookup(d, nm) = 0
      /\ \E j \in Inodes : type[j] = "free"
      /\ Free(p, i)
      /\ valid' = [valid EXCEPT ![d] = 1, ![i] = 1] /\ idup(i)
      /\ type' = [type EXCEPT ![i] = t]
      /\ blocks' = [blocks EXCEPT ![i] = b, ![d] = IF made THEN @ \o dg ELSE @]
      /\ bitmap' = bitmap \cup ToSet(b) \cup (IF made THEN ToSet(dg) ELSE {})
      /\ ents' = [ents EXCEPT ![i][".."] = IF b # <<>> THEN d ELSE 0,
                              ![d][nm] = IF ok THEN i ELSE 0]
      /\ nlink' = [nlink EXCEPT ![i] = IF ok THEN 1 ELSE 0,
                                ![d] = IF ok /\ NewType(p) = "dir" THEN @ + 1 ELSE @]
      /\ stray' = IF ok /\ nlink[d] = 0 THEN 1 ELSE stray
      /\ IF ok /\ call[p].op = "open"
         THEN /\ lock' = [lock EXCEPT ![i] = p] /\ ip' = [ip EXCEPT ![p] = i]
              /\ Puts(p, <<d>>) /\ Goto(p, "open")
              /\ path' = [path EXCEPT ![p] = <<>>] /\ UNCHANGED <<call, ip2>>
         ELSE Return(p, IF ok THEN <<d, i>> ELSE <<i, d>>) /\ UNCHANGED lock
      /\ UNCHANGED <<ftable, procs, dying, boot>>

\* What sys_open(), or create() for an inode that exists, accepts.
Openable(p, i) ==
  CASE call[p].op # "open"  -> FALSE
    [] call[p].create = 1   -> type[i] \in {"file", "dev"}
    [] OTHER                -> type[i] = "dir" => call[p].write = 0

FreeFiles == {f \in Files : fref[f] = 0}
FreeFds(p) == {d \in Fds : ofile[p][d] = 0}

\* The rest of sys_open(): the inode is locked, gets a file and a descriptor,
\* and O_TRUNC (of the calls that write) empties it.
OpenInode(p) ==
  LET i == ip[p]
  IN  /\ At(p, "open") \/ Found(p, "open")
      /\ Free(p, i) /\ Openable(p, i)
      /\ FreeFiles # {} /\ FreeFds(p) # {}
      /\ fref' = [fref EXCEPT ![Min(FreeFiles)] = 1]
      /\ fip' = [fip EXCEPT ![Min(FreeFiles)] = i]
      /\ fwr' = [fwr EXCEPT ![Min(FreeFiles)] = call[p].write]
      /\ ofile' = [ofile EXCEPT ![p][Min(FreeFds(p))] = Min(FreeFiles)]
      /\ IF call[p].write = 1 /\ type[i] = "file"
         THEN Truncated(i) ELSE UNCHANGED <<bitmap, blocks>>
      /\ ilock(i) /\ lock' = [lock EXCEPT ![i] = None]
      /\ Return(p, <<>>)
      /\ UNCHANGED <<type, nlink, ents, ref, cwd, dying, boot, stray>>

\* It fails, for the type or for want of a file or a descriptor.
OpenFails(p) ==
  LET i == ip[p]
  IN  /\ At(p, "open") \/ Found(p, "open")
      /\ Free(p, i)
      /\ ~Openable(p, i) \/ FreeFiles = {} \/ FreeFds(p) = {}
      /\ ilock(i) /\ lock' = [lock EXCEPT ![i] = None]
      /\ Return(p, <<i>>)
      /\ UNCHANGED <<disk, ref, ftable, procs, dying, boot, stray>>

---------------------------------------------------------------------------
(* sys_link(), sys_unlink(), sys_chdir() *)

\* sys_link() locks the old file, counts the new link, and walks again.
LinkCount(p) ==
  LET i == ip[p]
  IN  /\ Found(p, "link") /\ Free(p, i) /\ ilock(i)
      /\ IF type[i] = "dir"
         THEN Return(p, <<i>>) /\ UNCHANGED <<nlink, ref>>
         ELSE /\ nlink' = [nlink EXCEPT ![i] = @ + 1]
              /\ ip2' = [ip2 EXCEPT ![p] = i]
              /\ path' = [path EXCEPT ![p] = Rest(call[p].new)]
              /\ ip' = [ip EXCEPT ![p] = From(p, call[p].new)]
              /\ idup(From(p, call[p].new))
              /\ UNCHANGED <<pc, puts, call>>
      /\ UNCHANGED <<type, ents, blocks, bitmap, lock, ftable, procs, dying, boot, stray>>

\* dirlink() of the new name.  When it fails the count is taken back.
LinkEntry(p) ==
  LET d  == ip[p]
      nm == path[p][1]
      dg == IF DirGrows(d) /\ Lookup(d, nm) = 0 THEN balloc(blocks[d], bitmap) ELSE <<>>
      ok == Lookup(d, nm) = 0 /\ (DirGrows(d) => Room(blocks[d], bitmap))
  IN  /\ Parent(p, "link") /\ Free(p, d) /\ ilock(d)
      /\ blocks' = [blocks EXCEPT ![d] = @ \o dg] /\ bitmap' = bitmap \cup ToSet(dg)
      /\ IF ok
         THEN /\ ents' = [ents EXCEPT ![d][nm] = ip2[p]]
              /\ stray' = IF nlink[d] = 0 THEN 1 ELSE stray
              /\ Return(p, <<d, ip2[p]>>)
         ELSE NamexFails(p) /\ UNCHANGED <<ents, stray>>
      /\ UNCHANGED <<type, nlink, ref, lock, ftable, procs, dying, boot>>

\* Mutant: the error path of sys_link() leaves nlink as it is.
LinkUndoneNot(p) ==
  LET i == ip2[p]
  IN  /\ At(p, "undo") /\ Free(p, i) /\ ilock(i)
      /\ Return(p, <<i>>)
      /\ UNCHANGED <<disk, ref, lock, ftable, procs, dying, boot, stray>>

LinkUndone(p) ==
  LET i == ip2[p]
  IN  /\ At(p, "undo") /\ Free(p, i) /\ ilock(i)
      /\ nlink' = [nlink EXCEPT ![i] = @ - 1]
      /\ Return(p, <<i>>)
      /\ UNCHANGED <<type, ents, blocks, bitmap, ref, lock, ftable, procs, dying, boot, stray>>

\* sys_unlink() locks the parent and finds the entry; it keeps the lock.
UnlinkFind(p) ==
  LET d == ip[p]
      n == Lookup(d, path[p][1])
  IN  /\ Parent(p, "unlink") /\ Free(p, d) /\ ilock(d)
      /\ IF path[p][1] \in Names /\ n # 0
         THEN /\ lock' = [lock EXCEPT ![d] = p] /\ idup(n)
              /\ ip2' = [ip2 EXCEPT ![p] = n] /\ Goto(p, "unlink")
              /\ UNCHANGED <<puts, call, path, ip>>
         ELSE Return(p, <<d>>) /\ UNCHANGED <<lock, ref>>
      /\ UNCHANGED <<disk, ftable, procs, dying, boot, stray>>

isdirempty(i) == \A n \in Names : ents[i][n] = 0

\* It locks the file too and takes the entry away.
UnlinkEntry(p) ==
  LET d == ip[p]
      i == ip2[p]
  IN  /\ At(p, "unlink") /\ Free(p, i) /\ ilock(i)
      /\ IF type[i] = "dir" /\ ~isdirempty(i)
         THEN Return(p, <<i, d>>) /\ UNCHANGED <<ents, nlink>>
         ELSE /\ ents' = [ents EXCEPT ![d][path[p][1]] = 0]
              /\ nlink' = [nlink EXCEPT ![d] = IF type[i] = "dir" THEN @ - 1 ELSE @, ![i] = @ - 1]
              /\ Return(p, <<d, i>>)
      /\ lock' = [lock EXCEPT ![d] = None]
      /\ UNCHANGED <<type, blocks, bitmap, ref, ftable, procs, dying, boot, stray>>

\* The rest of sys_chdir().
Chdir(p) ==
  LET i == ip[p]
  IN  /\ Found(p, "chdir") /\ Free(p, i) /\ ilock(i)
      /\ IF type[i] = "dir"
         THEN Return(p, <<cwd[p]>>) /\ cwd' = [cwd EXCEPT ![p] = i]
         ELSE Return(p, <<i>>) /\ UNCHANGED cwd
      /\ UNCHANGED <<disk, ref, lock, ftable, ofile, dying, boot, stray>>

---------------------------------------------------------------------------
(* Open files and processes *)

\* Mutant: fileclose() puts the inode at every close.
filecloseAlways(p, d) ==
  LET f == ofile[p][d]
  IN  /\ f # 0
      /\ ofile' = [ofile EXCEPT ![p][d] = 0]
      /\ fref' = [fref EXCEPT ![f] = @ - 1]
      /\ fip' = [fip EXCEPT ![f] = IF fref[f] = 1 THEN 0 ELSE @]
      /\ fwr' = [fwr EXCEPT ![f] = IF fref[f] = 1 THEN 0 ELSE @]
      /\ Puts(p, <<fip[f]>>)

\* fileclose(); the last close puts the inode.
fileclose(p, d) ==
  LET f == ofile[p][d]
  IN  /\ f # 0
      /\ ofile' = [ofile EXCEPT ![p][d] = 0]
      /\ fref' = [fref EXCEPT ![f] = @ - 1]
      /\ fip' = [fip EXCEPT ![f] = IF fref[f] = 1 THEN 0 ELSE @]
      /\ fwr' = [fwr EXCEPT ![f] = IF fref[f] = 1 THEN 0 ELSE @]
      /\ Puts(p, IF fref[f] = 1 THEN <<fip[f]>> ELSE <<>>)

Close(p) ==
  /\ At(p, "user") /\ \E d \in Fds : fileclose(p, d)
  /\ UNCHANGED <<disk, itable, cwd, locals, pc, dying, boot, stray>>

Dup(p) ==
  /\ At(p, "user") /\ FreeFds(p) # {}
  /\ \E d \in Fds :
       /\ ofile[p][d] # 0
       /\ ofile' = [ofile EXCEPT ![p][Min(FreeFds(p))] = ofile[p][d]]
       /\ fref' = [fref EXCEPT ![ofile[p][d]] = @ + 1]
  /\ UNCHANGED <<disk, itable, fip, fwr, cwd, locals, flow, boot, stray>>

\* fileread() and filestat(): under the lock, nothing is changed.
Read(p) ==
  /\ At(p, "user")
  /\ \E d \in Fds : ofile[p][d] # 0 /\ LET i == fip[ofile[p][d]] IN lock[i] = None /\ ilock(i)
  /\ UNCHANGED <<disk, ref, lock, ftable, procs, locals, flow, boot, stray>>

\* One transaction of filewrite(): writei() fills blocks the file has, or
\* bmap() gives it one more, as far as there is room.
Write(p) ==
  /\ At(p, "user")
  /\ \E d \in Fds :
       LET i == fip[ofile[p][d]]
           g == balloc(blocks[i], bitmap)
       IN  /\ ofile[p][d] # 0 /\ fwr[ofile[p][d]] = 1 /\ type[i] = "file"
           /\ lock[i] = None /\ ~Full(blocks[i])
           /\ blocks' = [blocks EXCEPT ![i] = @ \o g]
           /\ bitmap' = bitmap \cup ToSet(g)
           /\ ilock(i)
  /\ UNCHANGED <<type, nlink, ents, ref, lock, ftable, procs, locals, flow, boot, stray>>

\* The part of kfork() that concerns files.
Fork(p, q) ==
  /\ At(p, "user") /\ pc[q] = "none" /\ puts[q] = <<>>
  /\ ofile' = [ofile EXCEPT ![q] = ofile[p]]
  /\ fref' = [f \in Files |-> fref[f] + Cardinality({d \in Fds : ofile[p][d] = f})]
  /\ cwd' = [cwd EXCEPT ![q] = cwd[p]] /\ idup(cwd[p])
  /\ Goto(q, "user")
  /\ UNCHANGED <<disk, valid, lock, fip, fwr, locals, puts, dying, boot, stray>>

Exit(p) ==
  /\ At(p, "user") /\ p # InitProc
  /\ Goto(p, "exit")
  /\ UNCHANGED <<disk, itable, ftable, procs, locals, puts, dying, boot, stray>>

\* kexit() closes the files one by one,
ExitClose(p) ==
  /\ At(p, "exit") /\ FreeFds(p) # Fds
  /\ fileclose(p, Min(Fds \ FreeFds(p)))
  /\ UNCHANGED <<disk, itable, cwd, locals, pc, dying, boot, stray>>

\* and lets the working directory go.
ExitCwd(p) ==
  /\ At(p, "exit") /\ FreeFds(p) = Fds
  /\ Puts(p, <<cwd[p]>>)
  /\ cwd' = [cwd EXCEPT ![p] = 0]
  /\ Goto(p, "none")
  /\ UNCHANGED <<disk, itable, ftable, ofile, locals, dying, boot, stray>>

---------------------------------------------------------------------------
(* Crash and boot *)

\* No call is under way: nothing logged is uncommitted.
Quiet == \A p \in Procs : pc[p] \in {"none", "user"} /\ puts[p] = <<>>

Crash ==
  /\ Quiet /\ Booted
  /\ UNCHANGED <<disk, stray>>

\* Mutant: ireclaim() misses the last inode.
IreclaimShort ==
  /\ boot # 0
  /\ boot' = IF boot = NINODES - 1 THEN 0 ELSE boot + 1
  /\ IF type[boot] # "free" /\ nlink[boot] = 0
     THEN /\ Truncated(boot) /\ ents' = [ents EXCEPT ![boot] = NoEnts]
          /\ type' = [type EXCEPT ![boot] = "free"]
     ELSE UNCHANGED <<type, ents, blocks, bitmap>>
  /\ UNCHANGED <<nlink, itable, ftable, procs, locals, flow, stray>>

\* One round of ireclaim(): iget(), ilock(), iunlock() and the iput() that
\* frees an orphan, by the only process there is.
Ireclaim ==
  /\ boot # 0
  /\ boot' = IF boot = NINODES THEN 0 ELSE boot + 1
  /\ IF type[boot] # "free" /\ nlink[boot] = 0
     THEN /\ Truncated(boot) /\ ents' = [ents EXCEPT ![boot] = NoEnts]
          /\ type' = [type EXCEPT ![boot] = "free"]
     ELSE UNCHANGED <<type, ents, blocks, bitmap>>
  /\ UNCHANGED <<nlink, itable, ftable, procs, locals, flow, stray>>

---------------------------------------------------------------------------

Iput(p)  == IputDrop(p) \/ IputLast(p) \/ IputFree(p) \/ IputEnd(p)
Namex(p) == Walk(p) \/ WalkFails(p) \/ WalkNoParent(p) \/ WalkParent(p)
Open(p)  == CreateFound(p) \/ CreateNoInode(p) \/ CreateNew(p) \/ OpenInode(p) \/ OpenFails(p)
Link(p)  == LinkCount(p) \/ LinkEntry(p) \/ LinkUndone(p) \/ UnlinkFind(p) \/ UnlinkEntry(p) \/ Chdir(p)
User(p)  == Begin(p) \/ Close(p) \/ Dup(p) \/ Read(p) \/ Write(p) \/ Exit(p)
            \/ \E q \in Procs : Fork(p, q)

Step(p) == Iput(p) \/ Namex(p) \/ Open(p) \/ Link(p) \/ User(p)
           \/ ExitClose(p) \/ ExitCwd(p)

\* When a removed directory has been used as one, entries and links no longer
\* match; what follows is not looked at.
Lost == stray = 1 /\ UNCHANGED vars

Next == Lost \/ (stray = 0 /\ (Crash \/ Ireclaim \/ \E p \in Procs : Step(p)))

Spec == Init /\ [][Next]_vars

---------------------------------------------------------------------------

\* A block is marked in the bitmap exactly if one file has it, and has it
\* once: neither a full disk nor an error path nor a crash loses a block or
\* gives it to two files, and bfree() does not panic.
BlocksOwned ==
  /\ bitmap = UNION {ToSet(blocks[i]) : i \in Inodes}
  /\ Cardinality(bitmap) = Cardinality(UNION {{i} \X DOMAIN blocks[i] : i \in Inodes})
  /\ \A i \in Inodes : type[i] = "free" => blocks[i] = <<>>

Entries == {<<d, n>> \in Inodes \X Names : ents[d][n] # 0}

\* nlink is the number of links: the entries that name an inode, one for each
\* directory in it, one for the root, and one that sys_link() is about to
\* make.  Entries name allocated inodes and are in live directories.  So a
\* crash at any time leaves no name without a file, and a file without a
\* name has nlink = 0, for ireclaim() to find.
LinksCounted ==
  LET E      == Entries
      To(e)  == ents[e[1]][e[2]]
      Subs   == {e \in E : type[To(e)] = "dir"}
  IN  /\ \A e \in E : type[To(e)] # "free" /\ type[e[1]] = "dir"
      /\ \A i \in Inodes : type[i] # "free" =>
           nlink[i] = Cardinality({e \in E : To(e) = i}) + Cardinality({e \in Subs : e[1] = i})
                      + (IF i = ROOT THEN 1 ELSE 0)
                      + Cardinality({p \in Procs : call[p].op = "link" /\ ip2[p] = i})

\* The inodes that process p refers to through its call and as its cwd.
Refs(p) == SelectSeq(puts[p] \o <<ip[p], ip2[p], cwd[p]>>, LAMBDA i : i # 0)

\* ip->ref counts exactly what refers to the inode, and f->ref the
\* descriptors that refer to the file: no path through the calls, and no
\* error in one, forgets an iput() or makes one too many.
RefsCounted ==
  LET R == [p \in Procs |-> Refs(p)]
      U == UNION {{p} \X DOMAIN R[p] : p \in Procs}
  IN  /\ \A i \in Inodes :
           ref[i] = Cardinality({u \in U : R[u[1]][u[2]] = i})
                    + Cardinality({f \in Files : fref[f] > 0 /\ fip[f] = i})
      /\ \A f \in Files :
           fref[f] = Cardinality({r \in Procs \X Fds : ofile[r[1]][r[2]] = f})

\* An inode that an open file, a working directory or a call refers to is
\* allocated, so ilock() does not panic, unless it has just been freed and
\* only that iput() refers to it; and iput() takes a lock nobody holds.
HeldAllocated ==
  \A p \in Procs :
    /\ \A d \in Fds : ofile[p][d] # 0 => type[fip[ofile[p][d]]] # "free"
    /\ cwd[p] # 0 => type[cwd[p]] = "dir"
    /\ stray = 0 => \A k \in DOMAIN Refs(p) : type[Refs(p)[k]] = "free" => dying[p] = 1 /\ k = 1
    /\ puts[p] # <<>> => LET i == Head(puts[p])
                         IN  ref[i] = 1 /\ valid[i] = 1 /\ nlink[i] = 0 => lock[i] \in {None, p}

Orphans == {i \in Inodes : type[i] # "free" /\ nlink[i] = 0}

\* When the system is up after a crash nothing is left of the files that had
\* no name any more, whatever was open when it crashed.
BootReclaims == [][boot # 0 /\ boot' = 0 => Orphans' = {}]_vars
=============================================================================
