------------------------------- MODULE Inode --------------------------------
(***************************************************************************)
(* Inodes, directories and the system calls on them (kernel/fs.c and       *)
(* kernel/sysfile.c): path lookup, open, create, mkdir, link, unlink,      *)
(* chdir, read, write, stat and close by several processes, at the grain   *)
(* of the inode locks and of itable.lock.                                  *)
(*                                                                         *)
(* What a process does to inodes whose locks it holds is one step.  Paths  *)
(* are sequences of names, a directory is a function from names to inode   *)
(* numbers (0: no entry), "." is left out.  Transactions are Log's matter: *)
(* here the disk is what the processes see through the buffer cache.       *)
(***************************************************************************)
EXTENDS Naturals, Sequences, FiniteSets, FiniteSetsExt, SequencesExt

CONSTANTS Procs,     \* processes, each with one file descriptor
          NINODES,   \* inodes on the disk; the root is number 1
          Names,     \* names of directory entries
          Paths,     \* paths that processes use, relative to / or to the cwd
          CallsOf,   \* the system calls that each process makes
          NBLOCKS,   \* data blocks on the disk
          NDIRECT,   \* direct blocks of an inode
          MAXFILE    \* blocks a file may have

\* open() of what exists (of a directory: for reading), with O_TRUNC and with
\* O_CREATE; the others by name.
Calls == {"open", "trunc", "create", "mkdir", "unlink", "link", "chdir"}

ASSUME InodeAssumption ==
  /\ NINODES \in Nat \ {0} /\ NBLOCKS \in Nat \ {0}
  /\ NDIRECT \in Nat \ {0} /\ MAXFILE \in Nat /\ MAXFILE >= NDIRECT
  /\ IsFiniteSet(Procs) /\ 0 \notin Procs
  /\ IsFiniteSet(Names) /\ ".." \notin Names
  /\ CallsOf \in [Procs -> SUBSET Calls]
  /\ \A path \in Paths : path \in Seq(Names \cup {".."}) /\ path # << >>

Inum == 1..NINODES
Block == 1..NBLOCKS
ROOTINO == 1
None == 0

VARIABLES
  disk,     \* the dinodes on the disk
  mem,      \* the copy in the inode table, or NotRead when ip->valid is 0
  ref,      \* ip->ref
  lock,     \* holder of ip->lock, or None
  ents,     \* contents of the directories
  bitmap,   \* blocks marked in use
  cwd, fd,  \* per process: p->cwd and the inode of its open file
  op, pc,   \* per process: the system call and where it is
  puts,     \* per process: the inodes it has to iput() next
  freeing,  \* per process: between the two critical sections of iput()
  lost,     \* history: inodes whose entry vanished with a removed directory
  panicked

tableVars == <<disk, mem, ents, bitmap>>
vars == <<tableVars, ref, lock, cwd, fd, op, pc, puts, freeing, lost, panicked>>

Dinode == [type : {"free", "dir", "file"}, nlink : Nat, size : Nat,
           addrs : Seq(Block), ind : Block \cup {None}]
FreeInode == [type |-> "free", nlink |-> 0, size |-> 0, addrs |-> << >>,
              ind |-> None]
NotRead == [FreeInode EXCEPT !.type = "not read"]

NoOp == [call |-> "none", path |-> << >>, new |-> << >>, at |-> None,
         ip |-> None]
NoEnts == [n \in Names \cup {".."} |-> None]

TypeOK ==
  /\ \A i \in Inum : disk[i] \in Dinode
                     /\ (mem[i] = NotRead \/ mem[i] \in Dinode)
  /\ ref \in [Inum -> Nat]
  /\ lock \in [Inum -> Procs \cup {None}]
  /\ ents \in [Inum -> [Names \cup {".."} -> Inum \cup {None}]]
  /\ bitmap \subseteq Block /\ lost \subseteq Inum
  /\ cwd \in [Procs -> Inum]
  /\ fd \in [Procs -> Inum \cup {None}]
  /\ puts \in [Procs -> Seq(Inum)]
  /\ freeing \in [Procs -> BOOLEAN] /\ panicked \in BOOLEAN
  /\ pc \in [Procs -> {"idle", "walk", "target", "parent", "child", "unlinked",
                       "exists", "locked", "undo", "full"}]

\* What mkfs appends to the root inode, and the bitmap it writes.
RootDinode == [type |-> "dir", nlink |-> 1, size |-> 1, addrs |-> <<1>>,
               ind |-> None]
MkfsBitmap == {1}

\* The disk mkfs makes, and processes whose current directory is the root.
Init ==
  /\ disk = [i \in Inum |-> IF i = ROOTINO THEN RootDinode ELSE FreeInode]
  /\ mem = [i \in Inum |-> NotRead]
  /\ ref = [i \in Inum |-> IF i = ROOTINO THEN Cardinality(Procs) ELSE 0]
  /\ lock = [i \in Inum |-> None]
  /\ ents = [i \in Inum |-> IF i = ROOTINO
                            THEN [NoEnts EXCEPT ![".."] = ROOTINO] ELSE NoEnts]
  /\ bitmap = MkfsBitmap
  /\ cwd = [p \in Procs |-> ROOTINO]
  /\ fd = [p \in Procs |-> None]
  /\ op = [p \in Procs |-> NoOp]
  /\ pc = [p \in Procs |-> "idle"]
  /\ puts = [p \in Procs |-> << >>]
  /\ freeing = [p \in Procs |-> FALSE]
  /\ lost = {}
  /\ panicked = FALSE

-----------------------------------------------------------------------------
(***************************************************************************)
(* fs.c: the inode table and the blocks                                    *)
(***************************************************************************)

\* Process p is at label l and has no iput() to finish first.
At(p, l) == pc[p] = l /\ puts[p] = << >>

\* p goes on at label l after it has put the inodes in ps.
Goto(p, l, ps) ==
  /\ pc' = [pc EXCEPT ![p] = l]
  /\ puts' = [puts EXCEPT ![p] = ps]

\* The system call ends after the puts, with or without success.
Return(p, ps) == Goto(p, "idle", ps) /\ op' = [op EXCEPT ![p] = NoOp]

\* ilock(): what the caller sees of inode i, read from the disk if necessary.
Ilock(i) == IF mem[i] = NotRead THEN disk[i] ELSE mem[i]

\* ilock() must not find a free inode.
NoType(i) == Ilock(i).type = "free"

\* The table with the inodes in DOMAIN f changed to f.
Put(f, table) == [i \in Inum |-> IF i \in DOMAIN f THEN f[i] ELSE table[i]]

\* ip->xxx = ..., followed by iupdate().
Iupdate(f) == disk' = Put(f, disk)
Change(f) == mem' = Put(f, mem) /\ Iupdate(f)

\* ilock() and iunlock() with nothing changed in between.
Load(i) == mem' = [mem EXCEPT ![i] = Ilock(i)] /\ UNCHANGED disk

\* iget(): one more reference; idup() is the same for an inode in the table.
Iget(i) == ref' = [ref EXCEPT ![i] = @ + 1]

\* The blocks of an inode: data blocks and the block of indirect addresses.
BlocksOf(n) == Range(n.addrs) \cup ({n.ind} \ {None})

\* balloc(): the first block that is not in use.
Balloc(inUse) == Min(Block \ inUse)

\* bmap() for the block after the last one: the inode afterwards, with a second
\* balloc() for the indirect block when that is not there yet.
Bmap(n) ==
  LET b == Balloc(bitmap)
  IN IF Len(n.addrs) < NDIRECT \/ n.ind # None
     THEN [n EXCEPT !.addrs = Append(@, b)]
     ELSE [n EXCEPT !.ind = b, !.addrs = Append(@, Balloc(bitmap \cup {b}))]

\* balloc() would find n free blocks.
RoomFor(n) == Cardinality(Block \ bitmap) >= n

\* ialloc(): the first free inode on the disk, if there is one.
Unused == {i \in Inum : disk[i].type = "free"}
Ialloc == Min(Unused)

\* writei() of one block at the end of the file: when the copy from user space
\* fails, the block stays allocated behind the end.
Writei(n, copied) ==
  LET new == IF Len(n.addrs) > n.size THEN n ELSE Bmap(n)
  IN IF copied THEN [new EXCEPT !.size = @ + 1] ELSE new

\* itrunc(): the blocks that bfree() gives back.
Itrunc(n) == BlocksOf(n)

\* bfree() panics when a block is free already.
DoubleFree(n) == ~(BlocksOf(n) \subseteq bitmap)

\* Mutant: references of other processes are not considered.
LastPut_AnyRef(i) == mem[i] # NotRead /\ mem[i].nlink = 0

\* iput(): the last reference to an inode without links.
LastPut(i) == ref[i] = 1 /\ mem[i] # NotRead /\ mem[i].nlink = 0

\* iput() truncates and frees the inode, with ip->lock and without itable.lock.
IputFree(p) ==
  /\ puts[p] # << >> /\ ~freeing[p]
  /\ LET i == Head(puts[p])
     IN /\ LastPut(i)
        /\ panicked' = (lock[i] # None \/ DoubleFree(mem[i]))
        /\ disk' = [disk EXCEPT ![i] = FreeInode]
        /\ mem' = [mem EXCEPT ![i] = NotRead]
        /\ bitmap' = bitmap \ Itrunc(mem[i])
        /\ ents' = [ents EXCEPT ![i] = NoEnts]
        /\ lost' = lost \cup ({ents[i][n] : n \in Names} \ {None})
  /\ freeing' = [freeing EXCEPT ![p] = TRUE]
  /\ UNCHANGED <<ref, lock, cwd, fd, op, pc, puts>>

\* iput() drops the reference.  An entry nobody refers to is not valid for the
\* next iget().
IputDec(p) ==
  /\ puts[p] # << >>
  /\ LET i == Head(puts[p])
     IN /\ freeing[p] \/ ~LastPut(i)
        /\ ref' = [ref EXCEPT ![i] = @ - 1]
        /\ mem' = IF ref[i] = 1 THEN [mem EXCEPT ![i] = NotRead] ELSE mem
  /\ puts' = [puts EXCEPT ![p] = Tail(@)]
  /\ freeing' = [freeing EXCEPT ![p] = FALSE]
  /\ UNCHANGED <<disk, ents, bitmap, lock, cwd, fd, op, pc, lost, panicked>>

-----------------------------------------------------------------------------
(***************************************************************************)
(* Directories and paths                                                   *)
(***************************************************************************)

\* dirlookup() of name n in directory d, and dirlink() of inode i.
DirLookup(d, n) == ents[d][n]
DirLink(e, d, n, i) == [e EXCEPT ![d][n] = i]

\* skipelem(): the first name of a path and the path behind it.
Name(path) == Head(path)
SkipElem(path) == Tail(path)

\* A path lookup starts at the root or at the current directory.
Start(p, call, path, new, from) ==
  /\ At(p, "idle")
  /\ op' = [op EXCEPT ![p] = [call |-> call, path |-> path, new |-> new,
                              at |-> from, ip |-> None]]
  /\ Iget(from)
  /\ Goto(p, "walk", << >>)
  /\ UNCHANGED <<tableVars, lock, cwd, fd, freeing, lost, panicked>>

\* nameiparent() rather than namei(): create(), unlink, and link's second path.
WantsParent(o) == o.call \in {"create", "mkdir", "unlink"} \/ o.ip # None

\* The lookup failed: link has to take its nlink++ back.
LookupFails(p, ps) ==
  IF op[p].call = "link" /\ op[p].ip # None
  THEN Goto(p, "undo", ps) /\ op' = [op EXCEPT ![p].at = None]
  ELSE Return(p, ps)

\* One turn of namex()'s loop.
Walk(p) ==
  /\ At(p, "walk")
  /\ LET o == op[p]  i == o.at  next == DirLookup(i, Name(o.path))
     IN /\ lock[i] = None
        /\ panicked' = NoType(i)
        /\ Load(i)
        /\ \/ /\ \/ Ilock(i).type # "dir"
                 \/ next = None /\ ~(WantsParent(o) /\ Len(o.path) = 1)
              /\ LookupFails(p, <<i>>)
              /\ UNCHANGED ref
           \/ /\ Ilock(i).type = "dir"
              /\ WantsParent(o) /\ Len(o.path) = 1
              /\ Goto(p, "parent", << >>)
              /\ UNCHANGED <<op, ref>>
           \/ /\ Ilock(i).type = "dir" /\ next # None
              /\ ~(WantsParent(o) /\ Len(o.path) = 1)
              /\ Iget(next)
              /\ op' = [op EXCEPT ![p].at = next, ![p].path = SkipElem(@)]
              /\ Goto(p, IF Len(o.path) = 1 THEN "target" ELSE "walk", <<i>>)
  /\ UNCHANGED <<ents, bitmap, lock, cwd, fd, freeing, lost>>

-----------------------------------------------------------------------------
(***************************************************************************)
(* sysfile.c                                                               *)
(***************************************************************************)

\* sys_open() of an existing name: a directory may only be opened for reading.
\* The inode stays locked.
OpenTarget(p) ==
  /\ At(p, "target") /\ op[p].call \in {"open", "trunc"}
  /\ LET i == op[p].at
     IN /\ lock[i] = None
        /\ panicked' = NoType(i)
        /\ Load(i)
        /\ IF Ilock(i).type = "dir" /\ op[p].call = "trunc"
           THEN Return(p, <<i>>) /\ UNCHANGED lock
           ELSE /\ lock' = [lock EXCEPT ![i] = p]
                /\ op' = [op EXCEPT ![p].at = None, ![p].ip = i]
                /\ Goto(p, "locked", << >>)
  /\ UNCHANGED <<ents, bitmap, ref, cwd, fd, freeing, lost>>

\* sys_chdir(): the old directory is put.
Chdir(p) ==
  /\ At(p, "target") /\ op[p].call = "chdir"
  /\ LET i == op[p].at
     IN /\ lock[i] = None
        /\ panicked' = NoType(i)
        /\ Load(i)
        /\ IF Ilock(i).type # "dir"
           THEN Return(p, <<i>>) /\ UNCHANGED cwd
           ELSE Return(p, <<cwd[p]>>) /\ cwd' = [cwd EXCEPT ![p] = i]
  /\ UNCHANGED <<ents, bitmap, ref, lock, fd, freeing, lost>>

\* sys_link(): nlink++ on the old name's inode, then the new name's parent.
LinkTarget(p) ==
  /\ At(p, "target") /\ op[p].call = "link"
  /\ LET i == op[p].at  n == Ilock(i)
     IN /\ lock[i] = None
        /\ panicked' = NoType(i)
        /\ \/ /\ n.type = "dir"
              /\ Load(i) /\ Return(p, <<i>>)
              /\ UNCHANGED ref
           \/ /\ n.type # "dir"
              /\ Change([j \in {i} |-> [n EXCEPT !.nlink = @ + 1]])
              /\ \E from \in {ROOTINO, cwd[p]} :
                   /\ Iget(from)
                   /\ op' = [op EXCEPT ![p].path = op[p].new, ![p].new = << >>,
                                       ![p].at = from, ![p].ip = i]
              /\ Goto(p, "walk", << >>)
  /\ UNCHANGED <<ents, bitmap, lock, cwd, fd, freeing, lost>>

\* sys_link(): dirlink() of the new name; a name that exists is an error.
LinkParent(p) ==
  /\ At(p, "parent") /\ op[p].call = "link"
  /\ LET d == op[p].at  n == Name(op[p].path)  e == DirLookup(d, n)
     IN /\ lock[d] = None
        /\ Load(d)
        /\ IF e # None
           THEN /\ Iget(e)
                /\ LookupFails(p, <<e, d>>)
                /\ UNCHANGED ents
           ELSE /\ ents' = DirLink(ents, d, n, op[p].ip)
                /\ Return(p, <<d, op[p].ip>>)
                /\ UNCHANGED ref
  /\ UNCHANGED <<bitmap, lock, cwd, fd, freeing, lost, panicked>>

\* Mutant: the error path of link forgets the nlink++.
LinkUndo_Keeps(p) ==
  /\ At(p, "undo")
  /\ lock[op[p].ip] = None
  /\ Load(op[p].ip)
  /\ Return(p, <<op[p].ip>>)
  /\ UNCHANGED <<ents, bitmap, ref, lock, cwd, fd, freeing, lost, panicked>>

\* sys_link(), bad: nlink-- again.
LinkUndo(p) ==
  /\ At(p, "undo")
  /\ LET i == op[p].ip  n == Ilock(i)
     IN /\ lock[i] = None
        /\ panicked' = NoType(i)
        /\ Change([j \in {i} |-> [n EXCEPT !.nlink = @ - 1]])
        /\ Return(p, <<i>>)
  /\ UNCHANGED <<ents, bitmap, ref, lock, cwd, fd, freeing, lost>>

\* sys_unlink(): lock the directory and look the name up.
UnlinkParent(p) ==
  /\ At(p, "parent") /\ op[p].call = "unlink"
  /\ LET d == op[p].at  n == Name(op[p].path)  e == DirLookup(d, n)
     IN /\ lock[d] = None
        /\ Load(d)
        /\ IF n = ".." \/ e = None
           THEN Return(p, <<d>>) /\ UNCHANGED <<ref, lock>>
           ELSE /\ Iget(e)
                /\ lock' = [lock EXCEPT ![d] = p]
                /\ op' = [op EXCEPT ![p].ip = e]
                /\ Goto(p, "child", << >>)
  /\ UNCHANGED <<ents, bitmap, cwd, fd, freeing, lost, panicked>>

\* isdirempty()
IsDirEmpty(i) == \A n \in Names : ents[i][n] = None

\* sys_unlink(): with both locked, erase the entry and unlock the directory; a
\* directory that is not empty stays.
UnlinkChild(p) ==
  /\ At(p, "child")
  /\ LET d == op[p].at  i == op[p].ip  n == Ilock(i)
     IN /\ lock[i] = None
        /\ panicked' = (NoType(i) \/ n.nlink < 1)
        /\ \/ /\ n.type = "dir" /\ ~IsDirEmpty(i)
              /\ Load(i)
              /\ lock' = [lock EXCEPT ![d] = None]
              /\ Return(p, <<i, d>>)
              /\ UNCHANGED ents
           \/ /\ n.type # "dir" \/ IsDirEmpty(i)
              /\ ents' = DirLink(ents, d, Name(op[p].path), None)
              /\ IF n.type = "dir"
                 THEN Change([j \in {d, i} |->
                        IF j = d THEN [mem[d] EXCEPT !.nlink = @ - 1] ELSE n])
                 ELSE Load(i)
              /\ lock' = [lock EXCEPT ![d] = None, ![i] = p]
              /\ op' = [op EXCEPT ![p].at = None]
              /\ Goto(p, "unlinked", <<d>>)
  /\ UNCHANGED <<bitmap, ref, cwd, fd, freeing, lost>>

\* sys_unlink(): nlink-- and unlock the inode.
Unlinked(p) ==
  /\ At(p, "unlinked")
  /\ LET i == op[p].ip
     IN /\ Change([j \in {i} |-> [mem[i] EXCEPT !.nlink = @ - 1]])
        /\ lock' = [lock EXCEPT ![i] = None]
        /\ Return(p, <<i>>)
  /\ UNCHANGED <<ents, bitmap, ref, cwd, fd, freeing, lost, panicked>>

\* create(): the name exists.
CreateFinds(p) ==
  /\ At(p, "parent") /\ op[p].call \in {"create", "mkdir"}
  /\ LET d == op[p].at  e == DirLookup(d, Name(op[p].path))
     IN /\ lock[d] = None
        /\ e # None
        /\ Load(d)
        /\ Iget(e)
        /\ op' = [op EXCEPT ![p].at = None, ![p].ip = e]
        /\ Goto(p, "exists", <<d>>)
  /\ UNCHANGED <<ents, bitmap, lock, cwd, fd, freeing, lost, panicked>>

\* create(): only open() of a file accepts a name that exists.
CreateExists(p) ==
  /\ At(p, "exists")
  /\ LET i == op[p].ip
     IN /\ lock[i] = None
        /\ panicked' = NoType(i)
        /\ Load(i)
        /\ IF op[p].call = "create" /\ Ilock(i).type = "file"
           THEN /\ lock' = [lock EXCEPT ![i] = p]
                /\ Goto(p, "locked", << >>)
                /\ UNCHANGED op
           ELSE Return(p, <<i>>) /\ UNCHANGED lock
  /\ UNCHANGED <<ents, bitmap, ref, cwd, fd, freeing, lost>>

\* create(): ialloc() takes the first free inode, which gets its first link
\* and, for a directory, "..".  Its lock is kept.
CreateNew(p) ==
  /\ At(p, "parent") /\ op[p].call \in {"create", "mkdir"}
  /\ LET d == op[p].at  n == Name(op[p].path)
         i == Ialloc
         dir == op[p].call = "mkdir"
         file == [FreeInode EXCEPT !.type = IF dir THEN "dir" ELSE "file",
                                   !.nlink = 1]
     IN /\ lock[d] = None
        /\ DirLookup(d, n) = None
        /\ Unused # {} /\ RoomFor(1)
        /\ panicked' = (lock[i] # None)
        /\ Change([j \in {d, i} |->
             CASE j = d -> [Ilock(d) EXCEPT !.nlink = IF dir THEN @ + 1 ELSE @]
               [] j = i /\ dir -> [Bmap(file) EXCEPT !.size = 1]
               [] j = i /\ ~dir -> file])
        /\ bitmap' = bitmap \cup (IF dir THEN BlocksOf(Bmap(file)) ELSE {})
        /\ ents' = DirLink(IF dir THEN DirLink(ents, i, "..", d) ELSE ents,
                           d, n, i)
        /\ Iget(i)
        /\ lock' = [lock EXCEPT ![i] = p]
        /\ lost' = lost \ {i}
        /\ op' = [op EXCEPT ![p].at = None, ![p].ip = i]
        /\ Goto(p, "locked", <<d>>)
  /\ UNCHANGED <<cwd, fd, freeing>>

\* ialloc() and balloc() panic when the disk is full: the kernel stops.
DiskFull(p) ==
  /\ At(p, "parent") /\ op[p].call \in {"create", "mkdir"}
  /\ lock[op[p].at] = None
  /\ DirLookup(op[p].at, Name(op[p].path)) = None
  /\ Unused = {} \/ ~RoomFor(1)
  /\ Goto(p, "full", << >>)
  /\ UNCHANGED <<tableVars, ref, lock, cwd, fd, op, freeing, lost, panicked>>

\* sys_mkdir() unlocks and puts the new directory.
MkdirDone(p) ==
  /\ At(p, "locked") /\ op[p].call = "mkdir"
  /\ lock' = [lock EXCEPT ![op[p].ip] = None]
  /\ Return(p, <<op[p].ip>>)
  /\ UNCHANGED <<tableVars, ref, cwd, fd, freeing, lost, panicked>>

\* Mutant: the error path of open forgets its reference.
OpenFails_Leaks(p) ==
  /\ At(p, "locked") /\ op[p].call # "mkdir"
  /\ fd[p] # None
  /\ lock' = [lock EXCEPT ![op[p].ip] = None]
  /\ Return(p, << >>)
  /\ UNCHANGED <<tableVars, ref, cwd, fd, freeing, lost, panicked>>

\* sys_open(): fdalloc() finds no descriptor.
OpenFails(p) ==
  /\ At(p, "locked") /\ op[p].call # "mkdir"
  /\ fd[p] # None
  /\ lock' = [lock EXCEPT ![op[p].ip] = None]
  /\ Return(p, <<op[p].ip>>)
  /\ UNCHANGED <<tableVars, ref, cwd, fd, freeing, lost, panicked>>

\* sys_open(): the descriptor takes the reference over; O_TRUNC.
OpenDone(p) ==
  /\ At(p, "locked") /\ op[p].call # "mkdir"
  /\ fd[p] = None
  /\ LET i == op[p].ip
     IN /\ fd' = [fd EXCEPT ![p] = i]
        /\ lock' = [lock EXCEPT ![i] = None]
        /\ IF op[p].call = "trunc" /\ mem[i].type = "file"
           THEN /\ panicked' = DoubleFree(mem[i])
                /\ bitmap' = bitmap \ Itrunc(mem[i])
                /\ Change([j \in {i} |-> [mem[i] EXCEPT !.addrs = << >>,
                                            !.ind = None, !.size = 0]])
           ELSE UNCHANGED <<disk, mem, bitmap, panicked>>
  /\ Return(p, << >>)
  /\ UNCHANGED <<ents, ref, cwd, freeing, lost>>

\* filewrite() with f->off at the end of the file; writes before it change
\* nothing here.  Bound: nobody writes when the disk is almost
\* full.
Write(p, copied) ==
  /\ At(p, "idle") /\ fd[p] # None
  /\ LET i == fd[p]  n == Ilock(i)  new == Writei(n, copied)
     IN /\ lock[i] = None
        /\ n.type = "file" /\ n.size < MAXFILE /\ RoomFor(2)
        /\ Change([j \in {i} |-> new])
        /\ bitmap' = bitmap \cup BlocksOf(new)
  /\ UNCHANGED <<ents, ref, lock, cwd, fd, op, pc, puts, freeing, lost,
                 panicked>>

\* readi() below the size of the file: bmap() must find the blocks there, as a
\* read is not in a transaction and balloc() would panic in log_write().
ReadsHole(n) == n.size > Len(n.addrs)

\* fileread() of a file or a directory.
Read(p) ==
  /\ At(p, "idle") /\ fd[p] # None
  /\ LET i == fd[p]  n == Ilock(i)
     IN /\ lock[i] = None
        /\ panicked' = (NoType(i) \/ ReadsHole(n))
        /\ Load(i)
  /\ UNCHANGED <<ents, bitmap, ref, lock, cwd, fd, op, pc, puts, freeing, lost>>

\* filestat() of any inode.
Stat(p) ==
  /\ At(p, "idle") /\ fd[p] # None
  /\ lock[fd[p]] = None
  /\ panicked' = NoType(fd[p])
  /\ Load(fd[p])
  /\ UNCHANGED <<ents, bitmap, ref, lock, cwd, fd, op, pc, puts, freeing, lost>>

\* sys_close(): the last descriptor of a file puts its inode.
Close(p) ==
  /\ At(p, "idle") /\ fd[p] # None
  /\ Goto(p, "idle", <<fd[p]>>)
  /\ fd' = [fd EXCEPT ![p] = None]
  /\ UNCHANGED <<tableVars, ref, lock, cwd, op, freeing, lost, panicked>>

-----------------------------------------------------------------------------

SysCall(p) ==
  \/ \E call \in CallsOf[p], path \in Paths, from \in {ROOTINO, cwd[p]} :
       \E new \in IF call = "link" THEN Paths ELSE {<< >>} :
         Start(p, call, path, new, from)
  \/ Walk(p) \/ OpenTarget(p) \/ Chdir(p)
  \/ LinkTarget(p) \/ LinkParent(p) \/ LinkUndo(p)
  \/ UnlinkParent(p) \/ UnlinkChild(p) \/ Unlinked(p)
  \/ CreateFinds(p) \/ CreateExists(p) \/ CreateNew(p) \/ DiskFull(p)
  \/ MkdirDone(p)
  \/ OpenFails(p) \/ OpenDone(p) \/ Read(p) \/ Stat(p) \/ Close(p)
  \/ \E copied \in BOOLEAN : Write(p, copied)

Next ==
  /\ ~panicked /\ \A p \in Procs : pc[p] # "full"
  /\ \E p \in Procs : SysCall(p) \/ IputFree(p) \/ IputDec(p)

Spec == Init /\ [][Next]_vars

-----------------------------------------------------------------------------

\* Every pointer to an inode, and only those, is counted in ip->ref, on every
\* path through the system calls, the failing ones too: an entry of the table
\* is neither recycled under somebody nor lost.
RefsExact ==
  \A i \in Inum :
    ref[i] = Cardinality({p \in Procs : cwd[p] = i})
             + Cardinality({p \in Procs : fd[p] = i})
             + Cardinality({p \in Procs : op[p].at = i})
             + Cardinality({p \in Procs : op[p].ip = i})
             + Cardinality({x \in Procs \X (1..2) :
                 x[2] <= Len(puts[x[1]]) /\ puts[x[1]][x[2]] = i})

\* Names of i in directories, and the ".." of subdirectories that have a name.
EntriesOf(i) == {e \in Inum \X Names : ents[e[1]][e[2]] = i}
Named(i) == \E d \in Inum : \E n \in Names : ents[d][n] = i
SubdirsOf(i) == {d \in Inum \ {ROOTINO} : ents[d][".."] = i /\ Named(d)}

\* nlink++ before the entry is written, entry erased before nlink--.
Pending(i) == {p \in Procs : op[p].ip = i
  /\ (op[p].call = "link" \/ pc[p] = "unlinked")}

\* nlink is the number of links there are, except for what was created in a
\* directory that had been removed: iput() frees that directory with the
\* entry, and the inode keeps its link.
LinkCount ==
  \A i \in Inum : disk[i].type # "free" =>
    LET links == Cardinality(EntriesOf(i)) + Cardinality(SubdirsOf(i))
                 + Cardinality(Pending(i)) + (IF i = ROOTINO THEN 1 ELSE 0)
    IN IF i \in lost THEN disk[i].nlink >= links ELSE disk[i].nlink = links

\* No directory that still has a name has an entry for a free inode.
NoDangling ==
  \A d \in Inum : d = ROOTINO \/ Named(d) =>
    \A n \in Names \cup {".."} :
      ents[d][n] # None => disk[ents[d][n]].type # "free"

\* A block is marked in use exactly when one inode owns it, and one only.
BlocksOwned ==
  /\ bitmap = UNION {BlocksOf(disk[i]) : i \in Inum}
  /\ \A i \in Inum : /\ IsInjective(disk[i].addrs)
                     /\ disk[i].ind \notin Range(disk[i].addrs)
  /\ \A i, j \in Inum : i # j => BlocksOf(disk[i]) \cap BlocksOf(disk[j]) = {}

\* The copy in the inode table is what is on the disk, so that it may be
\* dropped with the last reference.
TableIsDisk == \A i \in Inum : mem[i] # NotRead => mem[i] = disk[i]

\* The file system is consistent after every step of every process: link
\* counts, entries, blocks and the cached inodes agree.
FsConsistent == TypeOK /\ LinkCount /\ NoDangling /\ BlocksOwned /\ TableIsDisk

\* No assertion of fs.c or sysfile.c fails, but for the full disk and for paths
\* with ".." (ilock() panics when a process in a removed directory looks up
\* ".." and the parent has been removed too); in particular the acquiresleep()
\* that iput() makes with a spin lock held never blocks, as its comment says.
NoPanic == ~panicked

\* Two calls of unlink() never wait for each other's inode lock.
NoLockCycle ==
  \A p, q \in Procs : pc[p] = "child" /\ pc[q] = "child" =>
    ~(lock[op[p].ip] = q /\ lock[op[q].ip] = p)

\* No process is stopped by another one's error or lock.
NoPanicNoDeadlock == NoPanic /\ NoLockCycle
=============================================================================
