-------------------------------- MODULE Pipe --------------------------------
(***************************************************************************)
(* Pipes (kernel/pipe.c), the table of open files (kernel/file.c) and the  *)
(* file descriptors of processes (kernel/sysfile.c, and fork() and exit()  *)
(* of kernel/proc.c), used by several processes that another one may kill. *)
(*                                                                         *)
(* What runs under ftable.lock or pi->lock is one step, in which a kill()  *)
(* may land: p->killed is read under pi->lock and set under p->lock.       *)
(* nread and nwrite wrap at WRAP the way a uint wraps at 2^32.             *)
(* Only pipes are open: files of inodes are in module Inode.               *)
(***************************************************************************)
EXTENDS Naturals, Sequences, FiniteSets, FiniteSetsExt, SequencesExt

CONSTANTS Procs,      \* slots of the process table
          Pages,      \* pages that kalloc() may hand out for a pipe
          Bytes,      \* values of a byte
          NFILE,      \* entries of ftable
          NOFILE,     \* file descriptors of a process
          PIPESIZE,   \* bytes in pi->data
          WRAP,       \* 2^32: where nread and nwrite wrap
          Sizes,      \* numbers of bytes that a read() or write() asks for
          Stream,     \* the byte that is written when nwrite has each value
          MaxKilled   \* the most processes killed in a call and not yet out

NoPipe == "none"

\* A ring index is computed from a counter that wraps: PIPESIZE divides WRAP.
ASSUME PipeAssumption ==
  /\ {NFILE, NOFILE, PIPESIZE, WRAP} \cup Sizes \subseteq Nat \ {0}
  /\ MaxKilled \in Nat
  /\ IsFiniteSet(Procs)
  /\ NoPipe \notin Pages
  /\ Stream \in [0..(WRAP - 1) -> Bytes]
  /\ WRAP % PIPESIZE = 0 /\ WRAP > PIPESIZE

File == 1..NFILE
None == 0
Fds == 0..(NOFILE - 1)

VARIABLES
  ref,       \* f->ref
  pipe,      \* f->pipe, NoPipe when f->type is FD_NONE
  writable,  \* f->writable
  ofile,     \* p->ofile
  nread, nwrite, data, readopen, writeopen,  \* the fields of a struct pipe
  pages,     \* pages that kalloc() has left
  killed,    \* p->killed
  pc,        \* where a process is, "unused" for a free slot
  arg,       \* the file and the byte count of the call of a process
  todo,      \* the files that a process still has to fileclose()
  ff,        \* fileclose()'s copy of the file it closes for good, and where
             \* its caller goes on
  abandoned  \* history: pipes a killed writer left without a wakeup()

fileVars == <<ref, pipe, writable, ofile>>
pipeVars == <<nread, nwrite, data, readopen, writeopen, pages>>
callVars == <<arg, todo, ff>>
vars == <<fileVars, pipeVars, killed, pc, callVars, abandoned>>

NoArg == [f |-> None, n |-> 0]
NoFf == [pi |-> NoPipe, w |-> FALSE, next |-> "user"]

\* Labels at which a process is in piperead() or pipewrite().
InCall == {"read", "write", "read_sleep", "write_sleep"}
Labels == InCall \cup {"unused", "user", "second", "page", "close",
                       "pipeclose", "exit"}

\* kfree() fills a page with junk.
Junk == [i \in 0..(PIPESIZE - 1) |-> CHOOSE b \in Bytes : TRUE]

PipeOf(p) == pipe[arg[p].f]

TypeOK ==
  /\ ref \in [File -> Nat]
  /\ pipe \in [File -> Pages \cup {NoPipe}]
  /\ writable \in [File -> BOOLEAN]
  /\ ofile \in [Procs -> [Fds -> File \cup {None}]]
  /\ nread \in [Pages -> 0..(WRAP - 1)] /\ nwrite \in [Pages -> 0..(WRAP - 1)]
  /\ data \in [Pages -> [0..(PIPESIZE - 1) -> Bytes]]
  /\ readopen \subseteq Pages /\ writeopen \subseteq Pages
  /\ pages \subseteq Pages /\ abandoned \subseteq Pages
  /\ killed \subseteq Procs
  /\ pc \in [Procs -> Labels]
  /\ arg \in [Procs -> [f : File \cup {None}, n : Nat]]
  /\ todo \in [Procs -> Seq(File)]
  /\ ff \in [Procs -> [pi : Pages \cup {NoPipe}, w : BOOLEAN, next : Labels]]

\* One process runs, with no file open.
Init ==
  /\ ref = [f \in File |-> 0]
  /\ pipe = [f \in File |-> NoPipe]
  /\ writable = [f \in File |-> FALSE]
  /\ ofile = [p \in Procs |-> [fd \in Fds |-> None]]
  /\ nread = [pi \in Pages |-> 0] /\ nwrite = [pi \in Pages |-> 0]
  /\ data = [pi \in Pages |-> Junk]
  /\ readopen = {} /\ writeopen = {}
  /\ pages = Pages
  /\ killed = {}
  /\ \E p \in Procs : pc = [q \in Procs |-> IF q = p THEN "user" ELSE "unused"]
  /\ arg = [p \in Procs |-> NoArg]
  /\ todo = [p \in Procs |-> << >>]
  /\ ff = [p \in Procs |-> NoFf]
  /\ abandoned = {}

Goto(p, to) == pc' = [pc EXCEPT ![p] = to]

\* A killed process gets no further than usertrap(), which makes it exit(); so
\* p->killed matters only inside a call, and is cleared as the call returns.
Out(p) == IF p \in killed THEN "exit" ELSE "user"

\* Mutant: wakeup() stops at the first sleeper that it finds.
WakeAnd_One(pi, from, to, p, next) ==
  LET asleep == {q \in Procs \ {p} : pc[q] = from /\ PipeOf(q) = pi}
      first == IF asleep = {} THEN p ELSE CHOOSE q \in asleep : TRUE
  IN  pc' = [[pc EXCEPT ![first] = to] EXCEPT ![p] = next]

\* wakeup(): the sleepers at label from on pipe pi run again at label to, and
\* process p goes on at label next.
WakeAnd(pi, from, to, p, next) ==
  pc' = [q \in Procs |-> CASE q = p -> next
                           [] q # p /\ pc[q] = from /\ PipeOf(q) = pi -> to
                           [] OTHER -> pc[q]]

(***************************************************************************)
(* file.c                                                                  *)
(***************************************************************************)

FreeFiles == {f \in File : ref[f] = 0}
FreeFds(p) == {fd \in Fds : ofile[p][fd] = None}

\* argfd(): the files that p can name; fdalloc(): its first free descriptor.
ArgFd(p) == Range(ofile[p]) \ {None}
FdAlloc(p) == Min(FreeFds(p))

\* filealloc(): the first unused entry.
FileAlloc(f) ==
  /\ FreeFiles # {}
  /\ f = Min(FreeFiles)
  /\ ref' = [ref EXCEPT ![f] = 1]

\* filedup() for every file in the sequence fs of descriptors.
FileDup(fds) ==
  ref' = [f \in File |-> ref[f] + Cardinality({fd \in Fds : fds[fd] = f})]

\* fileclose(f): the last reference frees the entry and, of a pipe, goes on to
\* pipeclose() with its copy ff; without it the process goes on at label next.
FileClose(p, f, next) ==
  /\ ref' = [ref EXCEPT ![f] = @ - 1]
  /\ IF ref[f] > 1 \/ pipe[f] = NoPipe
       THEN /\ Goto(p, next)
            /\ UNCHANGED <<ff, pipe, writable>>
       ELSE /\ Goto(p, "pipeclose")
            /\ ff' = [ff EXCEPT ![p] = [pi |-> pipe[f], w |-> writable[f],
                                     next |-> next]]
            /\ pipe' = [pipe EXCEPT ![f] = NoPipe]
            /\ writable' = [writable EXCEPT ![f] = FALSE]

(***************************************************************************)
(* pipe.c                                                                  *)
(***************************************************************************)

\* pipealloc() begins: the first filealloc(), or sys_pipe() returns -1.
PipeAllocFirst(p, f) ==
  /\ pc[p] = "user"
  /\ FileAlloc(f)
  /\ arg' = [arg EXCEPT ![p] = [f |-> f, n |-> 0]]
  /\ Goto(p, "second")
  /\ UNCHANGED <<pipe, writable, ofile, pipeVars, killed, todo, ff, abandoned>>

\* The second filealloc(), or bad: fileclose(*f0).
PipeAllocSecond(p) ==
  /\ pc[p] = "second"
  /\ \/ \E f \in File :
          /\ FileAlloc(f)
          /\ todo' = [todo EXCEPT ![p] = <<arg[p].f, f>>]
          /\ Goto(p, "page")
     \/ /\ FreeFiles = {}
        /\ todo' = [todo EXCEPT ![p] = <<arg[p].f>>]
        /\ Goto(p, "close")
        /\ UNCHANGED ref
  /\ arg' = [arg EXCEPT ![p] = NoArg]
  /\ UNCHANGED <<pipe, writable, ofile, pipeVars, killed, ff, abandoned>>

\* kalloc() fails, as it may at any time (pipes share the memory with the rest
\* of the kernel): bad, fileclose() of both files.
PipeAllocFails(p) ==
  /\ pc[p] = "page"
  /\ Goto(p, "close")
  /\ UNCHANGED <<fileVars, pipeVars, killed, callVars, abandoned>>

\* pipealloc() gets page pi: the new pipe and its two files.
NewPipe(pi, f0, f1) ==
  /\ pi \in pages
  /\ pages' = pages \ {pi}
  /\ readopen' = readopen \cup {pi} /\ writeopen' = writeopen \cup {pi}
  /\ pipe' = [pipe EXCEPT ![f0] = pi, ![f1] = pi]
  /\ writable' = [writable EXCEPT ![f0] = FALSE, ![f1] = TRUE]

\* pipealloc() succeeds, and sys_pipe() goes on to two descriptors, or
\* to fileclose() of both files when there is no room for two (or copyout() to
\* the user's array fails).
SysPipe(p, pi) ==
  LET f0 == todo[p][1]  f1 == todo[p][2] IN
  /\ pc[p] = "page"
  /\ NewPipe(pi, f0, f1)
  /\ \/ /\ Cardinality(FreeFds(p)) >= 2
        /\ LET fd0 == FdAlloc(p)
               fd1 == Min(FreeFds(p) \ {fd0})
           IN  ofile' = [ofile EXCEPT ![p][fd0] = f0, ![p][fd1] = f1]
        /\ todo' = [todo EXCEPT ![p] = << >>]
        /\ Goto(p, "user")
     \/ /\ Goto(p, "close")
        /\ UNCHANGED <<ofile, todo>>
  /\ UNCHANGED <<ref, nread, nwrite, data, killed, arg, ff, abandoned>>

\* The error paths' fileclose() calls, one after the other.
CloseNext(p) ==
  /\ pc[p] = "close"
  /\ FileClose(p, Head(todo[p]), IF Len(todo[p]) = 1 THEN "user" ELSE "close")
  /\ todo' = [todo EXCEPT ![p] = Tail(@)]
  /\ UNCHANGED <<ofile, pipeVars, killed, arg, abandoned>>

\* Mutant: the page goes back when either end is closed.
PipeClose_Either(p) ==
  /\ pc[p] = "pipeclose"
  /\ LET pi == ff[p].pi IN
     /\ IF ff[p].w
          THEN /\ writeopen' = writeopen \ {pi} /\ UNCHANGED readopen
               /\ abandoned' = abandoned \ {pi}
               /\ WakeAnd(pi, "read_sleep", "read", p, ff[p].next)
          ELSE /\ readopen' = readopen \ {pi}
               /\ UNCHANGED <<writeopen, abandoned>>
               /\ WakeAnd(pi, "write_sleep", "write", p, ff[p].next)
     /\ IF pi \in readopen' \cap writeopen'
          THEN UNCHANGED <<pages, nread, nwrite, data>>
          ELSE /\ pages' = pages \cup {pi}
               /\ nread' = [nread EXCEPT ![pi] = 0]
               /\ nwrite' = [nwrite EXCEPT ![pi] = 0]
               /\ data' = [data EXCEPT ![pi] = Junk]
  /\ ff' = [ff EXCEPT ![p] = NoFf]
  /\ UNCHANGED <<fileVars, killed, arg, todo>>

\* pipeclose(): wake the other end; the page goes back when both are closed
\* (its fields are cleared here rather than by the next pipealloc()).
PipeClose(p) ==
  /\ pc[p] = "pipeclose"
  /\ LET pi == ff[p].pi IN
     /\ IF ff[p].w
          THEN /\ writeopen' = writeopen \ {pi} /\ UNCHANGED readopen
               /\ abandoned' = abandoned \ {pi}
               /\ WakeAnd(pi, "read_sleep", "read", p, ff[p].next)
          ELSE /\ readopen' = readopen \ {pi}
               /\ UNCHANGED <<writeopen, abandoned>>
               /\ WakeAnd(pi, "write_sleep", "write", p, ff[p].next)
     /\ IF pi \in readopen' \cup writeopen'
          THEN UNCHANGED <<pages, nread, nwrite, data>>
          ELSE /\ pages' = pages \cup {pi}
               /\ nread' = [nread EXCEPT ![pi] = 0]
               /\ nwrite' = [nwrite EXCEPT ![pi] = 0]
               /\ data' = [data EXCEPT ![pi] = Junk]
  /\ ff' = [ff EXCEPT ![p] = NoFf]
  /\ UNCHANGED <<fileVars, killed, arg, todo>>

Full(pi) == nwrite[pi] = (nread[pi] + PIPESIZE) % WRAP
Empty(pi) == nread[pi] = nwrite[pi]
Count(pi) == (nwrite[pi] + WRAP - nread[pi]) % WRAP

\* The test of f->writable, f->readable in filewrite() and fileread().
Allowed(f, w) == writable[f] = w

\* The calls of pipewrite() (w) and piperead() that p may go on with: a woken
\* one, or a new one by sys_write(), sys_read().
Calls(p, w) ==
  IF pc[p] = (IF w THEN "write" ELSE "read") THEN {arg[p]}
  ELSE IF pc[p] # "user" THEN {}
  ELSE [f : {f \in ArgFd(p) : Allowed(f, w)}, n : Sizes]

\* A kill() lands, or does not, on p.
KilledIf(p, hit) ==
  /\ hit => Cardinality(killed) < MaxKilled
  /\ killed' = IF hit THEN killed \cup {p} ELSE killed

\* pipewrite() returns at once: no reader is left, or the writer was killed.
WriteFails(p) ==
  /\ pc[p] = "write"
  /\ PipeOf(p) \notin readopen \/ p \in killed
  /\ Goto(p, Out(p))
  /\ killed' = killed \ {p}
  /\ arg' = [arg EXCEPT ![p] = NoArg]
  /\ UNCHANGED <<fileVars, pipeVars, todo, ff, abandoned>>

\* Mutant: the counter wraps with the ring, so a full ring looks empty.
Store_Wraps(pi, k) ==
  /\ data' = [data EXCEPT ![pi] = [i \in DOMAIN @ |->
       LET new == {j \in 0..(k - 1) : (nwrite[pi] + j) % PIPESIZE = i}
       IN  IF new = {} THEN @[i] ELSE Stream[(nwrite[pi] + Min(new)) % WRAP]]]
  /\ nwrite' = [nwrite EXCEPT ![pi] = (@ + k) % PIPESIZE]

\* k bytes go into the ring at nwrite.
Store(pi, k) ==
  /\ data' = [data EXCEPT ![pi] = [i \in DOMAIN @ |->
       LET new == {j \in 0..(k - 1) : (nwrite[pi] + j) % PIPESIZE = i}
       IN  IF new = {} THEN @[i] ELSE Stream[(nwrite[pi] + Min(new)) % WRAP]]]
  /\ nwrite' = [nwrite EXCEPT ![pi] = (@ + k) % WRAP]

\* pipewrite() up to its return or its sleep(): it stores k bytes, as long as
\* there is room and copyin() succeeds, wakes the readers, and sleeps when the
\* ring is full.  hit: a kill() lands after the k bytes.  Seen by the loop's
\* test it makes pipewrite() return without the wakeup(); after the test, it
\* finds a process that is not SLEEPING yet and leaves it to sleep.
PipeWrite(p, c, k, hit) ==
  LET pi == pipe[c.f]
      left == c.n - k
      full == Count(pi) + k = PIPESIZE
  IN
  /\ pi \in readopen /\ p \notin killed
  /\ k <= c.n /\ Count(pi) + k <= PIPESIZE
  /\ Store(pi, k)
  /\ \/ /\ hit /\ left > 0 /\ k > 0
        /\ Goto(p, "exit")
        /\ arg' = [arg EXCEPT ![p] = NoArg]
        /\ abandoned' = abandoned \cup {pi}
        /\ UNCHANGED killed
     \/ /\ left > 0 /\ full
        /\ WakeAnd(pi, "read_sleep", "read", p, "write_sleep")
        /\ arg' = [arg EXCEPT ![p] = [c EXCEPT !.n = left]]
        /\ abandoned' = abandoned \ {pi}
        /\ KilledIf(p, hit)
     \/ /\ ~hit /\ (left = 0 \/ ~full)
        /\ WakeAnd(pi, "read_sleep", "read", p, "user")
        /\ arg' = [arg EXCEPT ![p] = NoArg]
        /\ abandoned' = abandoned \ {pi}
        /\ UNCHANGED killed
  /\ UNCHANGED <<fileVars, nread, readopen, writeopen, pages, todo, ff>>

\* piperead() finds nothing: -1 to a killed reader, else sleep(), even of a
\* process that a kill() hits (hit) between the test and sleep().
ReadEmpty(p, c, hit) ==
  LET pi == pipe[c.f] IN
  /\ Empty(pi) /\ pi \in writeopen
  /\ \/ /\ p \in killed /\ ~hit
        /\ Goto(p, "exit")
        /\ killed' = killed \ {p}
        /\ arg' = [arg EXCEPT ![p] = NoArg]
     \/ /\ p \notin killed
        /\ Goto(p, "read_sleep")
        /\ KilledIf(p, hit)
        /\ arg' = [arg EXCEPT ![p] = c]
  /\ UNCHANGED <<fileVars, pipeVars, todo, ff, abandoned>>

\* piperead() takes k bytes, all that there are up to n or fewer when copyout()
\* fails (the byte it could not store is gone as well), and wakes the writers.
ReadCopy(p, c, k) ==
  LET pi == pipe[c.f] IN
  /\ ~Empty(pi) \/ pi \notin writeopen
  /\ k <= Count(pi) /\ k <= c.n
  /\ k = 0 => Empty(pi)
  /\ nread' = [nread EXCEPT ![pi] = (@ + k) % WRAP]
  /\ WakeAnd(pi, "write_sleep", "write", p, Out(p))
  /\ killed' = killed \ {p}
  /\ arg' = [arg EXCEPT ![p] = NoArg]
  /\ UNCHANGED <<fileVars, nwrite, data, readopen, writeopen, pages, todo, ff,
                 abandoned>>

(***************************************************************************)
(* Descriptors: sysfile.c, and fork(), exit() and kill() of proc.c         *)
(***************************************************************************)

\* sys_dup(): fdalloc() and filedup().
SysDup(p, fd) ==
  /\ pc[p] = "user"
  /\ ofile[p][fd] # None
  /\ FreeFds(p) # {}
  /\ ofile' = [ofile EXCEPT ![p][FdAlloc(p)] = ofile[p][fd]]
  /\ ref' = [ref EXCEPT ![ofile[p][fd]] = @ + 1]
  /\ UNCHANGED <<pipe, writable, pipeVars, killed, pc, callVars, abandoned>>

\* sys_close(): the descriptor is cleared, then fileclose().
SysClose(p, fd) ==
  /\ pc[p] = "user"
  /\ ofile[p][fd] # None
  /\ ofile' = [ofile EXCEPT ![p][fd] = None]
  /\ FileClose(p, ofile[p][fd], "user")
  /\ UNCHANGED <<pipeVars, killed, arg, todo, abandoned>>

\* fork(): the child shares every open file of its parent.
Fork(p, np) ==
  /\ pc[p] = "user"
  /\ pc[np] = "unused"
  /\ FileDup(ofile[p])
  /\ ofile' = [ofile EXCEPT ![np] = ofile[p]]
  /\ Goto(np, "user")
  /\ UNCHANGED <<pipe, writable, pipeVars, killed, callVars, abandoned>>

\* exit() closes the descriptors in order; a killed process is made to.  Nobody
\* else reads p->ofile, so its entry is cleared with the fileclose().
ExitClose(p, fd) ==
  /\ pc[p] \in {"user", "exit"}
  /\ ofile[p][fd] # None
  /\ \A lower \in 0..(fd - 1) : ofile[p][lower] = None
  /\ ofile' = [ofile EXCEPT ![p][fd] = None]
  /\ FileClose(p, ofile[p][fd], "exit")
  /\ UNCHANGED <<pipeVars, killed, arg, todo, abandoned>>

\* exit() ends; the parent's wait() makes the slot UNUSED.
Exit(p) ==
  /\ pc[p] \in {"user", "exit"}
  /\ FreeFds(p) = Fds
  /\ Goto(p, "unused")
  /\ UNCHANGED <<fileVars, pipeVars, killed, callVars, abandoned>>

\* kill() sets p->killed and makes a sleeping process run.  Outside of a call
\* on a pipe it has the effect of an exit() of p's own.
Kill(p) ==
  /\ pc[p] \in InCall /\ p \notin killed
  /\ KilledIf(p, TRUE)
  /\ pc' = [pc EXCEPT ![p] = CASE @ = "read_sleep" -> "read"
                               [] @ = "write_sleep" -> "write"
                               [] OTHER -> @]
  /\ UNCHANGED <<fileVars, pipeVars, callVars, abandoned>>

Next == \E p \in Procs :
  \/ \E f \in File : PipeAllocFirst(p, f)
  \/ PipeAllocSecond(p) \/ PipeAllocFails(p)
  \/ \E pi \in Pages : SysPipe(p, pi)
  \/ CloseNext(p) \/ PipeClose(p)
  \/ \E fd \in Fds :
       \/ SysDup(p, fd) \/ SysClose(p, fd) \/ ExitClose(p, fd)
  \/ WriteFails(p)
  \/ \E c \in Calls(p, TRUE), k \in 0..PIPESIZE, hit \in BOOLEAN :
       PipeWrite(p, c, k, hit)
  \/ \E c \in Calls(p, FALSE) :
       \/ \E hit \in BOOLEAN : ReadEmpty(p, c, hit)
       \/ \E k \in 0..PIPESIZE : ReadCopy(p, c, k)
  \/ \E np \in Procs : Fork(p, np)
  \/ Exit(p) \/ Kill(p)

Spec == Init /\ [][Next]_vars

-----------------------------------------------------------------------------

\* The files that a call of p still has to close or to hand out.
Pending(p) == Range(todo[p]) \cup {f \in {arg[p].f} : pc[p] = "second"}

\* The references to f: descriptors, and the calls that have it pending.
Holders(f) ==
  {h \in Procs \X (Fds \cup {NOFILE}) :
     IF h[2] = NOFILE THEN f \in Pending(h[1]) ELSE ofile[h[1]][h[2]] = f}

\* An end is open as long as a file, or a fileclose() on its way, stands for it.
Ends(w) ==
  {pipe[f] : f \in {g \in File : pipe[g] # NoPipe /\ writable[g] = w}}
    \cup {ff[p].pi : p \in {q \in Procs : pc[q] = "pipeclose" /\ ff[q].w = w}}

\* Every reference to an open file is counted once, an end of a pipe is open
\* exactly while a file or a pending pipeclose() stands for it, at most one
\* pipeclose() of an end is on its way, and a page is a pipe's exactly while an
\* end is open: filedup(), fileclose(), pipeclose() and the error paths of
\* pipealloc() and sys_pipe() neither leak nor free twice, and no process in a
\* call uses a file whose entry was reused.
FilesExact ==
  /\ TypeOK
  /\ \A f \in File : ref[f] = Cardinality(Holders(f))
  /\ \A f \in File : ref[f] = 0 => pipe[f] = NoPipe
  /\ readopen = Ends(FALSE) /\ writeopen = Ends(TRUE)
  /\ pages = Pages \ (readopen \cup writeopen)
  /\ \A p, q \in Procs :
       /\ pc[p] = "pipeclose" /\ pc[q] = "pipeclose" /\ p # q => ff[p] # ff[q]
       /\ pc[p] = "pipeclose" =>
            \A f \in File : pipe[f] = ff[p].pi => writable[f] # ff[p].w
  /\ \A p \in Procs : pc[p] \in InCall =>
       /\ pipe[arg[p].f] # NoPipe
       /\ \E fd \in Fds : ofile[p][fd] = arg[p].f

\* No process sleeps in piperead() while the pipe has bytes or no writer, or in
\* pipewrite() while it has room or no reader; a wakeup() is lost only where
\* pipewrite() gives up because its process was killed, which returns without
\* waking the readers of the bytes that it has already stored.
NoLostWakeup ==
  \A p \in Procs :
    LET pi == PipeOf(p) IN
    /\ pc[p] = "read_sleep" =>
         pi \in writeopen /\ (Empty(pi) \/ pi \in abandoned)
    /\ pc[p] = "write_sleep" => pi \in readopen /\ Full(pi)

\* The bytes of a pipe in order, found the way piperead() finds them.
Content(pi) == [i \in 1..Count(pi) |-> data[pi][(nread[pi] + i - 1) % PIPESIZE]]

Queue == INSTANCE ByteQueue WITH
           CAPACITY <- PIPESIZE,
           queue <- [pi \in Pages |-> Content(pi)],
           readers <- readopen,
           writers <- writeopen

\* A pipe is a bounded queue of bytes: through every wrap of its ring and of its
\* counters, bytes come out of piperead() in the order in which pipewrite()
\* stored them, none twice, and none after the read end is closed.
IsByteQueue == Queue!Spec
=============================================================================
