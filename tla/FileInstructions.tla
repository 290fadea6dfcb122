--------------------------- MODULE FileInstructions ---------------------------
(***************************************************************************)
(* The file instructions run by several threads of one process: open_file, *)
(* close_file, delete_file, resize_file, read_file, write_file and         *)
(* invalidate_cache, over the descriptors the kernel hands out and the     *)
(* shared variables that carry them from one instruction to the next.      *)
(* Threads interleave at every system call.                                *)
(*                                                                         *)
(*   dir      the file each path names, or NoFile                          *)
(*   size     the size of each file                                        *)
(*   fds      the process's descriptor table: a file, Other or Closed      *)
(*   var      the descriptor variable of each thread                       *)
(*   th       what each thread is doing, see Thread                        *)
(*   status   "running", "exited" (LOGF) or "crashed" (division by zero)   *)
(*                                                                         *)
(* A thread runs any sequence of instructions in which its variable holds  *)
(* an open descriptor whenever an instruction uses it; opening again       *)
(* without closing, which loses the first descriptor, is allowed.  The     *)
(* variable is its own, but paths, and so files, are shared.               *)
(***************************************************************************)
EXTENDS Integers, Sequences, FiniteSets

CONSTANTS Threads,
          Paths,
          Sizes,            \* sizes resize_file may ask for
          Transfers,        \* options of read_file and write_file
          MaxInstructions,  \* bound: instructions a thread runs
          MaxFd             \* highest descriptor the process may have

NoFile == 0              \* no file has this path
Other == -1              \* open on something that is no file of a benchmark
Closed == -2
Files == 1 .. Cardinality(Paths) + MaxFd
Fds == 0 .. MaxFd

ASSUME FileInstructionsAssumption ==
  /\ IsFiniteSet(Threads) /\ IsFiniteSet(Paths)
  /\ Sizes \subseteq Nat
  /\ MaxInstructions \in Nat /\ MaxFd \in Nat
  /\ \A x \in Transfers :
       /\ x.kind \in {"read_file", "write_file"}
       /\ x.size \in Nat \cup {-1}
       /\ x.block_size \in Nat \cup {-1}
       /\ x.starting_offset \in Nat
       /\ x.order \in {"sequential", "random"}
       /\ x.repeat \in Nat

VARIABLES dir, size, fds, var, th, status

vars == <<dir, size, fds, var, th, status>>

\* A thread between two instructions: how many it may still run, and the file
\* its descriptor was opened on.
Thread ==
  [stage |-> "idle", left |-> MaxInstructions, file |-> NoFile, path |-> NoFile,
   fd |-> 0, i |-> 0, options |-> NoFile, size_ |-> 0, block_size_ |-> 0,
   file_size |-> 0, units_ |-> << >>, moved |-> 0, shrunk |-> FALSE, short |-> FALSE]

\* Descriptor 0 is standard input; a variable holds 0 until it is set.
Init ==
  /\ dir = [p \in Paths |-> NoFile]
  /\ size = [f \in Files |-> 0]
  /\ fds = [d \in Fds |-> IF d = 0 THEN Other ELSE Closed]
  /\ var = [t \in Threads |-> 0]
  /\ th = [t \in Threads |-> Thread]
  /\ status = "running"

-----------------------------------------------------------------------------
(* The kernel *)

FreeFds == {d \in Fds : fds[d] = Closed}
Lowest(S) == CHOOSE d \in S : \A e \in S : d <= e

\* A file nobody names or has open.
Unused == CHOOSE f \in Files : (\A p \in Paths : dir[p] # f) /\ (\A d \in Fds : fds[d] # f)

-----------------------------------------------------------------------------
(* Steps of a thread *)

At(t, stage) == status = "running" /\ th[t].stage = stage

\* The thread may start an instruction; its first step leads to the stage.
Starts(t) == At(t, "idle") /\ th[t].left > 0

\* The thread after an instruction, its descriptor open on file f.
Rest(t, f) == [Thread EXCEPT !.left = th[t].left, !.file = f]

Fatal == status' = "exited" /\ UNCHANGED <<dir, size, fds, var, th>>

HasFile(t) == th[t].file # NoFile

\* OpenFile::SetUpSingle: the path is given ...
OpenGiven(t, p) ==
  /\ Starts(t)
  /\ th' = [th EXCEPT ![t].stage = "open", ![t].left = @ - 1, ![t].path = p]
  /\ UNCHANGED <<dir, size, fds, var, status>>

\* ... or random names are drawn until one is found that does not exist.
OpenRandom(t, p) ==
  /\ Starts(t)
  /\ dir[p] = NoFile
  /\ th' = [th EXCEPT ![t].stage = "open", ![t].left = @ - 1, ![t].path = p]
  /\ UNCHANGED <<dir, size, fds, var, status>>

\* Mutant of OpenRun: the descriptor is stored for every thread.
OpenRunShared(t) ==
  /\ At(t, "open")
  /\ FreeFds # {}
  /\ LET p == th[t].path
         f == IF dir[p] = NoFile THEN Unused ELSE dir[p]
         d == Lowest(FreeFds)
     IN  /\ dir' = [dir EXCEPT ![p] = f]
         /\ size' = IF dir[p] = NoFile THEN [size EXCEPT ![f] = 0] ELSE size
         /\ fds' = [fds EXCEPT ![d] = f]
         /\ var' = [v \in Threads |-> d]
         /\ th' = [th EXCEPT ![t] = Rest(t, f)]
  /\ UNCHANGED status

\* OpenFile::RunSingle with create: open() without O_EXCL finds or creates
\* the file, and the descriptor is stored.
OpenRun(t) ==
  /\ At(t, "open")
  /\ FreeFds # {}
  /\ LET p == th[t].path
         f == IF dir[p] = NoFile THEN Unused ELSE dir[p]
         d == Lowest(FreeFds)
     IN  /\ dir' = [dir EXCEPT ![p] = f]
         /\ size' = IF dir[p] = NoFile THEN [size EXCEPT ![f] = 0] ELSE size
         /\ fds' = [fds EXCEPT ![d] = f]
         /\ var' = [var EXCEPT ![t] = d]
         /\ th' = [th EXCEPT ![t] = Rest(t, f)]
  /\ UNCHANGED status

\* "Cannot open": no descriptor is left, or the file does not exist and
\* create is false.
OpenFails(t) ==
  /\ At(t, "open")
  /\ FreeFds = {} \/ dir[th[t].path] = NoFile
  /\ Fatal

\* CloseFile::RunSingle reads the variable ...
CloseFetch(t) ==
  /\ HasFile(t)
  /\ Starts(t)
  /\ th' = [th EXCEPT ![t].stage = "close", ![t].left = @ - 1, ![t].fd = var[t]]
  /\ UNCHANGED <<dir, size, fds, var, status>>

\* ... and calls close().
CloseRun(t) ==
  /\ At(t, "close")
  /\ IF fds[th[t].fd] = Closed
       THEN Fatal
       ELSE /\ fds' = [fds EXCEPT ![th[t].fd] = Closed]
            /\ th' = [th EXCEPT ![t] = Rest(t, NoFile)]
            /\ UNCHANGED <<dir, size, var, status>>

\* DeleteFile: unlink() of a path; the file lives on while it is open.
Delete(t, p) ==
  /\ Starts(t)
  /\ IF dir[p] = NoFile
       THEN Fatal
       ELSE /\ dir' = [dir EXCEPT ![p] = NoFile]
            /\ th' = [th EXCEPT ![t].left = @ - 1]
            /\ UNCHANGED <<size, fds, var, status>>

\* ResizeFile (and ResizeFileRandom, whose SetUpSingle draws the size): the
\* variable and the file size are read ...
ResizeStat(t) ==
  /\ HasFile(t)
  /\ Starts(t)
  /\ th' = [th EXCEPT ![t].stage = "resize", ![t].left = @ - 1, ![t].fd = var[t],
                      ![t].file_size = size[fds[var[t]]]]
  /\ UNCHANGED <<dir, size, fds, var, status>>

\* ... and then fallocate() grows or ftruncate() cuts the file, if the new
\* size is not the size that was read.
ResizeRun(t, s) ==
  LET f   == fds[th[t].fd]
      new == IF s > th[t].file_size
               THEN (IF s > size[f] THEN s ELSE size[f])
               ELSE IF s < th[t].file_size THEN s ELSE size[f]
  IN  /\ At(t, "resize")
      /\ size' = [size EXCEPT ![f] = new]
      /\ th' = [u \in Threads |->
                  IF u = t THEN Rest(t, th[t].file)
                  ELSE [th[u] EXCEPT !.shrunk = @ \/ (th[u].file = f /\ new < size[f])]]
      /\ UNCHANGED <<dir, fds, var, status>>

\* InvalidateCache opens a descriptor of its own ...
InvalidateOpen(t) ==
  /\ Starts(t)
  /\ IF FreeFds = {}
       THEN Fatal
       ELSE LET d == Lowest(FreeFds)
            IN  /\ fds' = [fds EXCEPT ![d] = Other]
                /\ th' = [th EXCEPT ![t].stage = "invalidate", ![t].left = @ - 1, ![t].fd = d]
                /\ UNCHANGED <<dir, size, var, status>>

\* ... and closes it.
InvalidateClose(t) ==
  /\ At(t, "invalidate")
  /\ fds' = [fds EXCEPT ![th[t].fd] = Closed]
  /\ th' = [th EXCEPT ![t] = Rest(t, th[t].file)]
  /\ UNCHANGED <<dir, size, var, status>>

-----------------------------------------------------------------------------
(* read_file and write_file *)

\* Mutant of Wrapped: the last block that fits is never used.
WrappedEarly(offset, block, file_size) == IF offset >= file_size - block THEN 0 ELSE offset

\* Mutant of Wrapped: only the end of the file wraps.
WrappedAtEnd(offset, block, file_size) == IF offset >= file_size THEN 0 ELSE offset

\* Where the next block goes: at the beginning if it does not fit any more.
Wrapped(offset, block, file_size) == IF offset > file_size - block THEN 0 ELSE offset

\* The offsets of n blocks accessed sequentially.
Sequential(n, start, block, file_size) ==
  LET offset[i \in 1..n] ==
        Wrapped(IF i = 1 THEN start ELSE offset[i - 1] + block, block, file_size)
  IN  offset

Blocks(total, block) == total \div block

\* The instruction is started: its fields have the values of the options.
TransferBegin(t, x) ==
  /\ HasFile(t)
  /\ Starts(t)
  /\ th' = [th EXCEPT ![t].stage = "transfer", ![t].left = @ - 1, ![t].i = 0,
                      ![t].options = x, ![t].size_ = x.size, ![t].block_size_ = x.block_size]
  /\ UNCHANGED <<dir, size, fds, var, status>>

\* The size of the blocks and of the whole, given the file's size: -1 stands
\* for the size the file has in this repetition.
Updated(option, file_size) == IF option = -1 THEN file_size ELSE option

\* ReadWriteFile::SetUpSingle: the file size is read and the units are laid
\* out, for a random order anywhere a block fits.  An empty block divides by
\* zero, which ends the process or gives zero units, as the processor has it.
TransferSetUp(t) ==
  LET x     == th[t].options
      fsize == size[fds[var[t]]]
      total == Updated(x.size, fsize)
      block == Updated(x.block_size, fsize)
      ready(units) ==
        /\ th' = [th EXCEPT ![t].stage = "units", ![t].fd = var[t], ![t].size_ = total,
                            ![t].block_size_ = block, ![t].file_size = fsize,
                            ![t].units_ = units, ![t].moved = 0,
                            ![t].shrunk = FALSE, ![t].short = FALSE]
        /\ UNCHANGED <<dir, size, fds, var, status>>
  IN  /\ At(t, "transfer")
      /\ th[t].i < x.repeat
      /\ \/ block > fsize /\ Fatal
         \/ block = 0 /\ status' = "crashed" /\ UNCHANGED <<dir, size, fds, var, th>>
         \/ block = 0 /\ ready(<< >>)
         \/ /\ 0 < block /\ block <= fsize
            /\ x.order = "sequential"
            /\ ready(Sequential(Blocks(total, block), x.starting_offset, block, fsize))
         \/ /\ 0 < block /\ block <= fsize
            /\ x.order = "random"
            /\ \E units \in [1 .. Blocks(total, block) -> 0 .. fsize - block] : ready(units)

\* One pread() or pwrite(): a read stops at the end of the file, a write moves
\* the end; neither is an error.
TransferUnit(t) ==
  LET offset == Head(th[t].units_)
      block  == th[t].block_size_
      f      == fds[th[t].fd]
      past   == offset + block > size[f]
  IN  /\ At(t, "units")
      /\ th[t].units_ # << >>
      /\ size' = IF past /\ th[t].options.kind = "write_file"
                   THEN [size EXCEPT ![f] = offset + block] ELSE size
      /\ th' = [th EXCEPT ![t].units_ = Tail(@), ![t].moved = @ + block, ![t].short = @ \/ past]
      /\ UNCHANGED <<dir, fds, var, status>>

\* TearDownSingle: the bandwidth is computed from size_ and the time.
TransferTearDown(t) ==
  /\ At(t, "units")
  /\ th[t].units_ = << >>
  /\ th' = [th EXCEPT ![t].stage = "transfer", ![t].i = @ + 1]
  /\ UNCHANGED <<dir, size, fds, var, status>>

TransferEnd(t) ==
  /\ At(t, "transfer")
  /\ th[t].i >= th[t].options.repeat
  /\ th' = [th EXCEPT ![t] = Rest(t, th[t].file)]
  /\ UNCHANGED <<dir, size, fds, var, status>>

\* A call of resize_file, invalidate_cache, read_file or write_file that fails
\* for a reason outside the model (no space, an I/O error, no privilege):
\* fstat(), fallocate(), ftruncate(), fadvise(), read(), write() or, after the
\* units of write_file, fsync().
CallFails(t) ==
  /\ \/ At(t, "resize") \/ At(t, "invalidate")
     \/ At(t, "transfer") /\ th[t].i < th[t].options.repeat
     \/ At(t, "units") /\ (th[t].units_ # << >> \/ th[t].options.kind = "write_file")
  /\ Fatal

-----------------------------------------------------------------------------
Step(t) ==
  \/ \E p \in Paths : OpenGiven(t, p) \/ OpenRandom(t, p) \/ Delete(t, p)
  \/ OpenRun(t) \/ OpenFails(t)
  \/ CloseFetch(t) \/ CloseRun(t)
  \/ ResizeStat(t)
  \/ \E s \in Sizes : ResizeRun(t, s)
  \/ InvalidateOpen(t) \/ InvalidateClose(t)
  \/ \E x \in Transfers : TransferBegin(t, x)
  \/ TransferSetUp(t) \/ TransferUnit(t) \/ TransferTearDown(t) \/ TransferEnd(t)
  \/ CallFails(t)

Next == \E t \in Threads : Step(t)

Spec == Init /\ [][Next]_vars

-----------------------------------------------------------------------------
(* Properties *)

Stages == {"idle", "open", "close", "resize", "invalidate", "transfer", "units"}

TypeOK ==
  /\ dir \in [Paths -> Files \cup {NoFile}]
  /\ size \in [Files -> Nat]
  /\ fds \in [Fds -> Files \cup {Other, Closed}]
  /\ var \in [Threads -> Fds]
  /\ \A t \in Threads :
       /\ th[t].stage \in Stages
       /\ th[t].left \in 0 .. MaxInstructions
       /\ th[t].file \in Files \cup {NoFile}
       /\ th[t].fd \in Fds
       /\ th[t].file_size \in Nat /\ th[t].moved \in Nat
       /\ \A k \in DOMAIN th[t].units_ : th[t].units_[k] \in Nat
  /\ status \in {"running", "exited", "crashed"}

\* A thread's variable names the file the thread opened for as long as it has
\* not closed it: descriptors are numbers the kernel hands out again, and no
\* open, close or invalidate_cache of another thread takes one that is in use.
DescriptorsOwned == \A t \in Threads : HasFile(t) => fds[var[t]] = th[t].file

\* Every unit of a read or write lies inside the file as SetUpSingle measured
\* it, for every size, block size, starting offset and order.
UnitsInside ==
  \A t \in Threads : th[t].stage = "units" =>
    \A k \in DOMAIN th[t].units_ :
      th[t].units_[k] + th[t].block_size_ <= th[t].file_size

Divides(a, b) == a > 0 /\ b % a = 0

\* A sequential access to the whole file, in blocks that divide it and from
\* any block on, visits every block exactly once, although it wraps.
WholeFileOnce ==
  \A t \in Threads :
    LET x == th[t].options
        units == th[t].units_
    IN  /\ th[t].stage = "units" /\ th[t].moved = 0
        /\ x.order = "sequential" /\ x.size = -1
        /\ Divides(th[t].block_size_, th[t].file_size)
        /\ Divides(th[t].block_size_, x.starting_offset)
        => /\ Len(units) * th[t].block_size_ = th[t].file_size
           /\ \A j, k \in DOMAIN units : units[j] = units[k] => j = k

\* A read or write, whose result is only compared with -1, reaches beyond the
\* end of the file only if another thread has cut the file since SetUpSingle.
ShortOnlyIfCut == \A t \in Threads : th[t].short => th[t].shrunk
=============================================================================
