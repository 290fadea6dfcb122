----------------------------- MODULE Dittotrace -----------------------------
(***************************************************************************)
(* dittotrace: the conversion of an strace log into a .ditto benchmark.    *)
(* The converter is a sequence of operators, one per function of the code, *)
(* on the log; the log itself is written by the traced threads, one line   *)
(* per step, so that the calls of several threads interleave, block half   *)
(* way through, and share one table of file descriptors.                   *)
(*                                                                         *)
(*   trace     the lines of the log                                        *)
(*   table     the traced process's descriptors: the file open at each, or *)
(*             NoFile.  A file is named by the line its open call began at *)
(*   pending   the calls the blocked threads are in                        *)
(*   gone      threads killed or no longer traced                          *)
(*                                                                         *)
(* A line is a record of the thread's pid, a tag ("whole", "unfinished",   *)
(* "resumed", "detached", "event" for the --- and +++ lines, or "dumped"   *)
(* for "+++ killed by ... (core dumped) +++") and the call.  A call has    *)
(* its name, its descriptor (the return value of openat, or Failed),       *)
(* whether the path holds absolute_path, the number of arguments that      *)
(* splitting at ", " up to the first closing parenthesis gives, and        *)
(* whether there is such a parenthesis in what is printed of the call when *)
(* it begins (in a path or in the data of pwrite64).  The line it began at *)
(* and the file it is really about are there for the properties only.      *)
(***************************************************************************)
EXTENDS Integers, Sequences, FiniteSets, SequencesExt

CONSTANTS Pids,         \* the traced threads
          Fds,          \* the descriptors of the process, numbers
          MaxLines      \* bound on the length of the log

Failed == -1
NoFile == 0
Accesses == {"pread64", "pwrite64"}

ASSUME DittotraceAssumption == Fds \subseteq Nat /\ MaxLines \in Nat

VARIABLES trace, table, pending, gone

vars == <<trace, table, pending, gone>>

-----------------------------------------------------------------------------
(* The converter *)

\* The lines of one thread.
SplitByPid(lines, pid) == SelectSeq(lines, LAMBDA line : line.pid = pid)

\* A call whose end is missing, but whose text has a closing parenthesis: no
\* "= " follows that, so the number of the return value is read from a text
\* that does not begin with one; and of the arguments of pread64, only the
\* first is printed when it begins.
NoNumber == 0
Cut(call) ==
  CASE call.name = "openat"  -> [call EXCEPT !.fd = NoNumber]
    [] call.name = "pread64" -> [call EXCEPT !.args = 2]
    [] OTHER                 -> call

\* What ProcessLine makes of an unfinished line joined with the next one: the
\* whole call if that holds the rest of it; otherwise the call as far as it
\* goes if either has a closing parenthesis, and if not, substr throws.
Malformed == [name |-> "malformed"]
Merge(line, second) ==
  IF second.tag = "resumed" THEN second.call
  ELSE IF second.tag = "dumped" \/ line.call.paren THEN Cut(line.call)
  ELSE Malformed

\* The loop of ProcessLines; held is an unfinished line to be completed.  A
\* line that is resumed only or detached, and a signal or an exit, is skipped.
NextLine(acc, line) ==
  CASE acc.held # <<>> ->
         [held |-> <<>>, calls |-> Append(acc.calls, Merge(acc.held[1], line))]
    [] acc.held = <<>> /\ line.tag = "unfinished" -> [acc EXCEPT !.held = <<line>>]
    [] acc.held = <<>> /\ line.tag = "whole" -> [acc EXCEPT !.calls = Append(@, line.call)]
    [] OTHER -> acc

\* Mutant of ProcessLines: an unfinished last line is converted like others.
ProcessLinesKeepLast(pid) ==
  LET acc == FoldLeft(NextLine, [held |-> <<>>, calls |-> <<>>], SplitByPid(trace, pid))
  IN  IF acc.held = <<>> THEN acc.calls ELSE Append(acc.calls, acc.held[1].call)

\* The calls of one thread.  An unfinished last line is dropped.
ProcessLines(pid) ==
  FoldLeft(NextLine, [held |-> <<>>, calls |-> <<>>], SplitByPid(trace, pid)).calls

\* main: an openat under absolute_path that succeeds starts the instruction
\* set of its descriptor, replacing one that was not closed ...
Open(acc, call) ==
  IF call.fd = Failed THEN acc ELSE [acc EXCEPT !.sets[call.fd] = <<call>>]

\* Mutant of Access: the last access wins.
AccessReplaces(acc, call) ==
  IF call.args # 4 \/ acc.sets[call.fd] = <<>> THEN acc
  ELSE [acc EXCEPT !.sets[call.fd] = <<Head(@), call>>]

\* ... a pread64 or pwrite64 with its four arguments is added to it ...
Access(acc, call) ==
  IF call.args # 4 \/ acc.sets[call.fd] = <<>> THEN acc
  ELSE [acc EXCEPT !.sets[call.fd] = Append(@, call)]

\* Mutant of Close: the set stays after it has been added.
CloseKeeps(acc, call) ==
  IF acc.sets[call.fd] = <<>> THEN acc
  ELSE [acc EXCEPT !.main = Append(@, Append(acc.sets[call.fd], call))]

\* ... and close completes it and adds it to the main instruction set.
Close(acc, call) ==
  IF acc.sets[call.fd] = <<>> THEN acc
  ELSE [main |-> Append(acc.main, Append(acc.sets[call.fd], call)),
        sets |-> [acc.sets EXCEPT ![call.fd] = <<>>]]

NextCall(acc, call) ==
  CASE call.name = "openat" /\ call.inside -> Open(acc, call)
    [] call.name \in Accesses              -> Access(acc, call)
    [] call.name = "close"                 -> Close(acc, call)
    [] OTHER                               -> acc

\* The instruction sets of one thread; those never closed are lost.
Convert(pid) ==
  FoldLeft(NextCall, [main |-> <<>>, sets |-> [f \in Fds \cup {NoNumber} |-> <<>>]],
           ProcessLines(pid)).main

\* An exception in ProcessLine ends the program without output.
Aborts == \E pid \in Pids : Malformed \in Range(ProcessLines(pid))

-----------------------------------------------------------------------------
(* The traced process and strace: external *)

CallOf(name, fd, inside, args, paren, file) ==
  [name |-> name, fd |-> fd, inside |-> inside, args |-> args, paren |-> paren,
   file |-> file, began |-> Len(trace) + 1]

\* openat returns the lowest free descriptor.
FreeFds == {f \in Fds : table[f] = NoFile}
LowestFree == CHOOSE f \in FreeFds : \A g \in FreeFds : f <= g

\* The calls a thread may make now: openat, successful or not, under the path
\* or not, of a path with a closing parenthesis or not; reads and writes of a
\* descriptor in use, with their four arguments, or cut at a parenthesis in
\* the data; and close.
Possible ==
  (IF FreeFds = {} THEN {}
   ELSE {CallOf("openat", LowestFree, i, 3, FALSE, Len(trace) + 1) : i \in BOOLEAN}
        \cup {CallOf("openat", LowestFree, TRUE, 2, TRUE, Len(trace) + 1)})
  \cup {CallOf("openat", Failed, TRUE, 3, FALSE, NoFile)}
  \cup {CallOf(n, f, TRUE, 4, FALSE, table[f]) : n \in Accesses, f \in Fds \ FreeFds}
  \cup {CallOf("pwrite64", f, TRUE, 2, TRUE, table[f]) : f \in Fds \ FreeFds}
  \cup {CallOf("close", f, TRUE, 1, FALSE, table[f]) : f \in Fds \ FreeFds}

\* What a call does to the table.
Effect(call) ==
  CASE call.name = "openat" /\ call.fd # Failed -> [table EXCEPT ![call.fd] = call.file]
    [] call.name = "close"                      -> [table EXCEPT ![call.fd] = NoFile]
    [] OTHER                                    -> table

Log(pid, tag, call) ==
  /\ Len(trace) < MaxLines
  /\ trace' = Append(trace, [pid |-> pid, tag |-> tag, call |-> call])

Running(pid) == pid \notin gone /\ \A c \in pending : c.pid # pid

\* A call with no line of another thread in between.
Whole(pid) ==
  /\ Running(pid)
  /\ \E call \in Possible : Log(pid, "whole", call) /\ table' = Effect(call)
  /\ UNCHANGED <<pending, gone>>

\* A call that blocks, or during which another thread makes one; the kernel
\* may have carried it out long before its second line is printed.
Begin(pid) ==
  /\ Running(pid)
  /\ \E call \in Possible :
       /\ Log(pid, "unfinished", call)
       /\ pending' = pending \cup {[pid |-> pid, call |-> call]}
       /\ table' = Effect(call)
  /\ UNCHANGED gone

Resume(pid) ==
  /\ \E c \in pending : c.pid = pid /\ Log(pid, "resumed", c.call) /\ pending' = pending \ {c}
  /\ UNCHANGED <<table, gone>>

\* A +++ line, of an exit, of a kill or of one that dumps core, inside a call
\* or not; a --- line comes only outside calls.
Killed(pid) ==
  /\ pid \notin gone
  /\ \E tag \in {"event", "dumped"} : Log(pid, tag, Malformed)
  /\ gone' = gone \cup {pid}
  /\ pending' = {c \in pending : c.pid # pid}
  /\ UNCHANGED table

Signalled(pid) ==
  /\ Running(pid)
  /\ Log(pid, "event", Malformed)
  /\ UNCHANGED <<table, pending, gone>>

\* strace ends in the middle of a line.
Detach(pid) ==
  /\ Running(pid)
  /\ Log(pid, "detached", Malformed)
  /\ gone' = gone \cup {pid}
  /\ UNCHANGED <<table, pending>>

\* strace may attach to a thread that is blocked in a call.
BeforeAttach == [name |-> "openat", fd |-> Failed, inside |-> TRUE, args |-> 3,
                 paren |-> FALSE, file |-> NoFile, began |-> 0]

Init ==
  /\ trace = <<>>
  /\ table = [f \in Fds |-> NoFile]
  /\ \E blocked \in SUBSET Pids : pending = {[pid |-> p, call |-> BeforeAttach] : p \in blocked}
  /\ gone = {}

Next ==
  \E pid \in Pids : \/ Whole(pid) \/ Begin(pid) \/ Resume(pid) \/ Killed(pid)
                    \/ Signalled(pid) \/ Detach(pid)

Spec == Init /\ [][Next]_vars

-----------------------------------------------------------------------------
(* Properties *)

\* The calls of a thread of which the whole is in the log, in order.
Seen(pid) ==
  LET Complete(line) ==
        line.pid = pid /\ line.tag \in {"whole", "resumed"} /\ line.call.began > 0
      lines == SelectSeq(trace, Complete)
  IN  [i \in DOMAIN lines |-> lines[i].call]

\* What a thread did with one file, as far as it can be replayed.
Uses(calls, file) ==
  SelectSeq(calls, LAMBDA c : c.file = file /\ (c.name \in Accesses => c.args = 4))

\* Whatever the threads interleave, a file under the path that a thread
\* opened and closed itself is replayed exactly once, with all accesses of
\* that thread and in their order, unless the conversion aborts.
OwnFilesReplayed ==
  \A pid \in Pids :
    LET seen == Seen(pid)
        sets == Convert(pid)
        Opened(c) == c.name = "openat" /\ c.inside /\ c.fd # Failed
        Closed(f) == \E c \in Range(seen) : c.name = "close" /\ c.file = f
    IN  \A open \in Range(seen) :
          Opened(open) /\ Closed(open.file) /\ ~Aborts =>
            \E n \in DOMAIN sets :
              /\ sets[n] = Uses(seen, open.file)
              /\ \A m \in DOMAIN sets \ {n} : open \notin Range(sets[m])

\* Descriptors are told apart by thread only: a replayed access belongs to
\* another file than the one its set opens only if another thread closed that
\* file's descriptor.
FaithfulUnlessShared ==
  \A pid \in Pids : \A set \in Range(Convert(pid)) :
    \/ \A k \in DOMAIN set : set[k].file = set[1].file
    \/ \E line \in Range(trace) :
         /\ line.pid # pid /\ line.tag \in {"whole", "unfinished"}
         /\ line.call.name = "close" /\ line.call.file = set[1].file
    \/ Aborts

\* Some thread was killed inside a call, without a core dump: the line of the
\* kill follows the first part of the call.
KilledInCall ==
  \E pid \in gone :
    LET lines == SplitByPid(trace, pid)
        n == Len(lines)
    IN  n > 1 /\ lines[n - 1].tag = "unfinished" /\ lines[n].tag = "event"

\* What becomes of a call whose end is not in the log.  ProcessLine throws
\* only if a thread was killed inside a call: lines that are detached, resumed
\* only or last are skipped.  Otherwise, although a broken call is converted
\* silently when its text has a closing parenthesis, it never reaches the
\* benchmark: whatever is replayed was printed to its end, except a close
\* that ends its set and during which the thread was killed with a core dump.
BrokenCallsLost ==
  IF Aborts THEN KilledInCall
  ELSE \A pid \in Pids : \A set \in Range(Convert(pid)) : \A k \in DOMAIN set :
         \/ set[k] \in Range(Seen(pid))
         \/ /\ k = Len(set) /\ set[k].name = "close"
            /\ Last(SplitByPid(trace, pid)).tag = "dumped"
=============================================================================
