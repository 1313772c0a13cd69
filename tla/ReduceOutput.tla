---------------------------- MODULE ReduceOutput ----------------------------
(***************************************************************************)
(* The end of the job: what the reducers' children print goes through the  *)
(* receiver threads (reduce_recieve()) and their DumpBuffs into the files  *)
(* part-0, part-1, ...  All threads share the descriptor table of the      *)
(* process, in which open() takes the lowest free number, while each       *)
(* reducer thread closes its ends of the pipes, one of them twice.         *)
(***************************************************************************)
EXTENDS Integers, Sequences, FiniteSets, SequencesExt

CONSTANTS
  map_num, reduce_num,
  gave_up,       (* the mappers whose Run() returned early                 *)
  PIPE_SIZE,     (* lines a DumpBuff holds                                 *)
  Prints,        (* how many lines each reducer's child prints             *)
  MayFail,       (* bound: the reducers for which a call may fail          *)
  FREE, PIPE,    (* a descriptor that is closed, or an end of a pipe       *)
  LOW,           (* one of the descriptors left free by the map phase      *)
  NONE           (* no descriptor                                          *)

ASSUME NumsAssumption   == map_num \in Nat \ {0} /\ reduce_num \in Nat \ {0}
ASSUME GaveUpAssumption == gave_up \in 0 .. map_num
ASSUME SizeAssumption   == PIPE_SIZE \in Nat \ {0}
ASSUME PrintsAssumption == Prints \in [0 .. reduce_num - 1 -> Nat]
ASSUME ValuesAssumption == /\ PIPE \notin 0 .. reduce_num - 1 /\ FREE \notin 0 .. reduce_num - 1
                           /\ PIPE # FREE /\ NONE # LOW
                           /\ LOW \notin 0 .. 4 * reduce_num - 1
                           /\ NONE \notin 0 .. 4 * reduce_num - 1

Reducers == 0 .. reduce_num - 1

(* IpcMgr::init() opens four descriptors for each mapper and then four for *)
(* each reducer, in this order.  The numbers here count from the first of  *)
(* the reducers' on.                                                       *)
Fds == 0 .. 4 * reduce_num - 1
c2p_r(i) == 4 * i
c2p_w(i) == 4 * i + 1
p2c_r(i) == 4 * i + 2
p2c_w(i) == 4 * i + 3

(* Mutant: the mappers leave their ends of the pipes open. *)
LowFdsNone == 0

(* A mapper's Run() that returned early has closed only the two ends that  *)
(* its child uses.                                                         *)
LeftOpen == 2 * gave_up

(* The descriptors of the mappers that are closed before a reducer starts, *)
(* all lower than the ones above                                           *)
LowFds == 4 * map_num - LeftOpen

VARIABLES
  thread,      (* where each reducer thread is                             *)
  receiver,    (* where its receiver thread is                             *)
  got,         (* lines it received                                        *)
  eof,         (* whether fgets() returned NULL                            *)
  buff,        (* DumpBuff: the first _length lines of _buff               *)
  stream,      (* the descriptor of fout in dump()                         *)
  failed,      (* the reducers for which fout.open() failed some time      *)
  table,       (* what each descriptor stands for: a reducer for its file  *)
  part         (* the lines this job appended to each file                 *)

vars == << thread, receiver, got, eof, buff, stream, failed, table, part >>

Init ==
  /\ thread   = [i \in Reducers |-> "start"]
  /\ receiver = [i \in Reducers |-> "new"]
  /\ got      = [i \in Reducers |-> 0]
  /\ eof      = [i \in Reducers |-> FALSE]
  /\ buff     = [i \in Reducers |-> << >>]
  /\ stream   = [i \in Reducers |-> NONE]
  /\ failed   = {}
  /\ table    = [f \in Fds |-> PIPE]
  /\ part     = [i \in Reducers |-> << >>]

-----------------------------------------------------------------------------
(* A reducer thread: Reduce::Run() *)

Thread(i, from, to) == /\ thread[i] = from
                       /\ thread' = [thread EXCEPT ![i] = to]

Close(F) == table' = [f \in Fds |-> IF f \in F THEN FREE ELSE table[f]]

(* close_useless_in_parent_r(), fdopen() and pthread_create() *)
SetUp(i) ==
  /\ Thread(i, "start", "writing")
  /\ receiver' = [receiver EXCEPT ![i] = "reading"]
  /\ Close({ c2p_w(i), p2c_r(i) })
  /\ UNCHANGED << got, eof, buff, stream, failed, part >>

(* fdopen() or pthread_create() fails and Run() returns. *)
SetUpFails(i) ==
  /\ i \in MayFail
  /\ Thread(i, "start", "done")
  /\ Close({ c2p_w(i), p2c_r(i) })
  /\ UNCHANGED << receiver, got, eof, buff, stream, failed, part >>

(* The pairs are written: close(pipe_parent2child_w) *)
CloseWrite(i) ==
  /\ Thread(i, "writing", "joining")
  /\ Close({ p2c_w(i) })
  /\ UNCHANGED << receiver, got, eof, buff, stream, failed, part >>

(* pthread_join() and fclose(fp), which closes pipe_child2parent_r *)
JoinAndFclose(i) ==
  /\ Thread(i, "joining", "closing")
  /\ receiver[i] = "ended"
  /\ Close({ c2p_r(i) })
  /\ UNCHANGED << receiver, got, eof, buff, stream, failed, part >>

(* close(pipe_child2parent_r) once more, whatever it stands for by now *)
CloseAgain(i) ==
  /\ Thread(i, "closing", "done")
  /\ Close({ c2p_r(i) })
  /\ UNCHANGED << receiver, got, eof, buff, stream, failed, part >>

-----------------------------------------------------------------------------
(* Its receiver: reduce_recieve(), append() and dump() *)

Receiver(i, from, to) == /\ receiver[i] = from
                         /\ receiver' = [receiver EXCEPT ![i] = to]

(* Mutant: _length <= _maxnum *)
HasRoomForOneMore(b) == Len(b) <= PIPE_SIZE

HasRoom(b) == Len(b) < PIPE_SIZE

(* Mutant: the buffer is dumped when it overflows, not when it is full.  *)
MustDumpLate(b) == Len(b) > PIPE_SIZE

MustDump(b) == Len(b) = PIPE_SIZE

(* fgets() returns a line, and append() puts it into the buffer. *)
AppendLine(i) ==
  LET b == Append(buff[i], << i, got[i] + 1 >>)
  IN  /\ Receiver(i, "reading", IF MustDump(b) THEN "dumping" ELSE "reading")
      /\ got[i] < Prints[i]
      /\ HasRoom(buff[i])
      /\ got'  = [got EXCEPT ![i] = @ + 1]
      /\ buff' = [buff EXCEPT ![i] = b]
      /\ UNCHANGED << thread, eof, stream, failed, table, part >>

(* The buffer is still full, from a dump() that failed: append() returns   *)
(* -1, reduce_recieve() does not look at it, and the line is lost.         *)
DropLine(i) ==
  /\ Receiver(i, "reading", "reading")
  /\ got[i] < Prints[i]
  /\ ~ HasRoom(buff[i])
  /\ got' = [got EXCEPT ![i] = @ + 1]
  /\ UNCHANGED << thread, eof, buff, stream, failed, table, part >>

(* Mutant: dump() is not called once more. *)
ReceiveEofNoDump(i) ==
  /\ Receiver(i, "reading", "ended")
  /\ thread[i] = "joining"
  /\ got[i] = Prints[i]
  /\ eof' = [eof EXCEPT ![i] = TRUE]
  /\ UNCHANGED << thread, got, buff, stream, failed, table, part >>

(* fgets() returns NULL: the child ended, after its input did; then dump() *)
(* once more, which does nothing when the buffer is empty.                 *)
ReceiveEof(i) ==
  /\ Receiver(i, "reading", IF buff[i] = << >> THEN "ended" ELSE "dumping")
  /\ thread[i] = "joining"
  /\ got[i] = Prints[i]
  /\ eof' = [eof EXCEPT ![i] = TRUE]
  /\ UNCHANGED << thread, got, buff, stream, failed, table, part >>

LowestFree ==
  IF Cardinality({ j \in Reducers : stream[j] = LOW }) < LowFds THEN LOW
  ELSE CHOOSE f \in Fds : table[f] = FREE /\ \A g \in 0 .. f - 1 : table[g] # FREE

(* fout.open(_save_path, out | app) *)
OpenPart(i) ==
  /\ Receiver(i, "dumping", "flushing")
  /\ stream' = [stream EXCEPT ![i] = LowestFree]
  /\ table'  = [f \in Fds |-> IF f = LowestFree THEN i ELSE table[f]]
  /\ UNCHANGED << thread, got, eof, buff, failed, part >>

AfterDump(i) == IF eof[i] THEN "ended" ELSE "reading"

(* The file cannot be opened: dump() returns -1, and nobody looks at that. *)
OpenFails(i) ==
  /\ i \in MayFail
  /\ Receiver(i, "dumping", AfterDump(i))
  /\ failed' = failed \cup {i}
  /\ UNCHANGED << thread, got, eof, buff, stream, table, part >>

(* Mutant: dump() goes through the buffer from the front. *)
DumpOrderFirst(b) == b

(* `for (int i = (tail - 1); i >= 0; --i)` *)
DumpOrder(b) == Reverse(b)

(* fout << _buff[i], from the last line to the first.  The stream writes   *)
(* it all to its descriptor, when fout.close() flushes it.  The lines end  *)
(* up in the file that the descriptor stands for, if it does for any.      *)
Flush(i) ==
  LET Hit(j) == IF stream[i] = LOW THEN j = i ELSE table[stream[i]] = j
  IN  /\ Receiver(i, "flushing", "closing")
      /\ part' = [j \in Reducers |-> IF Hit(j) THEN part[j] \o DumpOrder(buff[i])
                                               ELSE part[j]]
      /\ buff' = [buff EXCEPT ![i] = << >>]
      /\ UNCHANGED << thread, got, eof, stream, failed, table >>

(* The close() of fout.close() *)
ClosePart(i) ==
  /\ Receiver(i, "closing", AfterDump(i))
  /\ Close({ stream[i] })
  /\ stream' = [stream EXCEPT ![i] = NONE]
  /\ UNCHANGED << thread, got, eof, buff, failed, part >>

-----------------------------------------------------------------------------

(* The rest of Run() and the Join() of the main thread *)
Terminated == (\A i \in Reducers : thread[i] = "done") /\ UNCHANGED vars

Next ==
  \/ Terminated
  \/ \E i \in Reducers :
       \/ SetUp(i) \/ SetUpFails(i) \/ CloseWrite(i) \/ JoinAndFclose(i)
       \/ CloseAgain(i) \/ AppendLine(i) \/ DropLine(i) \/ ReceiveEof(i)
       \/ OpenPart(i) \/ OpenFails(i) \/ Flush(i) \/ ClosePart(i)

Spec == Init /\ [][Next]_vars

-----------------------------------------------------------------------------
(* Properties *)

Lines == Reducers \X Nat

(* Threads, buffers and descriptors keep their types: a buffer never holds *)
(* more lines than there are (DumpBuff::append()).                         *)
TypeOK ==
  /\ thread \in [Reducers -> {"start", "writing", "joining", "closing", "done"}]
  /\ receiver \in [Reducers -> {"new", "reading", "dumping", "flushing", "closing",
                                "ended"}]
  /\ \A i \in Reducers : got[i] \in 0 .. Prints[i]
  /\ eof \in [Reducers -> BOOLEAN]
  /\ \A i \in Reducers : buff[i] \in Seq(Lines) /\ Len(buff[i]) <= PIPE_SIZE
  /\ stream \in [Reducers -> Fds \cup {LOW, NONE}]
  /\ failed \subseteq Reducers
  /\ table \in [Fds -> Reducers \cup {FREE, PIPE}]
  /\ \A i \in Reducers : part[i] \in Seq(Lines)

(* While a file is being written, its descriptor stands for it: nobody     *)
(* else closes it, in spite of CloseAgain.  It takes LowFds + 1 files open *)
(* at once before one can get the number that CloseAgain closes.           *)
StreamIsOpen ==
  \A i \in Reducers : stream[i] \in Fds => table[stream[i]] = i

(* Each file holds lines of its own reducer only, in batches of PIPE_SIZE, *)
(* each batch backwards: the n-th line counts down within its batch, and   *)
(* from the last line there is in the last one.  This holds also when the  *)
(* file could not be opened for one of the batches.                        *)
ReversedInBatches ==
  \A i \in Reducers : \A n \in DOMAIN part[i] :
    LET before == PIPE_SIZE * ((n - 1) \div PIPE_SIZE)
        top    == IF before + PIPE_SIZE <= Prints[i] THEN before + PIPE_SIZE ELSE Prints[i]
    IN  part[i][n] = << i, top - (n - 1 - before) >>

(* What was received is in the file or in the buffer, each line once; when *)
(* a dump() failed, some of the last lines may be missing, never any from  *)
(* between.                                                                *)
NoHolesInOutput ==
  \A i \in Reducers : LET kept == part[i] \o buff[i] IN
    /\ Len(kept) <= got[i]
    /\ i \notin failed => Len(kept) = got[i]
    /\ \A k \in 1 .. Len(kept) : \E n \in DOMAIN kept : kept[n] = << i, k >>

(* "make sure that all data are dumped correctly" (Reduce.cpp:32, in       *)
(* Chinese): when a receiver is through, and no file failed to open, what  *)
(* its child printed is in its file.                                       *)
AllDataIsDumped ==
  \A i \in Reducers \ failed : receiver[i] = "ended" =>
    \A k \in 1 .. Prints[i] : \E n \in DOMAIN part[i] : part[i][n] = << i, k >>

=============================================================================
