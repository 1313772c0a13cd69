---------------------------- MODULE ParallelMRS ----------------------------
(***************************************************************************)
(* A whole job: main() with the JobTracker, the mapper and reducer threads *)
(* with their children and receivers, the shuffle and the output buffers,  *)
(* joined in one module.  Each part is what its own module shows it to be: *)
(* a SafePipe a bounded queue (SafePipeRefinement), push_back_r() atomic   *)
(* and the shuffle lossless (Mediator), the pipes to a child queues whose  *)
(* end is seen when the writer is through (IpcMgr).  The children are the  *)
(* repository's mapper.py and reducer.py, which may also die, as fork(),   *)
(* threads and the opening of files may fail.                              *)
(***************************************************************************)
EXTENDS Integers, Sequences, FiniteSets, SequencesExt

CONSTANTS
  MapNums, ReduceNums,   (* the settings main() may have read              *)
  Inputs,      (* the files: sequences of lines, which are sequences of    *)
               (* words and of NotAlpha                                    *)
  Words,       (* numbers in the order of strcmp()                         *)
  NotAlpha,    (* a word that is_alpha() rejects                           *)
  Hash,        (* BKDRHash()                                               *)
  Sign,        (* MurmurHash64B()                                          *)
  PIPE_SIZE,   (* slots of a mapper's pipe, and lines of an output buffer  *)
  OldFiles,    (* the part files before the job                            *)
  END_PIPE

ASSUME SettingsAssumption == MapNums \subseteq Nat /\ ReduceNums \subseteq Nat
ASSUME SizeAssumption     == PIPE_SIZE \in Nat \ {0}
ASSUME WordsAssumption    == /\ Words \subseteq Nat \ {0} /\ NotAlpha \notin Words
                             /\ Hash \in [Words -> Nat] /\ Sign \in [Words -> Nat]
                             /\ Inputs \subseteq Seq(Seq(Words \cup {NotAlpha}) \ {<< >>})
(* The marker ends without the newline that every line is given.           *)
ASSUME MarkerAssumption   == \A file \in Inputs : \A l \in DOMAIN file : file[l] # END_PIPE

(* Run() of a reducer closes its output pipe twice.  Up to this number of  *)
(* reducers the second close() cannot hit the output file of another one   *)
(* (ReduceOutput), so that it is left out here.                            *)
ASSUME SecondCloseAssumption ==
  \A m \in MapNums \ {0} : \A r \in ReduceNums : r <= 2 * m + 1

Mappers  == UNION { 0 .. n - 1 : n \in MapNums }
Reducers == UNION { 0 .. n - 1 : n \in ReduceNums }
Workers  == ({"map"} \X Mappers) \cup ({"reduce"} \X Reducers)

ASSUME FilesAssumption    == OldFiles \in [Reducers -> Seq([word : Words, count : Nat])]

VARIABLES
  conf,        (* _map_num and _reduce_num                                 *)
  input,       (* the lines of the file                                    *)
  pc,          (* where the main thread is                                 *)
  ret,         (* which `return` of run() was taken                        *)
  inited,      (* whether init() succeeded                                 *)
  started,     (* threads of this phase started so far                     *)
  round,       (* lines and end markers dealt so far                       *)
  ring,        (* _pipes4map                                               *)
  run,         (* where each worker's Run() is                             *)
  recv,        (* where each worker's receiver thread is                   *)
  child,       (* where each worker's child process is: "ended" when it    *)
               (* came to its end, "died" when not, "failed" when fork()   *)
               (* did not make one                                         *)
  reaped,      (* the workers whose child has been waited for              *)
  toChild, fromChild,   (* what is in the pipes of each child              *)
  store,       (* the shuffle: for each reducer its keys, with a count of  *)
               (* values, which all are 1                                  *)
  key_pos, value_pos,   (* the pair that get_reduce_task_r() is at         *)
  acc,         (* preWord and preCount of each reducer.py                  *)
  buff,        (* the lines in each DumpBuff                               *)
  files,       (* the part files                                           *)
  dropped,     (* how many lines append() has refused                      *)
  gaveUp       (* the workers whose Run() returned before its loop         *)

job      == << conf, input, inited >>
mainVars == << pc, ret, started, round >>
shuffle  == << store, key_pos, value_pos >>
output   == << buff, files, dropped >>
vars     == << job, mainVars, ring, run, recv, child, reaped, toChild, fromChild,
               shuffle, acc, output, gaveUp >>

NoWord == [word |-> 0, count |-> 0]

Init ==
  /\ conf      \in [map_num : MapNums, reduce_num : ReduceNums]
  /\ input     \in Inputs
  /\ inited    = FALSE
  /\ pc        = "init"
  /\ ret       = "none"
  /\ started   = 0
  /\ round     = 0
  /\ ring      = [m \in Mappers |-> << >>]
  /\ run       = [w \in Workers |-> "new"]
  /\ recv      = [w \in Workers |-> "none"]
  /\ child     = [w \in Workers |-> "none"]
  /\ toChild   = [w \in Workers |-> << >>]
  /\ fromChild = [w \in Workers |-> << >>]
  /\ store     = [r \in Reducers |-> << >>]
  /\ key_pos   = [r \in Reducers |-> 1]
  /\ value_pos = [r \in Reducers |-> 1]
  /\ acc       = [r \in Reducers |-> NoWord]
  /\ buff      = [r \in Reducers |-> << >>]
  /\ files     = OldFiles
  /\ dropped   = [r \in Reducers |-> 0]
  /\ reaped    = {}
  /\ gaveUp    = {}

Alive == pc \notin {"exited", "crashed"}

(* The whole process ends, whichever thread it is that crashes. *)
Crash == /\ pc' = "crashed"
         /\ UNCHANGED << job, ret, started, round, ring, run, recv, child, reaped,
                         toChild, fromChild, shuffle, acc, output, gaveUp >>

-----------------------------------------------------------------------------
(* The main thread: main(), JobTracker::init(), run() and ~JobTracker() *)

Main(from, to) == /\ pc = from
                  /\ pc' = to
                  /\ UNCHANGED << conf, input, ring, recv, child, reaped, toChild,
                                  fromChild, shuffle, acc, output, gaveUp >>

(* PipePool::init(), IpcMgr::init() and the objects of all workers *)
Initialize ==
  /\ Main("init", "open")
  /\ inited' = TRUE
  /\ UNCHANGED << ret, started, round, run >>

(* init() returns -1 before there are workers, and main() does not look.   *)
InitFails ==
  /\ Main("init", "open")
  /\ UNCHANGED << inited, ret, started, round, run >>

OpenInput ==
  /\ Main("open", "startMaps")
  /\ UNCHANGED << inited, ret, started, round, run >>

(* run() returns -1 *)
Quit(from, why) ==
  /\ Main(from, "delete")
  /\ ret' = why
  /\ UNCHANGED << inited, started, round, run >>

OpenFails == Quit("open", "noFile")

Started(kind) == IF kind = "map" THEN conf.map_num ELSE conf.reduce_num

StartWorker(kind, at, first) ==
  /\ Main(at, at)
  /\ started < Started(kind) /\ inited
  /\ started' = started + 1
  /\ run' = [run EXCEPT ![<< kind, started >>] = first]
  /\ UNCHANGED << inited, ret, round >>

(* Without init() there are no workers: _maps[0] is behind an empty vector. *)
StartNobody(kind, at) ==
  /\ pc = at
  /\ started < Started(kind) /\ ~ inited
  /\ Crash

StartMap    == StartWorker("map", "startMaps", "fork") \/ StartNobody("map", "startMaps")
StartReduce == StartWorker("reduce", "startReduces", "sort")
               \/ StartNobody("reduce", "startReduces")

StartMapFails ==
  /\ started < conf.map_num /\ inited
  /\ Quit("startMaps", "noMap")

StartReduceFails ==
  /\ started < conf.reduce_num /\ inited
  /\ Quit("startReduces", "noReduce")

(* Mutant: the result of get_free_item() is not looked at. *)
DispatchMapperAnyway(m, item) ==
  /\ ring'  = [ring EXCEPT ![m] = Append(@, item)]
  /\ round' = round + 1
  /\ UNCHANGED << job, pc, ret, started, run, recv, child, reaped, toChild,
                  fromChild, shuffle, acc, output, gaveUp >>

(* dispatch_mapper(), for a line of the file or for END_PIPE *)
DispatchMapper(m, item) ==
  /\ Len(ring[m]) < PIPE_SIZE
  /\ ring'  = [ring EXCEPT ![m] = Append(@, item)]
  /\ round' = round + 1
  /\ UNCHANGED << job, pc, ret, started, run, recv, child, reaped, toChild,
                  fromChild, shuffle, acc, output, gaveUp >>

Dealing == pc = "startMaps" /\ started = conf.map_num

DealLine ==
  /\ Dealing /\ round < Len(input) /\ conf.map_num > 0
  /\ DispatchMapper(round % conf.map_num, input[round + 1])

(* round % 0 *)
DivideByMapNum ==
  /\ Dealing /\ round < Len(input) /\ conf.map_num = 0
  /\ Crash

SendEnd ==
  /\ Dealing
  /\ round \in Len(input) .. Len(input) + conf.map_num - 1
  /\ DispatchMapper(round - Len(input), END_PIPE)

(* Mutant: only the mapper that was started last is joined. *)
JoinedLast(kind) ==
  \A i \in 0 .. Started(kind) - 1 : i = Started(kind) - 1 => run[<< kind, i >>] = "ended"

(* Join() on every thread of a phase *)
Joined(kind) == \A i \in 0 .. Started(kind) - 1 : run[<< kind, i >>] = "ended"

JoinMaps ==
  /\ Dealing /\ round = Len(input) + conf.map_num
  /\ Joined("map")
  /\ Main("startMaps", "startReduces")
  /\ started' = 0
  /\ UNCHANGED << inited, ret, round, run >>

JoinReduces ==
  /\ started = conf.reduce_num
  /\ Joined("reduce")
  /\ Main("startReduces", "delete")
  /\ ret' = "ok"
  /\ UNCHANGED << inited, started, round, run >>

(* delete tracker *)
Delete ==
  /\ inited \/ conf.map_num + conf.reduce_num = 0
  /\ Main("delete", "return")
  /\ UNCHANGED << inited, ret, started, round, run >>

(* ~JobTracker() walks to _map_num and _reduce_num over empty vectors. *)
DeleteNobody ==
  /\ pc = "delete"
  /\ ~ inited /\ conf.map_num + conf.reduce_num > 0
  /\ Crash

(* return 0, whatever run() returned *)
Exit ==
  /\ Main("return", "exited")
  /\ UNCHANGED << inited, ret, started, round, run >>

MainStep == \/ Initialize \/ OpenInput \/ StartMap \/ DealLine \/ DivideByMapNum
            \/ SendEnd \/ JoinMaps \/ StartReduce \/ JoinReduces \/ Delete
            \/ DeleteNobody \/ Exit

MainFails == InitFails \/ OpenFails \/ StartMapFails \/ StartReduceFails

-----------------------------------------------------------------------------
(* A worker's thread: Map::Run() and Reduce::Run() *)

Thread(w, from, to) == /\ Alive
                       /\ run[w] = from
                       /\ run' = [run EXCEPT ![w] = to]
                       /\ UNCHANGED << job, mainVars, acc, output >>

(* fork(), fdopen() and pthread_create().  A fork() that returns -1 is     *)
(* taken for the parent's side, so that Run() goes on without a child.     *)
Fork(w) ==
  /\ Thread(w, "fork", "feed")
  /\ \E outcome \in {"running", "failed"} : child' = [child EXCEPT ![w] = outcome]
  /\ recv'  = [recv EXCEPT ![w] = "reading"]
  /\ UNCHANGED << ring, reaped, toChild, fromChild, shuffle, gaveUp >>

(* fdopen() or pthread_create() fails: Run() returns, the child's input    *)
(* stays open, and its output is not read.                                 *)
GiveUp(w) ==
  /\ Thread(w, "fork", "ended")
  /\ \E outcome \in {"running", "failed"} : child' = [child EXCEPT ![w] = outcome]
  /\ gaveUp' = gaveUp \cup {w}
  /\ UNCHANGED << ring, recv, reaped, toChild, fromChild, shuffle >>

(* A child holds its own end of its pipe, and may have inherited those of  *)
(* the others: a line for a child that is gone is read by nobody, or there *)
(* is no reader left and write() raises SIGPIPE.                           *)
CanWrite == \E v \in Workers : child[v] = "running"

Unread(w) == child[w] \in {"ended", "died", "failed"}

(* wait_pop_front(), write() and notify_used_end() *)
FeedLine(m) ==
  /\ Thread(<< "map", m >>, "feed", "feed")
  /\ ring[m] # << >> /\ Head(ring[m]) # END_PIPE /\ CanWrite
  /\ toChild' = [toChild EXCEPT ![<< "map", m >>] = Append(@, Head(ring[m]))]
  /\ ring'    = [ring EXCEPT ![m] = Tail(@)]
  /\ UNCHANGED << recv, child, reaped, fromChild, shuffle, gaveUp >>

(* END_PIPE: close() of the child's input *)
FeedEnd(m) ==
  /\ Thread(<< "map", m >>, "feed", "join")
  /\ ring[m] # << >> /\ Head(ring[m]) = END_PIPE
  /\ ring' = [ring EXCEPT ![m] = Tail(@)]
  /\ UNCHANGED << recv, child, reaped, toChild, fromChild, shuffle, gaveUp >>

(* sort_r(), whose bound is the number of keys of reducer 0 *)
Descending(a, b) == a.word > b.word

Rearranged(s) == { [k \in DOMAIN s |-> s[f[k]]] : f \in Bijection(DOMAIN s, DOMAIN s) }

Sorted(s) == { q \in Rearranged(s) : \A j, k \in DOMAIN q : j < k => ~ Descending(q[k], q[j]) }

Sort(r) ==
  /\ Thread(<< "reduce", r >>, "sort", "fork")
  /\ IF store[0] # << >> /\ r > Len(store[0]) - 1 THEN store' = store
     ELSE \E keys \in Sorted(store[r]) : store' = [store EXCEPT ![r] = keys]
  /\ UNCHANGED << ring, recv, child, reaped, toChild, fromChild, key_pos, value_pos,
                  gaveUp >>

(* Where get_reduce_task_r() finds the next pair; positions count from 1.  *)
Position(r) ==
  IF value_pos[r] <= store[r][key_pos[r]].count THEN << key_pos[r], value_pos[r] >>
  ELSE << key_pos[r] + 1, 1 >>

FeedTask(r) ==
  LET k == Position(r)[1]
      v == Position(r)[2]
  IN  /\ Thread(<< "reduce", r >>, "feed", "feed")
      /\ store[r] # << >> /\ k <= Len(store[r]) /\ CanWrite
      /\ toChild'   = [toChild EXCEPT ![<< "reduce", r >>] = Append(@, store[r][k].word)]
      /\ key_pos'   = [key_pos EXCEPT ![r] = k]
      /\ value_pos' = [value_pos EXCEPT ![r] = v + 1]
      /\ UNCHANGED << ring, recv, child, reaped, fromChild, store, gaveUp >>

NoMoreTasks(r) ==
  /\ Thread(<< "reduce", r >>, "feed", "join")
  /\ store[r] # << >> /\ Position(r)[1] > Len(store[r])
  /\ UNCHANGED << ring, recv, child, reaped, toChild, fromChild, shuffle, gaveUp >>

(* write() raises SIGPIPE, which nobody handles. *)
HasLine(w) ==
  /\ run[w] = "feed"
  /\ IF w[1] = "map" THEN ring[w[2]] # << >> /\ Head(ring[w[2]]) # END_PIPE
     ELSE store[w[2]] # << >> /\ Position(w[2])[1] <= Len(store[w[2]])

WriteKills(w) ==
  /\ Alive /\ HasLine(w) /\ Unread(w)
  /\ Crash

(* get_reduce_task_r() reads the first element of an empty key list. *)
ReadNoKey(r) ==
  /\ Alive /\ run[<< "reduce", r >>] = "feed" /\ store[r] = << >>
  /\ Crash

(* Mutant: Run() does not join its receiver. *)
JoinNobody(w) ==
  /\ Thread(w, "join", "ended")
  /\ UNCHANGED << ring, recv, child, reaped, toChild, fromChild, shuffle, gaveUp >>

(* waitpid(): for the worker's own child; with the -1 of a fork() that     *)
(* failed for any child, and not at all when there is none.                *)
Zombies == { v \in Workers : child[v] \in {"ended", "died"} } \ reaped

Wait(w) ==
  IF child[w] # "failed"
  THEN child[w] \in {"ended", "died"} /\ reaped' = reaped \cup {w}
  ELSE \/ \E v \in Zombies : reaped' = reaped \cup {v}
       \/ Zombies = {} /\ ~ CanWrite /\ UNCHANGED reaped

(* pthread_join() on the receiver, and waitpid() *)
JoinReceiver(w) ==
  /\ Thread(w, "join", "ended")
  /\ recv[w] = "ended"
  /\ Wait(w)
  /\ UNCHANGED << ring, recv, child, toChild, fromChild, shuffle, gaveUp >>

(* When a thread could not be started, main() deletes the objects that the *)
(* other threads still work on.                                            *)
UseDeleted(w) ==
  /\ pc = "return"
  /\ run[w] \in {"sort", "fork", "feed", "join"}
  /\ Crash

RunStep(w) ==
  \/ Fork(w) \/ WriteKills(w) \/ JoinReceiver(w)
  \/ w[1] = "map" /\ (FeedLine(w[2]) \/ FeedEnd(w[2]))
  \/ w[1] = "reduce" /\ (Sort(w[2]) \/ FeedTask(w[2]) \/ NoMoreTasks(w[2]) \/ ReadNoKey(w[2]))

-----------------------------------------------------------------------------
(* A child: mapper.py and reducer.py *)

(* Mutant: the child's input is closed when the thread ends. *)
InputClosedLate(w) == run[w] = "ended" /\ w \notin gaveUp

InputClosed(w) == run[w] \in {"join", "ended"} /\ w \notin gaveUp

Child(w, to) == /\ Alive
                /\ child[w] = "running"
                /\ child' = [child EXCEPT ![w] = to]
                /\ UNCHANGED << job, mainVars, ring, run, recv, reaped, shuffle, output,
                                gaveUp >>

(* A child ends before its input does; what it printed is flushed. *)
ChildDies(w) ==
  /\ Child(w, "died")
  /\ UNCHANGED << toChild, fromChild, acc >>

(* A word of the line being read is printed if it is alphabetic. *)
MapWord(m) ==
  LET w    == << "map", m >>
      text == Head(toChild[w])
      word == Head(text)
  IN  /\ Child(w, "running")
      /\ toChild[w] # << >>
      /\ fromChild' = IF word = NotAlpha THEN fromChild
                      ELSE [fromChild EXCEPT ![w] = Append(@, word)]
      /\ toChild'   = [toChild EXCEPT ![w] = IF Len(text) = 1 THEN Tail(@)
                                             ELSE << Tail(text) >> \o Tail(@)]
      /\ UNCHANGED acc

MapChildEnds(m) ==
  /\ Child(<< "map", m >>, "ended")
  /\ toChild[<< "map", m >>] = << >> /\ InputClosed(<< "map", m >>)
  /\ UNCHANGED << toChild, fromChild, acc >>

(* A pair: another word than preWord prints the count of preWord. *)
ReduceLine(r) ==
  LET w    == << "reduce", r >>
      word == Head(toChild[w])
      new  == acc[r].word # 0 /\ word # acc[r].word
  IN  /\ Child(w, "running")
      /\ toChild[w] # << >>
      /\ toChild'   = [toChild EXCEPT ![w] = Tail(@)]
      /\ fromChild' = IF new THEN [fromChild EXCEPT ![w] = Append(@, acc[r])] ELSE fromChild
      /\ acc' = [acc EXCEPT ![r] = [word  |-> word,
                                    count |-> IF new THEN 1 ELSE @.count + 1]]

(* Mutant: the last word is not printed. *)
ReduceChildEndsSilently(r) ==
  LET w == << "reduce", r >>
  IN  /\ Child(w, "ended")
      /\ toChild[w] = << >> /\ InputClosed(w)
      /\ UNCHANGED << toChild, fromChild, acc >>

(* dump last one *)
ReduceChildEnds(r) ==
  LET w == << "reduce", r >>
  IN  /\ Child(w, "ended")
      /\ toChild[w] = << >> /\ InputClosed(w)
      /\ fromChild' = IF acc[r].count > 0
                      THEN [fromChild EXCEPT ![w] = Append(@, acc[r])] ELSE fromChild
      /\ UNCHANGED << toChild, acc >>

ChildStep(w) ==
  \/ w[1] = "map" /\ (MapWord(w[2]) \/ MapChildEnds(w[2]))
  \/ w[1] = "reduce" /\ (ReduceLine(w[2]) \/ ReduceChildEnds(w[2]))

-----------------------------------------------------------------------------
(* A receiver: map_recieve() and reduce_recieve() *)

Receiver(w, to) == /\ Alive
                   /\ recv[w] = "reading"
                   /\ recv' = [recv EXCEPT ![w] = to]
                   /\ UNCHANGED << job, mainVars, ring, run, child, reaped, toChild,
                                   key_pos, value_pos, acc, gaveUp >>

AtEof(w) == fromChild[w] = << >> /\ Unread(w)

(* push_back_r(): one more value for the key with the word's sign, which   *)
(* is the first word with it, or a new key                                 *)
Stored(keys, word) ==
  IF \E k \in DOMAIN keys : Sign[keys[k].word] = Sign[word]
  THEN [k \in DOMAIN keys |-> IF Sign[keys[k].word] = Sign[word]
                              THEN [keys[k] EXCEPT !.count = @ + 1] ELSE keys[k]]
  ELSE Append(keys, [word |-> word, count |-> 1])

PushBack(m) ==
  LET w    == << "map", m >>
      slot == Hash[Head(fromChild[w])] % conf.reduce_num
  IN  /\ conf.reduce_num > 0 /\ fromChild[w] # << >>
      /\ Receiver(w, "reading")
      /\ store'     = [store EXCEPT ![slot] = Stored(@, Head(fromChild[w]))]
      /\ fromChild' = [fromChild EXCEPT ![w] = Tail(@)]
      /\ UNCHANGED output

(* BKDRHash(key) % 0 *)
DivideByReduceNum(m) ==
  /\ Alive /\ recv[<< "map", m >>] = "reading"
  /\ conf.reduce_num = 0 /\ fromChild[<< "map", m >>] # << >>
  /\ Crash

MapReceiverEnds(m) ==
  /\ AtEof(<< "map", m >>)
  /\ Receiver(<< "map", m >>, "ended")
  /\ UNCHANGED << store, fromChild, output >>

(* dump(): the last line first; or the file cannot be opened, and the      *)
(* lines stay in the buffer.                                               *)
Dump(r, lines) ==
  \/ /\ files' = [files EXCEPT ![r] = @ \o Reverse(lines)]
     /\ buff'  = [buff EXCEPT ![r] = << >>]
  \/ /\ files' = files
     /\ buff'  = [buff EXCEPT ![r] = lines]

(* append(), with dump() when the buffer is full *)
AppendLine(r) ==
  LET w     == << "reduce", r >>
      lines == Append(buff[r], Head(fromChild[w]))
  IN  /\ fromChild[w] # << >> /\ Len(buff[r]) < PIPE_SIZE
      /\ Receiver(w, "reading")
      /\ fromChild' = [fromChild EXCEPT ![w] = Tail(@)]
      /\ IF Len(lines) = PIPE_SIZE THEN Dump(r, lines)
         ELSE files' = files /\ buff' = [buff EXCEPT ![r] = lines]
      /\ UNCHANGED << store, dropped >>

(* append() to a buffer that could not be dumped: the line is gone. *)
DropLine(r) ==
  LET w == << "reduce", r >>
  IN  /\ fromChild[w] # << >> /\ Len(buff[r]) = PIPE_SIZE
      /\ Receiver(w, "reading")
      /\ fromChild' = [fromChild EXCEPT ![w] = Tail(@)]
      /\ dropped'   = [dropped EXCEPT ![r] = @ + 1]
      /\ UNCHANGED << store, buff, files >>

(* dump() of what is left *)
ReduceReceiverEnds(r) ==
  /\ AtEof(<< "reduce", r >>)
  /\ Receiver(<< "reduce", r >>, "ended")
  /\ Dump(r, buff[r])
  /\ UNCHANGED << store, fromChild, dropped >>

ReceiverStep(w) ==
  \/ w[1] = "map" /\ (PushBack(w[2]) \/ DivideByReduceNum(w[2]) \/ MapReceiverEnds(w[2]))
  \/ w[1] = "reduce" /\ (AppendLine(w[2]) \/ DropLine(w[2]) \/ ReduceReceiverEnds(w[2]))

-----------------------------------------------------------------------------

Terminated == ~ Alive /\ UNCHANGED vars

(* A mapper that gave up no longer empties its pipe: the main thread polls. *)
Poll ==
  /\ Dealing /\ round < Len(input) + conf.map_num /\ conf.map_num > 0
  /\ LET m == IF round < Len(input) THEN round % conf.map_num ELSE round - Len(input)
     IN  Len(ring[m]) = PIPE_SIZE
  /\ UNCHANGED vars

Next ==
  \/ MainStep \/ MainFails \/ Poll \/ Terminated
  \/ \E w \in Workers : RunStep(w) \/ ChildStep(w) \/ ReceiverStep(w)
                        \/ GiveUp(w) \/ ChildDies(w) \/ UseDeleted(w)

(* Threads and children that can go on are scheduled; nothing has to fail. *)
Spec == /\ Init /\ [][Next]_vars
        /\ WF_vars(MainStep)
        /\ \A w \in Workers : /\ WF_vars(RunStep(w))
                              /\ WF_vars(ChildStep(w))
                              /\ WF_vars(ReceiverStep(w))

-----------------------------------------------------------------------------
(* Properties *)

(* Main thread, workers and children keep their types, and what is bounded *)
(* in the program stays within its bounds: the rings, the output buffers,  *)
(* the threads started.                                                    *)
Lines   == Seq(Words \cup {NotAlpha}) \ {<< >>}
Results == [word : Words, count : Nat]

TypeOK ==
  /\ conf \in [map_num : MapNums, reduce_num : ReduceNums] /\ input \in Inputs
  /\ pc \in {"init", "open", "startMaps", "startReduces", "delete", "return",
             "exited", "crashed"}
  /\ ret \in {"none", "noFile", "noMap", "noReduce", "ok"}
  /\ inited \in BOOLEAN /\ round \in Nat /\ started \in Nat
  /\ pc = "startMaps" => started <= conf.map_num
  /\ pc = "startReduces" => started <= conf.reduce_num
  /\ ring \in [Mappers -> Seq(Lines \cup {END_PIPE})]
  /\ \A m \in Mappers : Len(ring[m]) <= PIPE_SIZE
  /\ run \in [Workers -> {"new", "sort", "fork", "feed", "join", "ended"}]
  /\ recv \in [Workers -> {"none", "reading", "ended"}]
  /\ child \in [Workers -> {"none", "running", "ended", "died", "failed"}]
  /\ reaped \subseteq Workers
  /\ DOMAIN toChild = Workers /\ DOMAIN fromChild = Workers
  /\ \A m \in Mappers : /\ toChild[<< "map", m >>] \in Seq(Lines)
                        /\ fromChild[<< "map", m >>] \in Seq(Words)
  /\ \A r \in Reducers : /\ toChild[<< "reduce", r >>] \in Seq(Words)
                         /\ fromChild[<< "reduce", r >>] \in Seq(Results)
  /\ store \in [Reducers -> Seq([word : Words, count : Nat \ {0}])]
  /\ key_pos \in [Reducers -> Nat \ {0}] /\ value_pos \in [Reducers -> Nat]
  /\ acc \in [Reducers -> Results \cup {NoWord}]
  /\ buff \in [Reducers -> Seq(Results)]
  /\ \A r \in Reducers : Len(buff[r]) <= PIPE_SIZE
  /\ files \in [Reducers -> Seq(Results)]
  /\ dropped \in [Reducers -> Nat]
  /\ gaveUp \subseteq Workers

(* The refinement: words are counted when they are in the shuffle, and     *)
(* the reduce phase is from the last mapper's join to the last reducer's.  *)
(* Words of one part and one sign share a key.                             *)
Slot(word)  == IF conf.reduce_num = 0 THEN 0 ELSE Hash[word] % conf.reduce_num
KeyOf(word) == << Slot(word), Sign[word] >>

CountIn(keys, word) ==
  IF \E k \in DOMAIN keys : Sign[keys[k].word] = Sign[word]
  THEN keys[CHOOSE k \in DOMAIN keys : Sign[keys[k].word] = Sign[word]].count ELSE 0

Counted(word) == IF conf.reduce_num = 0 THEN 0 ELSE CountIn(store[Slot(word)], word)

Phase ==
  IF pc = "crashed" \/ (pc = "exited" /\ ret # "ok") THEN "stopped"
  ELSE IF ret = "ok" THEN "done"
  ELSE IF pc = "startReduces" \/ ret = "noReduce" THEN "reduce"
  ELSE "map"

(* A worker gave up or has no child, a child died, lines were refused or   *)
(* could not be written at the end: run() notices none of these.           *)
NoChild(w)   == child[w] \in {"died", "failed"}
LinesLost(r) == dropped[r] > 0 \/ (recv[<< "reduce", r >>] = "ended" /\ buff[r] # << >>)

Lost == \/ gaveUp # {}
        \/ \E w \in Workers : NoChild(w)
        \/ \E r \in Reducers : LinesLost(r)

Abstract == INSTANCE MapReduce WITH
  Keys    <- Nat \X Nat,
  Parts   <- Reducers,
  key     <- [w \in Words |-> KeyOf(w)],
  old     <- OldFiles,
  phase   <- Phase,
  lost    <- Lost,
  counted <- [w \in Words |-> Counted(w)]

(* End to end, the threads, pipes, children and buffers do what MapReduce  *)
(* promises: when run() returns 0 and nothing was lost, the part files     *)
(* hold, behind what they held before, each key of the input's words once, *)
(* with how often its words occur; nothing is written before all is        *)
(* counted; and what is left when something is lost is still right.  That  *)
(* old lines stay is what dump() does, which opens the files to append,    *)
(* although DumpBuff::init() ends with a comment that they are cleared;    *)
(* and that run() returns 0 says only that the threads have ended.         *)
ImplementsMapReduce == Abstract!Spec

(* No thread works on memory that is gone: a receiver, which is given a    *)
(* variable of Run(), ends before Run() does; and when the JobTracker and  *)
(* its workers are deleted no thread of theirs runs, unless one could not  *)
(* be started and run() returned in the middle.                            *)
MemoryOutlivesThreads ==
  /\ \A w \in Workers : recv[w] = "reading" => run[w] \in {"feed", "join"}
  /\ pc = "return" /\ ret \notin {"noMap", "noReduce"} =>
       \A w \in Workers : run[w] \in {"new", "ended"}

(* A job does not crash when there are mappers and reducers, init()        *)
(* succeeds and threads start, every fork() succeeds and no child dies, no *)
(* mapper gives up, and some word of the input belongs to every reducer:   *)
(* no reducer then looks at its keys before it has one, no worker writes   *)
(* to a child that is through, and nothing is deleted that is still used.  *)
CrashesHaveACause ==
  pc = "crashed" =>
    \/ conf.map_num = 0 \/ conf.reduce_num = 0
    \/ ~ inited
    \/ ret \in {"noMap", "noReduce"}
    \/ \E w \in Workers : NoChild(w)
    \/ \E m \in Mappers : << "map", m >> \in gaveUp
    \/ \E r \in 0 .. conf.reduce_num - 1 : \A w \in Abstract!Occurring : Slot(w) # r

(* The job ends, unless a mapper gave up and left its pipe to fill, or a   *)
(* worker without a child waits for that of one that gave up.              *)
JobEnds ==
  <> \/ ~ Alive
     \/ \E m \in Mappers : << "map", m >> \in gaveUp
     \/ gaveUp # {} /\ \E w \in Workers : child[w] = "failed"

=============================================================================
