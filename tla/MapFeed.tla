------------------------------ MODULE MapFeed ------------------------------
(***************************************************************************)
(* The map phase as the parent process sees it: the main thread in         *)
(* JobTracker::run(), which reads the input and deals its lines round      *)
(* robin over the pipes of the mappers, and one thread per mapper in       *)
(* Map::Run(), which takes lines off its pipe and writes them to its child *)
(* process.  What becomes of a line after write() is not in this module.   *)
(***************************************************************************)
EXTENDS Integers, FiniteSets, Sequences, SequencesExt

CONSTANTS
  map_num,     (* how many mappers                                         *)
  PIPE_SIZE,   (* slots of each mapper's SafePipe                          *)
  Texts,       (* texts of input lines that are not empty                  *)
  EofText,     (* the text "%[EOF]%"                                       *)
  Blank,       (* an empty line of the input                               *)
  Overlong,    (* a line of MAX_STR_LEN characters or more                 *)
  NoLine,      (* the contents of a fresh slot                             *)
  MaxLines     (* bound: lines in the input                                *)

ASSUME MapNumAssumption   == map_num \in Nat \ {0}
ASSUME PipeSizeAssumption == PIPE_SIZE \in Nat \ {0}
ASSUME TextsAssumption    == /\ EofText \in Texts
                             /\ {Blank, Overlong} \cap Texts = {}
ASSUME MaxLinesAssumption == MaxLines \in Nat \ {0}

Mappers == 0 .. map_num - 1

(* Mutant: lines go out as they are, so one of them may look like the end. *)
add_newline_none(text) == [text |-> text, newline |-> FALSE]

(* What sets a line of the input apart from END_PIPE, whatever its text.   *)
add_newline(text) == [text |-> text, newline |-> TRUE]

END_PIPE == [text |-> EofText, newline |-> FALSE]

PipeLines == [text : Texts \cup {Overlong}, newline : BOOLEAN]

ASSUME FreshAssumption    == NoLine \notin PipeLines

INSTANCE SafePipeOps WITH MaxNum <- PIPE_SIZE, Lines <- PipeLines

(* The input, cut at line ends; the end of the file ends the last line,    *)
(* which is empty when the file ends in a newline.                         *)
Inputs == BoundedSeq(Texts \cup {Blank, Overlong}, MaxLines) \ {<< >>}

VARIABLES
  input,     (* the file                                                   *)
  fin,       (* the stream: lines still to come, eofbit and failbit        *)
  pc,        (* where the main thread is                                   *)
  started,   (* mapper threads started so far                              *)
  str,       (* the buffer `str` of JobTracker::run()                      *)
  round,     (* the argument `round` of dispatch_mapper()                  *)
  ending,    (* whether the main thread is sending END_PIPE                *)
  index,     (* the slot dispatch_mapper() was given                       *)
  pipes,     (* PipePool::_pipes4map                                       *)
  waiting,   (* the mappers blocked in wait_pop_front()                    *)
  mpc,       (* where each mapper thread is                                *)
  slot,      (* the slot each mapper thread was given                      *)
  gaveUp,    (* the mappers whose Run() returned before its loop           *)
  written    (* what each mapper wrote to its child                        *)

mainVars   == << input, fin, pc, started, str, round, ending, index >>
mapperVars == << mpc, slot, gaveUp, written >>
vars       == << mainVars, pipes, waiting, mapperVars >>

Init ==
  /\ input \in Inputs
  /\ fin     = [rest |-> input, eof |-> FALSE, fail |-> FALSE]
  /\ pc      = "start"
  /\ started = 0
  /\ str     = NoLine
  /\ round   = 0
  /\ ending  = FALSE
  /\ index   = 0
  /\ pipes   = [m \in Mappers |-> NewPipe]
  /\ waiting = {}
  /\ mpc     = [m \in Mappers |-> "new"]
  /\ slot    = [m \in Mappers |-> 0]
  /\ gaveUp  = {}
  /\ written = [m \in Mappers |-> << >>]

-----------------------------------------------------------------------------
(* The main thread: JobTracker::run() and dispatch_mapper() *)

(* Mutant: the loop over the mappers goes one too far. *)
StartMapperOneMore ==
  /\ pc = "start"
  /\ started' = started + 1
  /\ mpc' = [mpc EXCEPT ![started] = "setup"]
  /\ pc'  = IF started = map_num THEN "read" ELSE "start"
  /\ UNCHANGED << input, fin, str, round, ending, index, pipes, waiting,
                  slot, gaveUp, written >>

(* _maps[i]->Start() *)
StartMapper ==
  /\ pc = "start"
  /\ started' = started + 1
  /\ mpc' = [mpc EXCEPT ![started] = "setup"]
  /\ pc'  = IF started + 1 = map_num THEN "read" ELSE "start"
  /\ UNCHANGED << input, fin, str, round, ending, index, pipes, waiting,
                  slot, gaveUp, written >>

(* Start() fails, run() returns -1 and main() ends the process. *)
StartMapperFails ==
  /\ pc = "start"
  /\ pc' = "exit"
  /\ UNCHANGED << input, fin, started, str, round, ending, index, pipes,
                  waiting, mapperVars >>

(* fin.getline(): eofbit when the line ends with the file, failbit when    *)
(* the buffer is full before the line ends.                                *)
getline == [rest |-> Tail(fin.rest),
            eof  |-> Len(fin.rest) = 1 /\ Head(fin.rest) # Overlong,
            fail |-> Head(fin.rest) = Overlong]

Reading == pc = "read" /\ ~ fin.eof

ReadLine ==
  /\ Reading /\ ~ fin.fail
  /\ Head(fin.rest) # Blank
  /\ fin' = getline
  /\ str' = add_newline(Head(fin.rest))
  /\ pc'  = "claim"
  /\ UNCHANGED << input, started, round, ending, index, pipes, waiting, mapperVars >>

(* len == 0: continue *)
SkipBlank ==
  /\ Reading /\ ~ fin.fail
  /\ Head(fin.rest) = Blank
  /\ fin' = getline
  /\ UNCHANGED << input, pc, started, str, round, ending, index, pipes,
                  waiting, mapperVars >>

(* On a failed stream getline() reads nothing and sets no eofbit, so the   *)
(* loop goes round without end.                                            *)
ReadNothing ==
  /\ Reading /\ fin.fail
  /\ UNCHANGED vars

(* strcpy(str, END_PIPE), once for the loop over the mappers *)
BeginEnd ==
  /\ pc = "read" /\ fin.eof
  /\ str'    = END_PIPE
  /\ round'  = 0
  /\ ending' = TRUE
  /\ pc'     = "claim"
  /\ UNCHANGED << input, fin, started, index, pipes, waiting, mapperVars >>

(* dispatch_mapper(): slot = round % _map_num *)
Target == round % map_num

(* get_free_item() *)
Claim ==
  /\ pc = "claim"
  /\ HasFreeItem(pipes[Target])
  /\ index' = pipes[Target].tail
  /\ pipes' = [pipes EXCEPT ![Target] = get_free_item(@)]
  /\ pc'    = "fill"
  /\ UNCHANGED << input, fin, started, str, round, ending, waiting, mapperVars >>

(* get_free_item() returns 1: usleep() and try again *)
Poll ==
  /\ pc = "claim"
  /\ ~ HasFreeItem(pipes[Target])
  /\ UNCHANGED vars

(* strcpy(item, str) *)
Fill ==
  /\ pc = "fill"
  /\ pipes' = [pipes EXCEPT ![Target] = CopyInto(@, index, str)]
  /\ pc'    = "push"
  /\ UNCHANGED << input, fin, started, str, round, ending, index, waiting, mapperVars >>

(* Mutant: push_item() does not signal. *)
SignalledNone(m) == {}

(* The mapper that pthread_cond_signal() wakes, if it waits. *)
Signalled(m) == {m}

(* push_item(), and on to the next line, or END_PIPE, or Join() *)
Push ==
  /\ pc = "push"
  /\ pipes'   = [pipes EXCEPT ![Target] = push_item(@, index)]
  /\ waiting' = waiting \ Signalled(Target)
  /\ round'   = round + 1
  /\ pc' = IF ~ ending THEN "read"
           ELSE IF round + 1 < map_num THEN "claim" ELSE "join"
  /\ UNCHANGED << input, fin, started, str, ending, index, mapperVars >>

(* _maps[i]->Join() for every mapper *)
Join ==
  /\ pc = "join"
  /\ \A m \in Mappers : mpc[m] = "exited"
  /\ pc' = "joined"
  /\ UNCHANGED << input, fin, started, str, round, ending, index, pipes,
                  waiting, mapperVars >>

MainStep == \/ StartMapper \/ ReadLine \/ SkipBlank \/ BeginEnd
            \/ Claim \/ Fill \/ Push \/ Join

-----------------------------------------------------------------------------
(* A mapper thread: Map::Run() *)

Mapper(m, from, to) == /\ pc # "exit"
                       /\ mpc[m] = from
                       /\ mpc' = [mpc EXCEPT ![m] = to]

(* fork(), fdopen() and pthread_create() succeed. *)
SetUp(m) ==
  /\ Mapper(m, "setup", "popping")
  /\ UNCHANGED << mainVars, pipes, waiting, slot, gaveUp, written >>

(* fdopen() or pthread_create() fails and Run() returns. *)
SetUpFails(m) ==
  /\ Mapper(m, "setup", "exited")
  /\ gaveUp' = gaveUp \cup {m}
  /\ UNCHANGED << mainVars, pipes, waiting, slot, written >>

CondWait(m) ==
  /\ Mapper(m, "popping", "popping")
  /\ m \notin waiting
  /\ ~ FrontReady(pipes[m])
  /\ waiting' = waiting \cup {m}
  /\ UNCHANGED << mainVars, pipes, slot, gaveUp, written >>

SpuriousWakeup(m) ==
  /\ pc # "exit"
  /\ m \in waiting
  /\ waiting' = waiting \ {m}
  /\ UNCHANGED << mainVars, pipes, mapperVars >>

(* Mutant: the slot is handed back before the line in it is written. *)
PopFrontAndNotify(m) ==
  /\ Mapper(m, "popping", "comparing")
  /\ m \notin waiting
  /\ FrontReady(pipes[m])
  /\ slot'  = [slot EXCEPT ![m] = pipes[m].front]
  /\ pipes' = [pipes EXCEPT ![m] = notify_used_end(pop_front(@), @.front)]
  /\ UNCHANGED << mainVars, waiting, gaveUp, written >>

PopFront(m) ==
  /\ Mapper(m, "popping", "comparing")
  /\ m \notin waiting
  /\ FrontReady(pipes[m])
  /\ slot'  = [slot EXCEPT ![m] = pipes[m].front]
  /\ pipes' = [pipes EXCEPT ![m] = pop_front(@)]
  /\ UNCHANGED << mainVars, waiting, gaveUp, written >>

(* The memory that w_buf points to; the thread does not hold the mutex. *)
w_buf(m) == pipes[m].queue[slot[m]]

(* strcmp(w_buf, END_PIPE): break, and the slot is not handed back *)
SeeEnd(m) ==
  /\ Mapper(m, "comparing", "closing")
  /\ w_buf(m) = END_PIPE
  /\ UNCHANGED << mainVars, pipes, waiting, slot, gaveUp, written >>

SeeLine(m) ==
  /\ Mapper(m, "comparing", "writing")
  /\ w_buf(m) # END_PIPE
  /\ UNCHANGED << mainVars, pipes, waiting, slot, gaveUp, written >>

(* write(pipe_parent2child_w, w_buf, strlen(w_buf)) *)
Write(m) ==
  /\ Mapper(m, "writing", "notifying")
  /\ written' = [written EXCEPT ![m] = Append(@, w_buf(m))]
  /\ UNCHANGED << mainVars, pipes, waiting, slot, gaveUp >>

(* Mutant: the slot is not handed back. *)
NotifyLost(m) ==
  /\ Mapper(m, "notifying", "popping")
  /\ UNCHANGED << mainVars, pipes, waiting, slot, gaveUp, written >>

Notify(m) ==
  /\ Mapper(m, "notifying", "popping")
  /\ pipes' = [pipes EXCEPT ![m] = notify_used_end(@, slot[m])]
  /\ UNCHANGED << mainVars, waiting, slot, gaveUp, written >>

(* close() and what follows, up to the end of Run() *)
Finish(m) ==
  /\ Mapper(m, "closing", "exited")
  /\ UNCHANGED << mainVars, pipes, waiting, slot, gaveUp, written >>

MapperStep(m) == \/ SetUp(m) \/ CondWait(m) \/ PopFront(m) \/ SeeEnd(m)
                 \/ SeeLine(m) \/ Write(m) \/ Notify(m) \/ Finish(m)

-----------------------------------------------------------------------------

Terminated == pc \in {"joined", "exit"} /\ UNCHANGED vars

Next ==
  \/ MainStep \/ StartMapperFails \/ ReadNothing \/ Poll \/ Terminated
  \/ \E m \in Mappers : MapperStep(m) \/ SetUpFails(m) \/ SpuriousWakeup(m)

(* Every thread that can go on is scheduled; nothing has to fail. *)
Spec == /\ Init /\ [][Next]_vars
        /\ WF_vars(MainStep)
        /\ \A m \in Mappers : WF_vars(MapperStep(m))

-----------------------------------------------------------------------------
(* Properties *)

(* Stream, rings and threads keep their types: no more mappers are started *)
(* than there are, and every ring stays within its bounds.                 *)
TypeOK ==
  /\ input \in Inputs
  /\ fin \in [rest : BoundedSeq(Texts \cup {Blank, Overlong}, MaxLines),
              eof : BOOLEAN, fail : BOOLEAN]
  /\ pc \in {"start", "read", "claim", "fill", "push", "join", "joined", "exit"}
  /\ started \in 0 .. map_num
  /\ str \in PipeLines \cup {NoLine}
  /\ round \in Nat
  /\ ending \in BOOLEAN
  /\ index \in Slots
  /\ pipes \in [Mappers -> PipeType]
  /\ waiting \subseteq Mappers
  /\ mpc \in [Mappers -> {"new", "setup", "popping", "comparing", "writing",
                          "notifying", "closing", "exited"}]
  /\ slot \in [Mappers -> Slots]
  /\ gaveUp \subseteq Mappers
  /\ written \in [Mappers -> Seq(PipeLines)]

(* The lines dispatch_mapper() gets: the ones of the input that are not    *)
(* blank, up to and with the first that does not fit the buffer.           *)
Dealt == { k \in DOMAIN input : /\ input[k] # Blank
                                /\ \A j \in 1 .. k - 1 : input[j] # Overlong }

Before(S, k) == Cardinality({ j \in S : j < k })

(* Every map_num-th of them, from the m-th on. *)
DealtTo(m) == { k \in Dealt : Before(Dealt, k) % map_num = m }

Nth(S, j) == CHOOSE k \in S : Before(S, k) = j - 1

Share(m) == [j \in 1 .. Cardinality(DealtTo(m)) |->
               [text |-> input[Nth(DealtTo(m), j)], newline |-> TRUE]]

(* A child gets the lines of its mapper's share, each once, whole and in   *)
(* the order of the file, however the two threads and the ring interleave; *)
(* and when the thread ends it has got all of them.                        *)
ChildGetsItsShare ==
  \A m \in Mappers :
    /\ IsPrefix(written[m], Share(m))
    /\ mpc[m] \in {"closing", "exited"} /\ m \notin gaveUp => written[m] = Share(m)

(* No mapper ends while lines for it may still come: the end marker is the *)
(* last thing in its pipe, even if a line of the file reads "%[EOF]%".     *)
NothingAfterEnd ==
  \A m \in Mappers :
    mpc[m] \in {"closing", "exited"} /\ m \notin gaveUp =>
      /\ ending /\ (pc = "claim" => round > m)
      /\ empty(pipes[m])

(* The map phase ends, unless a line does not fit the buffer or a mapper   *)
(* gave up and left its pipe to fill.                                      *)
MapPhaseEnds == <> (pc \in {"joined", "exit"} \/ fin.fail \/ gaveUp # {})

(* What was pushed is written in the end, also when the main thread is     *)
(* caught in its reading loop.                                             *)
PipesDrain ==
  \A m \in Mappers : <>[] (empty(pipes[m]) \/ m \in gaveUp \/ pc = "exit")

(* "main thread read file and dispatch" (JobTracker.cpp:76): the main      *)
(* thread gets through the file, unless a thread could not be started.     *)
WholeFileIsRead == <> (fin.rest = << >> \/ pc = "exit" \/ gaveUp # {})

=============================================================================
