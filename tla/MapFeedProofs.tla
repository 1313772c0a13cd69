---------------------------- MODULE MapFeedProofs ----------------------------
(***************************************************************************)
(* Proofs about the map phase for any number of mappers, rings of any size *)
(* and any file: the end marker is the last thing a mapper takes off its   *)
(* ring, also when lines of the file have its text.                        *)
(***************************************************************************)
EXTENDS MapFeed, FiniteSetTheorems, TLAPS

MainStates   == {"start", "read", "claim", "fill", "push", "join", "joined", "exit"}
MapperStates == {"new", "setup", "popping", "comparing", "writing", "notifying", "closing",
                 "exited"}
FileLines    == Texts \cup {Blank, Overlong}

(* The stream has a line left, or one of its bits tells that it has none.  *)
StreamInv == fin.rest # << >> \/ fin.eof \/ fin.fail

(* What the main thread is doing: starting mappers, dealing lines, or      *)
(* sending each ring its end marker, in a slot that no mapper reads.       *)
MainInv ==
  /\ pc = "start" => started < map_num
  /\ pc \in {"start", "read"} => ~ ending
  /\ pc \in {"claim", "fill", "push"} =>
       /\ str \in PipeLines
       /\ ending <=> str = END_PIPE
       /\ ending => round < map_num
  /\ pc \in {"fill", "push"} =>
       /\ pipes[Target].flag[index] = 0
       /\ NextSlot(index) = pipes[Target].tail
  /\ pc = "push" => pipes[Target].queue[index] \in PipeLines

(* The queue of a ring is the window from front to tail; what is marked in *)
(* it is a line.                                                           *)
WindowInv(p) ==
  /\ p.tail = IF p.front + p.length < PIPE_SIZE THEN p.front + p.length
              ELSE p.front + p.length - PIPE_SIZE
  /\ \A s \in Slots : p.flag[s] = 1 => p.queue[s] \in PipeLines

(* An end marker was sent once and is the last thing in the ring.          *)
MarkerInv(m) ==
  \A s \in Slots : pipes[m].queue[s] = END_PIPE =>
    /\ ending /\ NextSlot(s) = pipes[m].tail
    /\ round > m \/ (round = m /\ pc = "push" /\ index = s)

(* A mapper reads a slot that is marked, so that nobody fills it, and has  *)
(* the last line of its ring when it has the end marker.                   *)
MapperInv(m) ==
  /\ mpc[m] \in {"comparing", "writing", "notifying"} => pipes[m].flag[slot[m]] = 1
  /\ mpc[m] = "comparing" /\ w_buf(m) = END_PIPE => empty(pipes[m])
  /\ mpc[m] \in {"closing", "exited"} /\ m \notin gaveUp =>
       ending /\ round > m /\ empty(pipes[m])

PipeInv(m) == WindowInv(pipes[m]) /\ MarkerInv(m) /\ MapperInv(m)

IInv == TypeOK /\ StreamInv /\ MainInv /\ \A m \in Mappers : PipeInv(m)

-----------------------------------------------------------------------------
(* Facts about the operators *)

LEMMA SlotFacts ==
  /\ 0 \in Slots /\ PIPE_SIZE \in Nat \ {0}
  /\ \A s \in Slots : /\ NextSlot(s) \in Slots
                      /\ NextSlot(s) = IF s + 1 = PIPE_SIZE THEN 0 ELSE s + 1
BY PipeSizeAssumption DEF NextSlot, Slots

LEMMA MarkerFacts ==
  /\ END_PIPE \in PipeLines /\ NoLine # END_PIPE
  /\ \A t \in Texts \cup {Overlong} : add_newline(t) \in PipeLines /\ add_newline(t) # END_PIPE
<1>1. END_PIPE \in PipeLines
  BY TextsAssumption DEF END_PIPE, PipeLines
<1>2. NoLine # END_PIPE
  BY <1>1, FreshAssumption
<1>3. ASSUME NEW t \in Texts \cup {Overlong}
      PROVE  add_newline(t) \in PipeLines /\ add_newline(t) # END_PIPE
  <2>1. add_newline(t) \in PipeLines
    BY DEF add_newline, PipeLines
  <2>2. add_newline(t).newline # END_PIPE.newline
    BY DEF add_newline, END_PIPE
  <2>3. QED
    BY <2>1, <2>2
<1>4. QED
  BY <1>1, <1>2, <1>3

LEMMA TargetFacts ==
  ASSUME TypeOK
  PROVE  Target \in Mappers /\ (round < map_num => Target = round)
<1>1. map_num \in Nat \ {0} /\ round \in Nat
  BY MapNumAssumption DEF TypeOK
<1>2. round % map_num \in 0 .. map_num - 1
  BY <1>1
<1>3. round < map_num => round % map_num = round
  BY <1>1
<1>4. QED
  BY <1>2, <1>3 DEF Target, Mappers

(* One line less of a file                                                 *)
LEMMA TailOfFile ==
  ASSUME NEW f \in BoundedSeq(FileLines, MaxLines), f # << >>
  PROVE  /\ Tail(f) \in BoundedSeq(FileLines, MaxLines) /\ Head(f) \in FileLines
         /\ Len(f) \in Nat /\ Len(f) # 0 /\ (Len(f) # 1 => Tail(f) # << >>)
<1>1. PICK n \in 0 .. MaxLines : f \in [1 .. n -> FileLines]
  BY DEF BoundedSeq, SeqOf
<1>2. n \in 1 .. MaxLines /\ f \in Seq(FileLines) /\ Len(f) = n
  BY <1>1, MaxLinesAssumption
<1>3. n - 1 \in 0 .. MaxLines
  BY <1>2, MaxLinesAssumption
<1>4. Tail(f) \in Seq(FileLines) /\ Len(Tail(f)) = n - 1
  BY <1>2
<1>5. Tail(f) \in [1 .. n - 1 -> FileLines]
  <2>1. \A q \in Seq(FileLines) : q \in [1 .. Len(q) -> FileLines]
    OBVIOUS
  <2>2. QED
    BY <1>4, <2>1
<1>6. Tail(f) \in BoundedSeq(FileLines, MaxLines)
  BY <1>3, <1>5 DEF BoundedSeq, SeqOf
<1>7. QED
  BY <1>2, <1>4, <1>6

(* What the methods of a ring change                                       *)
LEMMA ClaimEffect ==
  ASSUME NEW p \in PipeType, HasFreeItem(p), WindowInv(p)
  PROVE  LET q == get_free_item(p)
         IN  /\ q \in PipeType /\ WindowInv(q) /\ q.tail = NextSlot(p.tail)
             /\ q.queue = p.queue /\ q.flag = p.flag
<1>1. /\ p.tail \in Slots /\ p.front \in Slots
      /\ p.length \in 0 .. PIPE_SIZE /\ p.length # PIPE_SIZE
      /\ p.flag \in [Slots -> {0, 1}] /\ p.flag[p.tail] = 0
  BY DEF PipeType, HasFreeItem, full
<1>2. [p.flag EXCEPT ![p.tail] = 0] = p.flag
  BY <1>1
<1>3. get_free_item(p) =
        [p EXCEPT !.flag = p.flag, !.tail = NextSlot(p.tail), !.length = p.length + 1]
  BY <1>2 DEF get_free_item
<1>4. /\ get_free_item(p).queue = p.queue /\ get_free_item(p).flag = p.flag
      /\ get_free_item(p).front = p.front /\ get_free_item(p).tail = NextSlot(p.tail)
      /\ get_free_item(p).length = p.length + 1
  BY <1>3 DEF PipeType
<1>5. p.length + 1 \in 0 .. PIPE_SIZE
  BY <1>1, SlotFacts
<1>6. get_free_item(p) \in PipeType
  BY <1>1, <1>3, <1>5, SlotFacts DEF PipeType
<1>7. WindowInv(get_free_item(p))
  <2>1. p.tail + 1 \in 1 .. PIPE_SIZE /\ p.front \in 0 .. PIPE_SIZE - 1
    <3>1. p.tail \in 0 .. PIPE_SIZE - 1 /\ p.front \in 0 .. PIPE_SIZE - 1
      BY <1>1 DEF Slots
    <3>2. QED
      BY <3>1, PipeSizeAssumption
  <2>2. NextSlot(p.tail) = IF p.front + (p.length + 1) < PIPE_SIZE THEN p.front + (p.length + 1)
                           ELSE p.front + (p.length + 1) - PIPE_SIZE
    BY <1>1, <2>1, SlotFacts DEF WindowInv
  <2>3. QED
    BY <1>4, <2>2 DEF WindowInv
<1>8. QED
  BY <1>4, <1>6, <1>7

LEMMA FillEffect ==
  ASSUME NEW p \in PipeType, NEW s \in Slots, NEW line \in PipeLines, WindowInv(p)
  PROVE  LET q == CopyInto(p, s, line)
         IN  /\ q \in PipeType /\ WindowInv(q)
             /\ q.flag = p.flag /\ q.front = p.front /\ q.tail = p.tail /\ q.length = p.length
             /\ q.queue = [p.queue EXCEPT ![s] = line]
BY DEF CopyInto, PipeType, WindowInv

LEMMA PushEffect ==
  ASSUME NEW p \in PipeType, NEW s \in Slots, p.queue[s] \in PipeLines, WindowInv(p)
  PROVE  LET q == push_item(p, s)
         IN  /\ q \in PipeType /\ WindowInv(q)
             /\ q.queue = p.queue /\ q.front = p.front /\ q.tail = p.tail /\ q.length = p.length
             /\ q.flag = [p.flag EXCEPT ![s] = 1]
BY DEF push_item, PipeType, WindowInv

LEMMA PopEffect ==
  ASSUME NEW p \in PipeType, FrontReady(p), WindowInv(p)
  PROVE  LET q == pop_front(p)
         IN  /\ q \in PipeType /\ WindowInv(q)
             /\ q.queue = p.queue /\ q.flag = p.flag /\ q.tail = p.tail
             /\ NextSlot(p.front) = p.tail => empty(q)
             /\ p.front \in Slots /\ p.flag[p.front] = 1
<1>1. /\ p.tail \in Slots /\ p.front \in Slots /\ p.length \in 1 .. PIPE_SIZE /\ p.flag[p.front] = 1
  BY SlotFacts DEF PipeType, FrontReady, empty
<1>2. /\ pop_front(p).queue = p.queue /\ pop_front(p).flag = p.flag
      /\ pop_front(p).front = NextSlot(p.front) /\ pop_front(p).tail = p.tail
      /\ pop_front(p).length = p.length - 1
  BY DEF pop_front, PipeType
<1>3. p.length - 1 \in 0 .. PIPE_SIZE
  BY <1>1, SlotFacts
<1>4. pop_front(p) \in PipeType
  BY <1>1, <1>3, SlotFacts DEF pop_front, PipeType
<1>5. WindowInv(pop_front(p))
  BY <1>1, <1>2, SlotFacts DEF WindowInv, Slots
<1>6. NextSlot(p.front) = p.tail => empty(pop_front(p))
  BY <1>1, <1>2, SlotFacts DEF WindowInv, Slots, empty
<1>7. QED
  BY <1>1, <1>2, <1>4, <1>5, <1>6

LEMMA NotifyEffect ==
  ASSUME NEW p \in PipeType, NEW s \in Slots, WindowInv(p)
  PROVE  LET q == notify_used_end(p, s)
         IN  /\ q \in PipeType /\ WindowInv(q)
             /\ q.queue = p.queue /\ q.front = p.front /\ q.tail = p.tail /\ q.length = p.length
             /\ q.flag = [p.flag EXCEPT ![s] = 0]
BY DEF notify_used_end, PipeType, WindowInv

-----------------------------------------------------------------------------
(* The initial states *)

LEMMA InitIInv == Init => IInv
<1> SUFFICES ASSUME Init PROVE IInv
  OBVIOUS
<1>1. NewPipe \in PipeType /\ \A s \in Slots : NewPipe.queue[s] = NoLine /\ NewPipe.flag[s] = 0
  BY SlotFacts DEF NewPipe, PipeType
<1>2. input \in BoundedSeq(FileLines, MaxLines) /\ input # << >>
  BY DEF Init, Inputs, FileLines
<1>3. TypeOK
  <2>1. /\ input \in Inputs
        /\ fin \in [rest : BoundedSeq(FileLines, MaxLines), eof : BOOLEAN, fail : BOOLEAN]
    BY <1>2 DEF Init
  <2>2. /\ started = 0 /\ str = NoLine /\ round = 0 /\ ending = FALSE /\ index = 0
        /\ 0 \in Slots /\ 0 \in 0 .. map_num
    BY SlotFacts, MapNumAssumption DEF Init
  <2>3. /\ pipes \in [Mappers -> PipeType] /\ slot \in [Mappers -> Slots]
        /\ mpc \in [Mappers -> MapperStates] /\ written \in [Mappers -> Seq(PipeLines)]
    BY <1>1, SlotFacts DEF Init, MapperStates
  <2>4. pc = "start" /\ waiting = {} /\ gaveUp = {}
    BY DEF Init
  <2>5. QED
    BY <2>1, <2>2, <2>3, <2>4 DEF TypeOK, MapperStates, FileLines
<1>4. StreamInv /\ MainInv
  BY <1>2, MapNumAssumption DEF Init, StreamInv, MainInv
<1>5. ASSUME NEW m \in Mappers PROVE PipeInv(m)
  <2>1. pipes[m] = NewPipe /\ mpc[m] = "new"
    BY DEF Init
  <2>2. WindowInv(NewPipe)
    BY <1>1, SlotFacts DEF WindowInv, NewPipe
  <2>3. MarkerInv(m) /\ MapperInv(m)
    BY <1>1, <2>1, MarkerFacts DEF MarkerInv, MapperInv
  <2>4. QED
    BY <2>1, <2>2, <2>3 DEF PipeInv
<1>6. QED
  BY <1>3, <1>4, <1>5 DEF IInv

-----------------------------------------------------------------------------
(* Steps of others *)

(* Before the end markers are sent there is none.                          *)
LEMMA NoMarkerYet ==
  ASSUME IInv, NEW m \in Mappers, ~ ending
  PROVE  /\ \A s \in Slots : pipes[m].queue[s] # END_PIPE
         /\ mpc[m] \in {"closing", "exited"} => m \in gaveUp
BY DEF IInv, PipeInv, MarkerInv, MapperInv

(* What a step that does not touch a mapper nor its ring has to respect.   *)
LEMMA PipeStays ==
  ASSUME IInv, NEW m \in Mappers, pipes'[m] = pipes[m], slot'[m] = slot[m],
         m \in gaveUp => m \in gaveUp',
         \/ mpc'[m] = mpc[m]
         \/ mpc'[m] \in {"setup", "popping"}
         \/ mpc'[m] = "exited" /\ m \in gaveUp',
         \/ ~ ending
         \/ /\ ending' /\ round' \in {round, round + 1}
            /\ round = m /\ pc = "push" => round' > m \/ (pc' = "push" /\ index' = index)
  PROVE  PipeInv(m)'
<1>1. PipeInv(m) /\ m \in Nat /\ round \in Nat /\ slot[m] \in Slots
  BY MapNumAssumption DEF IInv, TypeOK, Mappers
<1>2. WindowInv(pipes[m])'
  BY <1>1 DEF PipeInv, WindowInv
<1>3. CASE ~ ending
  <2>1. /\ \A s \in Slots : pipes[m].queue[s] # END_PIPE
        /\ mpc[m] \in {"closing", "exited"} => m \in gaveUp
    BY <1>3, NoMarkerYet
  <2>2. MarkerInv(m)'
    BY <2>1 DEF MarkerInv
  <2>3. MapperInv(m)'
    BY <1>1, <2>1 DEF PipeInv, MapperInv, w_buf
  <2>4. QED
    BY <1>2, <2>2, <2>3 DEF PipeInv
<1>4. CASE ending
  <2>1. /\ ending' /\ round' \in Nat /\ round' >= round
        /\ round = m /\ pc = "push" => round' > m \/ (pc' = "push" /\ index' = index)
    BY <1>1, <1>4
  <2>2. MarkerInv(m)'
    <3>1. ASSUME NEW s \in Slots, pipes'[m].queue[s] = END_PIPE
          PROVE  /\ ending' /\ NextSlot(s) = pipes'[m].tail
                 /\ round' > m \/ (round' = m /\ pc' = "push" /\ index' = s)
      <4>1. /\ NextSlot(s) = pipes[m].tail
            /\ round > m \/ (round = m /\ pc = "push" /\ index = s)
        BY <1>1, <3>1 DEF PipeInv, MarkerInv
      <4>2. QED
        BY <1>1, <1>4, <2>1, <4>1
    <3>2. QED
      BY <3>1 DEF MarkerInv
  <2>3. MapperInv(m)'
    BY <1>1, <2>1 DEF PipeInv, MapperInv, w_buf
  <2>4. QED
    BY <1>2, <2>2, <2>3 DEF PipeInv
<1>5. QED
  BY <1>3, <1>4

-----------------------------------------------------------------------------
(* The main thread *)

(* Steps of the main thread that leave the rings alone                     *)
LEMMA StartMapperIInv == ASSUME IInv, StartMapper PROVE IInv'
<1>1. /\ pc = "start" /\ started' = started + 1 /\ mpc' = [mpc EXCEPT ![started] = "setup"]
      /\ pc' = IF started + 1 = map_num THEN "read" ELSE "start"
      /\ UNCHANGED << input, fin, str, round, ending, index, pipes, waiting, slot,
                      gaveUp, written >>
  BY DEF StartMapper
<1>2. started \in Nat /\ started < map_num /\ ~ ending /\ map_num \in Nat
  BY <1>1, MapNumAssumption DEF IInv, MainInv, TypeOK
<1>3. mpc' \in [Mappers -> MapperStates] /\ \A m \in Mappers : mpc'[m] = mpc[m] \/ mpc'[m] = "setup"
  BY <1>1 DEF IInv, TypeOK, MapperStates
<1>4. TypeOK'
  BY <1>1, <1>2, <1>3 DEF IInv, TypeOK, MapperStates
<1>5. StreamInv' /\ MainInv'
  BY <1>1, <1>2 DEF IInv, StreamInv, MainInv
<1>6. ASSUME NEW m \in Mappers PROVE PipeInv(m)'
  BY <1>1, <1>2, <1>3, PipeStays
<1>7. QED
  BY <1>4, <1>5, <1>6 DEF IInv

LEMMA GetLine ==
  ASSUME IInv, Reading, ~ fin.fail
  PROVE  /\ fin.rest # << >> /\ Head(fin.rest) \in FileLines
         /\ getline \in [rest : BoundedSeq(FileLines, MaxLines), eof : BOOLEAN, fail : BOOLEAN]
         /\ getline.rest # << >> \/ getline.eof \/ getline.fail
<1>1. fin.rest # << >> /\ fin.rest \in BoundedSeq(FileLines, MaxLines)
  BY DEF IInv, StreamInv, TypeOK, Reading, FileLines
<1>2. /\ Tail(fin.rest) \in BoundedSeq(FileLines, MaxLines) /\ Head(fin.rest) \in FileLines
      /\ Len(fin.rest) # 1 => Tail(fin.rest) # << >>
  BY <1>1, TailOfFile
<1>3. QED
  BY <1>1, <1>2 DEF getline

LEMMA ReadIInv == ASSUME IInv, ReadLine \/ SkipBlank PROVE IInv'
<1>1. /\ Reading /\ ~ fin.fail /\ fin' = getline
      /\ UNCHANGED << input, started, round, ending, index, pipes, waiting, mpc, slot,
                      gaveUp, written >>
      /\ \/ /\ str' = add_newline(Head(fin.rest)) /\ pc' = "claim"
            /\ Head(fin.rest) # Blank
         \/ UNCHANGED << str, pc >>
  BY DEF ReadLine, SkipBlank, mapperVars
<1>2. pc = "read" /\ ~ ending
  BY <1>1 DEF Reading, IInv, MainInv
<1>3. /\ Head(fin.rest) \in FileLines
      /\ fin' \in [rest : BoundedSeq(FileLines, MaxLines), eof : BOOLEAN, fail : BOOLEAN]
      /\ fin'.rest # << >> \/ fin'.eof \/ fin'.fail
  BY <1>1, GetLine
<1>4. \/ pc' = "claim" /\ str' \in PipeLines /\ str' # END_PIPE
      \/ UNCHANGED << str, pc >>
  BY <1>1, <1>3, MarkerFacts DEF FileLines
<1>5. TypeOK'
  BY <1>1, <1>3, <1>4 DEF IInv, TypeOK, FileLines
<1>6. StreamInv' /\ MainInv'
  BY <1>1, <1>2, <1>3, <1>4 DEF IInv, StreamInv, MainInv
<1>7. ASSUME NEW m \in Mappers PROVE PipeInv(m)'
  BY <1>1, <1>2, PipeStays
<1>8. QED
  BY <1>5, <1>6, <1>7 DEF IInv

LEMMA BeginEndIInv == ASSUME IInv, BeginEnd PROVE IInv'
<1>1. /\ pc = "read" /\ str' = END_PIPE /\ round' = 0 /\ ending' = TRUE /\ pc' = "claim"
      /\ UNCHANGED << input, fin, started, index, pipes, waiting, mpc, slot, gaveUp, written >>
  BY DEF BeginEnd, mapperVars
<1>2. ~ ending
  BY <1>1 DEF IInv, MainInv
<1>3. TypeOK'
  BY <1>1, MarkerFacts DEF IInv, TypeOK
<1>4. StreamInv' /\ MainInv'
  BY <1>1, MarkerFacts, MapNumAssumption DEF IInv, StreamInv, MainInv
<1>5. ASSUME NEW m \in Mappers PROVE PipeInv(m)'
  BY <1>1, <1>2, PipeStays
<1>6. QED
  BY <1>3, <1>4, <1>5 DEF IInv

LEMMA LeaveIInv == ASSUME IInv, StartMapperFails \/ Join PROVE IInv'
<1>1. /\ pc \in {"start", "join"} /\ pc' \in {"exit", "joined"}
      /\ UNCHANGED << input, fin, started, str, round, ending, index, pipes, waiting, mpc, slot,
                      gaveUp, written >>
  BY DEF StartMapperFails, Join, mapperVars
<1>2. TypeOK' /\ StreamInv' /\ MainInv'
  BY <1>1 DEF IInv, TypeOK, StreamInv, MainInv
<1>3. ASSUME NEW m \in Mappers PROVE PipeInv(m)'
  BY <1>1, PipeStays DEF IInv, TypeOK
<1>4. QED
  BY <1>2, <1>3 DEF IInv

(* A ring that already has its end marker gets no more lines: in the loop  *)
(* that sends the markers its turn is over.                                *)
LEMMA ClaimIInv == ASSUME IInv, Claim PROVE IInv'
<1>0. PICK t \in Mappers : t = Target
  BY TargetFacts DEF IInv
<1> DEFINE q == get_free_item(pipes[t])
<1>1. /\ pc = "claim" /\ HasFreeItem(pipes[t]) /\ index' = pipes[t].tail
      /\ pipes' = [pipes EXCEPT ![t] = q] /\ pc' = "fill"
      /\ UNCHANGED << input, fin, started, str, round, ending, waiting, mpc, slot,
                      gaveUp, written >>
  BY <1>0 DEF Claim, mapperVars
<1>2. (round < map_num => t = round) /\ t \in Nat /\ round \in Nat
  BY <1>0, TargetFacts, MapNumAssumption DEF IInv, TypeOK, Mappers
<1>3. /\ pipes[t] \in PipeType /\ PipeInv(t) /\ WindowInv(pipes[t])
      /\ pipes[t].tail \in Slots /\ pipes[t].flag[pipes[t].tail] = 0
  BY <1>1, <1>2 DEF IInv, TypeOK, PipeInv, PipeType, HasFreeItem
<1>4. /\ q \in PipeType /\ WindowInv(q) /\ q.tail = NextSlot(pipes[t].tail)
      /\ q.queue = pipes[t].queue /\ q.flag = pipes[t].flag
  BY <1>1, <1>3, ClaimEffect
<1>5. /\ pipes' \in [Mappers -> PipeType] /\ pipes'[t] = q
      /\ \A m \in Mappers \ {t} : pipes'[m] = pipes[m]
  BY <1>1, <1>2, <1>4 DEF IInv, TypeOK
<1>6. Target' = t
  BY <1>0, <1>1 DEF Target
<1> HIDE DEF q
<1>7. TypeOK'
  BY <1>1, <1>3, <1>5 DEF IInv, TypeOK
<1>8. StreamInv' /\ MainInv'
  BY <1>0, <1>1, <1>3, <1>4, <1>5, <1>6 DEF IInv, StreamInv, MainInv
<1>9. PipeInv(t)'
  <2>1. \A s \in Slots : pipes[t].queue[s] # END_PIPE
    BY <1>1, <1>2, <1>3 DEF IInv, MainInv, PipeInv, MarkerInv
  <2>2. mpc[t] \in {"closing", "exited"} => t \in gaveUp
    BY <1>1, <1>2, <1>3 DEF IInv, MainInv, PipeInv, MapperInv
  <2>3. slot[t] \in Slots
    BY <1>2 DEF IInv, TypeOK
  <2>4. WindowInv(pipes[t])'
    BY <1>4, <1>5 DEF WindowInv
  <2>5. MarkerInv(t)'
    BY <1>4, <1>5, <2>1 DEF MarkerInv
  <2>6. MapperInv(t)'
    BY <1>1, <1>3, <1>4, <1>5, <2>1, <2>2, <2>3 DEF PipeInv, MapperInv, w_buf
  <2>7. QED
    BY <2>4, <2>5, <2>6 DEF PipeInv
<1>10. ASSUME NEW m \in Mappers PROVE PipeInv(m)'
  <2>1. CASE m = t
    BY <1>9, <2>1
  <2>2. CASE m # t
    BY <1>1, <1>2, <1>5, <2>2, PipeStays
  <2>3. QED
    BY <2>1, <2>2
<1>11. QED
  BY <1>7, <1>8, <1>10 DEF IInv

(* While a slot is being filled, and until it is pushed, it is not marked. *)
LEMMA FillIInv == ASSUME IInv, Fill PROVE IInv'
<1>0. PICK t \in Mappers : t = Target
  BY TargetFacts DEF IInv
<1> DEFINE q == CopyInto(pipes[t], index, str)
<1>1. /\ pc = "fill" /\ pipes' = [pipes EXCEPT ![t] = q] /\ pc' = "push"
      /\ UNCHANGED << input, fin, started, str, round, ending, index, waiting, mpc, slot,
                      gaveUp, written >>
  BY <1>0 DEF Fill, mapperVars
<1>2. (round < map_num => t = round) /\ t \in Nat /\ round \in Nat /\ index \in Slots
  BY <1>0, TargetFacts, MapNumAssumption DEF IInv, TypeOK, Mappers
<1>3. /\ pipes[t] \in PipeType /\ PipeInv(t) /\ WindowInv(pipes[t])
      /\ pipes[t].flag[index] = 0 /\ NextSlot(index) = pipes[t].tail /\ str \in PipeLines
      /\ ending <=> str = END_PIPE
      /\ ending => t = round
  BY <1>0, <1>1, <1>2 DEF IInv, TypeOK, PipeInv, MainInv
<1>4. /\ q \in PipeType /\ WindowInv(q)
      /\ q.flag = pipes[t].flag /\ q.front = pipes[t].front /\ q.tail = pipes[t].tail
      /\ q.length = pipes[t].length /\ q.queue = [pipes[t].queue EXCEPT ![index] = str]
  BY <1>2, <1>3, FillEffect
<1>5. /\ pipes' \in [Mappers -> PipeType] /\ pipes'[t] = q
      /\ \A m \in Mappers \ {t} : pipes'[m] = pipes[m]
  BY <1>1, <1>2, <1>4 DEF IInv, TypeOK
<1>6. Target' = t
  BY <1>0, <1>1 DEF Target
<1> HIDE DEF q
<1>7. q.queue[index] = str /\ \A s \in Slots \ {index} : q.queue[s] = pipes[t].queue[s]
  BY <1>2, <1>3, <1>4 DEF PipeType
<1>8. TypeOK'
  BY <1>1, <1>5 DEF IInv, TypeOK
<1>9. StreamInv' /\ MainInv'
  BY <1>0, <1>1, <1>3, <1>4, <1>5, <1>6, <1>7 DEF IInv, StreamInv, MainInv
<1>10. PipeInv(t)'
  <2>1. WindowInv(pipes[t])'
    BY <1>4, <1>5 DEF WindowInv
  <2>2. MarkerInv(t)'
    <3>1. ASSUME NEW s \in Slots, pipes'[t].queue[s] = END_PIPE
          PROVE  /\ ending' /\ NextSlot(s) = pipes'[t].tail
                 /\ round' > t \/ (round' = t /\ pc' = "push" /\ index' = s)
      <4>1. CASE s = index
        BY <1>1, <1>3, <1>4, <1>5, <1>7, <3>1, <4>1
      <4>2. CASE s # index
        BY <1>1, <1>2, <1>3, <1>4, <1>5, <1>7, <3>1, <4>2 DEF PipeInv, MarkerInv
      <4>3. QED
        BY <4>1, <4>2
    <3>2. QED
      BY <3>1 DEF MarkerInv
  <2>3. MapperInv(t)'
    <3>1. slot[t] \in Slots
      BY <1>2 DEF IInv, TypeOK
    <3>2. mpc[t] = "comparing" => q.queue[slot[t]] = pipes[t].queue[slot[t]]
      BY <1>3, <1>7, <3>1 DEF PipeInv, MapperInv
    <3>3. QED
      BY <1>1, <1>3, <1>4, <1>5, <3>2 DEF PipeInv, MapperInv, w_buf, empty
  <2>4. QED
    BY <2>1, <2>2, <2>3 DEF PipeInv
<1>11. ASSUME NEW m \in Mappers PROVE PipeInv(m)'
  <2>1. CASE m = t
    BY <1>10, <2>1
  <2>2. CASE m # t
    BY <1>1, <1>2, <1>5, <2>2, PipeStays
  <2>3. QED
    BY <2>1, <2>2
<1>12. QED
  BY <1>8, <1>9, <1>11 DEF IInv

LEMMA PushIInv == ASSUME IInv, Push PROVE IInv'
<1>0. PICK t \in Mappers : t = Target
  BY TargetFacts DEF IInv
<1> DEFINE q == push_item(pipes[t], index)
<1>1. /\ pc = "push" /\ pipes' = [pipes EXCEPT ![t] = q] /\ round' = round + 1
      /\ pc' = IF ~ ending THEN "read" ELSE IF round + 1 < map_num THEN "claim" ELSE "join"
      /\ waiting' \subseteq waiting
      /\ UNCHANGED << input, fin, started, str, ending, index, mpc, slot, gaveUp, written >>
  BY <1>0 DEF Push, mapperVars
<1>2. /\ round < map_num => t = round
      /\ t \in Nat /\ round \in Nat /\ index \in Slots /\ map_num \in Nat
  BY <1>0, TargetFacts, MapNumAssumption DEF IInv, TypeOK, Mappers
<1>3. /\ pipes[t] \in PipeType /\ PipeInv(t) /\ WindowInv(pipes[t])
      /\ pipes[t].flag[index] = 0 /\ pipes[t].queue[index] \in PipeLines /\ str \in PipeLines
      /\ ending <=> str = END_PIPE
      /\ ending => t = round
  BY <1>0, <1>1, <1>2 DEF IInv, TypeOK, PipeInv, MainInv
<1>4. /\ q \in PipeType /\ WindowInv(q)
      /\ q.queue = pipes[t].queue /\ q.front = pipes[t].front /\ q.tail = pipes[t].tail
      /\ q.length = pipes[t].length /\ q.flag = [pipes[t].flag EXCEPT ![index] = 1]
  BY <1>2, <1>3, PushEffect
<1>5. /\ pipes' \in [Mappers -> PipeType] /\ pipes'[t] = q
      /\ \A m \in Mappers \ {t} : pipes'[m] = pipes[m]
  BY <1>1, <1>2, <1>4 DEF IInv, TypeOK
<1> HIDE DEF q
<1>6. \A s \in Slots : pipes[t].flag[s] = 1 => q.flag[s] = 1
  BY <1>2, <1>3, <1>4 DEF PipeType
<1>7. TypeOK'
  BY <1>1, <1>2, <1>5 DEF IInv, TypeOK
<1>8. StreamInv' /\ MainInv'
  BY <1>1, <1>2, <1>3 DEF IInv, StreamInv, MainInv
<1>9. PipeInv(t)'
  <2>1. WindowInv(pipes[t])'
    BY <1>4, <1>5 DEF WindowInv
  <2>2. MarkerInv(t)'
    BY <1>1, <1>2, <1>3, <1>4, <1>5 DEF PipeInv, MarkerInv
  <2>3. slot[t] \in Slots
    BY <1>2 DEF IInv, TypeOK
  <2>4. MapperInv(t)'
    <3>1. mpc[t] \in {"comparing", "writing", "notifying"} => q.flag[slot[t]] = 1
      BY <1>3, <1>6, <2>3 DEF PipeInv, MapperInv
    <3>2. mpc[t] = "comparing" /\ q.queue[slot[t]] = END_PIPE => q.length = 0
      BY <1>3, <1>4 DEF PipeInv, MapperInv, w_buf, empty
    <3>3. mpc[t] \in {"closing", "exited"} /\ t \notin gaveUp =>
            ending /\ round + 1 > t /\ q.length = 0
      BY <1>2, <1>3, <1>4 DEF PipeInv, MapperInv, empty
    <3>4. QED
      BY <1>1, <1>5, <3>1, <3>2, <3>3 DEF MapperInv, w_buf, empty
  <2>5. QED
    BY <2>1, <2>2, <2>4 DEF PipeInv
<1>10. ASSUME NEW m \in Mappers PROVE PipeInv(m)'
  <2>1. CASE m = t
    BY <1>9, <2>1
  <2>2. CASE m # t
    BY <1>1, <1>2, <1>3, <1>5, <2>2, PipeStays
  <2>3. QED
    BY <2>1, <2>2
<1>11. QED
  BY <1>7, <1>8, <1>10 DEF IInv

-----------------------------------------------------------------------------
(* A mapper thread *)

LEMMA MapperEffect ==
  ASSUME IInv, NEW m \in Mappers, NEW from, NEW to \in MapperStates, Mapper(m, from, to)
  PROVE  /\ mpc[m] = from /\ mpc' \in [Mappers -> MapperStates] /\ mpc'[m] = to
         /\ \A n \in Mappers \ {m} : mpc'[n] = mpc[n]
BY DEF Mapper, IInv, TypeOK, MapperStates

(* Other mappers do not notice, and the main thread keeps the slot it has. *)
LEMMA MapperStepIInv ==
  ASSUME IInv, NEW m \in Mappers, UNCHANGED mainVars, TypeOK', PipeInv(m)',
         pipes'[m].queue = pipes[m].queue, pipes'[m].tail = pipes[m].tail,
         \A s \in Slots : pipes[m].flag[s] = 0 => pipes'[m].flag[s] = 0,
         \A n \in Mappers \ {m} : /\ pipes'[n] = pipes[n]
                                  /\ mpc'[n] = mpc[n] /\ slot'[n] = slot[n]
                                  /\ n \in gaveUp => n \in gaveUp'
  PROVE  IInv'
<1>1. UNCHANGED << input, fin, pc, started, str, round, ending, index >>
  BY DEF mainVars
<1>2. Target \in Mappers /\ Target' = Target /\ index \in Slots /\ round \in Nat
  BY <1>1, TargetFacts DEF IInv, Target, TypeOK
<1>3. PICK t \in Mappers : t = Target
  BY <1>2
<1>4. /\ pipes'[t].queue = pipes[t].queue /\ pipes'[t].tail = pipes[t].tail
      /\ pipes[t].flag[index] = 0 => pipes'[t].flag[index] = 0
  <2>1. CASE t = m
    BY <1>2, <2>1
  <2>2. CASE t # m
    BY <2>2
  <2>3. QED
    BY <2>1, <2>2
<1>5. StreamInv' /\ MainInv'
  BY <1>1, <1>2, <1>3, <1>4 DEF IInv, StreamInv, MainInv
<1>6. ASSUME NEW n \in Mappers \ {m} PROVE PipeInv(n)'
  <2>1. /\ pipes'[n] = pipes[n] /\ mpc'[n] = mpc[n] /\ slot'[n] = slot[n]
        /\ n \in gaveUp => n \in gaveUp'
    OBVIOUS
  <2>2. n \in Mappers /\ round' \in {round, round + 1}
    BY <1>1
  <2>3. QED
    BY <1>1, <2>1, <2>2, PipeStays
<1>7. QED
  BY <1>5, <1>6 DEF IInv

(* A mapper that sets up or gives up, or waits, or is woken                *)
LEMMA SetUpIInv ==
  ASSUME IInv, NEW m \in Mappers,
         SetUp(m) \/ SetUpFails(m) \/ CondWait(m) \/ SpuriousWakeup(m)
  PROVE  IInv'
<1>1. /\ UNCHANGED mainVars /\ UNCHANGED << pipes, slot, written >>
      /\ waiting' \subseteq waiting \cup {m} /\ gaveUp' \subseteq gaveUp \cup {m}
      /\ gaveUp \subseteq gaveUp'
  BY DEF SetUp, SetUpFails, CondWait, SpuriousWakeup, mapperVars
<1>2. /\ mpc' \in [Mappers -> MapperStates] /\ \A n \in Mappers \ {m} : mpc'[n] = mpc[n]
      /\ \/ mpc'[m] = mpc[m]
         \/ mpc'[m] = "popping"
         \/ mpc'[m] = "exited" /\ m \in gaveUp'
  BY MapperEffect
     DEF SetUp, SetUpFails, CondWait, SpuriousWakeup, mapperVars, MapperStates, IInv, TypeOK
<1>3. UNCHANGED << input, fin, pc, started, str, round, ending, index >>
  BY <1>1 DEF mainVars
<1>4. TypeOK'
  BY <1>1, <1>2, <1>3 DEF IInv, TypeOK, MapperStates
<1>5. round \in Nat
  BY DEF IInv, TypeOK
<1>6. PipeInv(m)'
  BY <1>1, <1>2, <1>3, <1>5, PipeStays
<1>7. QED
  BY <1>1, <1>2, <1>4, <1>6, MapperStepIInv

(* The line at the front is marked; if it is the marker, it was the last.  *)
LEMMA PopFrontIInv == ASSUME IInv, NEW m \in Mappers, PopFront(m) PROVE IInv'
<1> DEFINE f == pipes[m].front
           q == pop_front(pipes[m])
<1>1. /\ Mapper(m, "popping", "comparing") /\ FrontReady(pipes[m])
      /\ slot' = [slot EXCEPT ![m] = f] /\ pipes' = [pipes EXCEPT ![m] = q]
      /\ UNCHANGED mainVars /\ UNCHANGED << waiting, gaveUp, written >>
  BY DEF PopFront
<1>2. /\ mpc' \in [Mappers -> MapperStates] /\ mpc'[m] = "comparing"
      /\ \A n \in Mappers \ {m} : mpc'[n] = mpc[n]
  BY <1>1, MapperEffect DEF MapperStates
<1>3. pipes[m] \in PipeType /\ WindowInv(pipes[m]) /\ MarkerInv(m)
  BY DEF IInv, TypeOK, PipeInv
<1>4. /\ q \in PipeType /\ WindowInv(q)
      /\ q.queue = pipes[m].queue /\ q.flag = pipes[m].flag /\ q.tail = pipes[m].tail
      /\ NextSlot(f) = pipes[m].tail => empty(q)
      /\ f \in Slots /\ pipes[m].flag[f] = 1
  BY <1>1, <1>3, PopEffect
<1>5. UNCHANGED << input, fin, pc, started, str, round, ending, index >>
  BY <1>1 DEF mainVars
<1> HIDE DEF f, q
<1>6. /\ pipes' \in [Mappers -> PipeType] /\ slot' \in [Mappers -> Slots]
      /\ pipes'[m] = q /\ slot'[m] = f
      /\ \A n \in Mappers \ {m} : pipes'[n] = pipes[n] /\ slot'[n] = slot[n]
  BY <1>1, <1>4 DEF IInv, TypeOK
<1>7. TypeOK'
  BY <1>1, <1>2, <1>5, <1>6 DEF IInv, TypeOK, MapperStates
<1>8. PipeInv(m)'
  <2>1. WindowInv(pipes[m])'
    BY <1>4, <1>6 DEF WindowInv
  <2>2. MarkerInv(m)'
    BY <1>3, <1>4, <1>5, <1>6 DEF MarkerInv
  <2>3. MapperInv(m)'
    BY <1>2, <1>3, <1>4, <1>6 DEF MarkerInv, MapperInv, w_buf
  <2>4. QED
    BY <2>1, <2>2, <2>3 DEF PipeInv
<1>9. QED
  BY <1>1, <1>2, <1>4, <1>6, <1>7, <1>8, MapperStepIInv

(* It has the end marker: all that was ever put into its ring is out.      *)
LEMMA SeeEndIInv == ASSUME IInv, NEW m \in Mappers, SeeEnd(m) PROVE IInv'
<1>1. /\ Mapper(m, "comparing", "closing") /\ w_buf(m) = END_PIPE
      /\ UNCHANGED mainVars /\ UNCHANGED << pipes, waiting, slot, gaveUp, written >>
  BY DEF SeeEnd
<1>2. /\ mpc[m] = "comparing" /\ mpc' \in [Mappers -> MapperStates] /\ mpc'[m] = "closing"
      /\ \A n \in Mappers \ {m} : mpc'[n] = mpc[n]
  BY <1>1, MapperEffect DEF MapperStates
<1>3. UNCHANGED << input, fin, pc, started, str, round, ending, index >>
  BY <1>1 DEF mainVars
<1>4. PipeInv(m) /\ slot[m] \in Slots /\ m \in Nat /\ m < map_num /\ round \in Nat
  BY MapNumAssumption DEF IInv, TypeOK, Mappers
<1>5. TypeOK'
  BY <1>1, <1>2, <1>3 DEF IInv, TypeOK, MapperStates
<1>6. ending /\ round > m /\ empty(pipes[m])
  <2>1. /\ pipes[m].queue[slot[m]] = END_PIPE /\ pipes[m].flag[slot[m]] = 1 /\ empty(pipes[m])
    BY <1>1, <1>2, <1>4 DEF PipeInv, MapperInv, w_buf
  <2>2. ending /\ (round > m \/ (round = m /\ pc = "push" /\ index = slot[m]))
    BY <1>4, <2>1 DEF PipeInv, MarkerInv
  <2>3. ~ (round = m /\ pc = "push" /\ index = slot[m])
    <3>1. SUFFICES ASSUME round = m, pc = "push", index = slot[m] PROVE FALSE
      OBVIOUS
    <3>2. Target = m
      BY <1>4, <3>1, TargetFacts DEF IInv
    <3>3. pipes[Target].flag[index] = 0
      BY <3>1 DEF IInv, MainInv
    <3>4. QED
      BY <2>1, <3>1, <3>2, <3>3
  <2>4. QED
    BY <2>1, <2>2, <2>3
<1>7. PipeInv(m)'
  <2>1. WindowInv(pipes[m])' /\ MarkerInv(m)'
    BY <1>1, <1>3, <1>4 DEF PipeInv, WindowInv, MarkerInv
  <2>2. MapperInv(m)'
    BY <1>1, <1>2, <1>3, <1>6 DEF MapperInv, empty
  <2>3. QED
    BY <2>1, <2>2 DEF PipeInv
<1>8. QED
  BY <1>1, <1>2, <1>5, <1>7, MapperStepIInv

(* Steps on the way round the loop, and the end of Run()                   *)
LEMMA LoopIInv ==
  ASSUME IInv, NEW m \in Mappers, SeeLine(m) \/ Write(m) \/ Finish(m)
  PROVE  IInv'
<1>1. /\ UNCHANGED mainVars /\ UNCHANGED << pipes, waiting, slot, gaveUp >>
      /\ \/ Mapper(m, "comparing", "writing") /\ UNCHANGED written
         \/ /\ Mapper(m, "writing", "notifying")
            /\ written' = [written EXCEPT ![m] = Append(@, w_buf(m))]
         \/ Mapper(m, "closing", "exited") /\ UNCHANGED written
  BY DEF SeeLine, Write, Finish
<1>2. /\ mpc' \in [Mappers -> MapperStates]
      /\ \A n \in Mappers \ {m} : mpc'[n] = mpc[n]
      /\ \/ mpc[m] \in {"comparing", "writing"} /\ mpc'[m] \in {"writing", "notifying"}
         \/ mpc[m] = "closing" /\ mpc'[m] = "exited"
  BY <1>1, MapperEffect DEF MapperStates
<1>3. UNCHANGED << input, fin, pc, started, str, round, ending, index >>
  BY <1>1 DEF mainVars
<1>4. PipeInv(m) /\ slot[m] \in Slots
  BY DEF IInv, TypeOK
<1>5. written' \in [Mappers -> Seq(PipeLines)]
  <2>1. CASE UNCHANGED written
    BY <2>1 DEF IInv, TypeOK
  <2>2. CASE /\ Mapper(m, "writing", "notifying")
             /\ written' = [written EXCEPT ![m] = Append(@, w_buf(m))]
    <3>1. mpc[m] = "writing"
      BY <2>2 DEF Mapper
    <3>2. w_buf(m) \in PipeLines
      BY <1>4, <3>1 DEF PipeInv, MapperInv, WindowInv, w_buf
    <3>3. written \in [Mappers -> Seq(PipeLines)] /\ written[m] \in Seq(PipeLines)
      BY DEF IInv, TypeOK
    <3>4. Append(written[m], w_buf(m)) \in Seq(PipeLines)
      BY <3>2, <3>3
    <3>5. QED
      BY <2>2, <3>3, <3>4
  <2>3. QED
    BY <1>1, <2>1, <2>2
<1>6. TypeOK'
  BY <1>1, <1>2, <1>3, <1>5 DEF IInv, TypeOK, MapperStates
<1>7. PipeInv(m)'
  <2>1. WindowInv(pipes[m])' /\ MarkerInv(m)'
    BY <1>1, <1>3, <1>4 DEF PipeInv, WindowInv, MarkerInv
  <2>2. MapperInv(m)'
    BY <1>1, <1>2, <1>3, <1>4 DEF PipeInv, MapperInv, w_buf, empty
  <2>3. QED
    BY <2>1, <2>2 DEF PipeInv
<1>8. QED
  BY <1>1, <1>2, <1>6, <1>7, MapperStepIInv

LEMMA NotifyIInv == ASSUME IInv, NEW m \in Mappers, Notify(m) PROVE IInv'
<1> DEFINE q == notify_used_end(pipes[m], slot[m])
<1>1. /\ Mapper(m, "notifying", "popping") /\ pipes' = [pipes EXCEPT ![m] = q]
      /\ UNCHANGED mainVars /\ UNCHANGED << waiting, slot, gaveUp, written >>
  BY DEF Notify
<1>2. /\ mpc' \in [Mappers -> MapperStates] /\ mpc'[m] = "popping"
      /\ \A n \in Mappers \ {m} : mpc'[n] = mpc[n]
  BY <1>1, MapperEffect DEF MapperStates
<1>3. pipes[m] \in PipeType /\ WindowInv(pipes[m]) /\ MarkerInv(m) /\ slot[m] \in Slots
  BY DEF IInv, TypeOK, PipeInv
<1>4. /\ q \in PipeType /\ WindowInv(q)
      /\ q.queue = pipes[m].queue /\ q.tail = pipes[m].tail
      /\ q.flag = [pipes[m].flag EXCEPT ![slot[m]] = 0]
  BY <1>3, NotifyEffect
<1>5. UNCHANGED << input, fin, pc, started, str, round, ending, index >>
  BY <1>1 DEF mainVars
<1> HIDE DEF q
<1>6. /\ pipes' \in [Mappers -> PipeType] /\ pipes'[m] = q
      /\ \A n \in Mappers \ {m} : pipes'[n] = pipes[n]
  BY <1>1, <1>4 DEF IInv, TypeOK
<1>7. TypeOK'
  BY <1>1, <1>2, <1>5, <1>6 DEF IInv, TypeOK, MapperStates
<1>8. \A s \in Slots : pipes[m].flag[s] = 0 => pipes'[m].flag[s] = 0
  BY <1>3, <1>4, <1>6 DEF PipeType
<1>9. PipeInv(m)'
  <2>1. WindowInv(pipes[m])'
    BY <1>4, <1>6 DEF WindowInv
  <2>2. MarkerInv(m)' /\ MapperInv(m)'
    BY <1>2, <1>3, <1>4, <1>5, <1>6 DEF MarkerInv, MapperInv
  <2>3. QED
    BY <2>1, <2>2 DEF PipeInv
<1>10. QED
  BY <1>1, <1>2, <1>4, <1>6, <1>7, <1>8, <1>9, MapperStepIInv

-----------------------------------------------------------------------------

(* Every step preserves the invariant.                                     *)
LEMMA NextIInv == IInv /\ [Next]_vars => IInv'
<1> SUFFICES ASSUME IInv, [Next]_vars PROVE IInv'
  OBVIOUS
<1>1. CASE UNCHANGED vars
  <2>1. UNCHANGED << input, fin, pc, started, str, round, ending, index, pipes, waiting, mpc,
                     slot, gaveUp, written >>
    BY <1>1 DEF vars, mainVars, mapperVars
  <2>2. TypeOK' /\ StreamInv' /\ MainInv'
    BY <2>1 DEF IInv, TypeOK, StreamInv, MainInv, Target
  <2>3. round \in Nat
    BY DEF IInv, TypeOK
  <2>4. ASSUME NEW m \in Mappers PROVE PipeInv(m)'
    BY <2>1, <2>3, PipeStays
  <2>5. QED
    BY <2>2, <2>4 DEF IInv
<1>2. CASE MainStep \/ StartMapperFails
  BY <1>2, StartMapperIInv, ReadIInv, BeginEndIInv, ClaimIInv, FillIInv, PushIInv, LeaveIInv
     DEF MainStep
<1>3. CASE ReadNothing \/ Poll \/ Terminated
  BY <1>1, <1>3 DEF ReadNothing, Poll, Terminated
<1>4. ASSUME NEW m \in Mappers, MapperStep(m) \/ SetUpFails(m) \/ SpuriousWakeup(m)
      PROVE  IInv'
  BY <1>4, SetUpIInv, PopFrontIInv, SeeEndIInv, LoopIInv, NotifyIInv DEF MapperStep
<1>5. QED
  BY <1>1, <1>2, <1>3, <1>4 DEF Next

LEMMA InvariantHolds == Spec => []IInv
BY InitIInv, NextIInv, PTL DEF Spec

(* The stream, the rings and the threads keep their types: getline() never *)
(* reads on at the end, and what a child is written was put into its ring. *)
THEOREM TypeCorrect == Spec => []TypeOK
<1>1. IInv => TypeOK
  BY DEF IInv
<1>2. QED
  BY <1>1, InvariantHolds, PTL

(* When a mapper leaves its loop all its lines and the marker are out of   *)
(* its ring and nothing comes any more, whatever the texts of the lines.   *)
THEOREM TheMarkerIsLast == Spec => []NothingAfterEnd
<1>1. IInv => NothingAfterEnd
  BY DEF IInv, PipeInv, MapperInv, NothingAfterEnd
<1>2. QED
  BY <1>1, InvariantHolds, PTL

-----------------------------------------------------------------------------
(* What a child gets.  A second invariant, on top of the first, follows    *)
(* every line from the file to the child: the lines of a mapper that have  *)
(* been dealt are, in their order, written, in the mapper's hand or in its *)
(* ring, and the end marker comes behind them as one more line.            *)

(* The lines of the file that getline() has taken                          *)
Consumed == Len(input) - Len(fin.rest)

(* The main thread has a line of the file in hand.                         *)
Dealing == pc \in {"claim", "fill", "push"} /\ ~ ending

LineOf(k) == [text |-> input[k], newline |-> TRUE]

FileInv ==
  /\ Consumed \in Nat
  /\ \A k \in 1 .. Len(fin.rest) : fin.rest[k] = input[Consumed + k]
  /\ \A k \in 1 .. Consumed : input[k] = Overlong => k = Consumed /\ fin.fail
  /\ fin.eof => Len(fin.rest) = 0 /\ ~ fin.fail
  /\ ending => fin.eof

(* dispatch_mapper() counts the lines it deals.                            *)
RoundInv ==
  /\ Dealing => /\ Consumed \in Dealt /\ str = LineOf(Consumed)
                /\ round = Before(Dealt, Consumed)
  /\ pc \in {"start", "read"} => round = Before(Dealt, Consumed + 1)

(* Nothing is known of a mapper before it is started nor after it gave up. *)
StartedInv ==
  /\ pc = "start" => \A m \in Mappers : m >= started => mpc[m] = "new"
  /\ \A m \in gaveUp : mpc[m] = "exited"

(* What is to go through the ring of a mapper: its share and the marker.   *)
Stream(m) == Append(Share(m), END_PIPE)

(* How much of it has a place: the lines dealt, and the marker once it is  *)
(* sent.                                                                   *)
Put(m) == { k \in DealtTo(m) : k <= Consumed /\ ~ (Dealing /\ pc = "claim" /\ k = Consumed) }

MarkerSent(m) == ending /\ (round > m \/ (round = m /\ pc # "claim"))

Total(m) == Cardinality(Put(m)) + (IF MarkerSent(m) THEN 1 ELSE 0)

(* What the mapper has taken off its ring and not written                  *)
Held(m) == IF mpc[m] \in {"comparing", "writing"}
              \/ (mpc[m] \in {"closing", "exited"} /\ m \notin gaveUp) THEN 1 ELSE 0

(* The i-th slot of the window                                             *)
Place(p, i) == IF p.front + i < PIPE_SIZE THEN p.front + i ELSE p.front + i - PIPE_SIZE

(* The slot is claimed and strcpy() is still to come.                      *)
Unfilled(m, i) == pc = "fill" /\ Target = m /\ i = pipes[m].length - 1

CountInv(m) ==
  /\ Len(written[m]) + Held(m) + pipes[m].length = Total(m)
  /\ Len(written[m]) <= Len(Share(m))

WrittenInv(m) ==
  /\ \A j \in 1 .. Len(written[m]) : written[m][j] = Stream(m)[j]
  /\ mpc[m] \in {"comparing", "writing"} => w_buf(m) = Stream(m)[Len(written[m]) + 1]
  /\ mpc[m] = "writing" => w_buf(m) # END_PIPE

RingInv(m) ==
  \A i \in 0 .. pipes[m].length - 1 :
    ~ Unfilled(m, i) =>
      pipes[m].queue[Place(pipes[m], i)] = Stream(m)[Len(written[m]) + Held(m) + i + 1]

ShareInv(m) == CountInv(m) /\ WrittenInv(m) /\ RingInv(m)

DInv == FileInv /\ RoundInv /\ StartedInv /\ \A m \in Mappers : ShareInv(m)

(* How many of a set come before a place                                   *)
LEMMA BeforeFacts ==
  ASSUME NEW S \in SUBSET Nat, IsFiniteSet(S), NEW c \in Nat
  PROVE  /\ Before(S, c) \in Nat
         /\ c \in S => Before(S, c + 1) = Before(S, c) + 1
         /\ c \notin S => Before(S, c + 1) = Before(S, c)
<1>1. \A k : { j \in S : j < k } \in SUBSET S
  OBVIOUS
<1>0. \A j \in S : j \in Nat
  OBVIOUS
<1>2. \A k : IsFiniteSet({ j \in S : j < k }) /\ Cardinality({ j \in S : j < k }) \in Nat
  BY <1>1, FS_Subset, FS_CardinalityType
<1>3. CASE c \in S
  <2>1. { j \in S : j < c + 1 } = { j \in S : j < c } \cup {c}
    <3>1. \A j \in S : j < c + 1 <=> j < c \/ j = c
      BY <1>0
    <3>2. QED
      BY <1>3, <3>1
  <2>2. c \notin { j \in S : j < c }
    OBVIOUS
  <2>3. Cardinality({ j \in S : j < c } \cup {c}) = Cardinality({ j \in S : j < c }) + 1
    BY <1>2, <2>2, FS_AddElement
  <2>4. QED
    BY <1>2, <1>3, <2>1, <2>3 DEF Before
<1>4. CASE c \notin S
  <2>1. { j \in S : j < c + 1 } = { j \in S : j < c }
    <3>1. \A j \in S : j < c + 1 <=> j < c
      BY <1>0, <1>4
    <3>2. QED
      BY <3>1
  <2>2. QED
    BY <1>2, <1>4, <2>1 DEF Before
<1>5. QED
  BY <1>3, <1>4

LEMMA NthIsIt ==
  ASSUME NEW S \in SUBSET Nat, IsFiniteSet(S), NEW c \in S
  PROVE  /\ Nth(S, Before(S, c) + 1) = c
         /\ Before(S, c) + 1 \in 1 .. Cardinality(S)
<1>1. Before(S, c) \in Nat /\ Cardinality(S) \in Nat
  BY BeforeFacts, FS_CardinalityType
<1>2. ASSUME NEW k \in S, NEW l \in S, k < l PROVE Before(S, k) < Before(S, l)
  <2>0. \A j \in S : j \in Nat
    OBVIOUS
  <2>1. { j \in S : j < k + 1 } \in SUBSET { j \in S : j < l }
    <3>1. \A j \in S : j < k + 1 => j < l
      BY <1>2, <2>0
    <3>2. QED
      BY <3>1
  <2>2. { j \in S : j < l } \in SUBSET S
    OBVIOUS
  <2>3. IsFiniteSet({ j \in S : j < l })
    BY <2>2, FS_Subset
  <2>4. Before(S, k + 1) <= Before(S, l)
    BY <2>1, <2>3, FS_Subset DEF Before
  <2>5. k \in Nat /\ l \in Nat
    OBVIOUS
  <2>6. Before(S, k) \in Nat /\ Before(S, l) \in Nat /\ Before(S, k + 1) = Before(S, k) + 1
    BY <2>5, BeforeFacts
  <2>7. QED
    BY <2>4, <2>6
<1>3. ASSUME NEW k \in S, Before(S, k) = Before(S, c) PROVE k = c
  <2>1. k \in Nat /\ c \in Nat
    OBVIOUS
  <2>2. ~ (k < c) /\ ~ (c < k)
    BY <1>1, <1>2, <1>3
  <2>3. QED
    BY <2>1, <2>2
<1>4. ASSUME NEW k \in S, Before(S, k) = Before(S, c) + 1 - 1 PROVE k = c
  BY <1>1, <1>3, <1>4
<1>5. Nth(S, Before(S, c) + 1) = c
  BY <1>1, <1>4 DEF Nth
<1>6. Before(S, c) + 1 <= Cardinality(S)
  <2>1. { j \in S : j < c + 1 } \in SUBSET S
    OBVIOUS
  <2>2. Before(S, c + 1) <= Cardinality(S)
    BY <2>1, FS_Subset DEF Before
  <2>3. c \in Nat
    OBVIOUS
  <2>4. QED
    BY <2>2, <2>3, BeforeFacts
<1>7. QED
  BY <1>1, <1>5, <1>6

(* The file, the lines dealt of it, and the shares                         *)
LEMMA FileFacts ==
  ASSUME TypeOK
  PROVE  /\ input \in Seq(FileLines) /\ Len(input) \in Nat /\ DOMAIN input = 1 .. Len(input)
         /\ fin.rest \in Seq(FileLines) /\ Len(fin.rest) \in Nat
         /\ Dealt \in SUBSET Nat /\ IsFiniteSet(Dealt)
         /\ \A k \in Dealt : k \in 1 .. Len(input)
<1>1. input \in BoundedSeq(FileLines, MaxLines) /\ fin.rest \in BoundedSeq(FileLines, MaxLines)
  BY DEF TypeOK, Inputs, FileLines
<1>2. \A f \in BoundedSeq(FileLines, MaxLines) : f \in Seq(FileLines)
  BY MaxLinesAssumption DEF BoundedSeq, SeqOf
<1>3. input \in Seq(FileLines) /\ Len(input) \in Nat /\ DOMAIN input = 1 .. Len(input)
  BY <1>1, <1>2
<1>4. fin.rest \in Seq(FileLines) /\ Len(fin.rest) \in Nat
  BY <1>1, <1>2
<1>5. IsFiniteSet(1 .. Len(input))
  BY <1>3, FS_Interval
<1>6. Dealt \in SUBSET (1 .. Len(input))
  BY <1>3 DEF Dealt
<1>7. IsFiniteSet(Dealt)
  BY <1>5, <1>6, FS_Subset
<1>8. QED
  BY <1>3, <1>4, <1>6, <1>7

LEMMA ShareFacts ==
  ASSUME TypeOK, NEW m \in Mappers
  PROVE  /\ DealtTo(m) \in SUBSET Nat /\ IsFiniteSet(DealtTo(m)) /\ DealtTo(m) \subseteq Dealt
         /\ Len(Share(m)) = Cardinality(DealtTo(m)) /\ Len(Share(m)) \in Nat
         /\ DOMAIN Share(m) = 1 .. Len(Share(m))
         /\ \A j \in 1 .. Len(Share(m)) : Stream(m)[j] = Share(m)[j] /\ Stream(m)[j] # END_PIPE
         /\ Stream(m)[Len(Share(m)) + 1] = END_PIPE
<1>1. DealtTo(m) \in SUBSET Dealt
  BY DEF DealtTo
<1>2. DealtTo(m) \in SUBSET Nat /\ IsFiniteSet(DealtTo(m)) /\ Cardinality(DealtTo(m)) \in Nat
  BY <1>1, FileFacts, FS_Subset, FS_CardinalityType
<1> DEFINE N == Cardinality(DealtTo(m))
           V == { LineOf(input[Nth(DealtTo(m), j)]) : j \in 1 .. N } \cup {END_PIPE}
<1>3. \A j \in 1 .. N : Share(m)[j] = LineOf(Nth(DealtTo(m), j))
  BY DEF Share, LineOf
<1>4. DOMAIN Share(m) = 1 .. N
  BY DEF Share
<1>5. \E T : Share(m) \in Seq(T) /\ END_PIPE \in T
  <2>1. Share(m) \in [1 .. N -> { Share(m)[j] : j \in 1 .. N } \cup {END_PIPE}]
    BY DEF Share
  <2>2. Share(m) \in Seq({ Share(m)[j] : j \in 1 .. N } \cup {END_PIPE})
    BY <1>2, <2>1
  <2>3. QED
    BY <2>2
<1> HIDE DEF N, V
<1>6. N = Cardinality(DealtTo(m)) /\ N \in Nat
  BY <1>2 DEF N
<1>7. Len(Share(m)) = N
  BY <1>4, <1>5, <1>6
<1>8. /\ \A j \in 1 .. N : Stream(m)[j] = Share(m)[j]
      /\ Stream(m)[N + 1] = END_PIPE
  BY <1>5, <1>6, <1>7 DEF Stream
<1>9. ASSUME NEW j \in 1 .. N PROVE Share(m)[j] # END_PIPE
  <2>1. \A k : LineOf(k).newline # END_PIPE.newline
    BY DEF LineOf, END_PIPE
  <2>2. \A k : LineOf(k) # END_PIPE
    BY <2>1
  <2>3. QED
    BY <1>3, <2>2
<1>10. QED
  BY <1>1, <1>2, <1>4, <1>6, <1>7, <1>8, <1>9

(* The n-th line of a mapper is where the stream has it.                   *)
LEMMA StreamAt ==
  ASSUME TypeOK, NEW m \in Mappers, NEW c \in DealtTo(m)
  PROVE  Stream(m)[Before(DealtTo(m), c) + 1] = LineOf(c)
<1> DEFINE j == Before(DealtTo(m), c) + 1
<1>1. j \in 1 .. Cardinality(DealtTo(m)) /\ Nth(DealtTo(m), j) = c
  BY ShareFacts, NthIsIt
<1> HIDE DEF j
<1>2. Share(m)[j] = LineOf(c)
  BY <1>1 DEF Share, LineOf
<1>3. Stream(m)[j] = Share(m)[j]
  BY <1>1, ShareFacts
<1>4. QED
  BY <1>2, <1>3 DEF j

LEMMA StreamStays ==
  ASSUME input' = input
  PROVE  /\ Dealt' = Dealt /\ \A k : LineOf(k)' = LineOf(k)
         /\ \A m : DealtTo(m)' = DealtTo(m) /\ Share(m)' = Share(m) /\ Stream(m)' = Stream(m)
<1>1. Dealt' = Dealt
  BY DEF Dealt
<1>2. \A m : DealtTo(m)' = DealtTo(m)
  BY <1>1 DEF DealtTo
<1>3. \A m : Share(m)' = Share(m)
  BY <1>2 DEF Share
<1>4. QED
  BY <1>1, <1>2, <1>3 DEF Stream, LineOf

(* What has a place is part of the stream.                                 *)
LEMMA TotalFacts ==
  ASSUME TypeOK, NEW m \in Mappers
  PROVE  /\ IsFiniteSet(Put(m)) /\ Cardinality(Put(m)) \in Nat
         /\ Cardinality(Put(m)) <= Len(Share(m))
         /\ Total(m) \in Nat /\ Total(m) <= Len(Share(m)) + 1
<1>1. Put(m) \in SUBSET DealtTo(m)
  BY DEF Put
<1>2. IsFiniteSet(Put(m)) /\ Cardinality(Put(m)) \in Nat /\ Cardinality(Put(m)) <= Len(Share(m))
  BY <1>1, ShareFacts, FS_Subset, FS_CardinalityType
<1>3. Len(Share(m)) \in Nat
  BY ShareFacts
<1>4. QED
  BY <1>2, <1>3 DEF Total

-----------------------------------------------------------------------------
(* The slots of the window *)

LEMMA PlaceFacts ==
  ASSUME NEW p \in PipeType, WindowInv(p)
  PROVE  /\ p.length \in Nat /\ p.length <= PIPE_SIZE
         /\ \A i \in 0 .. p.length - 1 : Place(p, i) \in Slots
         /\ \A i, j \in 0 .. p.length - 1 : Place(p, i) = Place(p, j) => i = j
         /\ \A s \in Slots : p.length # 0 /\ NextSlot(s) = p.tail => s = Place(p, p.length - 1)
         /\ Place(p, 0) = p.front
<1>1. /\ p.front \in 0 .. PIPE_SIZE - 1 /\ p.length \in 0 .. PIPE_SIZE
      /\ PIPE_SIZE \in Nat \ {0}
  BY PipeSizeAssumption DEF PipeType, Slots
<1>2. /\ p.length \in Nat /\ p.length <= PIPE_SIZE /\ p.front \in Nat /\ p.front < PIPE_SIZE
  BY <1>1
<1>3. p.tail = IF p.front + p.length < PIPE_SIZE THEN p.front + p.length
               ELSE p.front + p.length - PIPE_SIZE
  BY DEF WindowInv
<1>4. \A i \in 0 .. p.length - 1 : Place(p, i) \in Slots
  BY <1>1, <1>2 DEF Place, Slots
<1>5. \A i, j \in 0 .. p.length - 1 : Place(p, i) = Place(p, j) => i = j
  BY <1>1, <1>2 DEF Place
<1>6. ASSUME NEW s \in Slots, p.length # 0, NextSlot(s) = p.tail PROVE s = Place(p, p.length - 1)
  <2>1. s \in Nat /\ s < PIPE_SIZE /\ NextSlot(s) = IF s + 1 = PIPE_SIZE THEN 0 ELSE s + 1
    BY <1>1, SlotFacts DEF Slots
  <2>2. QED
    BY <1>1, <1>2, <1>3, <1>6, <2>1 DEF Place
<1>7. Place(p, 0) = p.front
  BY <1>2 DEF Place
<1>8. QED
  BY <1>2, <1>4, <1>5, <1>6, <1>7

(* After a pop the i-th slot is the one that was behind it.                *)
LEMMA PoppedPlaces ==
  ASSUME NEW p \in PipeType, NEW q, q.front = NextSlot(p.front)
  PROVE  \A i \in 0 .. PIPE_SIZE - 2 : Place(q, i) = Place(p, i + 1)
<1>1. p.front \in 0 .. PIPE_SIZE - 1 /\ PIPE_SIZE \in Nat \ {0}
      /\ NextSlot(p.front) = IF p.front + 1 = PIPE_SIZE THEN 0 ELSE p.front + 1
  BY SlotFacts DEF PipeType, Slots
<1>2. QED
  BY <1>1 DEF Place

-----------------------------------------------------------------------------
(* What a step leaves of all that *)

LEMMA ShareStays ==
  ASSUME NEW m \in Mappers, ShareInv(m), input' = input,
         pipes'[m].queue = pipes[m].queue, pipes'[m].front = pipes[m].front,
         pipes'[m].length = pipes[m].length,
         slot'[m] = slot[m], written'[m] = written[m],
         Held(m)' = Held(m), Total(m)' = Total(m),
         mpc'[m] \in {"comparing", "writing"} =>
           mpc'[m] = mpc[m] \/ (mpc[m] = "comparing" /\ w_buf(m) # END_PIPE),
         \A i : Unfilled(m, i) => Unfilled(m, i)'
  PROVE  ShareInv(m)'
<1>1. Share(m)' = Share(m) /\ Stream(m)' = Stream(m) /\ w_buf(m)' = w_buf(m)
  BY StreamStays DEF w_buf
<1>2. CountInv(m)'
  BY <1>1 DEF ShareInv, CountInv
<1>3. WrittenInv(m)'
  BY <1>1 DEF ShareInv, WrittenInv
<1>4. \A i : Place(pipes[m], i)' = Place(pipes[m], i)
  BY DEF Place
<1>5. RingInv(m)'
  BY <1>1, <1>4 DEF ShareInv, RingInv
<1>6. QED
  BY <1>2, <1>3, <1>5 DEF ShareInv

LEMMA TotalStays ==
  ASSUME NEW m \in Mappers, Put(m)' = Put(m), MarkerSent(m)' = MarkerSent(m)
  PROVE  Total(m)' = Total(m)
BY DEF Total

LEMMA HeldStays ==
  ASSUME NEW m \in Mappers, mpc'[m] = mpc[m], m \in gaveUp' <=> m \in gaveUp
  PROVE  Held(m)' = Held(m)
BY DEF Held

(* A step of the main thread that deals no line and sends no marker        *)
LEMMA MainStays ==
  ASSUME DInv, input' = input, UNCHANGED << pipes, slot, gaveUp, written >>,
         \A m \in Mappers : Put(m)' = Put(m) /\ MarkerSent(m)' = MarkerSent(m),
         pc # "fill",
         \A m \in Mappers : mpc'[m] = mpc[m] \/ (mpc[m] = "new" /\ mpc'[m] = "setup")
  PROVE  \A m \in Mappers : ShareInv(m)'
<1> SUFFICES ASSUME NEW m \in Mappers PROVE ShareInv(m)'
  OBVIOUS
<1>1. ShareInv(m)
  BY DEF DInv
<1>2. mpc'[m] = mpc[m] \/ (mpc[m] = "new" /\ mpc'[m] = "setup")
  OBVIOUS
<1>3. Held(m)' = Held(m)
  BY <1>2 DEF Held
<1>4. Total(m)' = Total(m)
  BY TotalStays
<1>5. \A i : ~ Unfilled(m, i)
  BY DEF Unfilled
<1>6. QED
  BY <1>1, <1>2, <1>3, <1>4, <1>5, ShareStays

LEMMA ConsumedFacts ==
  ASSUME TypeOK, FileInv
  PROVE  /\ Consumed \in Nat /\ Consumed + Len(fin.rest) = Len(input)
         /\ Len(fin.rest) = 0 => Consumed = Len(input)
<1>1. Len(input) \in Nat /\ Len(fin.rest) \in Nat /\ Consumed = Len(input) - Len(fin.rest)
  BY FileFacts DEF Consumed
<1>2. Consumed \in Nat
  BY DEF FileInv
<1>3. QED
  BY <1>1, <1>2

LEMMA StreamKept ==
  ASSUME input' = input, fin' = fin
  PROVE  Consumed' = Consumed /\ \A m : DealtTo(m)' = DealtTo(m)
BY StreamStays DEF Consumed

-----------------------------------------------------------------------------
(* The main thread *)

LEMMA StartMapperDInv == ASSUME IInv, DInv, StartMapper PROVE DInv'
<1>1. /\ pc = "start" /\ started' = started + 1 /\ mpc' = [mpc EXCEPT ![started] = "setup"]
      /\ pc' \in {"start", "read"}
      /\ UNCHANGED << input, fin, str, round, ending, index, pipes, waiting, slot,
                      gaveUp, written >>
  BY DEF StartMapper
<1>2. started \in Nat /\ mpc \in [Mappers -> MapperStates] /\ Mappers \subseteq Nat
  BY MapNumAssumption DEF IInv, TypeOK, MapperStates, Mappers
<1>3. Consumed' = Consumed /\ Dealt' = Dealt /\ \A m : DealtTo(m)' = DealtTo(m)
  BY <1>1, StreamKept, StreamStays
<1>4. FileInv'
  BY <1>1, <1>3 DEF DInv, FileInv
<1>5. RoundInv'
  <2>1. round = Before(Dealt, Consumed + 1)
    BY <1>1 DEF DInv, RoundInv
  <2>2. Before(Dealt, Consumed + 1)' = Before(Dealt, Consumed + 1)
    BY <1>3 DEF Before
  <2>3. QED
    BY <1>1, <2>1, <2>2 DEF RoundInv, Dealing
<1>6. \A m \in Mappers : m >= started => mpc[m] = "new"
  BY <1>1 DEF DInv, StartedInv
<1>7. \A m \in Mappers : mpc'[m] = IF m = started THEN "setup" ELSE mpc[m]
  BY <1>1, <1>2
<1>8. StartedInv'
  <2>1. ASSUME NEW m \in Mappers, m >= started + 1 PROVE mpc'[m] = "new"
    BY <1>2, <1>6, <1>7, <2>1
  <2>2. ASSUME NEW m \in gaveUp PROVE mpc'[m] = "exited"
    <3>1. m \in Mappers /\ mpc[m] = "exited"
      BY DEF DInv, StartedInv, IInv, TypeOK
    <3>2. m # started
      BY <1>2, <1>6, <3>1
    <3>3. QED
      BY <1>7, <3>1, <3>2
  <2>3. QED
    BY <1>1, <2>1, <2>2 DEF StartedInv
<1>9. \A m \in Mappers : mpc'[m] = mpc[m] \/ (mpc[m] = "new" /\ mpc'[m] = "setup")
  BY <1>2, <1>6, <1>7
<1>10. \A m \in Mappers : Put(m)' = Put(m) /\ MarkerSent(m)' = MarkerSent(m)
  BY <1>1, <1>3 DEF Put, MarkerSent, Dealing, IInv, MainInv
<1>11. \A m \in Mappers : ShareInv(m)'
  BY <1>1, <1>9, <1>10, MainStays
<1>12. QED
  BY <1>4, <1>5, <1>8, <1>11 DEF DInv

(* getline() takes the next line of the file.                              *)
LEMMA GetLineFile ==
  ASSUME IInv, DInv, Reading, ~ fin.fail, fin' = getline, input' = input, ending' = ending
  PROVE  /\ FileInv' /\ Consumed' = Consumed + 1 /\ Consumed \in Nat
         /\ Consumed + 1 \in 1 .. Len(input) /\ input[Consumed + 1] = Head(fin.rest)
         /\ \A k \in 1 .. Consumed : input[k] # Overlong
<1>1. fin.rest \in Seq(FileLines) /\ fin.rest # << >> /\ TypeOK /\ FileInv
  BY GetLine, FileFacts DEF IInv, DInv
<1>2. /\ Consumed \in Nat /\ Consumed + Len(fin.rest) = Len(input)
      /\ Len(input) \in Nat /\ Len(fin.rest) \in Nat \ {0}
  BY <1>1, ConsumedFacts, FileFacts
<1>3. /\ fin'.rest = Tail(fin.rest) /\ fin'.fail = (Head(fin.rest) = Overlong)
      /\ fin'.eof = (Len(fin.rest) = 1 /\ Head(fin.rest) # Overlong)
  BY DEF getline
<1>4. /\ Len(fin'.rest) = Len(fin.rest) - 1 /\ Head(fin.rest) = fin.rest[1]
      /\ \A k \in 1 .. Len(fin.rest) - 1 : fin'.rest[k] = fin.rest[k + 1]
  <2>1. ASSUME NEW r \in Seq(FileLines), r # << >>
        PROVE  /\ Len(Tail(r)) = Len(r) - 1 /\ Head(r) = r[1]
               /\ \A k \in 1 .. Len(r) - 1 : Tail(r)[k] = r[k + 1]
    BY <2>1
  <2>2. QED
    BY <1>1, <1>3, <2>1
<1>5. Consumed' = Consumed + 1
  BY <1>2, <1>4 DEF Consumed
<1>6. input[Consumed + 1] = Head(fin.rest)
  BY <1>1, <1>2, <1>4 DEF FileInv
<1>7. \A k \in 1 .. Consumed : input[k] # Overlong
  BY <1>1 DEF FileInv
<1>8. ~ ending
  BY DEF IInv, MainInv, Reading
<1>9. FileInv'
  <2>1. \A k \in 1 .. Len(fin'.rest) : fin'.rest[k] = input[Consumed + 1 + k]
    BY <1>1, <1>2, <1>4 DEF FileInv
  <2>2. \A k \in 1 .. Consumed + 1 : input[k] = Overlong => k = Consumed + 1 /\ fin'.fail
    <3>1. \A k \in 1 .. Consumed + 1 : k = Consumed + 1 \/ k \in 1 .. Consumed
      BY <1>2
    <3>2. QED
      BY <1>3, <1>6, <1>7, <3>1
  <2>3. fin'.eof => Len(fin'.rest) = 0 /\ ~ fin'.fail
    <3>1. fin'.eof => Len(fin.rest) = 1 /\ ~ fin'.fail
      BY <1>3
    <3>2. QED
      BY <1>2, <1>4, <3>1
  <2>4. Consumed + 1 \in Nat
    BY <1>2
  <2>5. QED
    BY <1>5, <1>8, <2>1, <2>2, <2>3, <2>4 DEF FileInv
<1>10. QED
  BY <1>2, <1>5, <1>6, <1>7, <1>9

LEMMA ReadDInv == ASSUME IInv, DInv, ReadLine \/ SkipBlank PROVE DInv'
<1> DEFINE c == Consumed
<1>1. /\ Reading /\ ~ fin.fail /\ fin' = getline /\ pc = "read"
      /\ UNCHANGED << input, started, round, ending, index, pipes, waiting, mpc, slot,
                      gaveUp, written >>
      /\ \/ /\ str' = add_newline(Head(fin.rest)) /\ pc' = "claim"
            /\ Head(fin.rest) # Blank
         \/ UNCHANGED << str, pc >> /\ Head(fin.rest) = Blank
  BY DEF ReadLine, SkipBlank, mapperVars, Reading
<1>2. /\ FileInv' /\ Consumed' = c + 1 /\ c \in Nat
      /\ c + 1 \in 1 .. Len(input) /\ input[c + 1] = Head(fin.rest)
      /\ \A k \in 1 .. c : input[k] # Overlong
  BY <1>1, GetLineFile
<1>3. /\ Dealt' = Dealt /\ \A k : LineOf(k)' = LineOf(k)
      /\ \A m : DealtTo(m)' = DealtTo(m)
  BY <1>1, StreamStays
<1>4. Dealt \in SUBSET Nat /\ IsFiniteSet(Dealt) /\ DOMAIN input = 1 .. Len(input)
  BY FileFacts DEF IInv
<1>5. round = Before(Dealt, c + 1) /\ ~ ending
  BY <1>1 DEF DInv, RoundInv, IInv, MainInv
<1>6. c + 1 \in Dealt <=> Head(fin.rest) # Blank
  <2>1. c + 1 - 1 = c
    BY <1>2
  <2>2. QED
    BY <1>2, <1>4, <2>1 DEF Dealt
<1>7. \A m \in Mappers : \A k \in DealtTo(m) : k \in Dealt /\ k \in Nat
  BY <1>4 DEF DealtTo
<1> HIDE DEF c
<1>8. RoundInv'
  <2>1. CASE pc' = "claim" /\ str' = add_newline(Head(fin.rest)) /\ Head(fin.rest) # Blank
    <3>1. str' = LineOf(c + 1)
      BY <1>2, <2>1 DEF add_newline, LineOf
    <3>2. Before(Dealt, Consumed)' = Before(Dealt, c + 1)
      BY <1>2, <1>3 DEF Before
    <3>3. LineOf(Consumed)' = LineOf(c + 1)
      BY <1>1, <1>2 DEF LineOf
    <3>4. QED
      BY <1>1, <1>2, <1>3, <1>5, <1>6, <2>1, <3>1, <3>2, <3>3 DEF RoundInv
  <2>2. CASE pc' = pc /\ Head(fin.rest) = Blank
    <3>1. c + 1 \in Nat /\ c + 1 \notin Dealt
      BY <1>2, <1>6, <2>2
    <3>2. Before(Dealt, c + 1 + 1) = Before(Dealt, c + 1)
      BY <1>4, <3>1, BeforeFacts
    <3>3. Before(Dealt, Consumed + 1)' = Before(Dealt, c + 1 + 1)
      BY <1>2, <1>3 DEF Before
    <3>4. QED
      BY <1>1, <1>5, <2>2, <3>2, <3>3 DEF RoundInv, Dealing
  <2>3. QED
    BY <1>1, <2>1, <2>2
<1>9. StartedInv'
  BY <1>1 DEF DInv, StartedInv
<1>10. ASSUME NEW m \in Mappers PROVE Put(m)' = Put(m) /\ MarkerSent(m)' = MarkerSent(m)
  <2>1. MarkerSent(m)' = MarkerSent(m)
    BY <1>1, <1>5 DEF MarkerSent
  <2>2. Put(m)' = { k \in DealtTo(m) : k <= c + 1 /\ ~ (Dealing' /\ pc' = "claim" /\ k = c + 1) }
    BY <1>2, <1>3 DEF Put
  <2>3. Put(m) = { k \in DealtTo(m) : k <= c }
    BY <1>1 DEF Put, c
  <2>4. ASSUME NEW k \in DealtTo(m)
        PROVE  k <= c + 1 /\ ~ (Dealing' /\ pc' = "claim" /\ k = c + 1) <=> k <= c
    <3>1. k \in Dealt /\ k \in Nat
      BY <1>7
    <3>2. k = c + 1 => pc' = "claim" /\ Dealing'
      BY <1>1, <1>5, <1>6, <3>1 DEF Dealing
    <3>3. QED
      BY <1>2, <3>1, <3>2
  <2>5. Put(m)' = Put(m)
    BY <2>2, <2>3, <2>4
  <2>6. QED
    BY <2>1, <2>5
<1>11. \A m \in Mappers : ShareInv(m)'
  BY <1>1, <1>10, MainStays
<1>12. QED
  BY <1>2, <1>8, <1>9, <1>11 DEF DInv

LEMMA BeginEndDInv == ASSUME IInv, DInv, BeginEnd PROVE DInv'
<1>1. /\ pc = "read" /\ fin.eof /\ str' = END_PIPE /\ round' = 0 /\ ending' = TRUE
      /\ pc' = "claim"
      /\ UNCHANGED << input, fin, started, index, pipes, waiting, mpc, slot, gaveUp, written >>
  BY DEF BeginEnd, mapperVars
<1>2. ~ ending /\ Mappers \subseteq Nat
  BY <1>1, MapNumAssumption DEF IInv, MainInv, Mappers
<1>3. Consumed' = Consumed /\ \A m : DealtTo(m)' = DealtTo(m)
  BY <1>1, StreamKept
<1>4. FileInv' /\ RoundInv' /\ StartedInv'
  BY <1>1, <1>3 DEF DInv, FileInv, RoundInv, StartedInv, Dealing
<1>5. \A m \in Mappers : Put(m)' = Put(m)
  BY <1>1, <1>3 DEF Put, Dealing
<1>6. \A m \in Mappers : MarkerSent(m)' = MarkerSent(m)
  BY <1>1, <1>2 DEF MarkerSent
<1>7. \A m \in Mappers : ShareInv(m)'
  BY <1>1, <1>5, <1>6, MainStays
<1>8. QED
  BY <1>4, <1>7 DEF DInv

LEMMA LeaveDInv == ASSUME IInv, DInv, StartMapperFails \/ Join PROVE DInv'
<1>1. /\ pc \in {"start", "join"} /\ pc' \in {"exit", "joined"}
      /\ UNCHANGED << input, fin, started, str, round, ending, index, pipes, waiting, mpc, slot,
                      gaveUp, written >>
  BY DEF StartMapperFails, Join, mapperVars
<1>2. Consumed' = Consumed /\ \A m : DealtTo(m)' = DealtTo(m)
  BY <1>1, StreamKept
<1>3. FileInv' /\ RoundInv' /\ StartedInv'
  BY <1>1, <1>2 DEF DInv, FileInv, RoundInv, StartedInv, Dealing
<1>4. \A m \in Mappers : Put(m)' = Put(m) /\ MarkerSent(m)' = MarkerSent(m)
  BY <1>1, <1>2 DEF Put, Dealing, MarkerSent
<1>5. \A m \in Mappers : ShareInv(m)'
  BY <1>1, <1>4, MainStays
<1>6. QED
  BY <1>3, <1>5 DEF DInv

(* The line in hand gets its place when a slot is claimed for it.          *)
LEMMA ClaimTotals ==
  ASSUME IInv, DInv, pc = "claim", pc' = "fill", UNCHANGED << input, fin, round, ending >>,
         NEW m \in Mappers
  PROVE  Total(m)' = IF m = Target THEN Total(m) + 1 ELSE Total(m)
<1> DEFINE c == Consumed
<1>1. TypeOK /\ Consumed' = c /\ DealtTo(m)' = DealtTo(m) /\ c \in Nat
  BY StreamKept, ConsumedFacts DEF IInv, DInv
<1>2. \A k \in DealtTo(m) : k \in Nat
  BY <1>1, ShareFacts
<1>3. m \in Nat /\ m < map_num /\ round \in Nat /\ (round < map_num => Target = round)
  BY <1>1, TargetFacts, MapNumAssumption DEF TypeOK, Mappers
<1>4. CASE ~ ending
  <2>1. c \in Dealt /\ round = Before(Dealt, c)
    BY <1>4 DEF DInv, RoundInv, Dealing
  <2>2. c \in DealtTo(m) <=> m = Target
    BY <2>1 DEF DealtTo, Target
  <2>3. Put(m)' = { k \in DealtTo(m) : k <= c }
    BY <1>1 DEF Put
  <2>4. Put(m) = { k \in DealtTo(m) : k <= c /\ k # c }
    BY <1>4 DEF Put, Dealing
  <2>5. ~ MarkerSent(m) /\ ~ MarkerSent(m)'
    BY <1>4 DEF MarkerSent
  <2> HIDE DEF c
  <2>6. CASE m = Target
    <3>1. \A k \in DealtTo(m) : k <= c <=> (k <= c /\ k # c) \/ k = c
      BY <1>1, <1>2
    <3>2. Put(m)' = Put(m) \cup {c} /\ c \notin Put(m)
      BY <2>2, <2>3, <2>4, <2>6, <3>1
    <3>3. Cardinality(Put(m)') = Cardinality(Put(m)) + 1
      BY <1>1, <3>2, TotalFacts, FS_AddElement
    <3>4. Cardinality(Put(m)) \in Nat
      BY <1>1, TotalFacts
    <3>5. QED
      BY <2>5, <2>6, <3>3, <3>4 DEF Total
  <2>7. CASE m # Target
    <3>1. Put(m)' = Put(m)
      BY <2>2, <2>3, <2>4, <2>7
    <3>2. QED
      BY <2>5, <2>7, <3>1 DEF Total
  <2>8. QED
    BY <2>6, <2>7
<1>5. CASE ending
  <2>1. Put(m)' = Put(m)
    BY <1>1, <1>5 DEF Put, Dealing
  <2>2. Target = round
    BY <1>3, <1>5 DEF IInv, MainInv
  <2>3. MarkerSent(m) <=> round > m
    BY <1>5 DEF MarkerSent
  <2>4. MarkerSent(m)' <=> round > m \/ round = m
    BY <1>5 DEF MarkerSent
  <2>5. Cardinality(Put(m)) \in Nat
    BY <1>1, TotalFacts
  <2>6. MarkerSent(m)' <=> MarkerSent(m) \/ m = Target
    BY <2>2, <2>3, <2>4
  <2>7. m = Target => ~ MarkerSent(m)
    BY <1>3, <2>2, <2>3
  <2>8. QED
    BY <2>1, <2>5, <2>6, <2>7 DEF Total
<1>6. QED
  BY <1>4, <1>5

LEMMA ClaimDInv == ASSUME IInv, DInv, Claim PROVE DInv'
<1>0. PICK t \in Mappers : t = Target
  BY TargetFacts DEF IInv
<1> DEFINE p == pipes[t]
           q == get_free_item(p)
<1>1. /\ pc = "claim" /\ HasFreeItem(p) /\ pipes' = [pipes EXCEPT ![t] = q] /\ pc' = "fill"
      /\ UNCHANGED << input, fin, started, str, round, ending, waiting, mpc, slot,
                      gaveUp, written >>
  BY <1>0 DEF Claim, mapperVars
<1>2. p \in PipeType /\ WindowInv(p) /\ pipes \in [Mappers -> PipeType]
  BY DEF IInv, TypeOK, PipeInv
<1>3. /\ q.queue = p.queue /\ q.front = p.front /\ q.length = p.length + 1 /\ p.length \in Nat
  BY <1>2, PlaceFacts DEF get_free_item, PipeType
<1>4. pipes'[t] = q /\ \A m \in Mappers \ {t} : pipes'[m] = pipes[m]
  BY <1>1, <1>2
<1>5. /\ Consumed' = Consumed /\ Dealt' = Dealt /\ \A k : LineOf(k)' = LineOf(k)
      /\ \A m : Share(m)' = Share(m) /\ Stream(m)' = Stream(m)
  BY <1>1, StreamKept, StreamStays
<1>6. FileInv' /\ StartedInv'
  BY <1>1, <1>5 DEF DInv, FileInv, StartedInv
<1>7. RoundInv'
  <2>1. Before(Dealt, Consumed)' = Before(Dealt, Consumed) /\ LineOf(Consumed)' = LineOf(Consumed)
    BY <1>1, <1>5 DEF Before, LineOf
  <2>2. QED
    BY <1>1, <1>5, <2>1 DEF DInv, RoundInv, Dealing
<1>8. \A m \in Mappers : Held(m)' = Held(m)
  BY <1>1, HeldStays
<1>9. \A m \in Mappers : Total(m)' = IF m = t THEN Total(m) + 1 ELSE Total(m)
  BY <1>0, <1>1, ClaimTotals
<1>10. Target' = t
  BY <1>0, <1>1 DEF Target
<1> HIDE DEF q, p
<1>11. ShareInv(t)'
  <2>0. /\ CountInv(t) /\ WrittenInv(t) /\ RingInv(t) /\ pipes[t] = p
        /\ pipes'[t].queue = p.queue /\ pipes'[t].front = p.front
        /\ pipes'[t].length = p.length + 1
    BY <1>3, <1>4 DEF DInv, ShareInv, p
  <2>1. CountInv(t)'
    <3>1. /\ Len(written[t]) + Held(t) + p.length = Total(t)
          /\ Len(written[t]) <= Len(Share(t))
      BY <2>0 DEF CountInv
    <3>2. Len(written[t]) \in Nat /\ Held(t) \in Nat
      BY DEF IInv, TypeOK, Held
    <3>3. Len(written[t]) + Held(t) + (p.length + 1) = Total(t) + 1
      BY <1>3, <3>1, <3>2
    <3>4. QED
      BY <1>1, <1>5, <1>8, <1>9, <2>0, <3>1, <3>3 DEF CountInv
  <2>2. w_buf(t)' = w_buf(t)
    BY <1>1, <2>0 DEF w_buf
  <2>3. WrittenInv(t)'
    BY <1>1, <1>5, <2>0, <2>2 DEF WrittenInv
  <2>4. \A i : Place(pipes[t], i)' = Place(p, i)
    BY <2>0 DEF Place
  <2>5. ASSUME NEW i \in 0 .. p.length, ~ Unfilled(t, i)'
        PROVE  p.queue[Place(p, i)] = Stream(t)[Len(written[t]) + Held(t) + i + 1]
    <3>0. Unfilled(t, i)' <=> i = pipes'[t].length - 1
      BY <1>1, <1>10 DEF Unfilled
    <3>1. i # p.length
      BY <1>3, <2>0, <2>5, <3>0
    <3>2. i \in 0 .. p.length - 1
      BY <1>3, <3>1
    <3>3. ~ Unfilled(t, i)
      BY <1>1 DEF Unfilled
    <3>4. QED
      BY <2>0, <3>2, <3>3 DEF RingInv
  <2>6. RingInv(t)'
    <3>1. pipes'[t].length - 1 = p.length
      BY <1>3, <2>0
    <3>2. QED
      BY <1>1, <1>5, <1>8, <2>0, <2>4, <2>5, <3>1 DEF RingInv
  <2>7. QED
    BY <2>1, <2>3, <2>6 DEF ShareInv
<1>12. ASSUME NEW m \in Mappers PROVE ShareInv(m)'
  <2>1. CASE m = t
    BY <1>11, <2>1
  <2>2. CASE m # t
    <3>1. ShareInv(m) /\ pipes'[m] = pipes[m] /\ Held(m)' = Held(m) /\ Total(m)' = Total(m)
      BY <1>4, <1>8, <1>9, <2>2 DEF DInv
    <3>2. \A i : ~ Unfilled(m, i)
      BY <1>1 DEF Unfilled
    <3>3. QED
      BY <1>1, <3>1, <3>2, ShareStays
  <2>3. QED
    BY <2>1, <2>2
<1>13. QED
  BY <1>6, <1>7, <1>12 DEF DInv

(* What the main thread has in hand belongs at the end of all that has a   *)
(* place in the ring.                                                      *)
LEMMA LastPlace ==
  ASSUME IInv, DInv, pc = "fill", NEW t \in Mappers, t = Target
  PROVE  Stream(t)[Total(t)] = str
<1> DEFINE c == Consumed
<1>1. TypeOK /\ FileInv /\ c \in Nat /\ (Len(fin.rest) = 0 => c = Len(input))
  BY ConsumedFacts DEF IInv, DInv
<1>2. /\ DealtTo(t) \in SUBSET Nat /\ IsFiniteSet(DealtTo(t)) /\ DealtTo(t) \subseteq Dealt
      /\ Len(Share(t)) = Cardinality(DealtTo(t)) /\ Stream(t)[Len(Share(t)) + 1] = END_PIPE
  BY <1>1, ShareFacts
<1>3. Put(t) = { k \in DealtTo(t) : k <= c }
  BY DEF Put
<1>4. CASE ~ ending
  <2>1. c \in Dealt /\ round = Before(Dealt, c) /\ str = LineOf(c)
    BY <1>4 DEF DInv, RoundInv, Dealing
  <2>2. c \in DealtTo(t)
    BY <2>1 DEF DealtTo, Target
  <2> HIDE DEF c
  <2>3. Put(t) = { k \in DealtTo(t) : k < c + 1 }
    <3>1. \A k \in DealtTo(t) : k \in Nat
      BY <1>2
    <3>2. \A k \in DealtTo(t) : k <= c <=> k < c + 1
      BY <1>1, <3>1
    <3>3. QED
      BY <1>3, <3>2
  <2>4. Cardinality(Put(t)) = Before(DealtTo(t), c + 1)
    BY <2>3 DEF Before
  <2>5. Before(DealtTo(t), c) \in Nat /\ Before(DealtTo(t), c + 1) = Before(DealtTo(t), c) + 1
    BY <1>1, <1>2, <2>2, BeforeFacts
  <2>6. Total(t) = Before(DealtTo(t), c) + 1
    BY <1>4, <2>4, <2>5 DEF Total, MarkerSent
  <2>7. Stream(t)[Before(DealtTo(t), c) + 1] = LineOf(c)
    BY <1>1, <2>2, StreamAt
  <2>8. QED
    BY <2>1, <2>6, <2>7
<1>5. CASE ending
  <2>1. str = END_PIPE /\ round = t
    BY <1>1, <1>5, TargetFacts DEF IInv, MainInv
  <2>2. c = Len(input)
    BY <1>1, <1>5 DEF FileInv
  <2>3. Put(t) = DealtTo(t)
    <3>1. \A k \in DealtTo(t) : k \in 1 .. Len(input)
      BY <1>1, <1>2, FileFacts
    <3>2. \A k \in DealtTo(t) : k <= c
      BY <1>1, <2>2, <3>1
    <3>3. QED
      BY <1>3, <3>2
  <2>4. MarkerSent(t)
    BY <1>5, <2>1 DEF MarkerSent
  <2>5. Total(t) = Len(Share(t)) + 1
    BY <1>2, <2>3, <2>4 DEF Total
  <2>6. QED
    BY <1>2, <2>1, <2>5
<1>6. QED
  BY <1>4, <1>5

LEMMA FillDInv == ASSUME IInv, DInv, Fill PROVE DInv'
<1>0. PICK t \in Mappers : t = Target
  BY TargetFacts DEF IInv
<1> DEFINE p == pipes[t]
           q == CopyInto(p, index, str)
<1>1. /\ pc = "fill" /\ pipes' = [pipes EXCEPT ![t] = q] /\ pc' = "push"
      /\ UNCHANGED << input, fin, started, str, round, ending, index, waiting, mpc, slot,
                      gaveUp, written >>
  BY <1>0 DEF Fill, mapperVars
<1>2. p \in PipeType /\ PipeInv(t) /\ WindowInv(p) /\ pipes \in [Mappers -> PipeType]
      /\ index \in Slots /\ str \in PipeLines /\ p.flag[index] = 0 /\ NextSlot(index) = p.tail
  BY <1>0, <1>1 DEF IInv, TypeOK, PipeInv, MainInv
<1>3. /\ q.queue = [p.queue EXCEPT ![index] = str] /\ q.front = p.front /\ q.length = p.length
  BY <1>2, FillEffect
<1>4. q.queue[index] = str /\ \A s \in Slots \ {index} : q.queue[s] = p.queue[s]
  BY <1>2, <1>3 DEF PipeType
<1>5. pipes'[t] = q /\ \A m \in Mappers \ {t} : pipes'[m] = pipes[m]
  BY <1>1, <1>2
<1>6. /\ Consumed' = Consumed /\ Dealt' = Dealt /\ \A k : LineOf(k)' = LineOf(k)
      /\ \A m : DealtTo(m)' = DealtTo(m) /\ Share(m)' = Share(m) /\ Stream(m)' = Stream(m)
  BY <1>1, StreamKept, StreamStays
<1>7. FileInv' /\ StartedInv'
  BY <1>1, <1>6 DEF DInv, FileInv, StartedInv
<1>8. RoundInv'
  <2>1. Before(Dealt, Consumed)' = Before(Dealt, Consumed) /\ LineOf(Consumed)' = LineOf(Consumed)
    BY <1>1, <1>6 DEF Before, LineOf
  <2>2. QED
    BY <1>1, <1>6, <2>1 DEF DInv, RoundInv, Dealing
<1>9. \A m \in Mappers : Held(m)' = Held(m)
  BY <1>1, HeldStays
<1>10. ASSUME NEW m \in Mappers PROVE Total(m)' = Total(m)
  <2>1. Put(m)' = Put(m) /\ MarkerSent(m)' = MarkerSent(m)
    BY <1>1, <1>6 DEF Put, MarkerSent
  <2>2. QED
    BY <2>1, TotalStays
<1> HIDE DEF q, p
<1>11. ShareInv(t)'
  <2>0. /\ CountInv(t) /\ WrittenInv(t) /\ RingInv(t) /\ pipes[t] = p
        /\ pipes'[t].queue = q.queue /\ pipes'[t].front = p.front /\ pipes'[t].length = p.length
    BY <1>3, <1>5 DEF DInv, ShareInv, p
  <2>1. CountInv(t)'
    BY <1>1, <1>6, <1>9, <1>10, <2>0 DEF CountInv
  <2>2. mpc[t] \in {"comparing", "writing"} => w_buf(t)' = w_buf(t)
    <3>1. slot[t] \in Slots
      BY DEF IInv, TypeOK
    <3>2. mpc[t] \in {"comparing", "writing"} => p.flag[slot[t]] = 1
      BY <1>2, <2>0 DEF PipeInv, MapperInv
    <3>3. mpc[t] \in {"comparing", "writing"} => slot[t] # index
      BY <1>2, <3>2
    <3>4. QED
      BY <1>1, <1>4, <2>0, <3>1, <3>3 DEF w_buf
  <2>3. WrittenInv(t)'
    BY <1>1, <1>6, <2>0, <2>2 DEF WrittenInv
  <2>4. \A i : Place(pipes[t], i)' = Place(p, i)
    BY <2>0 DEF Place
  <2>5. ASSUME NEW i \in 0 .. p.length - 1
        PROVE  q.queue[Place(p, i)] = Stream(t)[Len(written[t]) + Held(t) + i + 1]
    <3>1. /\ p.length \in Nat /\ p.length # 0 /\ Place(p, i) \in Slots
          /\ p.length - 1 \in 0 .. p.length - 1
          /\ Place(p, i) = Place(p, p.length - 1) => i = p.length - 1
          /\ index = Place(p, p.length - 1)
      <4>1. p.length \in Nat
        BY <1>2, PlaceFacts
      <4>2. p.length # 0 /\ p.length - 1 \in 0 .. p.length - 1
        BY <4>1
      <4>3. Place(p, i) \in Slots /\ (Place(p, i) = Place(p, p.length - 1) => i = p.length - 1)
        BY <1>2, <4>2, PlaceFacts
      <4>4. index = Place(p, p.length - 1)
        BY <1>2, <4>2, PlaceFacts
      <4>5. QED
        BY <4>1, <4>2, <4>3, <4>4
    <3>2. CASE i = p.length - 1
      <4>1. Len(written[t]) \in Nat /\ Held(t) \in Nat
        BY DEF IInv, TypeOK, Held
      <4>2. Len(written[t]) + Held(t) + i + 1 = Total(t)
        BY <2>0, <3>1, <3>2, <4>1 DEF CountInv
      <4>3. Stream(t)[Total(t)] = str
        BY <1>0, <1>1, LastPlace
      <4>4. QED
        BY <1>4, <3>1, <3>2, <4>2, <4>3
    <3>3. CASE i # p.length - 1
      <4>1. ~ Unfilled(t, i)
        BY <2>0, <3>3 DEF Unfilled
      <4>2. q.queue[Place(p, i)] = p.queue[Place(p, i)]
        BY <1>4, <3>1, <3>3
      <4>3. QED
        BY <2>0, <4>1, <4>2 DEF RingInv
    <3>4. QED
      BY <3>2, <3>3
  <2>6. RingInv(t)'
    BY <1>1, <1>6, <1>9, <2>0, <2>4, <2>5 DEF RingInv
  <2>7. QED
    BY <2>1, <2>3, <2>6 DEF ShareInv
<1>12. ASSUME NEW m \in Mappers PROVE ShareInv(m)'
  <2>1. CASE m = t
    BY <1>11, <2>1
  <2>2. CASE m # t
    <3>1. ShareInv(m) /\ pipes'[m] = pipes[m] /\ Held(m)' = Held(m) /\ Total(m)' = Total(m)
      BY <1>5, <1>9, <1>10, <2>2 DEF DInv
    <3>2. \A i : ~ Unfilled(m, i)
      BY <1>0, <2>2 DEF Unfilled
    <3>3. QED
      BY <1>1, <3>1, <3>2, ShareStays
  <2>3. QED
    BY <2>1, <2>2
<1>13. QED
  BY <1>7, <1>8, <1>12 DEF DInv

LEMMA PushDInv == ASSUME IInv, DInv, Push PROVE DInv'
<1>0. PICK t \in Mappers : t = Target
  BY TargetFacts DEF IInv
<1> DEFINE p == pipes[t]
           q == push_item(p, index)
<1>1. /\ pc = "push" /\ pipes' = [pipes EXCEPT ![t] = q] /\ round' = round + 1
      /\ pc' = IF ~ ending THEN "read" ELSE IF round + 1 < map_num THEN "claim" ELSE "join"
      /\ UNCHANGED << input, fin, started, str, ending, index, mpc, slot, gaveUp, written >>
  BY <1>0 DEF Push, mapperVars
<1>2. p \in PipeType /\ pipes \in [Mappers -> PipeType] /\ round \in Nat
      /\ map_num \in Nat /\ (ending => round < map_num)
  BY <1>1, MapNumAssumption DEF IInv, TypeOK, MainInv
<1>3. q.queue = p.queue /\ q.front = p.front /\ q.length = p.length
  BY <1>2 DEF push_item, PipeType
<1>4. pipes'[t] = q /\ \A m \in Mappers \ {t} : pipes'[m] = pipes[m]
  BY <1>1, <1>2
<1> HIDE DEF q
<1>5. \A m \in Mappers : /\ pipes'[m].queue = pipes[m].queue
                         /\ pipes'[m].front = pipes[m].front
                         /\ pipes'[m].length = pipes[m].length
  BY <1>3, <1>4
<1>6. /\ Consumed' = Consumed /\ Dealt' = Dealt
      /\ \A m : DealtTo(m)' = DealtTo(m)
  BY <1>1, StreamKept, StreamStays
<1>7. FileInv' /\ StartedInv'
  BY <1>1, <1>6 DEF DInv, FileInv, StartedInv
<1>8. RoundInv'
  <2>1. CASE ~ ending
    <3>1. Consumed \in Dealt /\ round = Before(Dealt, Consumed)
      BY <1>1, <2>1 DEF DInv, RoundInv, Dealing
    <3>2. Dealt \in SUBSET Nat /\ IsFiniteSet(Dealt) /\ Consumed \in Nat
      BY FileFacts DEF IInv, DInv, FileInv
    <3>3. Before(Dealt, Consumed + 1) = round + 1
      BY <3>1, <3>2, BeforeFacts
    <3>4. Before(Dealt, Consumed + 1)' = Before(Dealt, Consumed + 1)
      BY <1>6 DEF Before
    <3>5. QED
      BY <1>1, <2>1, <3>3, <3>4 DEF RoundInv, Dealing
  <2>2. CASE ending
    BY <1>1, <2>2 DEF RoundInv, Dealing
  <2>3. QED
    BY <2>1, <2>2
<1>9. ASSUME NEW m \in Mappers PROVE Total(m)' = Total(m)
  <2>1. Put(m)' = Put(m)
    <3>1. ~ (pc = "claim") /\ ~ (Dealing' /\ pc' = "claim")
      BY <1>1 DEF Dealing
    <3>2. QED
      BY <1>6, <3>1 DEF Put
  <2>2. m \in Nat /\ m < map_num
    BY MapNumAssumption DEF Mappers
  <2>3. CASE ~ ending
    BY <1>1, <2>1, <2>3 DEF MarkerSent, Total
  <2>4. CASE ending
    <3>1. MarkerSent(m) <=> round > m \/ round = m
      BY <1>1, <2>4 DEF MarkerSent
    <3>2. MarkerSent(m)' <=> round + 1 > m \/ (round + 1 = m /\ pc' # "claim")
      BY <1>1, <2>4 DEF MarkerSent
    <3>3. round + 1 = m => pc' = "claim"
      BY <1>1, <2>2, <2>4
    <3>4. MarkerSent(m)' <=> MarkerSent(m)
      BY <1>2, <2>2, <3>1, <3>2, <3>3
    <3>5. QED
      BY <2>1, <3>4 DEF Total
  <2>5. QED
    BY <2>3, <2>4
<1>10. ASSUME NEW m \in Mappers PROVE ShareInv(m)'
  <2>1. ShareInv(m) /\ Held(m)' = Held(m) /\ Total(m)' = Total(m)
    BY <1>1, <1>9, HeldStays DEF DInv
  <2>2. \A i : ~ Unfilled(m, i)
    BY <1>1 DEF Unfilled
  <2>3. QED
    BY <1>1, <1>5, <2>1, <2>2, ShareStays
<1>11. QED
  BY <1>7, <1>8, <1>10 DEF DInv

-----------------------------------------------------------------------------
(* A mapper thread *)

(* What a step of a mapper has to respect                                  *)
LEMMA MapperStepDInv ==
  ASSUME IInv, DInv, NEW m \in Mappers, UNCHANGED mainVars, ShareInv(m)',
         \/ mpc'[m] = mpc[m] /\ (m \in gaveUp' => m \in gaveUp)
         \/ mpc[m] \notin {"new", "exited"} /\ (m \in gaveUp' => mpc'[m] = "exited"),
         \A n \in Mappers \ {m} : /\ pipes'[n] = pipes[n] /\ mpc'[n] = mpc[n]
                                  /\ slot'[n] = slot[n] /\ written'[n] = written[n],
         gaveUp \subseteq gaveUp', gaveUp' \subseteq gaveUp \cup {m}
  PROVE  DInv'
<1>1. UNCHANGED << input, fin, pc, started, str, round, ending, index >>
  BY DEF mainVars
<1>2. /\ Consumed' = Consumed /\ Dealt' = Dealt
      /\ \A k : DealtTo(k)' = DealtTo(k)
  BY <1>1, StreamKept, StreamStays
<1>3. FileInv'
  BY <1>1, <1>2 DEF DInv, FileInv
<1>4. RoundInv'
  <2>1. /\ Before(Dealt, Consumed)' = Before(Dealt, Consumed)
        /\ Before(Dealt, Consumed + 1)' = Before(Dealt, Consumed + 1)
        /\ LineOf(Consumed)' = LineOf(Consumed)
    BY <1>1, <1>2 DEF Before, LineOf
  <2>2. QED
    BY <1>1, <1>2, <2>1 DEF DInv, RoundInv, Dealing
<1>5. StartedInv'
  <2>1. StartedInv /\ gaveUp \subseteq Mappers
    BY DEF DInv, IInv, TypeOK
  <2>2. ASSUME pc = "start", NEW n \in Mappers, n >= started PROVE mpc'[n] = "new"
    BY <2>1, <2>2 DEF StartedInv
  <2>3. ASSUME NEW n \in gaveUp' PROVE mpc'[n] = "exited"
    BY <2>1 DEF StartedInv
  <2>4. QED
    BY <1>1, <2>2, <2>3 DEF StartedInv
<1>6. ASSUME NEW n \in Mappers \ {m} PROVE ShareInv(n)'
  <2>1. /\ pipes'[n] = pipes[n] /\ mpc'[n] = mpc[n] /\ slot'[n] = slot[n]
        /\ written'[n] = written[n] /\ (n \in gaveUp' <=> n \in gaveUp) /\ n \in Mappers
    OBVIOUS
  <2>2. Held(n)' = Held(n)
    BY <2>1, HeldStays
  <2>3. Put(n)' = Put(n) /\ MarkerSent(n)' = MarkerSent(n)
    BY <1>1, <1>2 DEF Put, Dealing, MarkerSent
  <2>4. Total(n)' = Total(n)
    BY <2>1, <2>3, TotalStays
  <2>5. \A i : Unfilled(n, i) => Unfilled(n, i)'
    BY <1>1, <2>1 DEF Unfilled, Target
  <2>6. ShareInv(n)
    BY <2>1 DEF DInv
  <2>7. QED
    BY <1>1, <2>1, <2>2, <2>4, <2>5, <2>6, ShareStays
<1>7. QED
  BY <1>3, <1>4, <1>5, <1>6 DEF DInv

(* The share, what has a place, and the slot to be filled are the main     *)
(* thread's.                                                               *)
LEMMA MapperLeaves ==
  ASSUME NEW m \in Mappers, UNCHANGED mainVars
  PROVE  /\ input' = input /\ Total(m)' = Total(m)
         /\ Share(m)' = Share(m) /\ Stream(m)' = Stream(m)
         /\ pipes'[m].length = pipes[m].length => \A i : Unfilled(m, i) => Unfilled(m, i)'
<1>1. UNCHANGED << input, fin, pc, started, str, round, ending, index >>
  BY DEF mainVars
<1>2. Consumed' = Consumed /\ DealtTo(m)' = DealtTo(m)
  BY <1>1, StreamKept
<1>3. Put(m)' = Put(m) /\ MarkerSent(m)' = MarkerSent(m)
  BY <1>1, <1>2 DEF Put, Dealing, MarkerSent
<1>4. Total(m)' = Total(m)
  BY <1>3, TotalStays
<1>5. pipes'[m].length = pipes[m].length => \A i : Unfilled(m, i) => Unfilled(m, i)'
  BY <1>1 DEF Unfilled, Target
<1>6. QED
  BY <1>1, <1>4, <1>5, StreamStays

(* Steps that take nothing off the ring and write nothing                  *)
LEMMA StillDInv ==
  ASSUME IInv, DInv, NEW m \in Mappers,
         SetUp(m) \/ SetUpFails(m) \/ CondWait(m) \/ SpuriousWakeup(m) \/ SeeEnd(m)
           \/ SeeLine(m) \/ Finish(m)
  PROVE  DInv'
<1>1. /\ UNCHANGED mainVars /\ UNCHANGED << pipes, slot, written >>
      /\ gaveUp \subseteq gaveUp' /\ gaveUp' \subseteq gaveUp \cup {m}
  BY DEF SetUp, SetUpFails, CondWait, SpuriousWakeup, SeeEnd, SeeLine, Finish, mapperVars
<1>2. /\ \A n \in Mappers \ {m} : mpc'[n] = mpc[n]
      /\ \/ mpc'[m] = mpc[m] /\ gaveUp' = gaveUp
         \/ mpc[m] = "setup" /\ mpc'[m] = "popping" /\ gaveUp' = gaveUp
         \/ mpc[m] = "setup" /\ mpc'[m] = "exited" /\ m \in gaveUp'
         \/ mpc[m] = "comparing" /\ mpc'[m] = "closing" /\ gaveUp' = gaveUp
         \/ mpc[m] = "comparing" /\ mpc'[m] = "writing" /\ gaveUp' = gaveUp
              /\ w_buf(m) # END_PIPE
         \/ mpc[m] = "closing" /\ mpc'[m] = "exited" /\ gaveUp' = gaveUp
  BY MapperEffect
     DEF SetUp, SetUpFails, CondWait, SpuriousWakeup, SeeEnd, SeeLine, Finish, mapperVars,
         MapperStates
<1>3. m \in gaveUp => mpc[m] = "exited"
  BY DEF DInv, StartedInv
<1>4. Held(m)' = Held(m)
  BY <1>2, <1>3 DEF Held
<1>5. ShareInv(m)'
  <2>1. mpc'[m] \in {"comparing", "writing"} =>
           mpc'[m] = mpc[m] \/ (mpc[m] = "comparing" /\ w_buf(m) # END_PIPE)
    BY <1>2
  <2>2. ShareInv(m) /\ input' = input /\ Total(m)' = Total(m)
        /\ \A i : Unfilled(m, i) => Unfilled(m, i)'
    BY <1>1, MapperLeaves DEF DInv
  <2>3. QED
    BY <1>1, <1>4, <2>1, <2>2, ShareStays
<1>6. \/ mpc'[m] = mpc[m] /\ (m \in gaveUp' => m \in gaveUp)
      \/ mpc[m] \notin {"new", "exited"} /\ (m \in gaveUp' => mpc'[m] = "exited")
  BY <1>2, <1>3
<1>7. QED
  BY <1>1, <1>2, <1>5, <1>6, MapperStepDInv

LEMMA NotifyDInv == ASSUME IInv, DInv, NEW m \in Mappers, Notify(m) PROVE DInv'
<1> DEFINE q == notify_used_end(pipes[m], slot[m])
<1>1. /\ Mapper(m, "notifying", "popping") /\ pipes' = [pipes EXCEPT ![m] = q]
      /\ UNCHANGED mainVars /\ UNCHANGED << waiting, slot, gaveUp, written >>
  BY DEF Notify
<1>2. /\ mpc[m] = "notifying" /\ mpc'[m] = "popping" /\ \A n \in Mappers \ {m} : mpc'[n] = mpc[n]
  BY <1>1, MapperEffect DEF MapperStates
<1>3. pipes[m] \in PipeType /\ pipes \in [Mappers -> PipeType]
  BY DEF IInv, TypeOK
<1>4. q.queue = pipes[m].queue /\ q.front = pipes[m].front /\ q.length = pipes[m].length
  BY <1>3 DEF notify_used_end, PipeType
<1> HIDE DEF q
<1>5. /\ pipes'[m].queue = pipes[m].queue /\ pipes'[m].front = pipes[m].front
      /\ pipes'[m].length = pipes[m].length
      /\ \A n \in Mappers \ {m} : pipes'[n] = pipes[n]
  BY <1>1, <1>3, <1>4
<1>6. Held(m)' = Held(m)
  BY <1>1, <1>2 DEF Held
<1>7. ShareInv(m)'
  <2>1. ShareInv(m) /\ input' = input /\ Total(m)' = Total(m)
        /\ \A i : Unfilled(m, i) => Unfilled(m, i)'
    BY <1>1, <1>5, MapperLeaves DEF DInv
  <2>2. QED
    BY <1>1, <1>2, <1>5, <1>6, <2>1, ShareStays
<1>8. m \notin gaveUp'
  BY <1>1, <1>2 DEF DInv, StartedInv
<1>9. QED
  BY <1>1, <1>2, <1>5, <1>7, <1>8, MapperStepDInv

(* What is taken off the ring is the next line of the share, or the marker *)
(* behind all of them.                                                     *)
LEMMA PopFrontDInv == ASSUME IInv, DInv, NEW m \in Mappers, PopFront(m) PROVE DInv'
<1> DEFINE p == pipes[m]
           q == pop_front(p)
<1>1. /\ Mapper(m, "popping", "comparing") /\ FrontReady(p)
      /\ slot' = [slot EXCEPT ![m] = p.front] /\ pipes' = [pipes EXCEPT ![m] = q]
      /\ UNCHANGED mainVars /\ UNCHANGED << waiting, gaveUp, written >>
  BY DEF PopFront
<1>2. /\ mpc[m] = "popping" /\ mpc'[m] = "comparing" /\ \A n \in Mappers \ {m} : mpc'[n] = mpc[n]
  BY <1>1, MapperEffect DEF MapperStates
<1>3. /\ p \in PipeType /\ WindowInv(p) /\ pipes \in [Mappers -> PipeType]
      /\ slot \in [Mappers -> Slots]
  BY DEF IInv, TypeOK, PipeInv
<1>4. /\ q.queue = p.queue /\ q.front = NextSlot(p.front) /\ q.length = p.length - 1
      /\ p.length \in Nat /\ p.length # 0 /\ p.length <= PIPE_SIZE
      /\ p.flag[p.front] = 1 /\ p.front \in Slots /\ PIPE_SIZE \in Nat \ {0}
  BY <1>1, <1>3, PlaceFacts, SlotFacts DEF pop_front, PipeType, FrontReady, empty
<1>5. \A i \in 0 .. p.length - 2 : Place(q, i) = Place(p, i + 1)
  <2>1. \A i \in 0 .. p.length - 2 : i \in 0 .. PIPE_SIZE - 2
    BY <1>4
  <2>2. \A i \in 0 .. PIPE_SIZE - 2 : Place(q, i) = Place(p, i + 1)
    BY <1>3, <1>4, PoppedPlaces
  <2>3. QED
    BY <2>1, <2>2
<1>6. /\ pipes'[m] = q /\ slot'[m] = p.front
      /\ \A n \in Mappers \ {m} : pipes'[n] = pipes[n] /\ slot'[n] = slot[n]
  BY <1>1, <1>3
<1>7. UNCHANGED << input, fin, pc, started, str, round, ending, index >>
  BY <1>1 DEF mainVars
<1>8. /\ ShareInv(m) /\ Total(m)' = Total(m) /\ Share(m)' = Share(m) /\ Stream(m)' = Stream(m)
  BY <1>1, MapperLeaves DEF DInv
<1>9. Held(m) = 0 /\ Held(m)' = 1 /\ Len(written[m]) \in Nat
  BY <1>1, <1>2 DEF Held, IInv, TypeOK
<1>10. CountInv(m) /\ WrittenInv(m) /\ RingInv(m) /\ pipes[m] = p
  BY <1>8 DEF ShareInv, p
<1>11. ~ Unfilled(m, 0)
  <2>1. SUFFICES ASSUME pc = "fill", Target = m, p.length = 1 PROVE FALSE
    BY <1>4 DEF Unfilled
  <2>2. p.flag[index] = 0 /\ NextSlot(index) = p.tail /\ index \in Slots
    BY <2>1 DEF IInv, MainInv, TypeOK
  <2>3. index = Place(p, p.length - 1)
    BY <1>3, <1>4, <2>2, PlaceFacts
  <2>4. Place(p, 0) = p.front /\ p.length - 1 = 0
    BY <1>3, <2>1, PlaceFacts
  <2>5. QED
    BY <1>4, <2>2, <2>3, <2>4
<1> HIDE DEF p, q
<1>12. CountInv(m)'
  <2>1. Len(written[m]) + Held(m) + p.length = Total(m) /\ Len(written[m]) <= Len(Share(m))
    BY <1>10 DEF CountInv
  <2>2. Len(written[m]) + Held(m)' + q.length = Total(m)
    BY <1>4, <1>9, <2>1
  <2>3. QED
    BY <1>1, <1>6, <1>8, <2>1, <2>2 DEF CountInv
<1>13. WrittenInv(m)'
  <2>1. p.queue[Place(p, 0)] = Stream(m)[Len(written[m]) + Held(m) + 0 + 1]
    <3>1. 0 \in 0 .. p.length - 1
      BY <1>4
    <3>2. QED
      BY <1>10, <1>11, <3>1 DEF RingInv
  <2>2. Place(p, 0) = p.front
    BY <1>3, PlaceFacts
  <2>3. p.queue[p.front] = Stream(m)[Len(written[m]) + 1]
    <3>1. Len(written[m]) + Held(m) + 0 + 1 = Len(written[m]) + 1
      BY <1>9
    <3>2. QED
      BY <2>1, <2>2, <3>1
  <2>4. w_buf(m)' = p.queue[p.front]
    BY <1>4, <1>6 DEF w_buf
  <2>5. QED
    BY <1>1, <1>2, <1>8, <1>10, <2>3, <2>4 DEF WrittenInv
<1>14. RingInv(m)'
  <2>1. ASSUME NEW i \in 0 .. q.length - 1, ~ Unfilled(m, i)'
        PROVE  q.queue[Place(q, i)] = Stream(m)[Len(written[m]) + 1 + i + 1]
    <3>1. i \in 0 .. p.length - 2 /\ i + 1 \in 0 .. p.length - 1 /\ i \in Nat
      BY <1>4
    <3>2. Unfilled(m, i)' <=> pc = "fill" /\ Target = m /\ i = q.length - 1
      BY <1>6, <1>7 DEF Unfilled, Target
    <3>3. Unfilled(m, i + 1) <=> pc = "fill" /\ Target = m /\ i + 1 = p.length - 1
      BY <1>10 DEF Unfilled
    <3>4. ~ Unfilled(m, i + 1)
      BY <1>4, <2>1, <3>1, <3>2, <3>3
    <3>5. p.queue[Place(p, i + 1)] = Stream(m)[Len(written[m]) + Held(m) + (i + 1) + 1]
      BY <1>10, <3>1, <3>4 DEF RingInv
    <3>6. Len(written[m]) + Held(m) + (i + 1) + 1 = Len(written[m]) + 1 + i + 1
      <4>1. \A a, b \in Nat : a + 0 + (b + 1) + 1 = a + 1 + b + 1
        OBVIOUS
      <4>2. QED
        BY <1>9, <3>1, <4>1
    <3>7. QED
      BY <1>4, <1>5, <3>1, <3>5, <3>6
  <2>2. \A i : Place(pipes[m], i)' = Place(q, i)
    BY <1>6 DEF Place
  <2>3. QED
    BY <1>1, <1>6, <1>8, <1>9, <2>1, <2>2 DEF RingInv
<1>15. ShareInv(m)'
  BY <1>12, <1>13, <1>14 DEF ShareInv
<1>16. m \notin gaveUp'
  BY <1>1, <1>2 DEF DInv, StartedInv
<1>17. QED
  BY <1>1, <1>2, <1>6, <1>15, <1>16, MapperStepDInv

(* The line that is written is not the marker, so it is one of the share.  *)
LEMMA WriteDInv == ASSUME IInv, DInv, NEW m \in Mappers, Write(m) PROVE DInv'
<1> DEFINE w == written[m]
<1>1. /\ Mapper(m, "writing", "notifying")
      /\ written' = [written EXCEPT ![m] = Append(@, w_buf(m))]
      /\ UNCHANGED mainVars /\ UNCHANGED << pipes, waiting, slot, gaveUp >>
  BY DEF Write
<1>2. /\ mpc[m] = "writing" /\ mpc'[m] = "notifying" /\ \A n \in Mappers \ {m} : mpc'[n] = mpc[n]
  BY <1>1, MapperEffect DEF MapperStates
<1>3. /\ w \in Seq(PipeLines) /\ written \in [Mappers -> Seq(PipeLines)] /\ TypeOK
      /\ pipes[m].length \in Nat
  BY SlotFacts DEF IInv, TypeOK, PipeType
<1>4. w_buf(m) \in PipeLines
  <2>1. slot[m] \in Slots /\ pipes[m].flag[slot[m]] = 1 /\ WindowInv(pipes[m])
    BY <1>2 DEF IInv, TypeOK, PipeInv, MapperInv
  <2>2. QED
    BY <2>1 DEF WindowInv, w_buf
<1>5. /\ written'[m] = Append(w, w_buf(m))
      /\ \A n \in Mappers \ {m} : written'[n] = written[n]
  BY <1>1, <1>3
<1>6. /\ Len(written'[m]) = Len(w) + 1 /\ Len(w) \in Nat
      /\ \A j \in 1 .. Len(w) : written'[m][j] = w[j]
      /\ written'[m][Len(w) + 1] = w_buf(m)
  BY <1>3, <1>4, <1>5
<1>7. /\ ShareInv(m) /\ Total(m)' = Total(m) /\ Share(m)' = Share(m) /\ Stream(m)' = Stream(m)
      /\ \A i : Unfilled(m, i) => Unfilled(m, i)'
  BY <1>1, MapperLeaves DEF DInv
<1>8. Held(m) = 1 /\ Held(m)' = 0
  BY <1>1, <1>2 DEF Held
<1>9. /\ Len(w) + 1 + pipes[m].length = Total(m) /\ Len(w) <= Len(Share(m))
      /\ w_buf(m) = Stream(m)[Len(w) + 1] /\ w_buf(m) # END_PIPE
      /\ \A j \in 1 .. Len(w) : w[j] = Stream(m)[j]
  BY <1>2, <1>7, <1>8 DEF ShareInv, CountInv, WrittenInv
<1> HIDE DEF w
<1>10. Len(w) + 1 <= Len(Share(m))
  <2>1. Total(m) <= Len(Share(m)) + 1 /\ Len(Share(m)) \in Nat
        /\ Stream(m)[Len(Share(m)) + 1] = END_PIPE
    BY <1>3, TotalFacts, ShareFacts
  <2>2. Len(w) # Len(Share(m))
    BY <1>9, <2>1
  <2>3. QED
    BY <1>6, <1>9, <2>1, <2>2
<1>11. CountInv(m)'
  <2>1. Len(written'[m]) + Held(m)' + pipes[m].length = Total(m)
    BY <1>3, <1>6, <1>8, <1>9
  <2>2. QED
    BY <1>1, <1>6, <1>7, <1>10, <2>1 DEF CountInv
<1>12. WrittenInv(m)'
  <2>1. \A j \in 1 .. Len(w) + 1 : written'[m][j] = Stream(m)[j]
    <3>1. \A j \in 1 .. Len(w) + 1 : j \in 1 .. Len(w) \/ j = Len(w) + 1
      BY <1>6
    <3>2. QED
      BY <1>6, <1>9, <3>1
  <2>2. QED
    BY <1>2, <1>6, <1>7, <2>1 DEF WrittenInv
<1>13. RingInv(m)'
  <2>1. Len(written'[m]) + Held(m)' = Len(w) + Held(m)
    BY <1>6, <1>8
  <2>2. \A i : Place(pipes[m], i)' = Place(pipes[m], i)
    BY <1>1 DEF Place
  <2>3. RingInv(m)
    BY <1>7 DEF ShareInv
  <2>4. QED
    BY <1>1, <1>7, <2>1, <2>2, <2>3 DEF RingInv, w
<1>14. ShareInv(m)'
  BY <1>11, <1>12, <1>13 DEF ShareInv
<1>15. m \notin gaveUp'
  BY <1>1, <1>2 DEF DInv, StartedInv
<1>16. QED
  BY <1>1, <1>2, <1>5, <1>14, <1>15, MapperStepDInv

-----------------------------------------------------------------------------

LEMMA InitDInv == Init => DInv
<1> SUFFICES ASSUME Init PROVE DInv
  OBVIOUS
<1>1. TypeOK
  BY InitIInv DEF IInv
<1>2. /\ fin.rest = input /\ fin.eof = FALSE /\ ~ ending /\ pc = "start" /\ round = 0
      /\ gaveUp = {} /\ \A m \in Mappers : mpc[m] = "new" /\ written[m] = << >>
      /\ pipes = [m \in Mappers |-> NewPipe]
  BY DEF Init
<1>3. Consumed = 0 /\ Len(input) \in Nat
  <2>1. Len(input) \in Nat
    BY <1>1, FileFacts
  <2>2. QED
    BY <1>2, <2>1 DEF Consumed
<1>4. FileInv
  <2>1. \A k \in 1 .. Len(fin.rest) : fin.rest[k] = input[Consumed + k]
    BY <1>2, <1>3
  <2>2. QED
    BY <1>2, <1>3, <2>1 DEF FileInv
<1>5. \A k \in Dealt : k \in Nat /\ ~ (k < 1) /\ ~ (k <= 0)
  BY <1>1, FileFacts
<1>6. RoundInv
  <2>1. { j \in Dealt : j < 0 + 1 } = {}
    BY <1>5
  <2>2. Before(Dealt, Consumed + 1) = 0
    BY <1>3, <2>1, FS_EmptySet DEF Before
  <2>3. QED
    BY <1>2, <2>2 DEF RoundInv, Dealing
<1>7. StartedInv
  BY <1>2 DEF StartedInv
<1>8. ASSUME NEW m \in Mappers PROVE ShareInv(m)
  <2>1. pipes[m].length = 0 /\ written[m] = << >> /\ mpc[m] = "new" /\ Len(written[m]) = 0
    BY <1>2 DEF NewPipe
  <2>2. Put(m) = {}
    <3>1. \A k \in DealtTo(m) : k \in Dealt
      BY DEF DealtTo
    <3>2. QED
      BY <1>3, <1>5, <3>1 DEF Put
  <2>3. Total(m) = 0
    BY <1>2, <2>2, FS_EmptySet DEF Total, MarkerSent
  <2>4. Held(m) = 0 /\ Len(Share(m)) \in Nat
    BY <1>1, <2>1, ShareFacts DEF Held
  <2>5. CountInv(m)
    BY <2>1, <2>3, <2>4 DEF CountInv
  <2>6. WrittenInv(m) /\ RingInv(m)
    BY <2>1 DEF WrittenInv, RingInv
  <2>7. QED
    BY <2>5, <2>6 DEF ShareInv
<1>9. QED
  BY <1>4, <1>6, <1>7, <1>8 DEF DInv

(* The other steps change nothing.                                         *)
LEMMA StutterDInv == ASSUME IInv, DInv, UNCHANGED vars PROVE DInv'
<1>1. UNCHANGED << input, fin, pc, started, str, round, ending, index, pipes, waiting, mpc,
                   slot, gaveUp, written >>
  BY DEF vars, mainVars, mapperVars
<1>2. /\ Consumed' = Consumed /\ Dealt' = Dealt
      /\ \A k : DealtTo(k)' = DealtTo(k)
  BY <1>1, StreamKept, StreamStays
<1>3. FileInv' /\ StartedInv'
  BY <1>1, <1>2 DEF DInv, FileInv, StartedInv
<1>4. RoundInv'
  <2>1. /\ Before(Dealt, Consumed)' = Before(Dealt, Consumed)
        /\ Before(Dealt, Consumed + 1)' = Before(Dealt, Consumed + 1)
        /\ LineOf(Consumed)' = LineOf(Consumed)
    BY <1>1, <1>2 DEF Before, LineOf
  <2>2. QED
    BY <1>1, <1>2, <2>1 DEF DInv, RoundInv, Dealing
<1>5. ASSUME NEW m \in Mappers PROVE ShareInv(m)'
  <2>1. ShareInv(m) /\ Held(m)' = Held(m)
    BY <1>1, HeldStays DEF DInv
  <2>2. Put(m)' = Put(m) /\ MarkerSent(m)' = MarkerSent(m)
    BY <1>1, <1>2 DEF Put, Dealing, MarkerSent
  <2>3. Total(m)' = Total(m)
    BY <2>2, TotalStays
  <2>4. \A i : Unfilled(m, i) => Unfilled(m, i)'
    BY <1>1 DEF Unfilled, Target
  <2>5. QED
    BY <1>1, <2>1, <2>3, <2>4, ShareStays
<1>6. QED
  BY <1>3, <1>4, <1>5 DEF DInv

LEMMA NextDInv == IInv /\ DInv /\ [Next]_vars => DInv'
<1> SUFFICES ASSUME IInv, DInv, [Next]_vars PROVE DInv'
  OBVIOUS
<1>1. CASE UNCHANGED vars
  BY <1>1, StutterDInv
<1>2. CASE MainStep \/ StartMapperFails
  BY <1>2, StartMapperDInv, ReadDInv, BeginEndDInv, ClaimDInv, FillDInv, PushDInv, LeaveDInv
     DEF MainStep
<1>3. CASE ReadNothing \/ Poll \/ Terminated
  BY <1>1, <1>3 DEF ReadNothing, Poll, Terminated
<1>4. ASSUME NEW m \in Mappers, MapperStep(m) \/ SetUpFails(m) \/ SpuriousWakeup(m)
      PROVE  DInv'
  BY <1>4, StillDInv, PopFrontDInv, WriteDInv, NotifyDInv DEF MapperStep
<1>5. QED
  BY <1>1, <1>2, <1>3, <1>4 DEF Next

LEMMA SharesAreFollowed == Spec => [](IInv /\ DInv)
<1>1. Init => IInv /\ DInv
  BY InitIInv, InitDInv
<1>2. (IInv /\ DInv) /\ [Next]_vars => (IInv /\ DInv)'
  BY NextIInv, NextDInv
<1>3. QED
  BY <1>1, <1>2, PTL DEF Spec

(* What a child has been written is the beginning of its mapper's share of *)
(* the file, line for line, for any file, any number of mappers and rings  *)
(* of any size; and a mapper that ends behind the marker wrote all of it.  *)
THEOREM ChildrenGetTheirShares == Spec => []ChildGetsItsShare
<1>1. ASSUME IInv, DInv, NEW m \in Mappers
      PROVE  /\ IsPrefix(written[m], Share(m))
             /\ mpc[m] \in {"closing", "exited"} /\ m \notin gaveUp => written[m] = Share(m)
  <2>1. TypeOK /\ CountInv(m) /\ WrittenInv(m) /\ PipeInv(m)
    BY <1>1 DEF IInv, DInv, ShareInv
  <2>2. /\ written[m] \in Seq(PipeLines) /\ Len(written[m]) \in Nat
        /\ DOMAIN written[m] = 1 .. Len(written[m])
    BY <2>1 DEF TypeOK
  <2>3. /\ Len(Share(m)) \in Nat /\ DOMAIN Share(m) = 1 .. Len(Share(m))
        /\ \A j \in 1 .. Len(Share(m)) : Stream(m)[j] = Share(m)[j]
    BY <2>1, ShareFacts
  <2>4. /\ Len(written[m]) <= Len(Share(m))
        /\ \A j \in 1 .. Len(written[m]) : written[m][j] = Share(m)[j]
    <3>1. Len(written[m]) <= Len(Share(m))
      BY <2>1 DEF CountInv
    <3>2. \A j \in 1 .. Len(written[m]) : j \in 1 .. Len(Share(m))
      BY <2>2, <2>3, <3>1
    <3>3. QED
      BY <2>1, <2>3, <3>1, <3>2 DEF WrittenInv
  <2>5. IsPrefix(written[m], Share(m))
    BY <2>2, <2>3, <2>4 DEF IsPrefix
  <2>6. ASSUME mpc[m] \in {"closing", "exited"}, m \notin gaveUp PROVE written[m] = Share(m)
    <3>1. ending /\ round > m /\ pipes[m].length = 0 /\ Held(m) = 1
      BY <2>1, <2>6 DEF PipeInv, MapperInv, empty, Held
    <3>2. MarkerSent(m)
      BY <3>1 DEF MarkerSent
    <3>3. Cardinality(Put(m)) = Len(Share(m))
      <4>1. Consumed = Len(input) /\ Consumed \in Nat
        BY <1>1, <2>1, <3>1, ConsumedFacts DEF DInv, FileInv
      <4>2. \A k \in DealtTo(m) : k <= Consumed
        <5>1. \A k \in DealtTo(m) : k \in 1 .. Len(input)
          BY <2>1, FileFacts DEF DealtTo
        <5>2. QED
          BY <4>1, <5>1
      <4>3. ~ Dealing
        BY <3>1 DEF Dealing
      <4>4. Put(m) = DealtTo(m)
        BY <4>2, <4>3 DEF Put
      <4>5. QED
        BY <2>1, <4>4, ShareFacts
    <3>4. Total(m) = Len(Share(m)) + 1
      BY <3>2, <3>3 DEF Total
    <3>5. Len(written[m]) = Len(Share(m))
      BY <2>1, <2>2, <2>3, <3>1, <3>4 DEF CountInv
    <3>6. QED
      <4>1. DOMAIN written[m] = DOMAIN Share(m)
        BY <2>2, <2>3, <3>5
      <4>2. \A j \in DOMAIN written[m] : written[m][j] = Share(m)[j]
        BY <2>2, <2>4
      <4>3. written[m] = [j \in DOMAIN written[m] |-> written[m][j]]
        BY <2>2
      <4>4. Share(m) = [j \in DOMAIN Share(m) |-> Share(m)[j]]
        BY DEF Share
      <4>5. QED
        BY <4>1, <4>2, <4>3, <4>4
  <2>7. QED
    BY <2>5, <2>6
<1>2. IInv /\ DInv => ChildGetsItsShare
  BY <1>1 DEF ChildGetsItsShare
<1>3. QED
  BY <1>2, SharesAreFollowed, PTL

=============================================================================
