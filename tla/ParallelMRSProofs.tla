-------------------------- MODULE ParallelMRSProofs --------------------------
(***************************************************************************)
(* Proofs, for any numbers of mappers and reducers up to the bound that    *)
(* the second close() asks for, any input, any hash and signs, any size of *)
(* rings and buffers, and whatever fails: that a job keeps its types; that *)
(* no thread of it outlives the memory it works on; that it implements     *)
(* MapReduce, end to end; and that a crash has one of the known causes.    *)
(* The refinement is in steps: where every word of the file is (WordInv),  *)
(* what the shuffle holds (StoreInv), what is on its way to and from each  *)
(* reducer.py and in its buffer and file (ReducerInv), that only words of  *)
(* the file are under way (RealInv), and then each action.  That a reducer *)
(* finds a key to read needs it too: all words are counted by then.        *)
(***************************************************************************)
EXTENDS ParallelMRS, FiniteSetTheorems, SequenceTheorems, TLAPS

RunStates   == {"new", "sort", "fork", "feed", "join", "ended"}
ChildStates == {"none", "running", "ended", "died", "failed"}
Quiet(w)   == run[w] \in {"new", "ended"}

(* What is needed of the types *)
Types ==
  /\ conf \in [map_num : Nat, reduce_num : Nat]
  /\ run \in [Workers -> RunStates]
  /\ recv \in [Workers -> {"none", "reading", "ended"}]
  /\ started \in Nat

(* Workers are started one after another, only those that a phase has, and *)
(* no reducer before the mappers are joined.                               *)
StartInv ==
  /\ \A w \in Workers : run[w] # "new" => w[2] < Started(w[1])
  /\ pc \in {"init", "open"} => started = 0 /\ \A w \in Workers : run[w] = "new"
  /\ pc = "startMaps" => \A w \in Workers :
       run[w] # "new" => w[1] = "map" /\ w[2] < started
  /\ pc = "startReduces" => \A w \in Workers :
       IF w[1] = "map" THEN Quiet(w) ELSE run[w] # "new" => w[2] < started

(* A worker has a receiver from fork() to the join.                        *)
ReceiverInv ==
  \A w \in Workers :
    /\ run[w] \in {"new", "sort", "fork"} => recv[w] = "none"
    /\ recv[w] = "reading" => run[w] \in {"feed", "join"}

(* What the way run() returned says about the workers.                     *)
ReturnInv ==
  /\ pc \in {"init", "open", "startMaps", "startReduces"} => ret = "none"
  /\ pc \in {"delete", "return", "exited"} => ret \in {"noFile", "noMap", "noReduce", "ok"}
  /\ pc # "crashed" /\ ret \in {"noFile", "ok"} => \A w \in Workers : Quiet(w)

IInv == Types /\ StartInv /\ ReceiverInv /\ ReturnInv

-----------------------------------------------------------------------------
(* Facts about workers and about groups of steps *)

LEMMA WorkerKinds ==
  ASSUME NEW w \in Workers
  PROVE  /\ w = << w[1], w[2] >> /\ w[2] \in Nat
         /\ \/ w[1] = "map" /\ w[2] \in Mappers
            \/ w[1] = "reduce" /\ w[2] \in Reducers
BY SettingsAssumption DEF Workers, Mappers, Reducers

LEMMA WorkerIs ==
  /\ \A m \in Mappers : << "map", m >> \in Workers
  /\ \A r \in Reducers : << "reduce", r >> \in Workers
BY DEF Workers

(* At the beginning there is nobody.                                       *)
LEMMA InitIInv == Init => IInv
<1> SUFFICES ASSUME Init PROVE IInv
  OBVIOUS
<1>1. Types
  BY SettingsAssumption DEF Init, Types, RunStates
<1>2. StartInv /\ ReceiverInv /\ ReturnInv
  BY DEF Init, StartInv, ReceiverInv, ReturnInv, Quiet
<1>3. QED
  BY <1>1, <1>2 DEF IInv

(* Steps that only move data.                                              *)
LEMMA DataStep ==
  ASSUME IInv, pc # "crashed", UNCHANGED << conf, pc, ret, run, recv, started >>
  PROVE  IInv'
BY DEF IInv, Types, StartInv, ReceiverInv, ReturnInv, Quiet, Started

(* A crash stops everybody.                                                *)
LEMMA CrashStep ==
  ASSUME IInv, Crash
  PROVE  IInv'
<1>1. UNCHANGED << conf, ret, run, recv, started >> /\ pc' = "crashed"
  BY DEF Crash, job
<1>2. QED
  BY <1>1 DEF IInv, Types, StartInv, ReceiverInv, ReturnInv, Quiet, Started

(* The main thread goes on, and no worker does.                            *)
LEMMA MainStepIInv ==
  ASSUME IInv, NEW from, NEW to, Main(from, to), UNCHANGED run,
         to # "crashed", started' \in Nat, StartInv', ReturnInv'
  PROVE  IInv'
<1>1. UNCHANGED << conf, recv >> /\ pc' # "crashed"
  BY DEF Main
<1>2. QED
  BY <1>1 DEF IInv, Types, ReceiverInv

(* A worker goes on from one state to another.                             *)
LEMMA WorkerStep ==
  ASSUME IInv, NEW w \in Workers, NEW from \in RunStates \ {"new"}, NEW to \in RunStates \ {"new"},
         Thread(w, from, to), ~ (from = "ended"),
         recv' \in [Workers -> {"none", "reading", "ended"}],
         \A v \in Workers \ {w} : recv'[v] = recv[v],
         to \in {"sort", "fork"} => recv'[w] = "none",
         recv'[w] = "reading" => to \in {"feed", "join"}
  PROVE  IInv'
<1>1. UNCHANGED << conf, pc, ret, started >> /\ Alive /\ run[w] = from
  BY DEF Thread, job, mainVars
<1>2. /\ run' \in [Workers -> RunStates] /\ run'[w] = to
      /\ \A v \in Workers \ {w} : run'[v] = run[v]
  BY DEF Thread, IInv, Types
<1>3. Types'
  BY <1>1, <1>2 DEF IInv, Types
<1>4. StartInv'
  BY <1>1, <1>2 DEF IInv, StartInv, Quiet, Started
<1>5. ReceiverInv'
  BY <1>1, <1>2 DEF IInv, ReceiverInv
<1>6. ReturnInv'
  BY <1>1, <1>2 DEF IInv, ReturnInv, Quiet, Alive
<1>7. QED
  BY <1>3, <1>4, <1>5, <1>6 DEF IInv

-----------------------------------------------------------------------------
(* The steps of the main thread *)

LEMMA MainIInv == ASSUME IInv, MainStep \/ MainFails PROVE IInv'
<1> USE DEF Quiet, Started
<1>1. CASE Initialize
  BY <1>1, MainStepIInv DEF Types, Initialize, Main, IInv, StartInv, ReturnInv
<1>2. CASE InitFails
  BY <1>2, MainStepIInv DEF Types, InitFails, Main, IInv, StartInv, ReturnInv
<1>3. CASE OpenInput
  BY <1>3, MainStepIInv DEF Types, OpenInput, Main, IInv, StartInv, ReturnInv
<1>4. CASE OpenFails
  BY <1>4, MainStepIInv DEF Types, OpenFails, Quit, Main, IInv, StartInv, ReturnInv
<1>5. ASSUME NEW kind \in {"map", "reduce"}, NEW at \in {"startMaps", "startReduces"},
             StartNobody(kind, at)
      PROVE  IInv'
  BY <1>5, CrashStep DEF StartNobody
<1>6. ASSUME StartWorker("map", "startMaps", "fork") PROVE IInv'
  <2>1. PICK w : w = << "map", started >>
    OBVIOUS
  <2>2. /\ UNCHANGED << conf, recv, pc, ret >> /\ pc = "startMaps"
        /\ w[1] = "map" /\ w[2] = started /\ started < conf.map_num
        /\ started \in Nat /\ started' = started + 1
        /\ run' = [run EXCEPT ![w] = "fork"]
    BY <1>6, <2>1 DEF StartWorker, Main, IInv, Types
  <2>3. \A v \in Workers : run'[v] = IF v = w THEN "fork" ELSE run[v]
    BY <2>2 DEF IInv, Types
  <2>4. Types'
    <3>1. run' \in [Workers -> RunStates]
      BY <2>2, <2>3 DEF IInv, Types, RunStates
    <3>2. started' \in Nat
      BY <2>2
    <3>3. QED
      BY <2>2, <3>1, <3>2 DEF IInv, Types
  <2>5. StartInv'
    BY <2>2, <2>3, WorkerKinds DEF IInv, StartInv
  <2>6. ReceiverInv'
    BY <2>2, <2>3 DEF IInv, StartInv, ReceiverInv
  <2>7. QED
    BY <2>2, <2>4, <2>5, <2>6 DEF IInv, ReturnInv
<1>7. ASSUME StartWorker("reduce", "startReduces", "sort") PROVE IInv'
  <2>1. PICK w : w = << "reduce", started >>
    OBVIOUS
  <2>2. /\ UNCHANGED << conf, recv, pc, ret >> /\ pc = "startReduces"
        /\ w[1] = "reduce" /\ w[2] = started /\ started < conf.reduce_num
        /\ started \in Nat /\ started' = started + 1
        /\ run' = [run EXCEPT ![w] = "sort"]
    BY <1>7, <2>1 DEF StartWorker, Main, IInv, Types
  <2>3. \A v \in Workers : run'[v] = IF v = w THEN "sort" ELSE run[v]
    BY <2>2 DEF IInv, Types
  <2>4. Types'
    <3>1. run' \in [Workers -> RunStates]
      BY <2>2, <2>3 DEF IInv, Types, RunStates
    <3>2. started' \in Nat
      BY <2>2
    <3>3. QED
      BY <2>2, <3>1, <3>2 DEF IInv, Types
  <2>5. StartInv'
    BY <2>2, <2>3, WorkerKinds DEF IInv, StartInv
  <2>6. ReceiverInv'
    BY <2>2, <2>3 DEF IInv, StartInv, ReceiverInv
  <2>7. QED
    BY <2>2, <2>4, <2>5, <2>6 DEF IInv, ReturnInv
<1>8. CASE StartMap
  BY <1>5, <1>6, <1>8 DEF StartMap
<1>9. CASE StartReduce
  BY <1>5, <1>7, <1>9 DEF StartReduce
<1>10. CASE StartMapFails
  BY <1>10, MainStepIInv DEF Types, StartMapFails, Quit, Main, IInv, StartInv, ReturnInv
<1>11. CASE StartReduceFails
  BY <1>11, MainStepIInv DEF Types, StartReduceFails, Quit, Main, IInv, StartInv, ReturnInv
<1>12. ASSUME NEW m, NEW item, DispatchMapper(m, item), Dealing PROVE IInv'
  BY <1>12, DataStep DEF DispatchMapper, Dealing, job
<1>13. CASE DealLine \/ SendEnd
  BY <1>12, <1>13 DEF DealLine, SendEnd
<1>14. CASE DivideByMapNum
  BY <1>14, CrashStep DEF DivideByMapNum
<1>15. CASE JoinMaps
  <2>1. \A w \in Workers : w[1] = "map" => Quiet(w)
    <3>1. \A w \in Workers : w[1] = "map" /\ run[w] # "new" => w[2] \in 0 .. conf.map_num - 1
      BY WorkerKinds DEF IInv, Types, StartInv
    <3>2. \A w \in Workers : w = << w[1], w[2] >>
      BY WorkerKinds
    <3>3. QED
      BY <1>15, <3>1, <3>2 DEF JoinMaps, Joined
  <2>2. QED
    BY <1>15, <2>1, MainStepIInv DEF Types, JoinMaps, Main, IInv, StartInv, ReturnInv
<1>16. CASE JoinReduces
  <2>1. \A w \in Workers : Quiet(w)
    <3>1. \A w \in Workers : w[1] = "reduce" /\ run[w] # "new" => w[2] \in 0 .. conf.reduce_num - 1
      BY WorkerKinds DEF IInv, Types, StartInv
    <3>2. \A w \in Workers : w = << w[1], w[2] >> /\ w[1] \in {"map", "reduce"}
      BY WorkerKinds
    <3>3. QED
      BY <1>16, <3>1, <3>2 DEF JoinReduces, Joined, Main, IInv, StartInv
  <2>2. QED
    BY <1>16, <2>1, MainStepIInv DEF Types, JoinReduces, Main, IInv, StartInv, ReturnInv
<1>17. CASE Delete
  BY <1>17, MainStepIInv DEF Types, Delete, Main, IInv, StartInv, ReturnInv
<1>18. CASE DeleteNobody
  BY <1>18, CrashStep DEF DeleteNobody
<1>19. CASE Exit
  BY <1>19, MainStepIInv DEF Types, Exit, Main, IInv, StartInv, ReturnInv
<1>20. QED
  BY <1>1, <1>2, <1>3, <1>4, <1>8, <1>9, <1>10, <1>11, <1>13, <1>14, <1>15, <1>16,
     <1>17, <1>18, <1>19 DEF MainStep, MainFails

-----------------------------------------------------------------------------
(* The steps of a worker, its child and its receiver *)

LEMMA WorkerIInv ==
  ASSUME IInv, NEW w \in Workers, RunStep(w) \/ GiveUp(w) \/ UseDeleted(w)
  PROVE  IInv'
<1> USE DEF RunStates
<1>1. recv \in [Workers -> {"none", "reading", "ended"}]
  BY DEF IInv, Types
<1>2. CASE Fork(w)
  BY <1>1, <1>2, WorkerStep DEF Fork
<1>3. CASE GiveUp(w)
  BY <1>1, <1>3, WorkerStep DEF GiveUp, IInv, ReceiverInv, Thread
<1>4. CASE JoinReceiver(w)
  BY <1>1, <1>4, WorkerStep DEF JoinReceiver
<1>5. CASE UseDeleted(w)
  BY <1>5, CrashStep DEF UseDeleted
<1>6. ASSUME NEW m \in Mappers, w = << "map", m >>, FeedLine(m) PROVE IInv'
  BY <1>1, <1>6, WorkerStep DEF FeedLine, Thread
<1>7. ASSUME NEW m \in Mappers, w = << "map", m >>, FeedEnd(m) PROVE IInv'
  BY <1>1, <1>7, WorkerStep DEF FeedEnd, Thread
<1>8. ASSUME NEW r \in Reducers, w = << "reduce", r >>, Sort(r) PROVE IInv'
  BY <1>1, <1>8, WorkerStep DEF Sort, Thread, IInv, ReceiverInv
<1>9. ASSUME NEW r \in Reducers, w = << "reduce", r >>, FeedTask(r) PROVE IInv'
  BY <1>1, <1>9, WorkerStep DEF FeedTask, Thread
<1>10. ASSUME NEW r \in Reducers, w = << "reduce", r >>, NoMoreTasks(r) PROVE IInv'
  BY <1>1, <1>10, WorkerStep DEF NoMoreTasks, Thread
<1>11. ASSUME NEW r \in Reducers, ReadNoKey(r) PROVE IInv'
  BY <1>11, CrashStep DEF ReadNoKey
<1>12. CASE WriteKills(w)
  BY <1>12, CrashStep DEF WriteKills
<1>13. QED
  BY <1>2, <1>3, <1>4, <1>5, <1>6, <1>7, <1>8, <1>9, <1>10, <1>11, <1>12, WorkerKinds DEF RunStep

LEMMA ChildIInv ==
  ASSUME IInv, NEW w \in Workers, ChildStep(w) \/ ChildDies(w)
  PROVE  IInv'
<1>1. UNCHANGED << conf, pc, ret, run, recv, started >> /\ Alive
  BY DEF ChildDies, ChildStep, MapWord, MapChildEnds, ReduceLine, ReduceChildEnds, Child, job, mainVars
<1>2. QED
  BY <1>1, DataStep DEF Alive

LEMMA ReceiverIInv ==
  ASSUME IInv, NEW w \in Workers, ReceiverStep(w)
  PROVE  IInv'
<1>1. ASSUME NEW to \in {"reading", "ended"}, Receiver(w, to) PROVE IInv'
  <2>1. /\ UNCHANGED << conf, pc, ret, run, started >> /\ Alive /\ recv[w] = "reading"
        /\ recv' = [recv EXCEPT ![w] = to]
    BY <1>1 DEF Receiver, job, mainVars
  <2>2. Types' /\ ReceiverInv'
    BY <2>1 DEF IInv, Types, ReceiverInv
  <2>3. StartInv' /\ ReturnInv'
    BY <2>1 DEF IInv, StartInv, ReturnInv, Quiet, Started, Alive
  <2>4. QED
    BY <2>2, <2>3 DEF IInv
<1>2. CASE w[1] = "map" /\ DivideByReduceNum(w[2])
  BY <1>2, CrashStep DEF DivideByReduceNum
<1>3. CASE w[1] = "map" /\ (PushBack(w[2]) \/ MapReceiverEnds(w[2]))
  BY <1>1, <1>3, WorkerKinds DEF PushBack, MapReceiverEnds
<1>4. CASE w[1] = "reduce" /\ (AppendLine(w[2]) \/ DropLine(w[2]) \/ ReduceReceiverEnds(w[2]))
  BY <1>1, <1>4, WorkerKinds DEF AppendLine, DropLine, ReduceReceiverEnds
<1>5. QED
  BY <1>2, <1>3, <1>4 DEF ReceiverStep

-----------------------------------------------------------------------------

(* Every step preserves the invariant.                                     *)
LEMMA NextIInv == IInv /\ [Next]_vars => IInv'
<1> SUFFICES ASSUME IInv, [Next]_vars PROVE IInv'
  OBVIOUS
<1>1. CASE UNCHANGED vars
  <2>1. UNCHANGED << conf, pc, ret, started, run, recv >>
    BY <1>1 DEF vars, job, mainVars
  <2>2. QED
    BY <2>1 DEF IInv, Types, StartInv, ReceiverInv, ReturnInv, Quiet, Started
<1>2. CASE MainStep \/ MainFails
  BY <1>2, MainIInv
<1>3. CASE Poll \/ Terminated
  BY <1>1, <1>3 DEF Poll, Terminated
<1>4. ASSUME NEW w \in Workers,
             RunStep(w) \/ ChildStep(w) \/ ReceiverStep(w)
             \/ GiveUp(w) \/ ChildDies(w) \/ UseDeleted(w)
      PROVE  IInv'
  BY <1>4, WorkerIInv, ChildIInv, ReceiverIInv
<1>5. QED
  BY <1>1, <1>2, <1>3, <1>4 DEF Next

LEMMA InvariantHolds == Spec => []IInv
BY InitIInv, NextIInv, PTL DEF Spec

(* No receiver reads the variable of Run() it was given after Run() has    *)
(* returned, and the tracker and its workers are deleted when no thread    *)
(* runs on them, unless a thread could not be started.                     *)
THEOREM NoThreadOutlivesItsMemory == Spec => []MemoryOutlivesThreads
<1>1. IInv => MemoryOutlivesThreads
  BY DEF IInv, ReceiverInv, ReturnInv, Quiet, MemoryOutlivesThreads
<1>2. QED
  BY <1>1, InvariantHolds, PTL

-----------------------------------------------------------------------------
(* Type correctness, part by part *)

MainTypes ==
  /\ conf \in [map_num : MapNums, reduce_num : ReduceNums] /\ input \in Inputs
  /\ pc \in {"init", "open", "startMaps", "startReduces", "delete", "return",
             "exited", "crashed"}
  /\ ret \in {"none", "noFile", "noMap", "noReduce", "ok"}
  /\ inited \in BOOLEAN /\ round \in Nat /\ started \in Nat
  /\ pc = "startMaps" => started <= conf.map_num
  /\ pc = "startReduces" => started <= conf.reduce_num

WorkerTypes ==
  /\ run \in [Workers -> RunStates]
  /\ recv \in [Workers -> {"none", "reading", "ended"}]
  /\ child \in [Workers -> ChildStates]
  /\ reaped \subseteq Workers /\ gaveUp \subseteq Workers

RingTypes ==
  /\ ring \in [Mappers -> Seq(Lines \cup {END_PIPE})]
  /\ \A m \in Mappers : Len(ring[m]) <= PIPE_SIZE

ToTypes ==
  /\ DOMAIN toChild = Workers
  /\ \A m \in Mappers  : toChild[<< "map", m >>] \in Seq(Lines)
  /\ \A r \in Reducers : toChild[<< "reduce", r >>] \in Seq(Words)

FromTypes ==
  /\ DOMAIN fromChild = Workers
  /\ \A m \in Mappers  : fromChild[<< "map", m >>] \in Seq(Words)
  /\ \A r \in Reducers : fromChild[<< "reduce", r >>] \in Seq(Results)

StoreTypes ==
  /\ store \in [Reducers -> Seq([word : Words, count : Nat \ {0}])]
  /\ key_pos \in [Reducers -> Nat \ {0}] /\ value_pos \in [Reducers -> Nat]

AccTypes == acc \in [Reducers -> Results \cup {NoWord}]

OutTypes ==
  /\ buff \in [Reducers -> Seq(Results)]
  /\ \A r \in Reducers : Len(buff[r]) <= PIPE_SIZE
  /\ files \in [Reducers -> Seq(Results)]
  /\ dropped \in [Reducers -> Nat]

LEMMA TypeParts ==
  TypeOK <=> MainTypes /\ WorkerTypes /\ RingTypes /\ ToTypes /\ FromTypes
             /\ StoreTypes /\ AccTypes /\ OutTypes
BY DEF TypeOK, MainTypes, WorkerTypes, RingTypes, ToTypes, FromTypes, StoreTypes, AccTypes,
       OutTypes, RunStates, ChildStates

LEMMA TypePartsNext ==
  TypeOK' <=> MainTypes' /\ WorkerTypes' /\ RingTypes' /\ ToTypes' /\ FromTypes'
              /\ StoreTypes' /\ AccTypes' /\ OutTypes'
BY DEF TypeOK, MainTypes, WorkerTypes, RingTypes, ToTypes, FromTypes, StoreTypes, AccTypes,
       OutTypes, RunStates, ChildStates

(* What a step leaves alone keeps its type.                                *)
LEMMA TypesKept ==
  ASSUME TypeOK
  PROVE  /\ UNCHANGED << job, mainVars >> => MainTypes'
         /\ UNCHANGED << run, recv, child, reaped, gaveUp >> => WorkerTypes'
         /\ UNCHANGED ring => RingTypes'
         /\ UNCHANGED toChild => ToTypes'
         /\ UNCHANGED fromChild => FromTypes'
         /\ UNCHANGED shuffle => StoreTypes'
         /\ UNCHANGED acc => AccTypes'
         /\ UNCHANGED output => OutTypes'
<1> USE TypeParts
<1>1. UNCHANGED << job, mainVars >> => MainTypes'
  BY DEF MainTypes, job, mainVars
<1>2. UNCHANGED << run, recv, child, reaped, gaveUp >> => WorkerTypes'
  BY DEF WorkerTypes
<1>3. UNCHANGED ring => RingTypes'
  BY DEF RingTypes
<1>4. (UNCHANGED toChild => ToTypes') /\ (UNCHANGED fromChild => FromTypes')
  BY DEF ToTypes, FromTypes
<1>5. (UNCHANGED shuffle => StoreTypes') /\ (UNCHANGED acc => AccTypes')
  BY DEF StoreTypes, AccTypes, shuffle
<1>6. UNCHANGED output => OutTypes'
  BY DEF OutTypes, output
<1>7. QED
  BY <1>1, <1>2, <1>3, <1>4, <1>5, <1>6

LEMMA InitTypes == Init => TypeOK
<1> SUFFICES ASSUME Init PROVE TypeOK
  OBVIOUS
<1>1. MainTypes /\ WorkerTypes
  BY SettingsAssumption DEF Init, MainTypes, WorkerTypes, RunStates, ChildStates
<1>2. RingTypes /\ ToTypes /\ FromTypes
  BY SizeAssumption, WorkerIs DEF Init, RingTypes, ToTypes, FromTypes
<1>3. StoreTypes /\ AccTypes
  BY DEF Init, StoreTypes, AccTypes
<1>4. OutTypes
  <2>1. files \in [Reducers -> Seq(Results)]
    BY FilesAssumption DEF Init, Results
  <2>2. buff = [r \in Reducers |-> << >>] /\ Len(<< >>) <= PIPE_SIZE
    BY SizeAssumption DEF Init
  <2>3. dropped \in [Reducers -> Nat]
    BY DEF Init
  <2>4. QED
    BY <2>1, <2>2, <2>3 DEF OutTypes
<1>5. QED
  BY <1>1, <1>2, <1>3, <1>4, TypeParts

(* A crash changes no type.                                                *)
LEMMA CrashTypes == ASSUME TypeOK, Crash PROVE TypeOK'
<1>1. MainTypes'
  BY TypeParts DEF Crash, MainTypes, job
<1>2. QED
  BY <1>1, TypesKept, TypePartsNext DEF Crash

(* A step of the main thread                                               *)
LEMMA MainTypesKept ==
  ASSUME TypeOK, NEW from, NEW to, Main(from, to), MainTypes', WorkerTypes'
  PROVE  TypeOK'
BY TypesKept, TypePartsNext DEF Main

LEMMA StartTypes ==
  ASSUME TypeOK, NEW kind, NEW at \in {"startMaps", "startReduces"}, NEW first \in RunStates,
         started < Started(kind) => started + 1 <= IF at = "startMaps" THEN conf.map_num
                                                   ELSE conf.reduce_num,
         StartWorker(kind, at, first) \/ StartNobody(kind, at)
  PROVE  TypeOK'
<1>1. CASE StartNobody(kind, at)
  BY <1>1, CrashTypes DEF StartNobody
<1>2. CASE StartWorker(kind, at, first)
  <2>1. MainTypes'
    BY <1>2, TypeParts DEF StartWorker, Main, MainTypes
  <2>2. WorkerTypes'
    BY <1>2, TypeParts DEF StartWorker, Main, WorkerTypes
  <2>3. QED
    BY <1>2, <2>1, <2>2, MainTypesKept DEF StartWorker
<1>3. QED
  BY <1>1, <1>2

LEMMA DispatchTypes ==
  ASSUME TypeOK, NEW m \in Mappers, NEW item \in Lines \cup {END_PIPE}, DispatchMapper(m, item)
  PROVE  TypeOK'
<1>1. MainTypes'
  BY TypeParts DEF DispatchMapper, MainTypes, job
<1>2. RingTypes'
  BY TypeParts, SizeAssumption DEF DispatchMapper, RingTypes
<1>3. QED
  BY <1>1, <1>2, TypesKept, TypePartsNext DEF DispatchMapper

(* The mapper a line or a marker is dealt to                               *)
LEMMA DealtTo ==
  ASSUME TypeOK
  PROVE  /\ conf.map_num \in Nat /\ conf.reduce_num \in Nat
         /\ input \in Seq(Lines)
         /\ conf.map_num > 0 => round % conf.map_num \in Mappers
                                /\ round % conf.map_num < conf.map_num
         /\ \A m \in Nat : m < conf.map_num => m \in Mappers
         /\ conf.reduce_num > 0 => \A word \in Words :
              Hash[word] % conf.reduce_num \in Reducers
              /\ Hash[word] % conf.reduce_num < conf.reduce_num
<1>1. conf \in [map_num : MapNums, reduce_num : ReduceNums] /\ input \in Inputs /\ round \in Nat
  BY DEF TypeOK
<1>2. conf.map_num \in MapNums /\ conf.reduce_num \in ReduceNums
  BY <1>1
<1>3. conf.map_num \in Nat /\ conf.reduce_num \in Nat
  BY <1>2, SettingsAssumption
<1>4. \A m \in Nat : m < conf.map_num => m \in Mappers
  BY <1>2, <1>3 DEF Mappers
<1>5. \A r \in Nat : r < conf.reduce_num => r \in Reducers
  BY <1>2, <1>3 DEF Reducers
<1>6. \A a \in Nat, n \in Nat : n > 0 => a % n \in Nat /\ a % n < n
  OBVIOUS
<1>7. \A word \in Words : Hash[word] \in Nat
  BY WordsAssumption
<1>8. input \in Seq(Lines)
  BY <1>1, WordsAssumption DEF Lines
<1>9. QED
  BY <1>1, <1>3, <1>4, <1>5, <1>6, <1>7, <1>8

LEMMA MainThreadTypes == ASSUME IInv, TypeOK, MainStep \/ MainFails PROVE TypeOK'
<1>1. ASSUME NEW from, NEW to \in {"open", "startMaps", "startReduces", "delete", "return",
                                   "exited"},
             Main(from, to), UNCHANGED run,
             inited' \in BOOLEAN, UNCHANGED round, started' \in Nat,
             ret' \in {"none", "noFile", "noMap", "noReduce", "ok"},
             to = "startMaps" => started' <= conf.map_num,
             to = "startReduces" => started' <= conf.reduce_num
      PROVE  TypeOK'
  <2>1. MainTypes'
    BY <1>1, TypeParts DEF MainTypes, Main
  <2>2. WorkerTypes'
    BY <1>1, TypesKept DEF Main
  <2>3. QED
    BY <1>1, <2>1, <2>2, MainTypesKept
<1>2. /\ started \in Nat /\ round \in Nat /\ inited \in BOOLEAN
      /\ ret \in {"none", "noFile", "noMap", "noReduce", "ok"}
      /\ conf.map_num \in Nat /\ conf.reduce_num \in Nat
  BY DealtTo DEF TypeOK
<1>3. CASE Initialize \/ InitFails
  BY <1>1, <1>2, <1>3 DEF Initialize, InitFails
<1>4. CASE OpenInput
  <2>1. pc = "open" /\ Main("open", "startMaps") /\ UNCHANGED << inited, ret, started, round, run >>
    BY <1>4 DEF OpenInput, Main
  <2>2. started = 0
    BY <2>1 DEF IInv, StartInv
  <2>3. QED
    BY <1>1, <1>2, <2>1, <2>2
<1>5. ASSUME NEW at, NEW why \in {"noFile", "noMap", "noReduce"}, Quit(at, why) PROVE TypeOK'
  BY <1>1, <1>2, <1>5 DEF Quit
<1>6. CASE MainFails
  BY <1>3, <1>5, <1>6 DEF MainFails, OpenFails, StartMapFails, StartReduceFails
<1>7. CASE StartMap \/ StartReduce
  BY <1>2, <1>7, StartTypes DEF StartMap, StartReduce, Started, RunStates
<1>8. CASE DealLine
  <2>1. input[round + 1] \in Lines
    BY <1>2, <1>8, DealtTo DEF DealLine
  <2>2. QED
    BY <1>2, <1>8, <2>1, DealtTo, DispatchTypes DEF DealLine
<1>9. CASE SendEnd
  <2>1. round - Len(input) \in Nat /\ round - Len(input) < conf.map_num
    BY <1>2, <1>9, DealtTo DEF SendEnd
  <2>2. QED
    BY <1>9, <2>1, DealtTo, DispatchTypes DEF SendEnd
<1>10. CASE DivideByMapNum \/ DeleteNobody
  BY <1>10, CrashTypes DEF DivideByMapNum, DeleteNobody
<1>11. CASE JoinMaps
  BY <1>1, <1>2, <1>11 DEF JoinMaps
<1>12. CASE JoinReduces \/ Delete \/ Exit
  BY <1>1, <1>2, <1>12 DEF JoinReduces, Delete, Exit
<1>13. QED
  BY <1>3, <1>4, <1>6, <1>7, <1>8, <1>9, <1>10, <1>11, <1>12 DEF MainStep

(* A step of a worker's thread                                             *)
LEMMA ThreadTypes ==
  ASSUME TypeOK, NEW w \in Workers, NEW from, NEW to \in RunStates, Thread(w, from, to),
         recv' \in [Workers -> {"none", "reading", "ended"}],
         child' \in [Workers -> ChildStates], reaped' \subseteq Workers, gaveUp' \subseteq Workers,
         RingTypes', ToTypes', UNCHANGED fromChild, StoreTypes'
  PROVE  TypeOK'
<1>1. WorkerTypes'
  BY TypeParts DEF Thread, WorkerTypes
<1>2. QED
  BY <1>1, TypesKept, TypePartsNext DEF Thread

LEMMA Elements ==
  ASSUME NEW S, NEW s \in Seq(S)
  PROVE  DOMAIN s = 1 .. Len(s) /\ Len(s) \in Nat /\ \A i \in 1 .. Len(s) : s[i] \in S
OBVIOUS

(* Sorting moves keys and keeps them.                                      *)
LEMMA SortedKeys ==
  ASSUME NEW S, NEW s \in Seq(S), NEW q \in Sorted(s)
  PROVE  /\ q \in Seq(S) /\ DOMAIN q = DOMAIN s /\ Len(q) = Len(s)
         /\ \E f \in [DOMAIN s -> DOMAIN s] :
              /\ \A j, k \in DOMAIN s : f[j] = f[k] => j = k
              /\ \A j \in DOMAIN s : \E k \in DOMAIN s : f[k] = j
              /\ \A k \in DOMAIN s : q[k] = s[f[k]]
<1>1. PICK f \in Bijection(DOMAIN s, DOMAIN s) : q = [k \in DOMAIN s |-> s[f[k]]]
  BY DEF Sorted, Rearranged
<1>2. /\ f \in [DOMAIN s -> DOMAIN s]
      /\ \A j, k \in DOMAIN s : f[j] = f[k] => j = k
      /\ \A j \in DOMAIN s : \E k \in DOMAIN s : f[k] = j
      /\ \A k \in DOMAIN s : q[k] = s[f[k]]
  BY <1>1 DEF Bijection, Injection, Surjection, IsInjective
<1>3. DOMAIN s = 1 .. Len(s) /\ Len(s) \in Nat
  OBVIOUS
<1>4. q \in Seq(S) /\ DOMAIN q = DOMAIN s /\ Len(q) = Len(s)
  BY <1>1, <1>2, <1>3
<1>5. QED
  BY <1>2, <1>4

(* The pair that get_reduce_task_r() gives out is one of its reducer's.    *)
LEMMA PositionTypes ==
  ASSUME TypeOK, NEW r \in Reducers
  PROVE  Position(r)[1] \in Nat \ {0} /\ Position(r)[2] \in Nat
<1>1. key_pos[r] \in Nat \ {0} /\ value_pos[r] \in Nat
  BY DEF TypeOK
<1>2. QED
  BY <1>1 DEF Position

LEMMA WorkerThreadTypes ==
  ASSUME TypeOK, IInv, NEW w \in Workers, RunStep(w) \/ GiveUp(w) \/ UseDeleted(w)
  PROVE  TypeOK'
<1> USE DEF RunStates, ChildStates
<1>1. /\ recv \in [Workers -> {"none", "reading", "ended"}]
      /\ child \in [Workers -> ChildStates]
      /\ reaped \subseteq Workers /\ gaveUp \subseteq Workers
  BY DEF TypeOK
<1>2. CASE Fork(w)
  BY <1>1, <1>2, ThreadTypes, TypesKept DEF Fork
<1>3. CASE GiveUp(w)
  BY <1>1, <1>3, ThreadTypes, TypesKept DEF GiveUp
<1>4. CASE JoinReceiver(w)
  <2>1. reaped' \subseteq Workers
    BY <1>1, <1>4 DEF JoinReceiver, Wait, Zombies
  <2>2. QED
    BY <1>1, <1>4, <2>1, ThreadTypes, TypesKept DEF JoinReceiver
<1>5. CASE UseDeleted(w) \/ WriteKills(w)
  BY <1>5, CrashTypes DEF UseDeleted, WriteKills
<1>6. ASSUME NEW m \in Mappers, w = << "map", m >>, FeedLine(m) \/ FeedEnd(m) PROVE TypeOK'
  <2>1. ring[m] \in Seq(Lines \cup {END_PIPE}) /\ Len(ring[m]) <= PIPE_SIZE /\ ring[m] # << >>
    BY <1>6 DEF FeedLine, FeedEnd, TypeOK
  <2>2. Tail(ring[m]) \in Seq(Lines \cup {END_PIPE}) /\ Len(Tail(ring[m])) = Len(ring[m]) - 1
    BY <2>1
  <2>3. Len(Tail(ring[m])) <= PIPE_SIZE
    BY <2>1, <2>2, SizeAssumption
  <2>4. ring' = [ring EXCEPT ![m] = Tail(@)]
    BY <1>6 DEF FeedLine, FeedEnd
  <2>5. RingTypes'
    BY <2>2, <2>3, <2>4, TypeParts DEF RingTypes
  <2>6. CASE FeedEnd(m)
    BY <1>1, <1>6, <2>5, <2>6, ThreadTypes, TypesKept DEF FeedEnd
  <2>7. CASE FeedLine(m)
    <3>1. Head(ring[m]) \in Lines
      BY <2>1, <2>7 DEF FeedLine
    <3>2. toChild' = [toChild EXCEPT ![w] = Append(@, Head(ring[m]))]
      BY <1>6, <2>7 DEF FeedLine
    <3>3. DOMAIN toChild = Workers /\ toChild[w] \in Seq(Lines)
      BY <1>6 DEF TypeOK
    <3>4. Append(toChild[w], Head(ring[m])) \in Seq(Lines)
      BY <3>1, <3>3
    <3>5. ToTypes'
      BY <1>6, <3>2, <3>3, <3>4, TypeParts, WorkerIs DEF ToTypes
    <3>6. QED
      BY <1>1, <1>6, <2>5, <2>7, <3>5, ThreadTypes, TypesKept DEF FeedLine
  <2>8. QED
    BY <1>6, <2>6, <2>7
<1>7. ASSUME NEW r \in Reducers, w = << "reduce", r >>, Sort(r) PROVE TypeOK'
  <2>1. ASSUME NEW keys \in Sorted(store[r]), store' = [store EXCEPT ![r] = keys],
               UNCHANGED << key_pos, value_pos >>
        PROVE  StoreTypes'
    <3>1. store[r] \in Seq([word : Words, count : Nat \ {0}])
      BY DEF TypeOK
    <3>2. keys \in Seq([word : Words, count : Nat \ {0}])
      BY <3>1, SortedKeys
    <3>3. QED
      BY <2>1, <3>2, TypeParts DEF StoreTypes
  <2>2. ASSUME UNCHANGED << store, key_pos, value_pos >> PROVE StoreTypes'
    BY <2>2, TypesKept DEF shuffle
  <2>3. StoreTypes'
    BY <1>7, <2>1, <2>2 DEF Sort
  <2>4. QED
    BY <1>1, <1>7, <2>3, ThreadTypes, TypesKept DEF Sort
<1>8. ASSUME NEW r \in Reducers, w = << "reduce", r >>, FeedTask(r) PROVE TypeOK'
  <2> DEFINE k == Position(r)[1]
             v == Position(r)[2]
  <2>1. k \in Nat \ {0} /\ v \in Nat
    BY PositionTypes
  <2>2. store[r] \in Seq([word : Words, count : Nat \ {0}]) /\ store[r] # << >>
    BY <1>8 DEF TypeOK, FeedTask
  <2>3. k \in 1 .. Len(store[r])
    <3>1. k <= Len(store[r])
      BY <1>8 DEF FeedTask
    <3>2. QED
      BY <2>1, <2>2, <3>1
  <2>4. store[r][k].word \in Words
    <3>1. \A i \in 1 .. Len(store[r]) : store[r][i] \in [word : Words, count : Nat \ {0}]
      BY <2>2, Elements
    <3>2. \A i \in 1 .. Len(store[r]) : store[r][i].word \in Words
      BY <3>1
    <3>3. QED
      BY <2>3, <3>2
  <2>5. toChild' = [toChild EXCEPT ![w] = Append(@, store[r][k].word)]
    BY <1>8 DEF FeedTask
  <2>6. DOMAIN toChild = Workers /\ toChild[w] \in Seq(Words)
    BY <1>8 DEF TypeOK
  <2>7. Append(toChild[w], store[r][k].word) \in Seq(Words)
    BY <2>4, <2>6
  <2>8. ToTypes'
    BY <1>8, <2>5, <2>6, <2>7, TypeParts, WorkerIs DEF ToTypes
  <2>9. StoreTypes'
    <3>1. /\ key_pos' = [key_pos EXCEPT ![r] = k] /\ value_pos' = [value_pos EXCEPT ![r] = v + 1]
          /\ UNCHANGED store
      BY <1>8 DEF FeedTask
    <3>2. v + 1 \in Nat
      BY <2>1
    <3>3. QED
      BY <2>1, <3>1, <3>2, TypeParts DEF StoreTypes
  <2>10. QED
    BY <1>1, <1>8, <2>8, <2>9, ThreadTypes, TypesKept DEF FeedTask
<1>9. ASSUME NEW r \in Reducers, w = << "reduce", r >>, NoMoreTasks(r) PROVE TypeOK'
  BY <1>1, <1>9, ThreadTypes, TypesKept DEF NoMoreTasks
<1>10. ASSUME NEW r \in Reducers, ReadNoKey(r) PROVE TypeOK'
  BY <1>10, CrashTypes DEF ReadNoKey
<1>11. QED
  BY <1>2, <1>3, <1>4, <1>5, <1>6, <1>7, <1>8, <1>9, <1>10, WorkerKinds DEF RunStep

LEMMA StoredKeys ==
  ASSUME NEW keys \in Seq([word : Words, count : Nat \ {0}]), NEW word \in Words
  PROVE  Stored(keys, word) \in Seq([word : Words, count : Nat \ {0}])
<1> DEFINE Key == [word : Words, count : Nat \ {0}]
<1>1. \A k \in DOMAIN keys : keys[k] \in Key
  <2> HIDE DEF Key
  <2>1. keys \in Seq(Key)
    BY DEF Key
  <2>2. QED
    BY <2>1, Elements
<1>2. \A k \in DOMAIN keys : [keys[k] EXCEPT !.count = @ + 1] \in Key
  <2>1. ASSUME NEW x \in Key PROVE [x EXCEPT !.count = @ + 1] \in Key
    OBVIOUS
  <2>2. QED
    BY <1>1, <2>1
<1>3. [word |-> word, count |-> 1] \in Key
  OBVIOUS
<1>4. DOMAIN keys = 1 .. Len(keys) /\ Len(keys) \in Nat
  OBVIOUS
<1>5. CASE \E k \in DOMAIN keys : Sign[keys[k].word] = Sign[word]
  <2> DEFINE f == [k \in DOMAIN keys |-> IF Sign[keys[k].word] = Sign[word]
                                        THEN [keys[k] EXCEPT !.count = @ + 1] ELSE keys[k]]
  <2>1. f \in [1 .. Len(keys) -> Key]
    BY <1>1, <1>2, <1>4
  <2>2. f \in Seq(Key)
    BY <1>4, <2>1
  <2>3. QED
    BY <1>5, <2>2 DEF Stored
<1>6. CASE ~ \E k \in DOMAIN keys : Sign[keys[k].word] = Sign[word]
  BY <1>3, <1>6 DEF Stored
<1>7. QED
  BY <1>5, <1>6

(* A step of a child                                                       *)
LEMMA ChildTypes ==
  ASSUME TypeOK, NEW w \in Workers, NEW to \in {"running", "ended", "died"}, Child(w, to),
         ToTypes', FromTypes', AccTypes'
  PROVE  TypeOK'
<1>1. WorkerTypes'
  BY TypeParts DEF Child, WorkerTypes, ChildStates
<1>2. QED
  BY <1>1, TypesKept, TypePartsNext DEF Child

LEMMA TailOfLine ==
  ASSUME NEW queue \in Seq(Lines), queue # << >>
  PROVE  /\ Head(queue) \in Seq(Words \cup {NotAlpha}) /\ Len(Head(queue)) \in Nat \ {0}
         /\ Head(Head(queue)) \in Words \cup {NotAlpha}
         /\ Tail(queue) \in Seq(Lines)
         /\ Len(Head(queue)) # 1 => << Tail(Head(queue)) >> \o Tail(queue) \in Seq(Lines)
<1>1. Head(queue) \in Lines /\ Tail(queue) \in Seq(Lines)
  OBVIOUS
<1>2. Head(queue) \in Seq(Words \cup {NotAlpha}) /\ Head(queue) # << >>
  BY <1>1 DEF Lines
<1>3. Len(Head(queue)) \in Nat \ {0} /\ Head(Head(queue)) \in Words \cup {NotAlpha}
  BY <1>2
<1>4. ASSUME Len(Head(queue)) # 1 PROVE Tail(Head(queue)) \in Lines
  <2>1. /\ Tail(Head(queue)) \in Seq(Words \cup {NotAlpha})
        /\ Len(Tail(Head(queue))) = Len(Head(queue)) - 1
    BY <1>2
  <2>2. Tail(Head(queue)) # << >>
    <3>1. Len(Tail(Head(queue))) # 0
      BY <1>3, <1>4, <2>1
    <3>2. Len(<< >>) = 0
      OBVIOUS
    <3>3. QED
      BY <3>1, <3>2
  <2>3. QED
    BY <2>1, <2>2 DEF Lines
<1>5. QED
  BY <1>1, <1>2, <1>3, <1>4

LEMMA ChildDiesTypes == ASSUME TypeOK, NEW w \in Workers, ChildDies(w) PROVE TypeOK'
BY TypesKept, ChildTypes DEF ChildDies

LEMMA ChildProcessTypes == ASSUME TypeOK, NEW w \in Workers, ChildStep(w) PROVE TypeOK'
<1>1. /\ DOMAIN toChild = Workers /\ DOMAIN fromChild = Workers
      /\ acc \in [Reducers -> Results \cup {NoWord}]
  BY DEF TypeOK
<1>2. CASE w[1] = "map"
  <2>1. PICK m \in Mappers : w = << "map", m >>
    BY <1>2, WorkerKinds
  <2>2. toChild[w] \in Seq(Lines) /\ fromChild[w] \in Seq(Words)
    BY <2>1 DEF TypeOK
  <2>3. CASE MapWord(m)
    <3> DEFINE text == Head(toChild[w])
               word == Head(text)
    <3>1. /\ Child(w, "running") /\ toChild[w] # << >> /\ UNCHANGED acc
          /\ fromChild' = IF word = NotAlpha THEN fromChild
                          ELSE [fromChild EXCEPT ![w] = Append(@, word)]
          /\ toChild'   = [toChild EXCEPT ![w] = IF Len(text) = 1 THEN Tail(@)
                                                 ELSE << Tail(text) >> \o Tail(@)]
      BY <2>1, <2>3 DEF MapWord
    <3>2. /\ word \in Words \cup {NotAlpha}
          /\ toChild'[w] \in Seq(Lines) /\ DOMAIN toChild' = Workers
          /\ \A v \in Workers \ {w} : toChild'[v] = toChild[v]
      <4>1. /\ word \in Words \cup {NotAlpha} /\ Tail(toChild[w]) \in Seq(Lines)
            /\ Len(text) # 1 => << Tail(text) >> \o Tail(toChild[w]) \in Seq(Lines)
        BY <2>2, <3>1, TailOfLine
      <4>2. QED
        BY <1>1, <3>1, <4>1
    <3>3. ToTypes'
      BY <2>1, <3>2, TypeParts, WorkerIs DEF ToTypes
    <3>4. FromTypes'
      <4>1. CASE word = NotAlpha
        BY <3>1, <4>1, TypesKept
      <4>2. CASE word # NotAlpha
        <5>1. Append(fromChild[w], word) \in Seq(Words)
          BY <2>2, <3>2, <4>2
        <5>2. fromChild' = [fromChild EXCEPT ![w] = Append(@, word)]
          BY <3>1, <4>2
        <5>3. QED
          BY <1>1, <2>1, <5>1, <5>2, TypeParts, WorkerIs DEF FromTypes
      <4>3. QED
        BY <4>1, <4>2
    <3>5. QED
      BY <3>1, <3>3, <3>4, TypesKept, ChildTypes
  <2>4. CASE MapChildEnds(m)
    BY <2>1, <2>4, TypesKept, ChildTypes DEF MapChildEnds
  <2>5. QED
    BY <1>2, <2>1, <2>3, <2>4 DEF ChildStep
<1>3. CASE w[1] = "reduce"
  <2>1. PICK r \in Reducers : w = << "reduce", r >>
    BY <1>3, WorkerKinds
  <2>2. /\ toChild[w] \in Seq(Words) /\ fromChild[w] \in Seq(Results)
        /\ acc[r] \in Results \cup {NoWord}
    BY <2>1 DEF TypeOK
  <2>3. acc[r].count \in Nat /\ (acc[r].word # 0 \/ acc[r].count > 0 => acc[r] \in Results)
    BY <2>2 DEF Results, NoWord
  <2>4. Append(fromChild[w], acc[r]) \in Seq(Results) \/ ~ (acc[r].word # 0 \/ acc[r].count > 0)
    BY <2>2, <2>3
  <2>5. ASSUME fromChild' = [fromChild EXCEPT ![w] = Append(@, acc[r])],
               acc[r].word # 0 \/ acc[r].count > 0
        PROVE  FromTypes'
    BY <1>1, <2>1, <2>4, <2>5, TypeParts, WorkerIs DEF FromTypes
  <2>6. CASE ReduceLine(r)
    <3> DEFINE word == Head(toChild[w])
               new  == acc[r].word # 0 /\ word # acc[r].word
    <3>1. /\ Child(w, "running") /\ toChild[w] # << >>
          /\ toChild'   = [toChild EXCEPT ![w] = Tail(@)]
          /\ fromChild' = IF new THEN [fromChild EXCEPT ![w] = Append(@, acc[r])] ELSE fromChild
          /\ acc' = [acc EXCEPT ![r] = [word  |-> word,
                                        count |-> IF new THEN 1 ELSE @.count + 1]]
      BY <2>1, <2>6 DEF ReduceLine
    <3>2. ToTypes'
      <4>1. Tail(toChild[w]) \in Seq(Words)
        BY <2>2, <3>1
      <4>2. toChild' = [toChild EXCEPT ![w] = Tail(@)]
        BY <3>1
      <4>3. QED
        BY <1>1, <2>1, <4>1, <4>2, TypeParts, WorkerIs DEF ToTypes
    <3>3. FromTypes'
      BY <2>5, <3>1, TypesKept
    <3>4. AccTypes'
      <4>1. word \in Words
        BY <2>2, <3>1
      <4>2. (IF new THEN 1 ELSE acc[r].count + 1) \in Nat
        BY <2>3
      <4>3. [word |-> word, count |-> IF new THEN 1 ELSE acc[r].count + 1] \in Results
        BY <4>1, <4>2 DEF Results
      <4>4. QED
        BY <1>1, <3>1, <4>3 DEF AccTypes
    <3>5. QED
      BY <3>1, <3>2, <3>3, <3>4, ChildTypes
  <2>7. CASE ReduceChildEnds(r)
    <3>1. FromTypes'
      BY <2>1, <2>5, <2>7, TypesKept DEF ReduceChildEnds
    <3>2. QED
      BY <2>1, <2>7, <3>1, TypesKept, ChildTypes DEF ReduceChildEnds
  <2>8. QED
    BY <1>3, <2>1, <2>6, <2>7 DEF ChildStep
<1>4. QED
  BY <1>2, <1>3, WorkerKinds

(* A step of a receiver                                                    *)
LEMMA ReceiverTypes ==
  ASSUME TypeOK, NEW w \in Workers, NEW to \in {"reading", "ended"}, Receiver(w, to),
         FromTypes', StoreTypes', OutTypes'
  PROVE  TypeOK'
<1>1. WorkerTypes'
  BY TypeParts DEF Receiver, WorkerTypes
<1>2. QED
  BY <1>1, TypesKept, TypePartsNext DEF Receiver

LEMMA ReverseType ==
  ASSUME NEW S, NEW s \in Seq(S)
  PROVE  Reverse(s) \in Seq(S) /\ Len(Reverse(s)) = Len(s)
         /\ \A i \in 1 .. Len(s) : Reverse(s)[i] = s[Len(s) - i + 1]
<1>1. DOMAIN s = 1 .. Len(s) /\ Len(s) \in Nat
  OBVIOUS
<1>2. \A i \in 1 .. Len(s) : Len(s) - i + 1 \in 1 .. Len(s)
  BY <1>1
<1>3. \A i \in 1 .. Len(s) : s[Len(s) - i + 1] \in S
  BY <1>1, <1>2
<1>4. Reverse(s) = [i \in 1 .. Len(s) |-> s[Len(s) - i + 1]]
  BY <1>1 DEF Reverse
<1>5. Reverse(s) \in [1 .. Len(s) -> S]
  BY <1>3, <1>4
<1>6. QED
  BY <1>1, <1>4, <1>5

LEMMA ReceiverThreadTypes == ASSUME TypeOK, NEW w \in Workers, ReceiverStep(w) PROVE TypeOK'
<1>1. DOMAIN fromChild = Workers
  BY DEF TypeOK
<1>2. CASE w[1] = "map"
  <2>1. PICK m \in Mappers : w = << "map", m >>
    BY <1>2, WorkerKinds
  <2>2. CASE PushBack(m)
    <3> DEFINE word == Head(fromChild[w])
               slot == Hash[word] % conf.reduce_num
    <3>1. /\ conf.reduce_num > 0 /\ fromChild[w] # << >> /\ Receiver(w, "reading")
          /\ store'     = [store EXCEPT ![slot] = Stored(@, word)]
          /\ fromChild' = [fromChild EXCEPT ![w] = Tail(@)]
          /\ UNCHANGED output
      BY <2>1, <2>2 DEF PushBack
    <3>2. fromChild[w] \in Seq(Words)
      BY <2>1 DEF TypeOK
    <3>3. word \in Words /\ Tail(fromChild[w]) \in Seq(Words)
      BY <3>1, <3>2
    <3>4. slot \in Reducers
      BY <3>1, <3>3, DealtTo
    <3>5. StoreTypes'
      <4>1. store[slot] \in Seq([word : Words, count : Nat \ {0}])
        BY <3>4 DEF TypeOK
      <4>2. Stored(store[slot], word) \in Seq([word : Words, count : Nat \ {0}])
        BY <3>3, <4>1, StoredKeys
      <4>3. QED
        BY <3>1, <3>4, <4>2, TypeParts DEF StoreTypes, Receiver
    <3>6. FromTypes'
      BY <1>1, <2>1, <3>1, <3>3, TypeParts, WorkerIs DEF FromTypes
    <3>7. QED
      BY <3>1, <3>5, <3>6, TypesKept, ReceiverTypes
  <2>3. CASE DivideByReduceNum(m)
    BY <2>3, CrashTypes DEF DivideByReduceNum
  <2>4. CASE MapReceiverEnds(m)
    <3>1. UNCHANGED shuffle
      BY <2>4 DEF MapReceiverEnds, Receiver, shuffle
    <3>2. QED
      BY <2>1, <2>4, <3>1, TypesKept, ReceiverTypes DEF MapReceiverEnds
  <2>5. QED
    BY <1>2, <2>1, <2>2, <2>3, <2>4 DEF ReceiverStep
<1>3. CASE w[1] = "reduce"
  <2>1. PICK r \in Reducers : w = << "reduce", r >>
    BY <1>3, WorkerKinds
  <2>2. /\ fromChild[w] \in Seq(Results) /\ buff[r] \in Seq(Results) /\ Len(buff[r]) <= PIPE_SIZE
        /\ files[r] \in Seq(Results) /\ PIPE_SIZE \in Nat \ {0} /\ dropped[r] \in Nat
    BY <2>1, SizeAssumption DEF TypeOK
  <2>3. ASSUME NEW lines \in Seq(Results) PROVE files[r] \o Reverse(lines) \in Seq(Results)
    BY <2>2, ReverseType
  <2>4. ASSUME NEW lines \in Seq(Results), Len(lines) <= PIPE_SIZE, UNCHANGED dropped,
               Dump(r, lines) \/ (UNCHANGED files /\ buff' = [buff EXCEPT ![r] = lines])
        PROVE  OutTypes'
    <3>1. Len(<< >>) <= PIPE_SIZE /\ << >> \in Seq(Results)
      BY <2>2
    <3>2. CASE files' = [files EXCEPT ![r] = @ \o Reverse(lines)] /\ buff' = [buff EXCEPT ![r] = << >>]
      <4>1. files[r] \o Reverse(lines) \in Seq(Results)
        BY <2>3, <2>4
      <4>2. QED
        BY <2>4, <3>1, <3>2, <4>1, TypeParts DEF OutTypes
    <3>3. CASE files' = files /\ buff' = [buff EXCEPT ![r] = lines]
      BY <2>4, <3>3, TypeParts DEF OutTypes
    <3>4. QED
      BY <2>4, <3>2, <3>3 DEF Dump
  <2>5. ASSUME NEW to \in {"reading", "ended"}, Receiver(w, to), UNCHANGED store, FromTypes', OutTypes'
        PROVE  TypeOK'
    <3>1. UNCHANGED shuffle
      BY <2>5 DEF Receiver, shuffle
    <3>2. QED
      BY <2>5, <3>1, TypesKept, ReceiverTypes
  <2>6. ASSUME fromChild[w] # << >>, fromChild' = [fromChild EXCEPT ![w] = Tail(@)] PROVE FromTypes'
    <3>1. Tail(fromChild[w]) \in Seq(Results)
      BY <2>2, <2>6
    <3>2. QED
      BY <1>1, <2>1, <2>6, <3>1, TypeParts, WorkerIs DEF FromTypes
  <2>7. CASE AppendLine(r)
    <3>1. PICK lines : lines = Append(buff[r], Head(fromChild[w]))
      OBVIOUS
    <3>2. /\ fromChild[w] # << >> /\ Receiver(w, "reading") /\ UNCHANGED << store, dropped >>
          /\ fromChild' = [fromChild EXCEPT ![w] = Tail(@)] /\ Len(buff[r]) < PIPE_SIZE
          /\ Dump(r, lines) \/ (UNCHANGED files /\ buff' = [buff EXCEPT ![r] = lines])
      BY <2>1, <2>7, <3>1 DEF AppendLine
    <3>3. lines \in Seq(Results) /\ Len(lines) = Len(buff[r]) + 1
      BY <2>2, <3>1, <3>2
    <3>4. Len(lines) <= PIPE_SIZE
      BY <2>2, <3>2, <3>3
    <3>5. QED
      BY <2>4, <2>5, <2>6, <3>2, <3>3, <3>4
  <2>8. CASE DropLine(r)
    <3>1. /\ fromChild[w] # << >> /\ Receiver(w, "reading") /\ UNCHANGED << store, buff, files >>
          /\ fromChild' = [fromChild EXCEPT ![w] = Tail(@)]
          /\ dropped' = [dropped EXCEPT ![r] = @ + 1]
      BY <2>1, <2>8 DEF DropLine
    <3>2. OutTypes'
      BY <2>2, <3>1, TypeParts DEF OutTypes
    <3>3. QED
      BY <2>5, <2>6, <3>1, <3>2
  <2>9. CASE ReduceReceiverEnds(r)
    <3>1. /\ Receiver(w, "ended") /\ UNCHANGED << store, fromChild, dropped >> /\ Dump(r, buff[r])
      BY <2>1, <2>9 DEF ReduceReceiverEnds
    <3>2. QED
      BY <2>2, <2>4, <2>5, <3>1, TypesKept
  <2>10. QED
    BY <1>3, <2>1, <2>7, <2>8, <2>9 DEF ReceiverStep
<1>4. QED
  BY <1>2, <1>3, WorkerKinds

LEMMA NextTypes == IInv /\ TypeOK /\ [Next]_vars => TypeOK'
<1> SUFFICES ASSUME IInv, TypeOK, [Next]_vars PROVE TypeOK'
  OBVIOUS
<1>1. CASE UNCHANGED vars
  BY <1>1, TypesKept, TypePartsNext DEF vars
<1>2. CASE Poll \/ Terminated
  BY <1>1, <1>2 DEF Poll, Terminated
<1>3. ASSUME NEW w \in Workers,
             RunStep(w) \/ ChildStep(w) \/ ReceiverStep(w)
             \/ GiveUp(w) \/ ChildDies(w) \/ UseDeleted(w)
      PROVE  TypeOK'
  BY <1>3, WorkerThreadTypes, ChildProcessTypes, ChildDiesTypes, ReceiverThreadTypes
<1>4. QED
  BY <1>1, <1>2, <1>3, MainThreadTypes DEF Next

(* Rings and buffers never hold more than they have room for, no more      *)
(* threads are started than there are workers, and all data have the types *)
(* that their readers rely on.                                             *)
THEOREM TypeCorrect == Spec => []TypeOK
BY InitIInv, NextIInv, InitTypes, NextTypes, PTL DEF Spec

-----------------------------------------------------------------------------
(* The refinement.  What has been read is somewhere: the words that are not *)
(* counted yet are in the rest of the file, in a ring, or in the pipes of a *)
(* child, which keeps what it has not read when it dies.                    *)

Alike(word) == { v \in Words : KeyOf(v) = KeyOf(word) }

(* Where some words are in the file                                         *)
Places(some, l)   == {l} \X { k \in DOMAIN input[l] : input[l][k] \in some }
Occurrences(some) == Cardinality(UNION { Places(some, l) : l \in DOMAIN input })

(* The places of some words in a family of queues of lines                  *)
In(queues, some) ==
  { p \in (DOMAIN queues) \X Nat \X Nat :
      p[2] \in DOMAIN queues[p[1]] /\ p[3] \in DOMAIN queues[p[1]][p[2]]
      /\ queues[p[1]][p[2]][p[3]] \in some }

At(line, some) == { k \in DOMAIN line : line[k] \in some }

(* The four families, each as queues of lines                               *)
Undealt == [n \in {0} |-> [l \in 1 .. Len(input) - round |-> input[round + l]]]

InRings == [m \in Mappers |->
  [i \in 1 .. Len(ring[m]) |-> IF ring[m][i] = END_PIPE THEN << >> ELSE ring[m][i]]]

ToChildren == [m \in Mappers |-> toChild[<< "map", m >>]]

FromChildren == [m \in Mappers |->
  [i \in 1 .. Len(fromChild[<< "map", m >>]) |-> << fromChild[<< "map", m >>][i] >>]]

InFile(some) == In(Undealt, some)
InRing(some) == In(InRings, some)
InTo(some)   == In(ToChildren, some)
InFrom(some) == In(FromChildren, some)

Conserved(word, some) ==
  /\ IsFiniteSet(InFile(some)) /\ IsFiniteSet(InRing(some))
  /\ IsFiniteSet(InTo(some)) /\ IsFiniteSet(InFrom(some))
  /\ Counted(word) + Cardinality(InFile(some)) + Cardinality(InRing(some))
     + Cardinality(InTo(some)) + Cardinality(InFrom(some)) = Occurrences(some)

WordInv == \A word \in Words : Conserved(word, Alike(word))

(* What ret, started and inited say about each other and the workers.       *)
ControlInv ==
  /\ started > 0 => inited
  /\ pc = "startReduces" => inited \/ conf.map_num = 0
  /\ ret = "ok" => inited \/ (conf.map_num = 0 /\ conf.reduce_num = 0)
  /\ ret = "noMap" => \A r \in Reducers : run[<< "reduce", r >>] = "new"
  /\ ret = "noReduce" => \A m \in Mappers : Quiet(<< "map", m >>)

(* The end marker is the last thing in a ring.                              *)
RingOf(m) ==
  /\ m >= conf.map_num => ring[m] = << >>
  /\ \A i \in DOMAIN ring[m] :
       ring[m][i] = END_PIPE => i = Len(ring[m]) /\ round > Len(input) + m
  /\ run[<< "map", m >>] \in {"join", "ended"} /\ << "map", m >> \notin gaveUp =>
       ring[m] = << >> /\ round > Len(input) + m

RingInv == \A m \in Mappers : RingOf(m)

(* A child reads what its worker wrote, and the receiver what the child did.*)
QueueInv ==
  \A w \in Workers :
    /\ run[w] \in {"new", "sort", "fork"} =>
         child[w] = "none" /\ toChild[w] = << >> /\ fromChild[w] = << >>
    /\ child[w] = "ended" =>
         run[w] \in {"join", "ended"} /\ w \notin gaveUp /\ toChild[w] = << >>
    /\ recv[w] = "ended" => Unread(w) /\ fromChild[w] = << >>
    /\ run[w] = "ended" /\ w \notin gaveUp => recv[w] = "ended"

(* A reducer has a key for every sign of its words, and no two.            *)
Distinct(keys) == \A k, l \in DOMAIN keys : Sign[keys[k].word] = Sign[keys[l].word] => k = l

KeysOf(keys, r) ==
  \A k \in DOMAIN keys : conf.reduce_num > 0 /\ Hash[keys[k].word] % conf.reduce_num = r

GoodKeys(r) == KeysOf(store[r], r) /\ Distinct(store[r])

StoreInv == \A r \in Reducers : GoodKeys(r)

(* Nothing but words of the file is stored or on its way to the shuffle.    *)
Real == Abstract!Occurring

RealLines == Seq(Real \cup {NotAlpha})

RealInv ==
  /\ \A m \in Mappers : /\ ring[m] \in Seq(RealLines \cup {END_PIPE})
                        /\ toChild[<< "map", m >>] \in Seq(RealLines)
                        /\ fromChild[<< "map", m >>] \in Seq(Real)
  /\ \A r \in Reducers : \A k \in DOMAIN store[r] : store[r][k].word \in Real

(* How many values of key k have been given out, and how many of these the *)
(* child has counted when it printed n lines and is at the pair a.         *)
Fed(keys, kp, vp, k) ==
  IF k < kp THEN keys[k].count ELSE IF k = kp THEN vp - 1 ELSE 0

Eaten(keys, a, n, k) ==
  IF k <= n THEN keys[k].count ELSE IF k = n + 1 THEN a.count ELSE 0

Where(line, word) == { k \in DOMAIN line : line[k] = word }

(* What is in the pipe to reducer.py is what it has not counted yet.       *)
Feeding(keys, kp, vp, queue, a, n) ==
  /\ kp \in Nat /\ vp \in Nat /\ kp >= 1 /\ vp >= 1
  /\ keys = << >> => kp = 1 /\ vp = 1
  /\ keys # << >> => kp <= Len(keys) /\ vp <= keys[kp].count + 1
  /\ \A k \in DOMAIN keys :
       Fed(keys, kp, vp, k) = Eaten(keys, a, n, k) + Cardinality(Where(queue, keys[k].word))
  /\ \A i \in DOMAIN queue : \E k \in DOMAIN keys : queue[i] = keys[k].word
  /\ \A i, j \in DOMAIN queue : \A k, l \in DOMAIN keys :
       i < j /\ queue[i] = keys[k].word /\ queue[j] = keys[l].word => k <= l
  /\ IF a.word = 0 THEN a.count = 0 /\ n = 0
     ELSE a.count >= 1 /\ (n < Len(keys) => a.word = keys[n + 1].word)

(* What reducer.py printed is in the file, then in the buffer, then it was *)
(* refused, then it is in the pipe: the keys in their order, except that a *)
(* buffer is turned over when it goes to the file.                         *)
Output(old, keys, file, lines, gone, queue) ==
  LET done == Len(file) - Len(old)
  IN  /\ done >= 0 /\ gone \in Nat /\ done + Len(lines) + gone + Len(queue) <= Len(keys)
      /\ \A i \in DOMAIN lines : lines[i] = keys[done + i]
      /\ \A i \in DOMAIN queue : queue[i] = keys[done + Len(lines) + gone + i]
      /\ \A word \in Words :
           (\E i \in Len(old) + 1 .. Len(file) : file[i].word = word)
           <=> (\E k \in 1 .. done : keys[k].word = word)

Printed(r) ==
  Len(files[r]) - Len(OldFiles[r]) + Len(buff[r]) + dropped[r]
  + Len(fromChild[<< "reduce", r >>])

FeedInv(r) ==
  Feeding(store[r], key_pos[r], value_pos[r], toChild[<< "reduce", r >>], acc[r], Printed(r))

OutInv(r) ==
  Output(OldFiles[r], store[r], files[r], buff[r], dropped[r], fromChild[<< "reduce", r >>])

StageInv(r) ==
  LET w == << "reduce", r >>
  IN  /\ run[w] \in {"new", "sort", "fork"} =>
           key_pos[r] = 1 /\ value_pos[r] = 1 /\ acc[r] = NoWord
           /\ buff[r] = << >> /\ files[r] = OldFiles[r] /\ dropped[r] = 0
      /\ run[w] \in {"join", "ended"} /\ w \notin gaveUp =>
           store[r] # << >> /\ Position(r)[1] > Len(store[r])
      /\ IF child[w] = "ended" THEN Printed(r) = Len(store[r])
         ELSE acc[r].word # 0 => Printed(r) < Len(store[r])
      /\ recv[w] = "reading" /\ dropped[r] > 0 => Len(buff[r]) = PIPE_SIZE

ReducerInv == \A r \in Reducers : FeedInv(r) /\ OutInv(r) /\ StageInv(r)

-----------------------------------------------------------------------------
(* Main thread, rings and pipes *)

CInv == ControlInv /\ RingInv /\ QueueInv

LEMMA InitCInv == Init => CInv
BY WorkerIs DEF Init, CInv, ControlInv, RingInv, RingOf, QueueInv, Unread, Quiet

LEMMA CrashCInv == ASSUME CInv, Crash PROVE CInv'
<1>1. UNCHANGED << conf, inited, ret, started, run, input, ring, round, gaveUp, recv, child,
                   toChild, fromChild >> /\ pc' = "crashed"
  BY DEF Crash, job
<1>2. ControlInv'
  BY <1>1 DEF CInv, ControlInv, Quiet
<1>3. RingInv' /\ QueueInv'
  BY <1>1 DEF CInv, RingInv, RingOf, QueueInv, Unread
<1>4. QED
  BY <1>2, <1>3 DEF CInv

(* Nothing happens to the workers.                                         *)
LEMMA MainCInv ==
  ASSUME CInv, NEW from, NEW to, Main(from, to), UNCHANGED << run, round, gaveUp >>, ControlInv'
  PROVE  CInv'
<1>1. UNCHANGED << conf, input, ring, recv, child, toChild, fromChild, gaveUp >>
  BY DEF Main
<1>2. RingInv' /\ QueueInv'
  BY <1>1 DEF CInv, RingInv, RingOf, QueueInv, Unread
<1>3. QED
  BY <1>2 DEF CInv

LEMMA StartCInv ==
  ASSUME IInv, TypeOK, CInv, NEW w \in Workers, NEW at, NEW first \in {"sort", "fork"},
         at \in {"startMaps", "startReduces"},
         StartWorker(w[1], at, first), w = << w[1], started >>, run[w] = "new"
  PROVE  CInv'
<1>1. /\ UNCHANGED << conf, input, inited, pc, ret, round, ring, recv, child, toChild, fromChild,
                      gaveUp >>
      /\ pc = at /\ inited /\ started' = started + 1
      /\ \A v \in Workers : run'[v] = IF v = w THEN first ELSE run[v]
  BY DEF StartWorker, Main, TypeOK
<1>2. ret = "none"
  BY <1>1 DEF IInv, ReturnInv
<1>3. ControlInv'
  BY <1>1, <1>2 DEF CInv, ControlInv
<1>4. RingInv'
  BY <1>1, WorkerIs DEF CInv, RingInv, RingOf
<1>5. QueueInv'
  BY <1>1 DEF CInv, QueueInv, Unread
<1>6. QED
  BY <1>3, <1>4, <1>5 DEF CInv

LEMMA DispatchCInv ==
  ASSUME TypeOK, CInv, NEW m \in Mappers, NEW item, DispatchMapper(m, item), m < conf.map_num,
         round <= Len(input) + m,
         item = END_PIPE => round = Len(input) + m
  PROVE  CInv'
<1>1. /\ UNCHANGED << conf, inited, input, pc, ret, started, run, recv, child, toChild, fromChild,
                      gaveUp >>
      /\ round' = round + 1 /\ ring' = [ring EXCEPT ![m] = Append(@, item)]
  BY DEF DispatchMapper, job
<1>2. ControlInv' /\ QueueInv'
  BY <1>1 DEF CInv, ControlInv, QueueInv, Unread, Quiet
<1>3. ring \in [Mappers -> Seq(Lines \cup {END_PIPE})] /\ round \in Nat /\ Len(input) \in Nat
  BY DealtTo DEF TypeOK
<1>4. ASSUME NEW n \in Mappers
      PROVE  /\ n >= conf.map_num => ring'[n] = << >>
             /\ \A i \in DOMAIN ring'[n] :
                  ring'[n][i] = END_PIPE => i = Len(ring'[n]) /\ round' > Len(input) + n
             /\ run[<< "map", n >>] \in {"join", "ended"} /\ << "map", n >> \notin gaveUp =>
                  ring'[n] = << >> /\ round' > Len(input) + n
  <2>1. n \in Nat /\ m \in Nat
    BY SettingsAssumption DEF Mappers
  <2>2. CASE n # m
    <3>1. ring'[n] = ring[n]
      BY <1>1, <1>3, <2>2
    <3>2. /\ n >= conf.map_num => ring[n] = << >>
          /\ \A i \in DOMAIN ring[n] :
               ring[n][i] = END_PIPE => i = Len(ring[n]) /\ round > Len(input) + n
          /\ run[<< "map", n >>] \in {"join", "ended"} /\ << "map", n >> \notin gaveUp =>
               ring[n] = << >> /\ round > Len(input) + n
      BY DEF CInv, RingInv, RingOf
    <3>3. round > Len(input) + n => round' > Len(input) + n
      BY <1>1, <1>3, <2>1
    <3>4. QED
      BY <3>1, <3>2, <3>3
  <2>3. CASE n = m
    <3>1. ring'[m] = Append(ring[m], item) /\ ring[m] \in Seq(Lines \cup {END_PIPE})
      BY <1>1, <1>3
    <3>2. /\ Len(ring'[m]) = Len(ring[m]) + 1 /\ DOMAIN ring'[m] = 1 .. Len(ring[m]) + 1
          /\ ring'[m][Len(ring[m]) + 1] = item /\ Len(ring[m]) \in Nat
          /\ DOMAIN ring[m] = 1 .. Len(ring[m])
          /\ \A i \in 1 .. Len(ring[m]) : ring'[m][i] = ring[m][i]
      BY <3>1
    <3>3. ~ (round > Len(input) + m)
      BY <1>3, <2>1
    <3>4. /\ \A i \in 1 .. Len(ring[m]) : ring[m][i] # END_PIPE
          /\ ~ (run[<< "map", m >>] \in {"join", "ended"} /\ << "map", m >> \notin gaveUp)
      BY <3>2, <3>3 DEF CInv, RingInv, RingOf
    <3>5. conf.map_num \in Nat
      BY DealtTo
    <3>6. \A i \in DOMAIN ring'[m] : ring'[m][i] = END_PIPE => i = Len(ring'[m]) /\ item = END_PIPE
      BY <3>2, <3>4
    <3>7. item = END_PIPE => round' > Len(input) + m
      BY <1>1, <1>3, <2>1
    <3>8. QED
      BY <2>1, <2>3, <3>4, <3>5, <3>6, <3>7
  <2>4. QED
    BY <2>2, <2>3
<1>5. RingInv'
  BY <1>1, <1>4 DEF RingInv, RingOf
<1>6. QED
  BY <1>2, <1>5 DEF CInv

LEMMA MainThreadCInv == ASSUME IInv, TypeOK, CInv, MainStep \/ MainFails PROVE CInv'
<1>1. /\ started \in Nat /\ round \in Nat /\ Len(input) \in Nat
      /\ conf.map_num \in Nat /\ conf.reduce_num \in Nat
  <2>1. input \in Seq(Lines) /\ conf.map_num \in Nat /\ conf.reduce_num \in Nat
    BY DealtTo
  <2>2. Len(input) \in Nat
    BY <2>1
  <2>3. QED
    BY <2>1, <2>2 DEF TypeOK
<1>2. ControlInv /\ ReturnInv /\ StartInv
  BY DEF IInv, CInv
<1>3. CASE Initialize
  <2>1. ControlInv'
    BY <1>2, <1>3 DEF ControlInv, ReturnInv, Initialize, Main, Quiet
  <2>2. QED
    BY <1>3, <2>1, MainCInv DEF Initialize, Main
<1>4. CASE InitFails
  <2>1. ControlInv'
    BY <1>2, <1>4 DEF ControlInv, ReturnInv, InitFails, Main, Quiet
  <2>2. QED
    BY <1>4, <2>1, MainCInv DEF InitFails, Main
<1>5. CASE OpenInput
  <2>1. ControlInv'
    BY <1>2, <1>5 DEF ControlInv, ReturnInv, OpenInput, Main, Quiet
  <2>2. QED
    BY <1>5, <2>1, MainCInv DEF OpenInput, Main
<1>6. CASE OpenFails
  <2>1. ControlInv'
    BY <1>2, <1>6 DEF ControlInv, ReturnInv, OpenFails, Quit, Main, Quiet
  <2>2. QED
    BY <1>6, <2>1, MainCInv DEF OpenFails, Quit, Main
<1>7. CASE StartMapFails
  <2>1. \A r \in Reducers : run[<< "reduce", r >>] = "new"
    BY <1>2, <1>7, WorkerIs DEF StartInv, StartMapFails, Quit, Main
  <2>2. ControlInv'
    BY <1>2, <1>7, <2>1 DEF ControlInv, StartMapFails, Quit, Main
  <2>3. QED
    BY <1>7, <2>2, MainCInv DEF StartMapFails, Quit, Main
<1>8. CASE StartReduceFails
  <2>1. \A m \in Mappers : Quiet(<< "map", m >>)
    BY <1>2, <1>8, WorkerIs DEF StartInv, StartReduceFails, Quit, Main
  <2>2. ControlInv'
    BY <1>2, <1>8, <2>1 DEF ControlInv, StartReduceFails, Quit, Main, Quiet
  <2>3. QED
    BY <1>8, <2>2, MainCInv DEF StartReduceFails, Quit, Main
<1>9. ASSUME NEW kind \in {"map", "reduce"}, NEW at \in {"startMaps", "startReduces"},
             NEW first \in {"sort", "fork"}, StartWorker(kind, at, first),
             at = IF kind = "map" THEN "startMaps" ELSE "startReduces"
      PROVE  CInv'
  <2>1. pc = at /\ started < Started(kind)
    BY <1>9 DEF StartWorker, Main
  <2>2. << kind, started >> \in Workers
    <3>1. kind = "map" => started \in Mappers
      BY <1>1, <2>1, DealtTo DEF Started
    <3>2. kind = "reduce" => started \in Reducers
      BY <1>1, <2>1, SettingsAssumption DEF Started, Reducers, TypeOK
    <3>3. QED
      BY <3>1, <3>2, WorkerIs
  <2>3. run[<< kind, started >>] = "new"
    BY <1>1, <1>2, <1>9, <2>1, <2>2 DEF StartInv
  <2>4. PICK w : w = << kind, started >>
    OBVIOUS
  <2>5. w[1] = kind
    BY <2>4
  <2>6. QED
    BY <1>9, <2>2, <2>3, <2>4, <2>5, StartCInv
<1>10. CASE StartMap \/ StartReduce
  BY <1>9, <1>10, CrashCInv DEF StartMap, StartReduce, StartNobody
<1>11. CASE DealLine
  <2>1. input[round + 1] # END_PIPE
    <3>1. round + 1 \in DOMAIN input
      BY <1>1, <1>11, DealtTo DEF DealLine
    <3>2. QED
      BY <3>1, MarkerAssumption DEF TypeOK
  <2>2. /\ DispatchMapper(round % conf.map_num, input[round + 1])
        /\ round % conf.map_num \in Mappers /\ round % conf.map_num < conf.map_num
        /\ round < Len(input)
    BY <1>1, <1>11, DealtTo DEF DealLine
  <2>3. \A m \in Nat : round <= Len(input) + m
    BY <1>1, <2>2
  <2>4. round % conf.map_num \in Nat
    BY <2>2, SettingsAssumption DEF Mappers
  <2>5. QED
    BY <2>1, <2>2, <2>3, <2>4, DispatchCInv
<1>12. CASE SendEnd
  <2>1. PICK m : m = round - Len(input)
    OBVIOUS
  <2>2. m \in Nat /\ m < conf.map_num /\ round = Len(input) + m /\ DispatchMapper(m, END_PIPE)
    BY <1>1, <1>12, <2>1 DEF SendEnd
  <2>3. QED
    BY <1>1, <2>2, DealtTo, DispatchCInv
<1>13. CASE DivideByMapNum \/ DeleteNobody
  BY <1>13, CrashCInv DEF DivideByMapNum, DeleteNobody
<1>14. CASE JoinMaps
  <2>1. ControlInv'
    BY <1>1, <1>2, <1>14 DEF ControlInv, ReturnInv, JoinMaps, Dealing, Main, Quiet
  <2>2. QED
    BY <1>14, <2>1, MainCInv DEF JoinMaps, Main
<1>15. CASE JoinReduces
  <2>1. ControlInv'
    BY <1>1, <1>2, <1>15 DEF ControlInv, ReturnInv, JoinReduces, Main, Quiet
  <2>2. QED
    BY <1>15, <2>1, MainCInv DEF JoinReduces, Main
<1>16. CASE Delete
  <2>1. ControlInv'
    BY <1>2, <1>16 DEF ControlInv, ReturnInv, Delete, Main, Quiet
  <2>2. QED
    BY <1>16, <2>1, MainCInv DEF Delete, Main
<1>17. CASE Exit
  <2>1. ControlInv'
    BY <1>2, <1>17 DEF ControlInv, ReturnInv, Exit, Main, Quiet
  <2>2. QED
    BY <1>17, <2>1, MainCInv DEF Exit, Main
<1>18. QED
  BY <1>3, <1>4, <1>5, <1>6, <1>7, <1>8, <1>10, <1>11, <1>12, <1>13, <1>14, <1>15, <1>16,
     <1>17 DEF MainStep, MainFails

(* A worker's thread goes on, and its queues may change.                   *)
LEMMA ThreadCInv ==
  ASSUME IInv, TypeOK, CInv, NEW w \in Workers, NEW from \in {"sort", "fork", "feed", "join"},
         NEW to \in RunStates \ {"new"}, Thread(w, from, to), RingInv', QueueInv'
  PROVE  CInv'
<1>1. /\ UNCHANGED << conf, inited, pc, ret, started >> /\ run[w] = from
      /\ \A v \in Workers : run'[v] = IF v = w THEN to ELSE run[v]
  BY DEF Thread, job, mainVars, TypeOK
<1>2. ControlInv'
  BY <1>1, WorkerIs DEF CInv, ControlInv, Quiet
<1>3. QED
  BY <1>2 DEF CInv

(* The rings are left alone.                                               *)
LEMMA RingKept ==
  ASSUME TypeOK, CInv, UNCHANGED << conf, input, round, ring >>,
         NEW w \in Workers, NEW to, \A v \in Workers : run'[v] = IF v = w THEN to ELSE run[v],
         to \in {"join", "ended"} /\ w[1] = "map" /\ w \notin gaveUp' =>
           run[w] \in {"join", "ended"},
         gaveUp \subseteq gaveUp'
  PROVE  RingInv'
<1>1. ASSUME NEW m \in Mappers PROVE RingOf(m)'
  <2>1. RingOf(m) /\ << "map", m >> \in Workers
    BY WorkerIs DEF CInv, RingInv
  <2>2. CASE << "map", m >> = w
    BY <2>1, <2>2 DEF RingOf
  <2>3. CASE << "map", m >> # w
    BY <2>1, <2>3 DEF RingOf
  <2>4. QED
    BY <2>2, <2>3
<1>2. QED
  BY <1>1 DEF RingInv

(* What is popped from a queue                                             *)
LEMMA TailFacts ==
  ASSUME NEW S, NEW s \in Seq(S), s # << >>
  PROVE  /\ Len(s) \in Nat \ {0} /\ DOMAIN s = 1 .. Len(s)
         /\ Head(s) = s[1] /\ Head(s) \in S /\ Tail(s) \in Seq(S)
         /\ Len(Tail(s)) = Len(s) - 1 /\ DOMAIN Tail(s) = 1 .. Len(s) - 1
         /\ \A i \in 1 .. Len(s) - 1 : Tail(s)[i] = s[i + 1]
         /\ Len(s) = 1 => Tail(s) = << >>
<1>1. Len(s) \in Nat \ {0} /\ DOMAIN s = 1 .. Len(s) /\ Head(s) = s[1] /\ Head(s) \in S
  OBVIOUS
<1>2. /\ Tail(s) \in Seq(S) /\ Len(Tail(s)) = Len(s) - 1 /\ DOMAIN Tail(s) = 1 .. Len(s) - 1
      /\ \A i \in 1 .. Len(s) - 1 : Tail(s)[i] = s[i + 1]
  OBVIOUS
<1>3. \A t \in Seq(S) : Len(t) = 0 => t = << >>
  OBVIOUS
<1>4. Len(s) = 1 => Tail(s) = << >>
  BY <1>1, <1>2, <1>3
<1>5. QED
  BY <1>1, <1>2, <1>4

(* The ring of a mapper changes.                                           *)
LEMMA RingChanges ==
  ASSUME TypeOK, CInv, UNCHANGED << conf, input, round, gaveUp >>, NEW m \in Mappers,
         NEW to, \A v \in Workers : run'[v] = IF v = << "map", m >> THEN to ELSE run[v],
         \A n \in Mappers \ {m} : ring'[n] = ring[n], RingOf(m)'
  PROVE  RingInv'
<1>1. ASSUME NEW n \in Mappers, n # m PROVE RingOf(n)'
  <2>1. RingOf(n) /\ run'[<< "map", n >>] = run[<< "map", n >>] /\ ring'[n] = ring[n]
    BY <1>1, WorkerIs DEF CInv, RingInv
  <2>2. QED
    BY <2>1 DEF RingOf
<1>2. QED
  BY <1>1 DEF RingInv

LEMMA WorkerCInv ==
  ASSUME IInv, TypeOK, CInv, NEW w \in Workers, RunStep(w) \/ GiveUp(w) \/ UseDeleted(w)
  PROVE  CInv'
<1> USE DEF RunStates, ChildStates
<1>1. /\ run \in [Workers -> RunStates] /\ recv \in [Workers -> {"none", "reading", "ended"}]
      /\ child \in [Workers -> ChildStates]
      /\ DOMAIN toChild = Workers /\ DOMAIN fromChild = Workers
      /\ ring \in [Mappers -> Seq(Lines \cup {END_PIPE})]
  BY DEF TypeOK
<1>2. RingInv /\ QueueInv /\ ReceiverInv
  BY DEF CInv, IInv
<1>3. ASSUME NEW from, NEW to, Thread(w, from, to)
      PROVE  /\ UNCHANGED << conf, input, round, pc >> /\ run[w] = from
             /\ \A v \in Workers : run'[v] = IF v = w THEN to ELSE run[v]
  BY <1>1, <1>3 DEF Thread, job, mainVars
<1>4. CASE Fork(w)
  <2>1. /\ Thread(w, "fork", "feed") /\ UNCHANGED << ring, toChild, fromChild, gaveUp >>
        /\ \A v \in Workers \ {w} : child'[v] = child[v] /\ recv'[v] = recv[v]
        /\ child'[w] \in {"running", "failed"} /\ recv'[w] = "reading"
    BY <1>1, <1>4 DEF Fork
  <2>2. QueueInv'
    BY <1>1, <1>2, <1>3, <2>1 DEF QueueInv, Unread
  <2>3. QED
    BY <1>3, <2>1, <2>2, RingKept, ThreadCInv
<1>5. CASE GiveUp(w)
  <2>1. /\ Thread(w, "fork", "ended") /\ UNCHANGED << ring, toChild, fromChild, recv >>
        /\ \A v \in Workers \ {w} : child'[v] = child[v]
        /\ child'[w] \in {"running", "failed"} /\ gaveUp' = gaveUp \cup {w}
    BY <1>1, <1>5 DEF GiveUp
  <2>2. QueueInv'
    BY <1>1, <1>2, <1>3, <2>1 DEF QueueInv, Unread, ReceiverInv
  <2>3. QED
    BY <1>3, <2>1, <2>2, RingKept, ThreadCInv
<1>6. CASE JoinReceiver(w)
  <2>1. /\ Thread(w, "join", "ended") /\ recv[w] = "ended"
        /\ UNCHANGED << ring, toChild, fromChild, recv, child, gaveUp >>
    BY <1>6 DEF JoinReceiver
  <2>2. QueueInv'
    BY <1>1, <1>2, <1>3, <2>1 DEF QueueInv, Unread
  <2>3. QED
    BY <1>3, <2>1, <2>2, RingKept, ThreadCInv
<1>7. CASE UseDeleted(w) \/ WriteKills(w)
  BY <1>7, CrashCInv DEF UseDeleted, WriteKills
<1>8. ASSUME NEW m \in Mappers, w = << "map", m >>, FeedLine(m) PROVE CInv'
  <2>1. /\ Thread(w, "feed", "feed") /\ UNCHANGED << fromChild, recv, child, gaveUp >>
        /\ toChild' = [toChild EXCEPT ![w] = Append(@, Head(ring[m]))]
        /\ ring' = [ring EXCEPT ![m] = Tail(@)] /\ ring[m] # << >> /\ Head(ring[m]) # END_PIPE
    BY <1>8 DEF FeedLine
  <2>2. QueueInv'
    BY <1>1, <1>2, <1>3, <2>1 DEF QueueInv, Unread
  <2>3. /\ ring'[m] = Tail(ring[m]) /\ \A n \in Mappers \ {m} : ring'[n] = ring[n]
        /\ ring[m] \in Seq(Lines \cup {END_PIPE})
    BY <1>1, <2>1
  <2>4. /\ Len(ring[m]) \in Nat \ {0} /\ Len(ring'[m]) = Len(ring[m]) - 1
        /\ DOMAIN ring[m] = 1 .. Len(ring[m]) /\ DOMAIN ring'[m] = 1 .. Len(ring[m]) - 1
        /\ \A i \in 1 .. Len(ring[m]) - 1 : ring'[m][i] = ring[m][i + 1]
    <3>1. /\ Len(ring[m]) \in Nat \ {0} /\ Len(Tail(ring[m])) = Len(ring[m]) - 1
          /\ DOMAIN ring[m] = 1 .. Len(ring[m]) /\ DOMAIN Tail(ring[m]) = 1 .. Len(ring[m]) - 1
          /\ \A i \in 1 .. Len(ring[m]) - 1 : Tail(ring[m])[i] = ring[m][i + 1]
      BY <2>1, <2>3, TailFacts
    <3>2. QED
      BY <2>3, <3>1
  <2>5. RingOf(m)
    BY <1>2 DEF RingInv
  <2>6. ASSUME NEW i \in DOMAIN ring'[m], ring'[m][i] = END_PIPE
        PROVE  i = Len(ring'[m]) /\ round > Len(input) + m
    <3>1. i + 1 \in DOMAIN ring[m] /\ ring[m][i + 1] = END_PIPE
      BY <2>4, <2>6
    <3>2. i + 1 = Len(ring[m]) /\ round > Len(input) + m
      BY <2>5, <3>1 DEF RingOf
    <3>3. i \in Nat
      BY <2>4
    <3>4. QED
      BY <2>4, <3>2, <3>3
  <2>7. run'[<< "map", m >>] = "feed" /\ ~ (m >= conf.map_num)
    BY <1>3, <1>8, <2>1, <2>5 DEF RingOf
  <2>8. RingOf(m)'
    BY <1>3, <2>1, <2>6, <2>7 DEF RingOf
  <2>9. RingInv'
    BY <1>3, <1>8, <2>1, <2>3, <2>8, RingChanges
  <2>10. QED
    BY <2>1, <2>2, <2>9, ThreadCInv
<1>9. ASSUME NEW m \in Mappers, w = << "map", m >>, FeedEnd(m) PROVE CInv'
  <2>1. /\ Thread(w, "feed", "join") /\ UNCHANGED << toChild, fromChild, recv, child, gaveUp >>
        /\ ring' = [ring EXCEPT ![m] = Tail(@)] /\ ring[m] # << >> /\ Head(ring[m]) = END_PIPE
    BY <1>9 DEF FeedEnd
  <2>2. QueueInv'
    BY <1>1, <1>2, <1>3, <2>1 DEF QueueInv, Unread
  <2>3. /\ ring'[m] = Tail(ring[m]) /\ \A n \in Mappers \ {m} : ring'[n] = ring[n]
        /\ ring[m] \in Seq(Lines \cup {END_PIPE})
    BY <1>1, <2>1
  <2>4. 1 \in DOMAIN ring[m] /\ ring[m][1] = END_PIPE
    BY <2>1, <2>3, TailFacts
  <2>5. RingOf(m)
    BY <1>2 DEF RingInv
  <2>6. 1 = Len(ring[m]) /\ round > Len(input) + m
    BY <2>4, <2>5 DEF RingOf
  <2>7. ring'[m] = << >>
    BY <2>1, <2>3, <2>6, TailFacts
  <2>8. RingOf(m)'
    BY <1>3, <2>1, <2>6, <2>7 DEF RingOf
  <2>9. RingInv'
    BY <1>3, <1>9, <2>1, <2>3, <2>8, RingChanges
  <2>10. QED
    BY <2>1, <2>2, <2>9, ThreadCInv
<1>10. ASSUME NEW r \in Reducers, w = << "reduce", r >>, Sort(r) PROVE CInv'
  <2>1. /\ Thread(w, "sort", "fork")
        /\ UNCHANGED << ring, toChild, fromChild, recv, child, gaveUp >>
    BY <1>10 DEF Sort
  <2>2. QueueInv'
    BY <1>1, <1>2, <1>3, <2>1 DEF QueueInv, Unread
  <2>3. QED
    BY <1>3, <2>1, <2>2, RingKept, ThreadCInv
<1>11. ASSUME NEW r \in Reducers, w = << "reduce", r >>, FeedTask(r) PROVE CInv'
  <2>1. /\ Thread(w, "feed", "feed") /\ UNCHANGED << ring, fromChild, recv, child, gaveUp >>
        /\ \A v \in Workers \ {w} : toChild'[v] = toChild[v]
    BY <1>11 DEF FeedTask
  <2>2. QueueInv'
    BY <1>1, <1>2, <1>3, <2>1 DEF QueueInv, Unread
  <2>3. QED
    BY <1>3, <2>1, <2>2, RingKept, ThreadCInv
<1>12. ASSUME NEW r \in Reducers, w = << "reduce", r >>, NoMoreTasks(r) PROVE CInv'
  <2>1. /\ Thread(w, "feed", "join") /\ w[1] = "reduce"
        /\ UNCHANGED << ring, toChild, fromChild, recv, child, gaveUp >>
    BY <1>12 DEF NoMoreTasks
  <2>2. QueueInv'
    BY <1>1, <1>2, <1>3, <2>1 DEF QueueInv, Unread
  <2>3. QED
    BY <1>3, <2>1, <2>2, RingKept, ThreadCInv
<1>13. ASSUME NEW r \in Reducers, ReadNoKey(r) PROVE CInv'
  BY <1>13, CrashCInv DEF ReadNoKey
<1>14. QED
  BY <1>4, <1>5, <1>6, <1>7, <1>8, <1>9, <1>10, <1>11, <1>12, <1>13, WorkerKinds DEF RunStep

LEMMA ChildCInv == ASSUME IInv, TypeOK, CInv, NEW w \in Workers, ChildStep(w) \/ ChildDies(w) PROVE CInv'
<1>1. /\ child \in [Workers -> ChildStates]
      /\ DOMAIN toChild = Workers /\ DOMAIN fromChild = Workers
  BY DEF TypeOK, ChildStates
<1>2. /\ UNCHANGED << conf, input, inited, pc, ret, started, round, ring, run, recv, gaveUp >>
      /\ child[w] = "running"
      /\ \A v \in Workers \ {w} : child'[v] = child[v] /\ toChild'[v] = toChild[v]
                                  /\ fromChild'[v] = fromChild[v]
      /\ \/ child'[w] = "running"
         \/ child'[w] = "ended" /\ InputClosed(w) /\ toChild'[w] = << >>
         \/ child'[w] = "died"
  BY <1>1, WorkerKinds DEF ChildDies, ChildStep, MapWord, MapChildEnds, ReduceLine, ReduceChildEnds, Child,
     job, mainVars
<1>3. ControlInv' /\ RingInv'
  BY <1>2 DEF CInv, ControlInv, RingInv, RingOf, Quiet
<1>4. QueueInv'
  BY <1>2 DEF CInv, QueueInv, Unread, InputClosed
<1>5. QED
  BY <1>3, <1>4 DEF CInv

LEMMA ReceiverCInv == ASSUME IInv, TypeOK, CInv, NEW w \in Workers, ReceiverStep(w) PROVE CInv'
<1>1. recv \in [Workers -> {"none", "reading", "ended"}] /\ DOMAIN fromChild = Workers
  BY DEF TypeOK
<1>2. CASE w[1] = "map" /\ DivideByReduceNum(w[2])
  BY <1>2, CrashCInv DEF DivideByReduceNum
<1>3. CASE ~ (w[1] = "map" /\ DivideByReduceNum(w[2]))
  <2>1. /\ UNCHANGED << conf, input, inited, pc, ret, started, round, ring, run, child, toChild,
                        gaveUp >>
        /\ recv[w] = "reading"
        /\ \A v \in Workers \ {w} : recv'[v] = recv[v] /\ fromChild'[v] = fromChild[v]
        /\ recv'[w] = "reading" \/ (recv'[w] = "ended" /\ Unread(w) /\ fromChild'[w] = << >>)
    BY <1>1, <1>3, WorkerKinds DEF ReceiverStep, PushBack, MapReceiverEnds, AppendLine,
       DropLine, ReduceReceiverEnds, Receiver, AtEof, job, mainVars
  <2>2. ControlInv' /\ RingInv'
    BY <2>1 DEF CInv, ControlInv, RingInv, RingOf, Quiet
  <2>3. QueueInv'
    BY <2>1 DEF CInv, QueueInv, Unread, IInv, ReceiverInv
  <2>4. QED
    BY <2>2, <2>3 DEF CInv
<1>4. QED
  BY <1>2, <1>3

LEMMA NextCInv == IInv /\ TypeOK /\ CInv /\ [Next]_vars => CInv'
<1> SUFFICES ASSUME IInv, TypeOK, CInv, [Next]_vars PROVE CInv'
  OBVIOUS
<1>1. CASE UNCHANGED vars
  BY <1>1 DEF vars, job, mainVars, CInv, ControlInv, RingInv, RingOf, QueueInv, Unread, Quiet
<1>2. CASE Poll \/ Terminated
  BY <1>1, <1>2 DEF Poll, Terminated
<1>3. ASSUME NEW w \in Workers,
             RunStep(w) \/ ChildStep(w) \/ ReceiverStep(w)
             \/ GiveUp(w) \/ ChildDies(w) \/ UseDeleted(w)
      PROVE  CInv'
  BY <1>3, WorkerCInv, ChildCInv, ReceiverCInv
<1>4. QED
  BY <1>1, <1>2, <1>3, MainThreadCInv DEF Next

-----------------------------------------------------------------------------
(* The shuffle *)

Key == [word : Words, count : Nat \ {0}]

LEMMA StoreType == ASSUME TypeOK, NEW r \in Reducers PROVE store[r] \in Seq(Key)
BY DEF TypeOK, Key

LEMMA KeyFacts ==
  ASSUME NEW keys \in Seq(Key), NEW k \in DOMAIN keys
  PROVE  /\ keys[k].word \in Words /\ keys[k].count \in Nat \ {0}
         /\ keys[k] \in Results /\ DOMAIN keys = 1 .. Len(keys) /\ Len(keys) \in Nat
<1>1. keys[k] \in Key /\ DOMAIN keys = 1 .. Len(keys) /\ Len(keys) \in Nat
  BY Elements
<1>2. QED
  BY <1>1 DEF Key, Results

(* With every sign once, CountIn() is the count of the key with it.        *)
LEMMA CountAt ==
  ASSUME NEW keys, Distinct(keys), NEW k \in DOMAIN keys, NEW word,
         Sign[keys[k].word] = Sign[word]
  PROVE  CountIn(keys, word) = keys[k].count
BY DEF CountIn, Distinct

LEMMA CountNot ==
  ASSUME NEW keys, NEW word, \A k \in DOMAIN keys : Sign[keys[k].word] # Sign[word]
  PROVE  CountIn(keys, word) = 0
BY DEF CountIn

LEMMA CountType ==
  ASSUME NEW keys \in Seq(Key), NEW word
  PROVE  /\ CountIn(keys, word) \in Nat
         /\ CountIn(keys, word) > 0 => \E k \in DOMAIN keys : Sign[keys[k].word] = Sign[word]
<1>1. CASE \E k \in DOMAIN keys : Sign[keys[k].word] = Sign[word]
  <2>1. PICK k \in DOMAIN keys : CountIn(keys, word) = keys[k].count
    BY <1>1 DEF CountIn
  <2>2. QED
    BY <1>1, <2>1, KeyFacts
<1>2. CASE ~ \E k \in DOMAIN keys : Sign[keys[k].word] = Sign[word]
  BY <1>2, CountNot
<1>3. QED
  BY <1>1, <1>2

(* Keys at the same places with the same signs, or none: the counts agree. *)
LEMMA CountSame ==
  ASSUME NEW keys, Distinct(keys), NEW q, Distinct(q), DOMAIN keys \subseteq DOMAIN q, NEW v,
         \A k \in DOMAIN keys : Sign[q[k].word] = Sign[keys[k].word]
                                /\ (Sign[keys[k].word] = Sign[v] => q[k] = keys[k]),
         \A k \in DOMAIN q \ DOMAIN keys : Sign[q[k].word] # Sign[v]
  PROVE  CountIn(q, v) = CountIn(keys, v)
<1>1. CASE \E k \in DOMAIN keys : Sign[keys[k].word] = Sign[v]
  <2>1. PICK k \in DOMAIN keys : Sign[keys[k].word] = Sign[v]
    BY <1>1
  <2>2. k \in DOMAIN q /\ q[k] = keys[k]
    BY <2>1
  <2>3. CountIn(q, v) = q[k].count /\ CountIn(keys, v) = keys[k].count
    BY <2>1, <2>2, CountAt
  <2>4. QED
    BY <2>2, <2>3
<1>2. CASE ~ \E k \in DOMAIN keys : Sign[keys[k].word] = Sign[v]
  <2>1. \A k \in DOMAIN q : Sign[q[k].word] # Sign[v]
    BY <1>2
  <2>2. QED
    BY <1>2, <2>1, CountNot
<1>3. QED
  BY <1>1, <1>2

(* One more value for a word                                               *)
LEMMA StoredFacts ==
  ASSUME NEW keys \in Seq(Key), Distinct(keys), NEW word \in Words
  PROVE  /\ Stored(keys, word) \in Seq(Key) /\ Distinct(Stored(keys, word))
         /\ \A v : Sign[v] = Sign[word] => CountIn(Stored(keys, word), v) = CountIn(keys, v) + 1
         /\ \A v : Sign[v] # Sign[word] => CountIn(Stored(keys, word), v) = CountIn(keys, v)
         /\ \A k \in DOMAIN Stored(keys, word) :
              \/ Stored(keys, word)[k].word = word
              \/ k \in DOMAIN keys /\ Stored(keys, word)[k].word = keys[k].word
<1> DEFINE q == Stored(keys, word)
<1>1. q \in Seq(Key)
  BY StoredKeys DEF Key
<1>2. DOMAIN keys = 1 .. Len(keys) /\ Len(keys) \in Nat
  OBVIOUS
<1>3. CASE \E k \in DOMAIN keys : Sign[keys[k].word] = Sign[word]
  <2>1. PICK n \in DOMAIN keys : Sign[keys[n].word] = Sign[word]
    BY <1>3
  <2>2. q = [k \in DOMAIN keys |-> IF Sign[keys[k].word] = Sign[word]
                                   THEN [keys[k] EXCEPT !.count = @ + 1] ELSE keys[k]]
    BY <1>3 DEF Stored
  <2>3. DOMAIN q = DOMAIN keys
    BY <2>2
  <2>4. \A k \in DOMAIN keys : k # n => q[k] = keys[k] /\ Sign[keys[k].word] # Sign[word]
    BY <2>1, <2>2 DEF Distinct
  <2>5. q[n].word = keys[n].word /\ q[n].count = keys[n].count + 1
    <3>1. q[n] = [keys[n] EXCEPT !.count = @ + 1]
      BY <2>1, <2>2
    <3>2. keys[n] \in Key
      BY <2>1, Elements
    <3>3. \A x \in Key : [x EXCEPT !.count = @ + 1].count = x.count + 1
                         /\ [x EXCEPT !.count = @ + 1].word = x.word
      BY DEF Key
    <3>4. QED
      BY <2>1, <3>1, <3>2, <3>3
  <2>6. \A k \in DOMAIN keys : q[k].word = keys[k].word
    BY <2>1, <2>4, <2>5
  <2>7. Distinct(q)
    BY <2>3, <2>6 DEF Distinct
  <2> HIDE DEF q
  <2>8. ASSUME NEW v, Sign[v] = Sign[word] PROVE CountIn(q, v) = CountIn(keys, v) + 1
    <3>1. n \in DOMAIN q /\ Sign[q[n].word] = Sign[v] /\ Sign[keys[n].word] = Sign[v]
      BY <2>1, <2>3, <2>5, <2>8
    <3>2. CountIn(q, v) = q[n].count /\ CountIn(keys, v) = keys[n].count
      BY <2>1, <2>7, <3>1, CountAt
    <3>3. QED
      BY <2>5, <3>2
  <2>9. ASSUME NEW v, Sign[v] # Sign[word] PROVE CountIn(q, v) = CountIn(keys, v)
    <3>1. \A k \in DOMAIN keys : Sign[keys[k].word] = Sign[v] => q[k] = keys[k]
      BY <2>1, <2>4, <2>9
    <3>2. QED
      BY <2>3, <2>6, <2>7, <3>1, CountSame
  <2>10. \A k \in DOMAIN q : k \in DOMAIN keys /\ q[k].word = keys[k].word
    BY <2>3, <2>6
  <2>11. QED
    BY <1>1, <2>7, <2>8, <2>9, <2>10 DEF q
<1>4. CASE ~ \E k \in DOMAIN keys : Sign[keys[k].word] = Sign[word]
  <2> DEFINE new == [word |-> word, count |-> 1]
  <2>1. q = Append(keys, new)
    BY <1>4 DEF Stored
  <2>2. /\ DOMAIN q = 1 .. Len(keys) + 1 /\ q[Len(keys) + 1].word = word
        /\ q[Len(keys) + 1].count = 1
        /\ \A k \in 1 .. Len(keys) : q[k] = keys[k]
    BY <1>2, <2>1
  <2>3. Len(keys) + 1 \in DOMAIN q /\ \A k \in DOMAIN q : k \in DOMAIN keys \/ k = Len(keys) + 1
    BY <1>2, <2>2
  <2> HIDE DEF q, new
  <2>4. Distinct(q)
    <3>1. ASSUME NEW k \in DOMAIN q, NEW l \in DOMAIN q, Sign[q[k].word] = Sign[q[l].word]
          PROVE  k = l
      <4>1. CASE k \in DOMAIN keys /\ l \in DOMAIN keys
        BY <1>2, <2>2, <3>1, <4>1 DEF Distinct
      <4>2. CASE k = Len(keys) + 1 /\ l \in DOMAIN keys
        BY <1>2, <1>4, <2>2, <3>1, <4>2
      <4>3. CASE l = Len(keys) + 1 /\ k \in DOMAIN keys
        BY <1>2, <1>4, <2>2, <3>1, <4>3
      <4>4. QED
        BY <2>3, <4>1, <4>2, <4>3
    <3>2. QED
      BY <3>1 DEF Distinct
  <2>5. ASSUME NEW v, Sign[v] = Sign[word] PROVE CountIn(q, v) = CountIn(keys, v) + 1
    <3>1. Sign[q[Len(keys) + 1].word] = Sign[v]
      BY <2>2, <2>5
    <3>2. CountIn(q, v) = 1
      BY <2>2, <2>3, <2>4, <3>1, CountAt
    <3>3. CountIn(keys, v) = 0
      BY <1>4, <2>5, CountNot
    <3>4. QED
      BY <3>2, <3>3
  <2>6. ASSUME NEW v, Sign[v] # Sign[word] PROVE CountIn(q, v) = CountIn(keys, v)
    <3>1. \A k \in DOMAIN q \ DOMAIN keys : Sign[q[k].word] # Sign[v]
      BY <2>2, <2>3, <2>6
    <3>2. DOMAIN keys \subseteq DOMAIN q /\ \A k \in DOMAIN keys : q[k] = keys[k]
      BY <1>2, <2>2
    <3>3. QED
      BY <2>4, <3>1, <3>2, CountSame
  <2>7. \A k \in DOMAIN q : q[k].word = word \/ (k \in DOMAIN keys /\ q[k].word = keys[k].word)
    BY <1>2, <2>2, <2>3
  <2>8. QED
    BY <1>1, <2>4, <2>5, <2>6, <2>7 DEF q
<1>5. QED
  BY <1>3, <1>4

LEMMA SortedFacts ==
  ASSUME NEW keys \in Seq(Key), Distinct(keys), NEW q \in Sorted(keys)
  PROVE  /\ q \in Seq(Key) /\ Distinct(q) /\ Len(q) = Len(keys)
         /\ \A v : CountIn(q, v) = CountIn(keys, v)
         /\ \A k \in DOMAIN q : \E l \in DOMAIN keys : q[k] = keys[l]
<1>1. q \in Seq(Key) /\ DOMAIN q = DOMAIN keys /\ Len(q) = Len(keys)
  BY SortedKeys
<1>2. PICK f \in [DOMAIN keys -> DOMAIN keys] :
              /\ \A j, k \in DOMAIN keys : f[j] = f[k] => j = k
              /\ \A j \in DOMAIN keys : \E k \in DOMAIN keys : f[k] = j
              /\ \A k \in DOMAIN keys : q[k] = keys[f[k]]
  BY SortedKeys
<1>3. \A k \in DOMAIN keys : f[k] \in DOMAIN keys
  BY <1>2
<1>4. Distinct(q)
  <2>1. ASSUME NEW j \in DOMAIN q, NEW k \in DOMAIN q, Sign[q[j].word] = Sign[q[k].word] PROVE j = k
    <3>1. Sign[keys[f[j]].word] = Sign[keys[f[k]].word]
      BY <1>1, <1>2, <2>1
    <3>2. f[j] \in DOMAIN keys /\ f[k] \in DOMAIN keys
      BY <1>1, <1>3
    <3>3. f[j] = f[k]
      BY <3>1, <3>2 DEF Distinct
    <3>4. QED
      BY <1>1, <1>2, <3>3
  <2>2. QED
    BY <2>1 DEF Distinct
<1>5. ASSUME NEW v PROVE CountIn(q, v) = CountIn(keys, v)
  <2>1. CASE \E j \in DOMAIN keys : Sign[keys[j].word] = Sign[v]
    <3>1. PICK j \in DOMAIN keys : Sign[keys[j].word] = Sign[v]
      BY <2>1
    <3>2. PICK k \in DOMAIN keys : f[k] = j
      BY <1>2
    <3>3. q[k] = keys[j] /\ k \in DOMAIN q
      BY <1>1, <1>2, <3>2
    <3>4. CountIn(q, v) = q[k].count /\ CountIn(keys, v) = keys[j].count
      BY <1>4, <3>1, <3>3, CountAt
    <3>5. QED
      BY <3>3, <3>4
  <2>2. CASE ~ \E j \in DOMAIN keys : Sign[keys[j].word] = Sign[v]
    <3>1. \A k \in DOMAIN q : Sign[q[k].word] # Sign[v]
      BY <1>1, <1>2, <1>3, <2>2
    <3>2. QED
      BY <2>2, <3>1, CountNot
  <2>3. QED
    BY <2>1, <2>2
<1>6. QED
  BY <1>1, <1>2, <1>3, <1>4, <1>5

(* What PushBack and Sort do to the shuffle, and that nothing else changes it *)
LEMMA PushBackEffect ==
  ASSUME TypeOK, StoreInv, NEW m \in Mappers, PushBack(m)
  PROVE  LET w == << "map", m >>
             word == Head(fromChild[w])
             slot == Hash[word] % conf.reduce_num
         IN  /\ word \in Words /\ slot \in Reducers /\ conf.reduce_num > 0
             /\ fromChild[w] \in Seq(Words) /\ fromChild[w] # << >>
             /\ fromChild' = [fromChild EXCEPT ![w] = Tail(@)]
             /\ store'[slot] = Stored(store[slot], word)
             /\ \A r \in Reducers \ {slot} : store'[r] = store[r]
<1> DEFINE w == << "map", m >>
           word == Head(fromChild[w])
           slot == Hash[word] % conf.reduce_num
<1>1. /\ conf.reduce_num > 0 /\ fromChild[w] # << >>
      /\ store' = [store EXCEPT ![slot] = Stored(@, word)]
      /\ fromChild' = [fromChild EXCEPT ![w] = Tail(@)]
  BY DEF PushBack
<1>2. fromChild[w] \in Seq(Words) /\ DOMAIN store = Reducers
  BY DEF TypeOK
<1>3. word \in Words
  BY <1>1, <1>2
<1>4. slot \in Reducers
  BY <1>1, <1>3, DealtTo
<1>5. QED
  BY <1>1, <1>2, <1>3, <1>4

LEMMA SortEffect ==
  ASSUME TypeOK, NEW r \in Reducers, Sort(r)
  PROVE  /\ store'[r] = store[r] \/ store'[r] \in Sorted(store[r])
         /\ \A s \in Reducers \ {r} : store'[s] = store[s]
<1>1. DOMAIN store = Reducers
  BY DEF TypeOK
<1>2. QED
  BY <1>1 DEF Sort

LEMMA StoreKept ==
  ASSUME TypeOK, [Next]_vars
  PROVE  \/ UNCHANGED store
         \/ \E m \in Mappers : PushBack(m)
         \/ \E r \in Reducers : Sort(r)
<1>1. CASE MainStep \/ MainFails
  BY <1>1 DEF MainStep, MainFails, Main, Crash, Initialize, OpenInput, StartMap, DealLine,
     DivideByMapNum, SendEnd, JoinMaps, StartReduce, JoinReduces, Delete, DeleteNobody, Exit,
     InitFails, OpenFails, StartMapFails, StartReduceFails, Quit, StartWorker, StartNobody,
     DispatchMapper, shuffle
<1>2. ASSUME NEW w \in Workers, RunStep(w) \/ GiveUp(w) \/ UseDeleted(w),
             ~ \E r \in Reducers : Sort(r)
      PROVE  UNCHANGED store
  BY <1>2, WorkerKinds DEF RunStep, GiveUp, UseDeleted, WriteKills, Fork, JoinReceiver, FeedLine, FeedEnd,
     FeedTask, NoMoreTasks, ReadNoKey, Crash, shuffle
<1>3. ASSUME NEW w \in Workers, ChildStep(w) \/ ChildDies(w) PROVE UNCHANGED store
  BY <1>3 DEF ChildDies, ChildStep, MapWord, MapChildEnds, ReduceLine, ReduceChildEnds, Child, shuffle
<1>4. ASSUME NEW w \in Workers, ReceiverStep(w), ~ \E m \in Mappers : PushBack(m)
      PROVE  UNCHANGED store
  BY <1>4, WorkerKinds DEF ReceiverStep, DivideByReduceNum, MapReceiverEnds, AppendLine,
     DropLine, ReduceReceiverEnds, Crash, shuffle
<1>5. CASE UNCHANGED vars \/ Poll \/ Terminated
  BY <1>5 DEF Poll, Terminated, vars, shuffle
<1>6. QED
  BY <1>1, <1>2, <1>3, <1>4, <1>5 DEF Next

LEMMA ConfKept == [Next]_vars => UNCHANGED << conf, input >>
<1> SUFFICES ASSUME [Next]_vars PROVE UNCHANGED << conf, input >>
  OBVIOUS
<1>1. CASE MainStep \/ MainFails
  BY <1>1 DEF MainStep, MainFails, Main, Crash, Initialize, OpenInput, StartMap, DealLine,
     DivideByMapNum, SendEnd, JoinMaps, StartReduce, JoinReduces, Delete, DeleteNobody, Exit,
     InitFails, OpenFails, StartMapFails, StartReduceFails, Quit, StartWorker, StartNobody,
     DispatchMapper, job
<1>2. ASSUME NEW w \in Workers, RunStep(w) \/ GiveUp(w) \/ UseDeleted(w)
      PROVE  UNCHANGED << conf, input >>
  BY <1>2 DEF RunStep, GiveUp, UseDeleted, WriteKills, Fork, JoinReceiver, FeedLine, FeedEnd, Sort,
     FeedTask, NoMoreTasks, ReadNoKey, Crash, Thread, job
<1>3. ASSUME NEW w \in Workers, ChildStep(w) \/ ChildDies(w) \/ ReceiverStep(w)
      PROVE  UNCHANGED << conf, input >>
  BY <1>3 DEF ChildDies, ChildStep, MapWord, MapChildEnds, ReduceLine, ReduceChildEnds, Child, ReceiverStep,
     PushBack, DivideByReduceNum, MapReceiverEnds, AppendLine, DropLine, ReduceReceiverEnds, Receiver,
     Crash, job
<1>4. CASE UNCHANGED vars \/ Poll \/ Terminated
  BY <1>4 DEF Poll, Terminated, vars, job
<1>5. QED
  BY <1>1, <1>2, <1>3, <1>4 DEF Next

LEMMA InitStoreInv == Init => StoreInv
BY DEF Init, StoreInv, GoodKeys, KeysOf, Distinct

LEMMA NextStoreInv == TypeOK /\ StoreInv /\ [Next]_vars => StoreInv'
<1> SUFFICES ASSUME TypeOK, StoreInv, [Next]_vars PROVE StoreInv'
  OBVIOUS
<1>1. UNCHANGED conf
  BY ConfKept
<1>2. ASSUME NEW r \in Reducers, store'[r] = store[r]
      PROVE  GoodKeys(r)'
  BY <1>1, <1>2 DEF StoreInv, GoodKeys, KeysOf, Distinct
<1>3. ASSUME NEW m \in Mappers, PushBack(m) PROVE StoreInv'
  <2>1. PICK word, slot : /\ word = Head(fromChild[<< "map", m >>])
                          /\ slot = Hash[word] % conf.reduce_num
    OBVIOUS
  <2>2. /\ word \in Words /\ slot \in Reducers /\ conf.reduce_num > 0
        /\ store'[slot] = Stored(store[slot], word)
        /\ \A r \in Reducers \ {slot} : store'[r] = store[r]
    BY <1>3, <2>1, PushBackEffect
  <2>3. /\ Distinct(Stored(store[slot], word))
        /\ \A k \in DOMAIN Stored(store[slot], word) :
              \/ Stored(store[slot], word)[k].word = word
              \/ /\ k \in DOMAIN store[slot]
                 /\ Stored(store[slot], word)[k].word = store[slot][k].word
    BY <2>2, StoreType, StoredFacts DEF StoreInv, GoodKeys
  <2>4. \A k \in DOMAIN store[slot] : Hash[store[slot][k].word] % conf.reduce_num = slot
    BY <2>2 DEF StoreInv, GoodKeys, KeysOf
  <2>5. \A k \in DOMAIN Stored(store[slot], word) :
          Hash[Stored(store[slot], word)[k].word] % conf.reduce_num = slot
    <3>1. ASSUME NEW k \in DOMAIN Stored(store[slot], word)
          PROVE  Hash[Stored(store[slot], word)[k].word] % conf.reduce_num = slot
      <4>1. CASE Stored(store[slot], word)[k].word = word
        BY <2>1, <4>1
      <4>2. CASE k \in DOMAIN store[slot] /\ Stored(store[slot], word)[k].word = store[slot][k].word
        BY <2>4, <4>2
      <4>3. QED
        BY <2>3, <4>1, <4>2
    <3>2. QED
      BY <3>1
  <2>6. GoodKeys(slot)'
    BY <1>1, <2>2, <2>3, <2>5 DEF GoodKeys, KeysOf, Distinct
  <2>7. QED
    BY <1>2, <2>2, <2>6 DEF StoreInv
<1>4. ASSUME NEW r \in Reducers, Sort(r) PROVE StoreInv'
  <2>1. /\ store'[r] = store[r] \/ store'[r] \in Sorted(store[r])
        /\ \A s \in Reducers \ {r} : store'[s] = store[s]
    BY <1>4, SortEffect
  <2>2. ASSUME NEW q \in Sorted(store[r]) PROVE KeysOf(q, r) /\ Distinct(q)
    <3>1. /\ Distinct(q) /\ \A k \in DOMAIN q : \E l \in DOMAIN store[r] : q[k] = store[r][l]
      BY <2>2, StoreType, SortedFacts DEF StoreInv, GoodKeys
    <3>2. QED
      BY <3>1 DEF StoreInv, GoodKeys, KeysOf
  <2>3. GoodKeys(r)'
    <3>1. CASE store'[r] = store[r]
      BY <1>2, <3>1
    <3>2. CASE store'[r] \in Sorted(store[r])
      BY <1>1, <2>2, <3>2 DEF GoodKeys, KeysOf, Distinct
    <3>3. QED
      BY <2>1, <3>1, <3>2
  <2>4. QED
    BY <1>2, <2>1, <2>3 DEF StoreInv
<1>5. CASE UNCHANGED store
  BY <1>1, <1>5 DEF StoreInv, GoodKeys, KeysOf, Distinct
<1>6. QED
  BY <1>3, <1>4, <1>5, StoreKept

-----------------------------------------------------------------------------
(* Counting the places of a word *)

LEMMA SameSize ==
  ASSUME NEW S, NEW T, IsFiniteSet(S), NEW f \in [S -> T],
         \A x, y \in S : f[x] = f[y] => x = y, \A y \in T : \E x \in S : f[x] = y
  PROVE  IsFiniteSet(T) /\ Cardinality(T) = Cardinality(S)
<1>1. f \in Bijection(S, T)
  BY DEF Bijection, Injection, Surjection, IsInjective
<1>2. ExistsBijection(S, T)
  BY <1>1 DEF ExistsBijection
<1>3. QED
  BY <1>2, FS_Bijection

LEMMA TwoParts ==
  ASSUME NEW A, NEW B, A \cap B = {}, IsFiniteSet(A), IsFiniteSet(B)
  PROVE  /\ IsFiniteSet(A \cup B)
         /\ Cardinality(A \cup B) = Cardinality(A) + Cardinality(B)
         /\ Cardinality(A) \in Nat /\ Cardinality(B) \in Nat
<1>1. /\ IsFiniteSet(A \cup B)
      /\ Cardinality(A \cup B) = Cardinality(A) + Cardinality(B) - Cardinality(A \cap B)
  BY FS_Union
<1>2. Cardinality(A \cap B) = 0
  BY FS_EmptySet
<1>3. Cardinality(A) \in Nat /\ Cardinality(B) \in Nat
  BY FS_CardinalityType
<1>4. QED
  BY <1>1, <1>2, <1>3

LEMMA InIs ==
  ASSUME NEW queues, NEW some
  PROVE  /\ \A a, i, k : << a, i, k >> \in In(queues, some) <=>
              a \in DOMAIN queues /\ i \in Nat /\ k \in Nat /\ i \in DOMAIN queues[a]
              /\ k \in DOMAIN queues[a][i] /\ queues[a][i][k] \in some
         /\ \A t \in In(queues, some) : t = << t[1], t[2], t[3] >>
BY DEF In

One(x, some) == IF x \in some THEN 1 ELSE 0

LEMMA AtWord ==
  ASSUME NEW x, NEW some
  PROVE  /\ IsFiniteSet(At(<< x >>, some))
         /\ Cardinality(At(<< x >>, some)) = One(x, some)
         /\ IsFiniteSet(At(<< >>, some)) /\ Cardinality(At(<< >>, some)) = 0
<1>1. At(<< x >>, some) = IF x \in some THEN {1} ELSE {}
  BY DEF At
<1>2. At(<< >>, some) = {}
  BY DEF At
<1>3. /\ IsFiniteSet({1}) /\ Cardinality({1}) = 1
      /\ IsFiniteSet({}) /\ Cardinality({}) = 0
  BY FS_EmptySet, FS_Singleton
<1>4. CASE x \in some
  <2>1. At(<< x >>, some) = {1} /\ One(x, some) = 1
    BY <1>1, <1>4 DEF One
  <2>2. QED
    BY <1>2, <1>3, <2>1
<1>5. CASE x \notin some
  <2>1. At(<< x >>, some) = {} /\ One(x, some) = 0
    BY <1>1, <1>5 DEF One
  <2>2. QED
    BY <1>2, <1>3, <2>1
<1>6. QED
  BY <1>4, <1>5

LEMMA OneIs ==
  ASSUME NEW x, NEW some
  PROVE  One(x, some) \in Nat /\ (x \notin some => One(x, some) = 0)
BY DEF One

(* Of two families of queues, p differs from q in queue m only.            *)
Differ(q, p, m, n) ==
  m \in DOMAIN q /\ n \in Nat /\ DOMAIN p = DOMAIN q /\ \A j \in DOMAIN q \ {m} : p[j] = q[j]

(* The first line leaves queue m.                                          *)
Pops(q, p, m, n) ==
  /\ Differ(q, p, m, n) /\ DOMAIN q[m] = 1 .. n + 1 /\ DOMAIN p[m] = 1 .. n
  /\ \A i \in 1 .. n : p[m][i] = q[m][i + 1]
  /\ DOMAIN q[m][1] \subseteq Nat

LEMMA Popped ==
  ASSUME NEW q, NEW p, NEW m, NEW n, NEW some, Pops(q, p, m, n), IsFiniteSet(In(q, some))
  PROVE  /\ IsFiniteSet(In(p, some)) /\ IsFiniteSet(At(q[m][1], some))
         /\ Cardinality(In(q, some)) = Cardinality(In(p, some)) + Cardinality(At(q[m][1], some))
         /\ Cardinality(In(p, some)) \in Nat /\ Cardinality(At(q[m][1], some)) \in Nat
<1>0. /\ m \in DOMAIN q /\ n \in Nat /\ DOMAIN p = DOMAIN q
      /\ \A j \in DOMAIN q \ {m} : p[j] = q[j]
      /\ DOMAIN q[m] = 1 .. n + 1 /\ DOMAIN p[m] = 1 .. n
      /\ \A i \in 1 .. n : p[m][i] = q[m][i + 1]
      /\ DOMAIN q[m][1] \subseteq Nat
  BY DEF Pops, Differ
<1> USE <1>0
<1> DEFINE A == { t \in In(q, some) : ~ (t[1] = m /\ t[2] = 1) }
           B == { t \in In(q, some) : t[1] = m /\ t[2] = 1 }
           f == [t \in A |-> IF t[1] = m THEN << m, t[2] - 1, t[3] >> ELSE t]
           g == [t \in B |-> t[3]]
<1>1. IsFiniteSet(A) /\ IsFiniteSet(B)
  BY FS_Subset
<1>2. In(q, some) = A \cup B /\ A \cap B = {}
  OBVIOUS
<1>3. IsFiniteSet(In(p, some)) /\ Cardinality(In(p, some)) = Cardinality(A)
  <2>1. ASSUME NEW t \in A
        PROVE  /\ f[t] \in In(p, some)
               /\ f[t] = << t[1], IF t[1] = m THEN t[2] - 1 ELSE t[2], t[3] >>
               /\ t = << t[1], t[2], t[3] >> /\ t[2] \in Nat
    <3>1. /\ t = << t[1], t[2], t[3] >> /\ t[1] \in DOMAIN q /\ t[2] \in Nat /\ t[3] \in Nat
          /\ t[2] \in DOMAIN q[t[1]] /\ t[3] \in DOMAIN q[t[1]][t[2]]
          /\ q[t[1]][t[2]][t[3]] \in some /\ ~ (t[1] = m /\ t[2] = 1)
      BY InIs
    <3>2. f[t] = << t[1], IF t[1] = m THEN t[2] - 1 ELSE t[2], t[3] >>
      BY <3>1
    <3>3. CASE t[1] = m
      <4>1. t[2] - 1 \in 1 .. n /\ t[2] - 1 \in Nat /\ t[2] - 1 + 1 = t[2]
        BY <3>1, <3>3
      <4>2. p[m][t[2] - 1] = q[m][t[2]]
        BY <4>1
      <4>3. << m, t[2] - 1, t[3] >> \in In(p, some)
        BY <3>1, <3>3, <4>1, <4>2, InIs
      <4>4. QED
        BY <3>1, <3>2, <3>3, <4>3
    <3>4. CASE t[1] # m
      <4>1. << t[1], t[2], t[3] >> \in In(p, some)
        BY <3>1, <3>4, InIs
      <4>2. QED
        BY <3>1, <3>2, <3>4, <4>1
    <3>5. QED
      BY <3>3, <3>4
  <2>2. f \in [A -> In(p, some)]
    BY <2>1
  <2>3. \A s, t \in A : f[s] = f[t] => s = t
    <3>1. ASSUME NEW s \in A, NEW t \in A, f[s] = f[t] PROVE s = t
      <4>1. /\ s[1] = t[1] /\ s[3] = t[3]
            /\ (IF s[1] = m THEN s[2] - 1 ELSE s[2]) = (IF t[1] = m THEN t[2] - 1 ELSE t[2])
        BY <2>1, <3>1
      <4>2. s[2] \in Nat /\ t[2] \in Nat
        BY <2>1
      <4>3. s[2] = t[2]
        BY <4>1, <4>2
      <4>4. QED
        BY <2>1, <4>1, <4>3
    <3>2. QED
      BY <3>1
  <2>4. \A y \in In(p, some) : \E t \in A : f[t] = y
    <3>1. ASSUME NEW y \in In(p, some) PROVE \E t \in A : f[t] = y
      <4>1. /\ y = << y[1], y[2], y[3] >> /\ y[1] \in DOMAIN q /\ y[2] \in Nat /\ y[3] \in Nat
            /\ y[2] \in DOMAIN p[y[1]] /\ y[3] \in DOMAIN p[y[1]][y[2]]
            /\ p[y[1]][y[2]][y[3]] \in some
        BY InIs
      <4>2. CASE y[1] = m
        <5>1. y[2] \in 1 .. n /\ y[2] + 1 \in 1 .. n + 1 /\ y[2] + 1 \in Nat /\ y[2] + 1 # 1
          BY <4>1, <4>2
        <5>2. q[m][y[2] + 1] = p[m][y[2]]
          BY <5>1
        <5>3. << m, y[2] + 1, y[3] >> \in In(q, some)
          BY <4>1, <4>2, <5>1, <5>2, InIs
        <5>4. PICK t : t = << m, y[2] + 1, y[3] >>
          OBVIOUS
        <5>5. t \in A /\ t[1] = m /\ t[2] = y[2] + 1 /\ t[3] = y[3]
          BY <5>1, <5>3, <5>4
        <5>6. f[t] = << m, t[2] - 1, t[3] >>
          BY <5>5
        <5>7. t[2] - 1 = y[2]
          BY <4>1, <5>5
        <5>8. QED
          BY <4>1, <4>2, <5>5, <5>6, <5>7
      <4>3. CASE y[1] # m
        <5>1. << y[1], y[2], y[3] >> \in In(q, some)
          BY <4>1, <4>3, InIs
        <5>2. y \in A /\ f[y] = y
          BY <4>1, <4>3, <5>1
        <5>3. QED
          BY <5>2
      <4>4. QED
        BY <4>2, <4>3
    <3>2. QED
      BY <3>1
  <2> HIDE DEF A, f
  <2>5. QED
    BY <1>1, <2>2, <2>3, <2>4, SameSize
<1>4. IsFiniteSet(At(q[m][1], some)) /\ Cardinality(At(q[m][1], some)) = Cardinality(B)
  <2>1. ASSUME NEW t \in B PROVE g[t] \in At(q[m][1], some) /\ t = << m, 1, g[t] >>
    BY InIs DEF At
  <2>2. g \in [B -> At(q[m][1], some)]
    BY <2>1
  <2>3. \A s, t \in B : g[s] = g[t] => s = t
    BY <2>1
  <2>4. \A k \in At(q[m][1], some) : \E t \in B : g[t] = k
    <3>1. ASSUME NEW k \in At(q[m][1], some) PROVE \E t \in B : g[t] = k
      <4>1. << m, 1, k >> \in In(q, some)
        BY InIs DEF At
      <4>2. PICK t : t = << m, 1, k >>
        OBVIOUS
      <4>3. t \in B /\ t[3] = k
        BY <4>1, <4>2
      <4>4. QED
        BY <4>3
    <3>2. QED
      BY <3>1
  <2> HIDE DEF B, g
  <2>5. QED
    BY <1>1, <2>2, <2>3, <2>4, SameSize
<1> HIDE DEF A, B
<1>5. /\ Cardinality(In(q, some)) = Cardinality(A) + Cardinality(B)
      /\ Cardinality(A) \in Nat /\ Cardinality(B) \in Nat
  <2>1. /\ Cardinality(A \cup B) = Cardinality(A) + Cardinality(B)
        /\ Cardinality(A) \in Nat /\ Cardinality(B) \in Nat
    BY <1>1, <1>2, TwoParts
  <2>2. QED
    BY <1>2, <2>1
<1>6. QED
  BY <1>3, <1>4, <1>5

(* A line goes to the end of queue m.                                      *)
Pushes(q, p, m, n) ==
  /\ Differ(q, p, m, n) /\ DOMAIN q[m] = 1 .. n /\ DOMAIN p[m] = 1 .. n + 1
  /\ \A i \in 1 .. n : p[m][i] = q[m][i]
  /\ DOMAIN p[m][n + 1] \subseteq Nat

LEMMA Pushed ==
  ASSUME NEW q, NEW p, NEW m, NEW n, NEW some, Pushes(q, p, m, n),
         IsFiniteSet(In(q, some)), IsFiniteSet(At(p[m][n + 1], some))
  PROVE  /\ IsFiniteSet(In(p, some))
         /\ Cardinality(In(p, some)) = Cardinality(In(q, some)) + Cardinality(At(p[m][n + 1], some))
<1>0. /\ m \in DOMAIN q /\ n \in Nat /\ DOMAIN p = DOMAIN q
      /\ \A j \in DOMAIN q \ {m} : p[j] = q[j]
      /\ DOMAIN q[m] = 1 .. n /\ DOMAIN p[m] = 1 .. n + 1
      /\ \A i \in 1 .. n : p[m][i] = q[m][i]
      /\ DOMAIN p[m][n + 1] \subseteq Nat
  BY DEF Pushes, Differ
<1> USE <1>0
<1> DEFINE L == At(p[m][n + 1], some)
           B == { t \in In(p, some) : t[1] = m /\ t[2] = n + 1 }
           g == [k \in L |-> << m, n + 1, k >>]
<1>1. /\ n + 1 \in Nat /\ n + 1 \in 1 .. n + 1 /\ n + 1 \notin 1 .. n
      /\ \A i \in 1 .. n + 1 : i \in 1 .. n \/ i = n + 1
      /\ \A i \in 1 .. n : i \in 1 .. n + 1 /\ i # n + 1
  OBVIOUS
<1>2. In(p, some) = In(q, some) \cup B
  <2>1. ASSUME NEW t \in In(p, some), t \notin B PROVE t \in In(q, some)
    <3>1. /\ t = << t[1], t[2], t[3] >> /\ t[1] \in DOMAIN q /\ t[2] \in Nat /\ t[3] \in Nat
          /\ t[2] \in DOMAIN p[t[1]] /\ t[3] \in DOMAIN p[t[1]][t[2]]
          /\ p[t[1]][t[2]][t[3]] \in some /\ ~ (t[1] = m /\ t[2] = n + 1)
      BY <2>1, InIs
    <3>2. t[2] \in DOMAIN q[t[1]] /\ p[t[1]][t[2]] = q[t[1]][t[2]]
      BY <1>1, <3>1
    <3>3. << t[1], t[2], t[3] >> \in In(q, some)
      BY <3>1, <3>2, InIs
    <3>4. QED
      BY <3>1, <3>3
  <2>2. ASSUME NEW t \in In(q, some) PROVE t \in In(p, some)
    <3>1. /\ t = << t[1], t[2], t[3] >> /\ t[1] \in DOMAIN q /\ t[2] \in Nat /\ t[3] \in Nat
          /\ t[2] \in DOMAIN q[t[1]] /\ t[3] \in DOMAIN q[t[1]][t[2]]
          /\ q[t[1]][t[2]][t[3]] \in some
      BY InIs
    <3>2. t[2] \in DOMAIN p[t[1]] /\ p[t[1]][t[2]] = q[t[1]][t[2]]
      BY <1>1, <3>1
    <3>3. << t[1], t[2], t[3] >> \in In(p, some)
      BY <3>1, <3>2, InIs
    <3>4. QED
      BY <3>1, <3>3
  <2>3. QED
    BY <2>1, <2>2
<1>3. In(q, some) \cap B = {}
  <2>1. ASSUME NEW t \in In(q, some) PROVE t \notin B
    <3>1. t[2] \in DOMAIN q[t[1]]
      BY InIs
    <3>2. QED
      BY <1>1, <3>1
  <2>2. QED
    BY <2>1
<1>4. IsFiniteSet(B) /\ Cardinality(B) = Cardinality(L)
  <2>1. g \in [L -> B]
    <3>1. ASSUME NEW k \in L PROVE << m, n + 1, k >> \in B
      <4>1. << m, n + 1, k >> \in In(p, some)
        BY <1>1, InIs DEF At
      <4>2. QED
        BY <4>1
    <3>2. QED
      BY <3>1
  <2>2. \A k, l \in L : g[k] = g[l] => k = l
    OBVIOUS
  <2>3. \A t \in B : \E k \in L : g[k] = t
    <3>1. ASSUME NEW t \in B PROVE t[3] \in L /\ t = << m, n + 1, t[3] >>
      BY InIs DEF At
    <3>2. QED
      BY <3>1
  <2>4. QED
    BY <2>1, <2>2, <2>3, SameSize
<1> HIDE DEF B
<1>5. /\ IsFiniteSet(In(q, some) \cup B)
      /\ Cardinality(In(q, some) \cup B) = Cardinality(In(q, some)) + Cardinality(B)
  BY <1>3, <1>4, TwoParts
<1>6. QED
  BY <1>2, <1>4, <1>5

(* The first word of the first line leaves queue m.                        *)
Reads(q, p, m, n, l) ==
  /\ Differ(q, p, m, n) /\ n >= 1 /\ DOMAIN q[m] = 1 .. n /\ DOMAIN p[m] = 1 .. n
  /\ \A i \in 2 .. n : p[m][i] = q[m][i]
  /\ l \in Nat /\ DOMAIN q[m][1] = 1 .. l + 1 /\ DOMAIN p[m][1] = 1 .. l
  /\ \A k \in 1 .. l : p[m][1][k] = q[m][1][k + 1]

LEMMA Read ==
  ASSUME NEW q, NEW p, NEW m, NEW n, NEW l, NEW some, Reads(q, p, m, n, l),
         IsFiniteSet(In(q, some))
  PROVE  /\ IsFiniteSet(In(p, some)) /\ Cardinality(In(p, some)) \in Nat
         /\ Cardinality(In(q, some)) = Cardinality(In(p, some))
                                       + One(q[m][1][1], some)
<1>0. /\ m \in DOMAIN q /\ n \in Nat /\ DOMAIN p = DOMAIN q
      /\ \A j \in DOMAIN q \ {m} : p[j] = q[j]
      /\ n >= 1 /\ DOMAIN q[m] = 1 .. n /\ DOMAIN p[m] = 1 .. n
      /\ \A i \in 2 .. n : p[m][i] = q[m][i]
      /\ l \in Nat /\ DOMAIN q[m][1] = 1 .. l + 1 /\ DOMAIN p[m][1] = 1 .. l
      /\ \A k \in 1 .. l : p[m][1][k] = q[m][1][k + 1]
  BY DEF Reads, Differ
<1> USE <1>0
<1> DEFINE first == << m, 1, 1 >>
           A == In(q, some) \ {first}
           f == [t \in A |-> IF t[1] = m /\ t[2] = 1 THEN << m, 1, t[3] - 1 >> ELSE t]
<1>1. IsFiniteSet(A) /\ Cardinality(A) \in Nat
      /\ Cardinality(A) = IF first \in In(q, some) THEN Cardinality(In(q, some)) - 1
                          ELSE Cardinality(In(q, some))
  BY FS_RemoveElement, FS_CardinalityType
<1>2. first \in In(q, some) <=> q[m][1][1] \in some
  <2>1. 1 \in 1 .. n /\ 1 \in 1 .. l + 1 /\ 1 \in Nat
    OBVIOUS
  <2>2. QED
    BY <2>1, InIs
<1>3. IsFiniteSet(In(p, some)) /\ Cardinality(In(p, some)) = Cardinality(A)
  <2>1. ASSUME NEW t \in A
        PROVE  /\ f[t] \in In(p, some)
               /\ f[t] = << t[1], t[2], IF t[1] = m /\ t[2] = 1 THEN t[3] - 1 ELSE t[3] >>
               /\ t = << t[1], t[2], t[3] >> /\ t[3] \in Nat
    <3>1. /\ t = << t[1], t[2], t[3] >> /\ t[1] \in DOMAIN q /\ t[2] \in Nat /\ t[3] \in Nat
          /\ t[2] \in DOMAIN q[t[1]] /\ t[3] \in DOMAIN q[t[1]][t[2]]
          /\ q[t[1]][t[2]][t[3]] \in some
      BY InIs
    <3>2. f[t] = << t[1], t[2], IF t[1] = m /\ t[2] = 1 THEN t[3] - 1 ELSE t[3] >>
      BY <3>1
    <3>3. CASE t[1] = m /\ t[2] = 1
      <4>1. t[3] # 1 /\ t[3] \in 1 .. l + 1
        BY <3>1, <3>3
      <4>2. t[3] - 1 \in 1 .. l /\ t[3] - 1 \in Nat /\ t[3] - 1 + 1 = t[3] /\ 1 \in 1 .. n
        BY <4>1
      <4>3. p[m][1][t[3] - 1] = q[m][1][t[3]]
        BY <4>2
      <4>4. << m, 1, t[3] - 1 >> \in In(p, some)
        <5>1. /\ m \in DOMAIN p /\ 1 \in Nat /\ 1 \in DOMAIN p[m] /\ t[3] - 1 \in DOMAIN p[m][1]
              /\ p[m][1][t[3] - 1] \in some
          BY <3>1, <3>3, <4>2, <4>3
        <5>2. PICK k : k = t[3] - 1
          OBVIOUS
        <5>3. k \in Nat /\ k \in DOMAIN p[m][1] /\ p[m][1][k] \in some
          BY <4>2, <5>1, <5>2
        <5>4. << m, 1, k >> \in In(p, some)
          BY <5>1, <5>3, InIs
        <5>5. QED
          BY <5>2, <5>4
      <4>5. QED
        BY <3>1, <3>2, <3>3, <4>4
    <3>4. CASE ~ (t[1] = m /\ t[2] = 1)
      <4>1. t[1] = m => t[2] \in 2 .. n
        BY <3>1, <3>4
      <4>2. p[t[1]][t[2]] = q[t[1]][t[2]] /\ t[2] \in DOMAIN p[t[1]]
        BY <3>1, <4>1
      <4>3. << t[1], t[2], t[3] >> \in In(p, some)
        BY <3>1, <4>2, InIs
      <4>4. QED
        BY <3>1, <3>2, <3>4, <4>3
    <3>5. QED
      BY <3>3, <3>4
  <2>2. f \in [A -> In(p, some)]
    BY <2>1
  <2>3. \A s, t \in A : f[s] = f[t] => s = t
    <3>1. ASSUME NEW s \in A, NEW t \in A, f[s] = f[t] PROVE s = t
      <4>1. /\ s[1] = t[1] /\ s[2] = t[2]
            /\ (IF s[1] = m /\ s[2] = 1 THEN s[3] - 1 ELSE s[3])
               = (IF t[1] = m /\ t[2] = 1 THEN t[3] - 1 ELSE t[3])
        BY <2>1, <3>1
      <4>2. s[3] \in Nat /\ t[3] \in Nat
        BY <2>1
      <4>3. s[3] = t[3]
        BY <4>1, <4>2
      <4>4. s = << s[1], s[2], s[3] >> /\ t = << t[1], t[2], t[3] >>
        BY <2>1
      <4>5. QED
        BY <4>1, <4>3, <4>4
    <3>2. QED
      BY <3>1
  <2>4. \A y \in In(p, some) : \E t \in A : f[t] = y
    <3>1. ASSUME NEW y \in In(p, some) PROVE \E t \in A : f[t] = y
      <4>1. /\ y = << y[1], y[2], y[3] >> /\ y[1] \in DOMAIN q /\ y[2] \in Nat /\ y[3] \in Nat
            /\ y[2] \in DOMAIN p[y[1]] /\ y[3] \in DOMAIN p[y[1]][y[2]]
            /\ p[y[1]][y[2]][y[3]] \in some
        BY InIs
      <4>2. CASE y[1] = m /\ y[2] = 1
        <5>1. /\ y[3] \in 1 .. l /\ y[3] + 1 \in 1 .. l + 1 /\ y[3] + 1 \in Nat /\ y[3] + 1 # 1
              /\ 1 \in 1 .. n
          BY <4>1, <4>2
        <5>2. q[m][1][y[3] + 1] = p[m][1][y[3]]
          BY <5>1
        <5>3. << m, 1, y[3] + 1 >> \in In(q, some)
          BY <4>1, <4>2, <5>1, <5>2, InIs
        <5>4. PICK t : t = << m, 1, y[3] + 1 >>
          OBVIOUS
        <5>5. t \in A /\ t[1] = m /\ t[2] = 1 /\ t[3] = y[3] + 1
          BY <5>1, <5>3, <5>4
        <5>6. f[t] = << m, 1, t[3] - 1 >>
          BY <5>5
        <5>7. t[3] - 1 = y[3]
          BY <4>1, <5>5
        <5>8. QED
          BY <4>1, <4>2, <5>5, <5>6, <5>7
      <4>3. CASE ~ (y[1] = m /\ y[2] = 1)
        <5>1. y[1] = m => y[2] \in 2 .. n
          BY <4>1, <4>3
        <5>2. p[y[1]][y[2]] = q[y[1]][y[2]] /\ y[2] \in DOMAIN q[y[1]]
          BY <4>1, <5>1
        <5>3. << y[1], y[2], y[3] >> \in In(q, some)
          BY <4>1, <5>2, InIs
        <5>4. y \in A
          <6>1. y \in In(q, some)
            BY <4>1, <5>3
          <6>2. first[1] = m /\ first[2] = 1
            OBVIOUS
          <6>3. QED
            BY <4>3, <6>1, <6>2
        <5>5. f[y] = y
          BY <4>3, <5>4
        <5>6. QED
          BY <5>4, <5>5
      <4>4. QED
        BY <4>2, <4>3
    <3>2. QED
      BY <3>1
  <2> HIDE DEF A, f
  <2>5. QED
    BY <1>1, <2>2, <2>3, <2>4, SameSize
<1>4. Cardinality(In(q, some)) \in Nat
  BY FS_CardinalityType
<1>5. QED
  BY <1>1, <1>2, <1>3, <1>4 DEF One

-----------------------------------------------------------------------------
(* Every word is somewhere *)

LEMMA LineFacts ==
  ASSUME NEW line \in Lines
  PROVE  Len(line) \in Nat \ {0} /\ DOMAIN line = 1 .. Len(line) /\ DOMAIN line \subseteq Nat
BY DEF Lines

LEMMA FileFacts ==
  ASSUME TypeOK
  PROVE  /\ Len(input) \in Nat /\ DOMAIN input = 1 .. Len(input) /\ round \in Nat
         /\ \A l \in 1 .. Len(input) : input[l] \in Lines /\ DOMAIN input[l] \subseteq Nat
                                       /\ input[l] # END_PIPE
<1>1. input \in Seq(Lines) /\ input \in Inputs /\ round \in Nat
  BY DealtTo DEF TypeOK
<1>2. QED
  BY <1>1, Elements, LineFacts, MarkerAssumption

LEMMA PlacesAreFinite ==
  ASSUME TypeOK, NEW some
  PROVE  /\ IsFiniteSet(UNION { Places(some, l) : l \in DOMAIN input })
         /\ Occurrences(some) \in Nat
<1> DEFINE D == DOMAIN input
           T == { Places(some, l) : l \in D }
           f == [l \in D |-> Places(some, l)]
<1>1. IsFiniteSet(D)
  BY FileFacts, FS_Interval
<1>2. f \in Surjection(D, T)
  BY DEF Surjection
<1>3. IsFiniteSet(T)
  <2> HIDE DEF D, T, f
  <2>1. QED
    BY <1>1, <1>2, FS_Surjection
<1>4. ASSUME NEW l \in D PROVE IsFiniteSet(Places(some, l))
  <2>1. input[l] \in Lines
    BY FileFacts
  <2>2. Len(input[l]) \in Nat /\ DOMAIN input[l] = 1 .. Len(input[l])
    BY <2>1, LineFacts
  <2>3. IsFiniteSet(1 .. Len(input[l]))
    BY <2>2, FS_Interval
  <2>4. IsFiniteSet({ k \in DOMAIN input[l] : input[l][k] \in some })
    BY <2>2, <2>3, FS_Subset
  <2>5. IsFiniteSet({l})
    BY FS_Singleton
  <2>6. QED
    BY <2>4, <2>5, FS_Product DEF Places
<1>5. IsFiniteSet(UNION T)
  <2>1. \A S \in T : IsFiniteSet(S)
    BY <1>4
  <2> HIDE DEF T
  <2>2. QED
    BY <1>3, <2>1, FS_UNION
<1>6. QED
  BY <1>5, FS_CardinalityType DEF Occurrences

(* At the beginning all words are in the file.                             *)
LEMMA InitWordInv == ASSUME Init, TypeOK PROVE WordInv
<1> SUFFICES ASSUME NEW word \in Words, NEW some PROVE Conserved(word, some)
  BY DEF WordInv
<1> DEFINE S == UNION { Places(some, l) : l \in DOMAIN input }
           f == [p \in S |-> << 0, p[1], p[2] >>]
<1>1. IsFiniteSet(InFile(some)) /\ Cardinality(InFile(some)) = Occurrences(some)
  <2>1. \A p \in S : /\ p = << p[1], p[2] >> /\ p[1] \in DOMAIN input /\ p[2] \in DOMAIN input[p[1]]
                     /\ input[p[1]][p[2]] \in some
    BY DEF Places
  <2>2. \A l \in DOMAIN input : \A k \in DOMAIN input[l] : input[l][k] \in some => << l, k >> \in S
    BY DEF Places
  <2>3. /\ DOMAIN Undealt = {0} /\ DOMAIN Undealt[0] = DOMAIN input
        /\ \A l \in DOMAIN input : Undealt[0][l] = input[l] /\ l \in Nat
                                   /\ DOMAIN input[l] \subseteq Nat
    BY FileFacts DEF Undealt, Init
  <2>4. f \in [S -> InFile(some)]
    <3>1. ASSUME NEW p \in S PROVE << 0, p[1], p[2] >> \in InFile(some)
      BY <2>1, <2>3, InIs DEF InFile
    <3>2. QED
      BY <3>1
  <2>5. \A p, q \in S : f[p] = f[q] => p = q
    BY <2>1
  <2>6. \A y \in InFile(some) : \E p \in S : f[p] = y
    <3>1. ASSUME NEW y \in InFile(some) PROVE \E p \in S : f[p] = y
      <4>1. /\ y = << y[1], y[2], y[3] >> /\ y[1] = 0 /\ y[2] \in DOMAIN input
            /\ y[3] \in DOMAIN input[y[2]] /\ input[y[2]][y[3]] \in some
        BY <2>3, InIs DEF InFile
      <4>2. PICK p : p = << y[2], y[3] >>
        OBVIOUS
      <4>3. p \in S /\ p[1] = y[2] /\ p[2] = y[3]
        BY <2>2, <4>1, <4>2
      <4>4. f[p] = << 0, p[1], p[2] >>
        BY <4>3
      <4>5. QED
        BY <4>1, <4>3, <4>4
    <3>2. QED
      BY <3>1
  <2>7. IsFiniteSet(S)
    BY PlacesAreFinite
  <2> HIDE DEF f
  <2>8. IsFiniteSet(InFile(some)) /\ Cardinality(InFile(some)) = Cardinality(S)
    <3> HIDE DEF S
    <3>1. QED
      BY <2>4, <2>5, <2>6, <2>7, SameSize
  <2>9. QED
    BY <2>8 DEF Occurrences
<1>2. InRing(some) = {}
  BY DEF Init, InRing, In, InRings
<1>3. InTo(some) = {}
  BY WorkerIs DEF Init, InTo, In, ToChildren
<1>4. InFrom(some) = {}
  BY WorkerIs DEF Init, InFrom, In, FromChildren
<1>5. Counted(word) = 0
  <2>1. conf.reduce_num > 0 => store[Hash[word] % conf.reduce_num] = << >>
    BY DealtTo DEF Init
  <2>2. CountIn(<< >>, word) = 0
    BY CountNot
  <2>3. conf.reduce_num \in Nat
    BY DealtTo
  <2>4. QED
    BY <2>1, <2>2, <2>3 DEF Counted, Slot
<1>6. Occurrences(some) \in Nat
  BY PlacesAreFinite
<1>7. QED
  BY <1>1, <1>2, <1>3, <1>4, <1>5, <1>6, FS_EmptySet DEF Conserved

(* What a step does to the four families of queues                         *)
LEMMA WordsKept ==
  ASSUME NEW some
  PROVE  /\ UNCHANGED << input, round >> => InFile(some)' = InFile(some)
         /\ UNCHANGED ring => InRing(some)' = InRing(some)
         /\ (\A m \in Mappers : UNCHANGED toChild[<< "map", m >>]) => InTo(some)' = InTo(some)
         /\ (\A m \in Mappers : UNCHANGED fromChild[<< "map", m >>]) => InFrom(some)' = InFrom(some)
<1>1. UNCHANGED << input, round >> => InFile(some)' = InFile(some)
  BY DEF InFile, Undealt, In
<1>2. UNCHANGED ring => InRing(some)' = InRing(some)
  BY DEF InRing, InRings, In
<1>3. (\A m \in Mappers : UNCHANGED toChild[<< "map", m >>]) => InTo(some)' = InTo(some)
  <2>1. ASSUME \A m \in Mappers : UNCHANGED toChild[<< "map", m >>] PROVE UNCHANGED ToChildren
    BY <2>1 DEF ToChildren
  <2>2. UNCHANGED ToChildren => InTo(some)' = InTo(some)
    BY DEF InTo, In
  <2>3. QED
    BY <2>1, <2>2
<1>4. (\A m \in Mappers : UNCHANGED fromChild[<< "map", m >>]) => InFrom(some)' = InFrom(some)
  <2>1. ASSUME \A m \in Mappers : UNCHANGED fromChild[<< "map", m >>] PROVE UNCHANGED FromChildren
    BY <2>1 DEF FromChildren
  <2>2. UNCHANGED FromChildren => InFrom(some)' = InFrom(some)
    BY DEF InFrom, In
  <2>3. QED
    BY <2>1, <2>2
<1>5. QED
  BY <1>1, <1>2, <1>3, <1>4

(* Behind the end of the file there are no words.                          *)
LEMMA FileEnded ==
  ASSUME TypeOK, UNCHANGED input, round >= Len(input), round' >= Len(input), round' \in Nat,
         NEW some
  PROVE  InFile(some)' = InFile(some)
<1>1. 1 .. Len(input) - round = {} /\ 1 .. Len(input) - round' = {}
  BY FileFacts
<1>2. InFile(some) = {}
  BY <1>1 DEF InFile, Undealt, In
<1>3. InFile(some)' = {}
  BY <1>1 DEF InFile, Undealt, In
<1>4. QED
  BY <1>2, <1>3

LEMMA FileDealt ==
  ASSUME TypeOK, UNCHANGED input, round < Len(input), round' = round + 1,
         NEW some, IsFiniteSet(InFile(some))
  PROVE  LET line == input[round + 1]
         IN  /\ IsFiniteSet(InFile(some)') /\ IsFiniteSet(At(line, some))
             /\ Cardinality(InFile(some)) = Cardinality(InFile(some)') + Cardinality(At(line, some))
             /\ Cardinality(InFile(some)') \in Nat /\ Cardinality(At(line, some)) \in Nat
<1>1. PICK q, p : q = Undealt /\ p = Undealt'
  OBVIOUS
<1>2. InFile(some) = In(q, some) /\ InFile(some)' = In(p, some)
  BY <1>1 DEF InFile, In
<1>3. PICK n \in Nat : Len(input) - round = n + 1 /\ Len(input) - round' = n
  <2>1. Len(input) \in Nat /\ round \in Nat
    BY FileFacts
  <2>2. Len(input) - (round + 1) \in Nat /\ Len(input) - round = Len(input) - (round + 1) + 1
    BY <2>1
  <2>3. QED
    BY <2>2
<1>4. /\ DOMAIN q = {0} /\ DOMAIN p = {0} /\ DOMAIN q[0] = 1 .. n + 1 /\ DOMAIN p[0] = 1 .. n
      /\ \A i \in 1 .. n + 1 : q[0][i] = input[round + i]
      /\ \A i \in 1 .. n : p[0][i] = input[round + 1 + i]
  BY <1>1, <1>3 DEF Undealt
<1>5. \A i \in 1 .. n : p[0][i] = q[0][i + 1]
  <2>1. ASSUME NEW i \in 1 .. n PROVE i + 1 \in 1 .. n + 1 /\ round + 1 + i = round + (i + 1)
    BY FileFacts
  <2>2. QED
    BY <1>4, <2>1
<1>6. q[0][1] = input[round + 1] /\ DOMAIN q[0][1] \subseteq Nat
  <2>1. 1 \in 1 .. n + 1 /\ round + 1 \in 1 .. Len(input)
    BY FileFacts
  <2>2. QED
    BY <1>4, <2>1, FileFacts
<1>7. 0 \in DOMAIN q /\ DOMAIN p = DOMAIN q /\ \A j \in DOMAIN q \ {0} : p[j] = q[j]
  BY <1>4
<1>8. DOMAIN q[0] = 1 .. n + 1 /\ DOMAIN p[0] = 1 .. n /\ n \in Nat
  BY <1>3, <1>4
<1>9. /\ IsFiniteSet(In(p, some)) /\ IsFiniteSet(At(q[0][1], some))
      /\ Cardinality(In(q, some)) = Cardinality(In(p, some)) + Cardinality(At(q[0][1], some))
      /\ Cardinality(In(p, some)) \in Nat /\ Cardinality(At(q[0][1], some)) \in Nat
  <2>1. IsFiniteSet(In(q, some))
    BY <1>2
  <2>2. Pops(q, p, 0, n)
    BY <1>5, <1>6, <1>7, <1>8 DEF Pops, Differ
  <2>3. QED
    BY <2>1, <2>2, Popped
<1>10. QED
  BY <1>2, <1>6, <1>9

(* What a mapper makes of an item of its ring                              *)
LineOf(item) == IF item = END_PIPE THEN << >> ELSE item

LEMMA RingFacts ==
  ASSUME NEW m \in Mappers
  PROVE  /\ DOMAIN InRings = Mappers /\ DOMAIN InRings[m] = 1 .. Len(ring[m])
         /\ \A i \in 1 .. Len(ring[m]) : InRings[m][i] = LineOf(ring[m][i])
         /\ DOMAIN InRings' = Mappers /\ DOMAIN InRings'[m] = 1 .. Len(ring'[m])
         /\ \A i \in 1 .. Len(ring'[m]) : InRings'[m][i] = LineOf(ring'[m][i])
         /\ ring'[m] = ring[m] => InRings'[m] = InRings[m]
BY DEF InRings, LineOf

LEMMA LineOfFacts ==
  ASSUME NEW item \in Lines \cup {END_PIPE}
  PROVE  DOMAIN LineOf(item) \subseteq Nat
<1>1. CASE item = END_PIPE
  BY <1>1 DEF LineOf
<1>2. CASE item # END_PIPE
  BY <1>2, LineFacts DEF LineOf
<1>3. QED
  BY <1>1, <1>2

LEMMA RingPushed ==
  ASSUME TypeOK, NEW m \in Mappers, NEW item \in Lines \cup {END_PIPE},
         ring' = [ring EXCEPT ![m] = Append(@, item)],
         NEW some, IsFiniteSet(InRing(some)), IsFiniteSet(At(LineOf(item), some))
  PROVE  /\ IsFiniteSet(InRing(some)')
         /\ Cardinality(InRing(some)') = Cardinality(InRing(some))
                                         + Cardinality(At(LineOf(item), some))
<1>1. PICK q, p : q = InRings /\ p = InRings'
  OBVIOUS
<1>2. InRing(some) = In(q, some) /\ InRing(some)' = In(p, some)
  BY <1>1 DEF InRing, In
<1>3. PICK n \in Nat : n = Len(ring[m])
  BY DEF TypeOK
<1>4. /\ ring[m] \in Seq(Lines \cup {END_PIPE}) /\ ring'[m] = Append(ring[m], item)
      /\ \A j \in Mappers \ {m} : ring'[j] = ring[j]
  BY DEF TypeOK
<1>5. Len(ring'[m]) = n + 1 /\ ring'[m][n + 1] = item /\ \A i \in 1 .. n : ring'[m][i] = ring[m][i]
  BY <1>3, <1>4
<1>6. n + 1 \in 1 .. n + 1 /\ \A i \in 1 .. n : i \in 1 .. n + 1
  OBVIOUS
<1>7. /\ DOMAIN q = Mappers /\ DOMAIN p = Mappers /\ \A j \in Mappers \ {m} : p[j] = q[j]
      /\ DOMAIN q[m] = 1 .. n /\ DOMAIN p[m] = 1 .. n + 1
      /\ \A i \in 1 .. n : p[m][i] = q[m][i]
      /\ p[m][n + 1] = LineOf(item)
  BY <1>1, <1>3, <1>4, <1>5, <1>6, RingFacts
<1>8. Pushes(q, p, m, n)
  <2>1. DOMAIN p[m][n + 1] \subseteq Nat
    BY <1>7, LineOfFacts
  <2>2. /\ m \in DOMAIN q /\ DOMAIN p = DOMAIN q /\ n \in Nat
        /\ \A j \in DOMAIN q \ {m} : p[j] = q[j]
    BY <1>3, <1>7
  <2>3. QED
    BY <1>7, <2>1, <2>2 DEF Pushes, Differ
<1>9. /\ IsFiniteSet(In(q, some)) /\ IsFiniteSet(At(p[m][n + 1], some))
  BY <1>2, <1>7
<1>10. /\ IsFiniteSet(In(p, some))
       /\ Cardinality(In(p, some)) = Cardinality(In(q, some)) + Cardinality(At(p[m][n + 1], some))
  BY <1>8, <1>9, Pushed
<1>11. QED
  BY <1>2, <1>7, <1>10

LEMMA RingPopped ==
  ASSUME TypeOK, NEW m \in Mappers, ring[m] # << >>, ring' = [ring EXCEPT ![m] = Tail(@)],
         NEW some, IsFiniteSet(InRing(some))
  PROVE  LET line == LineOf(Head(ring[m]))
         IN  /\ IsFiniteSet(InRing(some)') /\ IsFiniteSet(At(line, some))
             /\ Cardinality(InRing(some)) = Cardinality(InRing(some)') + Cardinality(At(line, some))
             /\ Cardinality(InRing(some)') \in Nat /\ Cardinality(At(line, some)) \in Nat
<1>1. PICK q, p : q = InRings /\ p = InRings'
  OBVIOUS
<1>2. InRing(some) = In(q, some) /\ InRing(some)' = In(p, some)
  BY <1>1 DEF InRing, In
<1>3. /\ ring[m] \in Seq(Lines \cup {END_PIPE}) /\ ring'[m] = Tail(ring[m])
      /\ \A j \in Mappers \ {m} : ring'[j] = ring[j]
  BY DEF TypeOK
<1>4. /\ Len(ring[m]) \in Nat \ {0} /\ Len(Tail(ring[m])) = Len(ring[m]) - 1
      /\ Head(ring[m]) = ring[m][1] /\ Head(ring[m]) \in Lines \cup {END_PIPE}
      /\ \A i \in 1 .. Len(ring[m]) - 1 : Tail(ring[m])[i] = ring[m][i + 1]
  BY <1>3, TailFacts
<1>5. PICK n \in Nat : n = Len(ring[m]) - 1 /\ n + 1 = Len(ring[m])
  <2>1. Len(ring[m]) - 1 \in Nat /\ Len(ring[m]) - 1 + 1 = Len(ring[m])
    BY <1>4
  <2>2. QED
    BY <2>1
<1>6. 1 \in 1 .. n + 1 /\ \A i \in 1 .. n : i + 1 \in 1 .. n + 1
  OBVIOUS
<1>7. /\ m \in DOMAIN q /\ DOMAIN p = DOMAIN q /\ \A j \in DOMAIN q \ {m} : p[j] = q[j]
  BY <1>1, <1>3, RingFacts
<1>8. DOMAIN q[m] = 1 .. n + 1 /\ DOMAIN p[m] = 1 .. n
  BY <1>1, <1>3, <1>4, <1>5, RingFacts
<1>9. q[m][1] = LineOf(Head(ring[m])) /\ DOMAIN q[m][1] \subseteq Nat
  <2>1. q[m][1] = LineOf(ring[m][1])
    BY <1>1, <1>5, <1>6, RingFacts
  <2>2. DOMAIN LineOf(Head(ring[m])) \subseteq Nat
    BY <1>4, LineOfFacts
  <2>3. QED
    BY <1>4, <2>1, <2>2
<1>10. \A i \in 1 .. n : p[m][i] = q[m][i + 1]
  <2>1. ASSUME NEW i \in 1 .. n PROVE p[m][i] = q[m][i + 1]
    <3>1. ring'[m][i] = ring[m][i + 1]
      BY <1>3, <1>4, <1>5
    <3>2. i \in 1 .. Len(ring'[m]) /\ i + 1 \in 1 .. Len(ring[m])
      BY <1>3, <1>4, <1>5
    <3>3. p[m][i] = LineOf(ring'[m][i]) /\ q[m][i + 1] = LineOf(ring[m][i + 1])
      BY <1>1, <3>2, RingFacts
    <3>4. QED
      BY <3>1, <3>3
  <2>2. QED
    BY <2>1
<1>11. IsFiniteSet(In(q, some))
  BY <1>2
<1>12. /\ IsFiniteSet(In(p, some)) /\ IsFiniteSet(At(q[m][1], some))
       /\ Cardinality(In(q, some)) = Cardinality(In(p, some)) + Cardinality(At(q[m][1], some))
       /\ Cardinality(In(p, some)) \in Nat /\ Cardinality(At(q[m][1], some)) \in Nat
  <2>1. Pops(q, p, m, n)
    BY <1>7, <1>8, <1>9, <1>10 DEF Pops, Differ
  <2>2. QED
    BY <1>11, <2>1, Popped
<1>13. QED
  BY <1>2, <1>9, <1>12

(* Only mapper m's part of a family of pipes changes.                      *)
LEMMA ToPushed ==
  ASSUME TypeOK, NEW m \in Mappers, NEW line \in Lines,
         toChild' = [toChild EXCEPT ![<< "map", m >>] = Append(@, line)],
         NEW some, IsFiniteSet(InTo(some)), IsFiniteSet(At(line, some))
  PROVE  /\ IsFiniteSet(InTo(some)')
         /\ Cardinality(InTo(some)') = Cardinality(InTo(some)) + Cardinality(At(line, some))
<1>1. PICK q, p : q = ToChildren /\ p = ToChildren'
  OBVIOUS
<1>2. InTo(some) = In(q, some) /\ InTo(some)' = In(p, some)
  BY <1>1 DEF InTo, In
<1>3. /\ m \in DOMAIN q /\ DOMAIN p = DOMAIN q /\ \A j \in DOMAIN q \ {m} : p[j] = q[j]
      /\ p[m] = Append(q[m], line) /\ q[m] \in Seq(Lines)
  BY <1>1, WorkerIs DEF ToChildren, TypeOK
<1>4. PICK s \in Seq(Lines) : s = q[m]
  BY <1>3
<1>5. PICK n \in Nat : n = Len(s)
  OBVIOUS
<1>6. /\ DOMAIN s = 1 .. n /\ DOMAIN Append(s, line) = 1 .. n + 1
      /\ \A i \in 1 .. n : Append(s, line)[i] = s[i]
      /\ Append(s, line)[n + 1] = line
  BY <1>5
<1>7. /\ DOMAIN q[m] = 1 .. n /\ DOMAIN p[m] = 1 .. n + 1
      /\ \A i \in 1 .. n : p[m][i] = q[m][i]
      /\ p[m][n + 1] = line
  BY <1>3, <1>4, <1>6
<1>8. DOMAIN p[m][n + 1] \subseteq Nat /\ IsFiniteSet(At(p[m][n + 1], some))
  BY <1>7, LineFacts
<1>9. IsFiniteSet(In(q, some))
  BY <1>2
<1>10. /\ IsFiniteSet(In(p, some))
       /\ Cardinality(In(p, some)) = Cardinality(In(q, some)) + Cardinality(At(p[m][n + 1], some))
  <2>1. /\ m \in DOMAIN q /\ DOMAIN p = DOMAIN q /\ n \in Nat
        /\ \A j \in DOMAIN q \ {m} : p[j] = q[j]
    BY <1>3, <1>5
  <2>2. /\ DOMAIN q[m] = 1 .. n /\ DOMAIN p[m] = 1 .. n + 1
        /\ \A i \in 1 .. n : p[m][i] = q[m][i]
    BY <1>7
  <2>3. Pushes(q, p, m, n)
    BY <1>8, <2>1, <2>2 DEF Pushes, Differ
  <2>4. QED
    BY <1>8, <1>9, <2>3, Pushed
<1>11. QED
  BY <1>2, <1>7, <1>10

LEMMA ToRead ==
  ASSUME TypeOK, NEW m \in Mappers, NEW some, IsFiniteSet(InTo(some)),
         toChild[<< "map", m >>] # << >>,
         LET text == Head(toChild[<< "map", m >>])
         IN  toChild' = [toChild EXCEPT ![<< "map", m >>] =
                           IF Len(text) = 1 THEN Tail(@) ELSE << Tail(text) >> \o Tail(@)]
  PROVE  /\ IsFiniteSet(InTo(some)') /\ Cardinality(InTo(some)') \in Nat
         /\ Cardinality(InTo(some)) = Cardinality(InTo(some)')
              + One(Head(Head(toChild[<< "map", m >>])), some)
<1>1. PICK q, p : q = ToChildren /\ p = ToChildren'
  OBVIOUS
<1>2. InTo(some) = In(q, some) /\ InTo(some)' = In(p, some)
  BY <1>1 DEF InTo, In
<1>3. PICK text : text = Head(q[m])
  OBVIOUS
<1>4. /\ m \in DOMAIN q /\ DOMAIN p = DOMAIN q /\ \A j \in DOMAIN q \ {m} : p[j] = q[j]
      /\ p[m] = IF Len(text) = 1 THEN Tail(q[m]) ELSE << Tail(text) >> \o Tail(q[m])
      /\ q[m] \in Seq(Lines) /\ q[m] # << >> /\ q[m] = toChild[<< "map", m >>]
  BY <1>1, <1>3, WorkerIs DEF ToChildren, TypeOK
<1>5. /\ text \in Lines /\ text = q[m][1] /\ Len(q[m]) \in Nat \ {0} /\ Tail(q[m]) \in Seq(Lines)
      /\ DOMAIN q[m] = 1 .. Len(q[m])
      /\ Len(Tail(q[m])) = Len(q[m]) - 1 /\ DOMAIN Tail(q[m]) = 1 .. Len(q[m]) - 1
      /\ \A i \in 1 .. Len(q[m]) - 1 : Tail(q[m])[i] = q[m][i + 1]
  BY <1>3, <1>4, TailFacts
<1>6. /\ text \in Seq(Words \cup {NotAlpha}) /\ text # << >> /\ Len(text) \in Nat \ {0}
      /\ Head(text) = text[1] /\ DOMAIN text = 1 .. Len(text)
      /\ Tail(text) \in Seq(Words \cup {NotAlpha})
      /\ Len(Tail(text)) = Len(text) - 1 /\ DOMAIN Tail(text) = 1 .. Len(text) - 1
      /\ \A i \in 1 .. Len(text) - 1 : Tail(text)[i] = text[i + 1]
  BY <1>5, TailFacts DEF Lines
<1>7. m \in DOMAIN q /\ IsFiniteSet(In(q, some))
  BY <1>2, <1>4
<1>8. CASE Len(text) = 1
  <2>1. PICK n \in Nat : n = Len(q[m]) - 1 /\ n + 1 = Len(q[m])
    <3>1. Len(q[m]) - 1 \in Nat /\ Len(q[m]) - 1 + 1 = Len(q[m])
      BY <1>5
    <3>2. QED
      BY <3>1
  <2>2. /\ DOMAIN q[m] = 1 .. n + 1 /\ DOMAIN p[m] = 1 .. n
        /\ \A i \in 1 .. n : p[m][i] = q[m][i + 1]
    BY <1>4, <1>5, <1>8, <2>1
  <2>3. DOMAIN q[m][1] \subseteq Nat
    BY <1>5, <1>6
  <2>4. /\ IsFiniteSet(In(p, some)) /\ Cardinality(In(p, some)) \in Nat
        /\ Cardinality(In(q, some)) = Cardinality(In(p, some)) + Cardinality(At(q[m][1], some))
    <3>1. DOMAIN p = DOMAIN q /\ n \in Nat /\ \A j \in DOMAIN q \ {m} : p[j] = q[j]
      BY <1>4, <2>1
    <3>2. Pops(q, p, m, n)
      BY <1>7, <2>2, <2>3, <3>1 DEF Pops, Differ
    <3>3. QED
      BY <1>7, <3>2, Popped
  <2>5. text = << text[1] >>
    BY <1>6, <1>8
  <2>6. Cardinality(At(q[m][1], some)) = One(Head(text), some)
    BY <1>5, <1>6, <2>5, AtWord
  <2>7. QED
    BY <1>2, <1>3, <1>4, <2>4, <2>6
<1>9. CASE Len(text) # 1
  <2>1. PICK l \in Nat : l = Len(text) - 1 /\ l + 1 = Len(text)
    <3>1. Len(text) - 1 \in Nat /\ Len(text) - 1 + 1 = Len(text)
      BY <1>6
    <3>2. QED
      BY <3>1
  <2>2. PICK n \in Nat : n = Len(q[m]) /\ n >= 1
    BY <1>5
  <2>3. p[m] = << Tail(text) >> \o Tail(q[m])
    BY <1>4, <1>9
  <2>4. /\ DOMAIN p[m] = 1 .. n /\ p[m][1] = Tail(text) /\ \A i \in 2 .. n : p[m][i] = q[m][i]
    <3>1. PICK t \in Seq(Lines) : t = Tail(q[m])
      BY <1>5
    <3>2. /\ Len(t) = n - 1
          /\ \A i \in 1 .. n - 1 : t[i] = q[m][i + 1]
      BY <1>5, <2>2, <3>1
    <3>3. PICK x \in Seq(Words \cup {NotAlpha}) : x = Tail(text)
      BY <1>6
    <3>4. p[m] = << x >> \o t
      BY <2>3, <3>1, <3>3
    <3>5. /\ Len(<< x >> \o t) = n /\ DOMAIN (<< x >> \o t) = 1 .. n /\ (<< x >> \o t)[1] = x
          /\ \A i \in 2 .. n : (<< x >> \o t)[i] = t[i - 1]
      BY <2>2, <3>2
    <3>6. \A i \in 2 .. n : i - 1 \in 1 .. n - 1 /\ i - 1 + 1 = i
      BY <2>2
    <3>7. \A i \in 2 .. n : t[i - 1] = q[m][i]
      BY <3>2, <3>6
    <3>8. QED
      BY <3>3, <3>4, <3>5, <3>7
  <2>5. /\ DOMAIN q[m] = 1 .. n /\ DOMAIN q[m][1] = 1 .. l + 1 /\ DOMAIN p[m][1] = 1 .. l
        /\ \A k \in 1 .. l : p[m][1][k] = q[m][1][k + 1]
    BY <1>5, <1>6, <2>1, <2>2, <2>4
  <2>6. /\ IsFiniteSet(In(p, some)) /\ Cardinality(In(p, some)) \in Nat
        /\ Cardinality(In(q, some)) = Cardinality(In(p, some))
                                      + One(q[m][1][1], some)
    <3>1. /\ DOMAIN p = DOMAIN q /\ \A j \in DOMAIN q \ {m} : p[j] = q[j]
      BY <1>4
    <3>2. n >= 1 /\ DOMAIN p[m] = 1 .. n /\ \A i \in 2 .. n : p[m][i] = q[m][i]
      BY <2>2, <2>4
    <3>3. Reads(q, p, m, n, l)
      BY <1>7, <2>1, <2>2, <2>5, <3>1, <3>2 DEF Reads, Differ
    <3>4. QED
      BY <1>7, <3>3, Read
  <2>7. QED
    BY <1>2, <1>3, <1>4, <1>5, <1>6, <2>6
<1>10. QED
  BY <1>8, <1>9

LEMMA FromFacts ==
  ASSUME NEW m \in Mappers
  PROVE  LET q == fromChild[<< "map", m >>]
             p == fromChild'[<< "map", m >>]
         IN  /\ DOMAIN FromChildren = Mappers /\ DOMAIN FromChildren[m] = 1 .. Len(q)
             /\ \A i \in 1 .. Len(q) : FromChildren[m][i] = << q[i] >>
             /\ DOMAIN FromChildren' = Mappers /\ DOMAIN FromChildren'[m] = 1 .. Len(p)
             /\ \A i \in 1 .. Len(p) : FromChildren'[m][i] = << p[i] >>
             /\ p = q => FromChildren'[m] = FromChildren[m]
BY DEF FromChildren

LEMMA FromPushed ==
  ASSUME TypeOK, NEW m \in Mappers, NEW x \in Words,
         fromChild' = [fromChild EXCEPT ![<< "map", m >>] = Append(@, x)],
         NEW some, IsFiniteSet(InFrom(some))
  PROVE  /\ IsFiniteSet(InFrom(some)')
         /\ Cardinality(InFrom(some)') = Cardinality(InFrom(some)) + One(x, some)
<1>1. PICK q, p : q = FromChildren /\ p = FromChildren'
  OBVIOUS
<1>2. InFrom(some) = In(q, some) /\ InFrom(some)' = In(p, some)
  BY <1>1 DEF InFrom, In
<1>3. PICK a, b : a = fromChild[<< "map", m >>] /\ b = fromChild'[<< "map", m >>]
  OBVIOUS
<1>4. /\ a \in Seq(Words) /\ b = Append(a, x)
      /\ \A j \in Mappers \ {m} : fromChild'[<< "map", j >>] = fromChild[<< "map", j >>]
  BY <1>3, WorkerIs DEF TypeOK
<1>5. PICK n \in Nat : n = Len(a) /\ Len(b) = n + 1 /\ b[n + 1] = x /\ \A i \in 1 .. n : b[i] = a[i]
  BY <1>4
<1>6. n + 1 \in 1 .. n + 1 /\ \A i \in 1 .. n : i \in 1 .. n + 1
  OBVIOUS
<1>7. /\ m \in DOMAIN q /\ DOMAIN p = DOMAIN q /\ \A j \in DOMAIN q \ {m} : p[j] = q[j]
  BY <1>1, <1>4, FromFacts
<1>8. DOMAIN q[m] = 1 .. n /\ DOMAIN p[m] = 1 .. n + 1
  BY <1>1, <1>3, <1>5, FromFacts
<1>9. p[m][n + 1] = << x >>
  BY <1>1, <1>3, <1>5, <1>6, FromFacts
<1>10. \A i \in 1 .. n : p[m][i] = q[m][i]
  <2>1. ASSUME NEW i \in 1 .. n PROVE p[m][i] = q[m][i]
    <3>1. i \in 1 .. Len(a) /\ i \in 1 .. Len(b) /\ b[i] = a[i]
      BY <1>5, <1>6
    <3>2. p[m][i] = << b[i] >> /\ q[m][i] = << a[i] >>
      BY <1>1, <1>3, <3>1, FromFacts
    <3>3. QED
      BY <3>1, <3>2
  <2>2. QED
    BY <2>1
<1>11. DOMAIN p[m][n + 1] \subseteq Nat
  BY <1>9
<1>12. /\ IsFiniteSet(At(p[m][n + 1], some))
       /\ Cardinality(At(p[m][n + 1], some)) = One(x, some)
  BY <1>9, AtWord
<1>13. IsFiniteSet(In(q, some))
  BY <1>2
<1>14. /\ IsFiniteSet(In(p, some))
       /\ Cardinality(In(p, some)) = Cardinality(In(q, some)) + Cardinality(At(p[m][n + 1], some))
  <2>1. Pushes(q, p, m, n)
    BY <1>5, <1>7, <1>8, <1>10, <1>11 DEF Pushes, Differ
  <2>2. QED
    BY <1>12, <1>13, <2>1, Pushed
<1>15. QED
  BY <1>2, <1>12, <1>14

LEMMA FromPopped ==
  ASSUME TypeOK, NEW m \in Mappers, fromChild[<< "map", m >>] # << >>,
         fromChild' = [fromChild EXCEPT ![<< "map", m >>] = Tail(@)],
         NEW some, IsFiniteSet(InFrom(some))
  PROVE  /\ IsFiniteSet(InFrom(some)') /\ Cardinality(InFrom(some)') \in Nat
         /\ Cardinality(InFrom(some)) = Cardinality(InFrom(some)')
              + One(Head(fromChild[<< "map", m >>]), some)
<1>1. PICK q, p : q = FromChildren /\ p = FromChildren'
  OBVIOUS
<1>2. InFrom(some) = In(q, some) /\ InFrom(some)' = In(p, some)
  BY <1>1 DEF InFrom, In
<1>3. PICK a, b : a = fromChild[<< "map", m >>] /\ b = fromChild'[<< "map", m >>]
  OBVIOUS
<1>4. /\ a \in Seq(Words) /\ b = Tail(a) /\ a # << >>
      /\ \A j \in Mappers \ {m} : fromChild'[<< "map", j >>] = fromChild[<< "map", j >>]
  BY <1>3, WorkerIs DEF TypeOK
<1>5. /\ Len(a) \in Nat \ {0} /\ Head(a) = a[1] /\ Len(b) = Len(a) - 1
      /\ \A i \in 1 .. Len(a) - 1 : b[i] = a[i + 1]
  BY <1>4, TailFacts
<1>6. PICK n \in Nat : n = Len(a) - 1 /\ n + 1 = Len(a)
  <2>1. Len(a) - 1 \in Nat /\ Len(a) - 1 + 1 = Len(a)
    BY <1>5
  <2>2. QED
    BY <2>1
<1>7. /\ m \in DOMAIN q /\ DOMAIN p = DOMAIN q /\ \A j \in DOMAIN q \ {m} : p[j] = q[j]
  BY <1>1, <1>4, FromFacts
<1>8. DOMAIN q[m] = 1 .. n + 1 /\ DOMAIN p[m] = 1 .. n
  BY <1>1, <1>3, <1>5, <1>6, FromFacts
<1>9. q[m][1] = << Head(a) >>
  <2>1. 1 \in 1 .. Len(a)
    BY <1>5
  <2>2. QED
    BY <1>1, <1>3, <1>5, <2>1, FromFacts
<1>10. \A i \in 1 .. n : p[m][i] = q[m][i + 1]
  <2>1. ASSUME NEW i \in 1 .. n PROVE p[m][i] = q[m][i + 1]
    <3>1. i + 1 \in 1 .. Len(a) /\ i \in 1 .. Len(b) /\ b[i] = a[i + 1]
      BY <1>5, <1>6
    <3>2. p[m][i] = << b[i] >> /\ q[m][i + 1] = << a[i + 1] >>
      BY <1>1, <1>3, <3>1, FromFacts
    <3>3. QED
      BY <3>1, <3>2
  <2>2. QED
    BY <2>1
<1>11. DOMAIN q[m][1] \subseteq Nat
  BY <1>9
<1>12. IsFiniteSet(In(q, some))
  BY <1>2
<1>13. /\ IsFiniteSet(In(p, some)) /\ Cardinality(In(p, some)) \in Nat
       /\ Cardinality(In(q, some)) = Cardinality(In(p, some)) + Cardinality(At(q[m][1], some))
  <2>1. n \in Nat
    BY <1>6
  <2>2. Pops(q, p, m, n)
    BY <1>7, <1>8, <1>10, <1>11, <2>1 DEF Pops, Differ
  <2>3. QED
    BY <1>12, <2>2, Popped
<1>14. Cardinality(At(q[m][1], some)) = One(Head(a), some)
  BY <1>9, AtWord
<1>15. QED
  BY <1>2, <1>3, <1>13, <1>14

(* A place or a count that a word loses, it gains elsewhere.               *)
LEMMA CountedType == ASSUME TypeOK, NEW word \in Words PROVE Counted(word) \in Nat
<1>1. CASE conf.reduce_num = 0
  BY <1>1 DEF Counted, Slot
<1>2. CASE conf.reduce_num # 0
  <2>1. Hash[word] % conf.reduce_num \in Reducers
    BY <1>2, DealtTo
  <2>2. store[Hash[word] % conf.reduce_num] \in Seq(Key)
    BY <2>1, StoreType
  <2>3. QED
    BY <1>2, <2>2, CountType DEF Counted, Slot
<1>3. QED
  BY <1>1, <1>2

LEMMA ConservedNext ==
  ASSUME NEW word, NEW some, Conserved(word, some), UNCHANGED input,
         IsFiniteSet(InFile(some)'), IsFiniteSet(InRing(some)'),
         IsFiniteSet(InTo(some)'), IsFiniteSet(InFrom(some)'),
         Counted(word)' + Cardinality(InFile(some)') + Cardinality(InRing(some)')
           + Cardinality(InTo(some)') + Cardinality(InFrom(some)')
         = Counted(word) + Cardinality(InFile(some)) + Cardinality(InRing(some))
           + Cardinality(InTo(some)) + Cardinality(InFrom(some))
  PROVE  Conserved(word, some)'
<1>1. Occurrences(some)' = Occurrences(some)
  BY DEF Occurrences, Places
<1>2. Cardinality(InFile(some)') = Cardinality(InFile(some))'
  OBVIOUS
<1>3. QED
  BY <1>1 DEF Conserved

LEMMA CountedKept ==
  ASSUME UNCHANGED << conf, store >>, NEW word
  PROVE  Counted(word)' = Counted(word)
BY DEF Counted, Slot, CountIn

LEMMA Sizes ==
  ASSUME TypeOK, NEW word \in Words, NEW some, Conserved(word, some)
  PROVE  /\ Cardinality(InFile(some)) \in Nat /\ Cardinality(InRing(some)) \in Nat
         /\ Cardinality(InTo(some)) \in Nat /\ Cardinality(InFrom(some)) \in Nat
         /\ Counted(word) \in Nat
BY FS_CardinalityType, CountedType DEF Conserved

LEMMA WordsStay ==
  ASSUME NEW word, NEW some, Conserved(word, some), UNCHANGED << conf, input, round, ring, store >>,
         \A m \in Mappers : UNCHANGED toChild[<< "map", m >>],
         \A m \in Mappers : UNCHANGED fromChild[<< "map", m >>]
  PROVE  Conserved(word, some)'
<1>1. /\ InFile(some)' = InFile(some) /\ InRing(some)' = InRing(some)
      /\ InTo(some)' = InTo(some) /\ InFrom(some)' = InFrom(some)
  BY WordsKept
<1>2. Counted(word)' = Counted(word)
  BY CountedKept
<1>3. Occurrences(some)' = Occurrences(some)
  BY DEF Occurrences, Places
<1>4. QED
  BY <1>1, <1>2, <1>3 DEF Conserved

(* The main thread                                                         *)
LEMMA DispatchWords ==
  ASSUME TypeOK, NEW word \in Words, NEW some, Conserved(word, some), DealLine \/ SendEnd
  PROVE  Conserved(word, some)'
<1>1. /\ Len(input) \in Nat /\ round \in Nat /\ conf.map_num \in Nat
      /\ \A l \in 1 .. Len(input) : input[l] \in Lines /\ input[l] # END_PIPE
  BY FileFacts, DealtTo
<1>2. /\ IsFiniteSet(InFile(some)) /\ IsFiniteSet(InRing(some))
      /\ IsFiniteSet(InTo(some)) /\ IsFiniteSet(InFrom(some))
  BY DEF Conserved
<1>3. /\ Cardinality(InFile(some)) \in Nat /\ Cardinality(InRing(some)) \in Nat
      /\ Cardinality(InTo(some)) \in Nat /\ Cardinality(InFrom(some)) \in Nat
      /\ Counted(word) \in Nat
  BY Sizes
<1>4. ASSUME NEW m \in Mappers, NEW item, DispatchMapper(m, item)
      PROVE  /\ UNCHANGED input /\ round' = round + 1
             /\ ring' = [ring EXCEPT ![m] = Append(@, item)]
             /\ InTo(some)' = InTo(some) /\ InFrom(some)' = InFrom(some)
             /\ Counted(word)' = Counted(word)
  <2>1. /\ UNCHANGED << conf, input, store, toChild, fromChild >> /\ round' = round + 1
        /\ ring' = [ring EXCEPT ![m] = Append(@, item)]
    BY <1>4 DEF DispatchMapper, job, shuffle
  <2>2. QED
    BY <2>1, WordsKept, CountedKept
<1>5. CASE DealLine
  <2>1. PICK m, line : m = round % conf.map_num /\ line = input[round + 1]
    OBVIOUS
  <2>2. round < Len(input) /\ conf.map_num > 0 /\ DispatchMapper(m, line)
    BY <1>5, <2>1 DEF DealLine
  <2>3. m \in Mappers
    BY <2>1, <2>2, DealtTo
  <2>4. line \in Lines /\ line # END_PIPE
    BY <1>1, <2>1, <2>2
  <2>5. LineOf(line) = line
    BY <2>4 DEF LineOf
  <2>6. /\ IsFiniteSet(InFile(some)') /\ IsFiniteSet(At(line, some))
        /\ Cardinality(InFile(some)) = Cardinality(InFile(some)') + Cardinality(At(line, some))
        /\ Cardinality(InFile(some)') \in Nat /\ Cardinality(At(line, some)) \in Nat
    BY <1>2, <1>4, <2>1, <2>2, <2>3, FileDealt
  <2>7. /\ IsFiniteSet(InRing(some)')
        /\ Cardinality(InRing(some)') = Cardinality(InRing(some)) + Cardinality(At(line, some))
    BY <1>2, <1>4, <2>2, <2>3, <2>4, <2>5, <2>6, RingPushed
  <2>8. QED
    BY <1>2, <1>3, <1>4, <2>2, <2>3, <2>6, <2>7, ConservedNext
<1>6. CASE SendEnd
  <2>1. PICK m : m = round - Len(input)
    OBVIOUS
  <2>2. round >= Len(input) /\ m \in Nat /\ m < conf.map_num /\ DispatchMapper(m, END_PIPE)
    BY <1>1, <1>6, <2>1 DEF SendEnd
  <2>3. m \in Mappers
    BY <2>2, DealtTo
  <2>4. InFile(some)' = InFile(some)
    <3>1. UNCHANGED input /\ round' >= Len(input) /\ round' \in Nat
      BY <1>1, <1>4, <2>2, <2>3
    <3>2. QED
      BY <2>2, <3>1, FileEnded
  <2>5. LineOf(END_PIPE) = << >>
    BY DEF LineOf
  <2>6. IsFiniteSet(At(<< >>, some)) /\ Cardinality(At(<< >>, some)) = 0
    BY AtWord
  <2>7. /\ IsFiniteSet(InRing(some)')
        /\ Cardinality(InRing(some)') = Cardinality(InRing(some)) + Cardinality(At(<< >>, some))
    BY <1>2, <1>4, <2>2, <2>3, <2>5, <2>6, RingPushed
  <2>8. QED
    BY <1>2, <1>3, <1>4, <2>2, <2>3, <2>4, <2>6, <2>7, ConservedNext
<1>7. QED
  BY <1>5, <1>6

LEMMA MainWords ==
  ASSUME TypeOK, NEW word \in Words, NEW some, Conserved(word, some), MainStep \/ MainFails
  PROVE  Conserved(word, some)'
<1>1. CASE DealLine \/ SendEnd
  BY <1>1, DispatchWords
<1>2. CASE ~ (DealLine \/ SendEnd)
  <2>1. UNCHANGED << conf, input, round, ring, store, toChild, fromChild >>
    BY <1>2 DEF MainStep, MainFails, Main, Crash, Initialize, OpenInput, StartMap, DivideByMapNum,
       JoinMaps, StartReduce, JoinReduces, Delete, DeleteNobody, Exit, InitFails, OpenFails,
       StartMapFails, StartReduceFails, Quit, StartWorker, StartNobody, shuffle, job
  <2>2. QED
    BY <2>1, WordsStay
<1>3. QED
  BY <1>1, <1>2

(* A mapper's thread                                                       *)
LEMMA FeedWords ==
  ASSUME TypeOK, NEW word \in Words, NEW some, Conserved(word, some), NEW m \in Mappers, FeedLine(m) \/ FeedEnd(m)
  PROVE  Conserved(word, some)'
<1>1. PICK line : line = LineOf(Head(ring[m]))
  OBVIOUS
<1>2. /\ IsFiniteSet(InFile(some)) /\ IsFiniteSet(InRing(some))
      /\ IsFiniteSet(InTo(some)) /\ IsFiniteSet(InFrom(some))
  BY DEF Conserved
<1>3. /\ Cardinality(InFile(some)) \in Nat /\ Cardinality(InRing(some)) \in Nat
      /\ Cardinality(InTo(some)) \in Nat /\ Cardinality(InFrom(some)) \in Nat
      /\ Counted(word) \in Nat
  BY Sizes
<1>4. /\ UNCHANGED << conf, input, round, store, fromChild >> /\ ring[m] # << >>
      /\ ring' = [ring EXCEPT ![m] = Tail(@)]
      /\ \/ Head(ring[m]) = END_PIPE /\ UNCHANGED toChild
         \/ /\ Head(ring[m]) # END_PIPE
            /\ toChild' = [toChild EXCEPT ![<< "map", m >>] = Append(@, Head(ring[m]))]
  BY DEF FeedLine, FeedEnd, Thread, job, mainVars, shuffle
<1>5. /\ InFile(some)' = InFile(some) /\ InFrom(some)' = InFrom(some)
      /\ Counted(word)' = Counted(word)
  BY <1>4, WordsKept, CountedKept
<1>6. /\ IsFiniteSet(InRing(some)') /\ IsFiniteSet(At(line, some))
      /\ Cardinality(InRing(some)) = Cardinality(InRing(some)') + Cardinality(At(line, some))
      /\ Cardinality(InRing(some)') \in Nat /\ Cardinality(At(line, some)) \in Nat
  BY <1>1, <1>2, <1>4, RingPopped
<1>7. /\ IsFiniteSet(InTo(some)')
      /\ Cardinality(InTo(some)') = Cardinality(InTo(some)) + Cardinality(At(line, some))
  <2>1. CASE Head(ring[m]) = END_PIPE
    <3>1. line = << >> /\ UNCHANGED toChild
      BY <1>1, <1>4, <2>1 DEF LineOf
    <3>2. InTo(some)' = InTo(some)
      BY <3>1, WordsKept
    <3>3. Cardinality(At(<< >>, some)) = 0
      BY AtWord
    <3>4. Cardinality(At(line, some)) = 0
      BY <3>1, <3>3
    <3>5. QED
      BY <1>2, <1>3, <3>2, <3>4
  <2>2. CASE Head(ring[m]) # END_PIPE
    <3>1. line = Head(ring[m])
      BY <1>1, <2>2 DEF LineOf
    <3>2. line \in Lines
      <4>1. ring[m] \in Seq(Lines \cup {END_PIPE})
        BY DEF TypeOK
      <4>2. Head(ring[m]) \in Lines \cup {END_PIPE}
        BY <1>4, <4>1, TailFacts
      <4>3. QED
        BY <2>2, <3>1, <4>2
    <3>3. toChild' = [toChild EXCEPT ![<< "map", m >>] = Append(@, line)]
      BY <1>4, <2>2, <3>1
    <3>4. QED
      BY <1>2, <1>6, <3>2, <3>3, ToPushed
  <2>3. QED
    BY <2>1, <2>2
<1>8. QED
  BY <1>2, <1>3, <1>4, <1>5, <1>6, <1>7, ConservedNext

(* A mapper's child                                                        *)
LEMMA MapWordWords ==
  ASSUME TypeOK, NEW word \in Words, NEW some, Conserved(word, some), NEW m \in Mappers, MapWord(m),
         NotAlpha \notin some
  PROVE  Conserved(word, some)'
<1>1. PICK w, x : w = << "map", m >> /\ x = Head(Head(toChild[w]))
  OBVIOUS
<1>2. /\ IsFiniteSet(InFile(some)) /\ IsFiniteSet(InRing(some))
      /\ IsFiniteSet(InTo(some)) /\ IsFiniteSet(InFrom(some))
  BY DEF Conserved
<1>3. /\ Cardinality(InFile(some)) \in Nat /\ Cardinality(InRing(some)) \in Nat
      /\ Cardinality(InTo(some)) \in Nat /\ Cardinality(InFrom(some)) \in Nat
      /\ Counted(word) \in Nat
  BY Sizes
<1>4. /\ UNCHANGED << conf, input, round, ring, store >> /\ toChild[<< "map", m >>] # << >>
      /\ fromChild' = IF x = NotAlpha THEN fromChild
                      ELSE [fromChild EXCEPT ![<< "map", m >>] = Append(@, x)]
      /\ toChild' = [toChild EXCEPT ![<< "map", m >>] =
                       IF Len(Head(toChild[<< "map", m >>])) = 1 THEN Tail(@)
                       ELSE << Tail(Head(toChild[<< "map", m >>])) >> \o Tail(@)]
  BY <1>1 DEF MapWord, Child, job, mainVars, shuffle
<1>5. /\ InFile(some)' = InFile(some) /\ InRing(some)' = InRing(some)
      /\ Counted(word)' = Counted(word)
  BY <1>4, WordsKept, CountedKept
<1>6. /\ IsFiniteSet(InTo(some)') /\ Cardinality(InTo(some)') \in Nat
      /\ Cardinality(InTo(some)) = Cardinality(InTo(some)') + One(x, some)
  BY <1>1, <1>2, <1>4, ToRead
<1>7. /\ IsFiniteSet(InFrom(some)')
      /\ Cardinality(InFrom(some)') = Cardinality(InFrom(some)) + One(x, some)
  <2>1. CASE x = NotAlpha
    <3>1. x \notin some /\ UNCHANGED fromChild
      BY <1>4, <2>1, WordsAssumption
    <3>2. InFrom(some)' = InFrom(some)
      BY <3>1, WordsKept
    <3>3. One(x, some) = 0
      BY <3>1, OneIs
    <3>4. QED
      BY <1>2, <1>3, <3>2, <3>3
  <2>2. CASE x # NotAlpha
    <3>1. x \in Words
      <4>1. toChild[<< "map", m >>] \in Seq(Lines)
        BY DEF TypeOK
      <4>2. x \in Words \cup {NotAlpha}
        BY <1>1, <1>4, <4>1, TailOfLine
      <4>3. QED
        BY <2>2, <4>2
    <3>2. fromChild' = [fromChild EXCEPT ![<< "map", m >>] = Append(@, x)]
      BY <1>4, <2>2
    <3>3. QED
      BY <1>2, <3>1, <3>2, FromPushed
  <2>3. QED
    BY <2>1, <2>2
<1>8. QED
  BY <1>2, <1>3, <1>4, <1>5, <1>6, <1>7, OneIs, ConservedNext

(* A mapper's receiver                                                     *)
LEMMA PushBackCounted ==
  ASSUME TypeOK, StoreInv, NEW m \in Mappers, PushBack(m), NEW word \in Words
  PROVE  Counted(word)' = Counted(word)
           + IF Head(fromChild[<< "map", m >>]) \in Alike(word) THEN 1 ELSE 0
<1>1. PICK x, slot : /\ x = Head(fromChild[<< "map", m >>])
                     /\ slot = Hash[x] % conf.reduce_num
  OBVIOUS
<1>2. /\ x \in Words /\ slot \in Reducers /\ conf.reduce_num > 0 /\ UNCHANGED conf
      /\ store'[slot] = Stored(store[slot], x)
      /\ \A r \in Reducers \ {slot} : store'[r] = store[r]
  BY <1>1, PushBackEffect DEF PushBack, Receiver, job
<1>3. PICK home : home = Hash[word] % conf.reduce_num
  OBVIOUS
<1>4. home \in Reducers /\ conf.reduce_num # 0
  <2>1. conf.reduce_num \in Nat
    BY DealtTo
  <2>2. QED
    BY <1>2, <1>3, <2>1, DealtTo
<1>5. Counted(word) = CountIn(store[home], word) /\ Counted(word)' = CountIn(store'[home], word)
  <2>1. home = Slot(word) /\ home = Slot(word)'
    BY <1>2, <1>3, <1>4 DEF Slot
  <2>2. CountIn(store[home], word)' = CountIn(store'[home], word)
    BY DEF CountIn
  <2>3. QED
    BY <1>2, <1>4, <2>1, <2>2 DEF Counted
<1>6. /\ \A v : Sign[v] = Sign[x] => CountIn(Stored(store[slot], x), v) = CountIn(store[slot], v) + 1
      /\ \A v : Sign[v] # Sign[x] => CountIn(Stored(store[slot], x), v) = CountIn(store[slot], v)
  BY <1>2, StoreType, StoredFacts DEF StoreInv, GoodKeys
<1>7. Counted(word) \in Nat
  BY CountedType
<1>8. x \in Alike(word) <=> slot = home /\ Sign[x] = Sign[word]
  BY <1>1, <1>2, <1>3, <1>4 DEF Alike, KeyOf, Slot
<1>9. CASE slot = home /\ Sign[x] = Sign[word]
  BY <1>1, <1>2, <1>5, <1>6, <1>8, <1>9
<1>10. CASE ~ (slot = home /\ Sign[x] = Sign[word])
  <2>1. CountIn(store'[home], word) = CountIn(store[home], word)
    <3>1. CASE home = slot
      BY <1>2, <1>6, <1>10, <3>1
    <3>2. CASE home # slot
      BY <1>2, <1>4, <3>2
    <3>3. QED
      BY <3>1, <3>2
  <2>2. QED
    BY <1>1, <1>5, <1>7, <1>8, <1>10, <2>1
<1>11. QED
  BY <1>9, <1>10

LEMMA PushBackWords ==
  ASSUME TypeOK, StoreInv, NEW word \in Words, NEW some, Conserved(word, some),
         some = Alike(word), NEW m \in Mappers, PushBack(m)
  PROVE  Conserved(word, some)'
<1>1. PICK x : x = Head(fromChild[<< "map", m >>])
  OBVIOUS
<1>2. /\ IsFiniteSet(InFile(some)) /\ IsFiniteSet(InRing(some))
      /\ IsFiniteSet(InTo(some)) /\ IsFiniteSet(InFrom(some))
  BY DEF Conserved
<1>3. /\ Cardinality(InFile(some)) \in Nat /\ Cardinality(InRing(some)) \in Nat
      /\ Cardinality(InTo(some)) \in Nat /\ Cardinality(InFrom(some)) \in Nat
      /\ Counted(word) \in Nat
  BY Sizes
<1>4. /\ UNCHANGED << conf, input, round, ring, toChild >> /\ fromChild[<< "map", m >>] # << >>
      /\ fromChild' = [fromChild EXCEPT ![<< "map", m >>] = Tail(@)]
  BY <1>1 DEF PushBack, Receiver, job, mainVars
<1>5. InFile(some)' = InFile(some) /\ InRing(some)' = InRing(some) /\ InTo(some)' = InTo(some)
  BY <1>4, WordsKept
<1>6. /\ IsFiniteSet(InFrom(some)') /\ Cardinality(InFrom(some)') \in Nat
      /\ Cardinality(InFrom(some)) = Cardinality(InFrom(some)') + One(x, some)
  BY <1>1, <1>2, <1>4, FromPopped
<1>7. Counted(word)' = Counted(word) + One(x, some)
  BY <1>1, PushBackCounted DEF One
<1>8. QED
  BY <1>2, <1>3, <1>4, <1>5, <1>6, <1>7, OneIs, ConservedNext

LEMMA SortWords ==
  ASSUME TypeOK, StoreInv, NEW r \in Reducers, Sort(r), NEW word \in Words
  PROVE  Counted(word)' = Counted(word)
<1>1. /\ store'[r] = store[r] \/ store'[r] \in Sorted(store[r])
      /\ \A s \in Reducers \ {r} : store'[s] = store[s]
  BY SortEffect
<1>2. CountIn(store'[r], word) = CountIn(store[r], word)
  <2>1. \A q \in Sorted(store[r]) : CountIn(q, word) = CountIn(store[r], word)
    BY StoreType, SortedFacts DEF StoreInv, GoodKeys
  <2>2. QED
    BY <1>1, <2>1
<1>3. UNCHANGED conf
  BY DEF Sort, Thread, job
<1>4. CASE conf.reduce_num = 0
  BY <1>3, <1>4 DEF Counted, Slot
<1>5. CASE conf.reduce_num # 0
  <2>1. PICK home : home = Hash[word] % conf.reduce_num
    OBVIOUS
  <2>2. Counted(word) = CountIn(store[home], word) /\ Counted(word)' = CountIn(store'[home], word)
    <3>1. home = Slot(word) /\ home = Slot(word)'
      BY <1>3, <1>5, <2>1 DEF Slot
    <3>2. CountIn(store[home], word)' = CountIn(store'[home], word)
      BY DEF CountIn
    <3>3. QED
      BY <1>3, <1>5, <3>1, <3>2 DEF Counted
  <2>3. home \in Reducers
    BY <1>5, <2>1, DealtTo
  <2>4. QED
    BY <1>1, <1>2, <2>2, <2>3
<1>6. QED
  BY <1>4, <1>5

LEMMA NextWordInv == TypeOK /\ StoreInv /\ WordInv /\ [Next]_vars => WordInv'
<1> SUFFICES ASSUME TypeOK, StoreInv, WordInv, [Next]_vars, NEW word \in Words
             PROVE  Conserved(word, Alike(word))'
  BY DEF WordInv
<1> PICK some : some = Alike(word)
  OBVIOUS
<1>1. /\ Conserved(word, some) /\ DOMAIN toChild = Workers /\ DOMAIN fromChild = Workers
      /\ NotAlpha \notin some
  BY WordsAssumption DEF WordInv, TypeOK, Alike
<1>0. SUFFICES Conserved(word, some)'
  <2>1. Alike(word)' = some
    BY ConfKept DEF Alike, KeyOf, Slot
  <2>2. QED
    BY <2>1
<1>2. CASE MainStep \/ MainFails
  BY <1>1, <1>2, MainWords
<1>3. ASSUME NEW m \in Mappers, FeedLine(m) \/ FeedEnd(m) PROVE Conserved(word, some)'
  BY <1>1, <1>3, FeedWords
<1>4. ASSUME NEW m \in Mappers, MapWord(m) PROVE Conserved(word, some)'
  BY <1>1, <1>4, MapWordWords
<1>5. ASSUME NEW m \in Mappers, PushBack(m) PROVE Conserved(word, some)'
  BY <1>1, <1>5, PushBackWords
<1>6. ASSUME NEW r \in Reducers, Sort(r) PROVE Conserved(word, some)'
  <2>1. UNCHANGED << input, round, ring, toChild, fromChild >>
    BY <1>6 DEF Sort, Thread, job, mainVars
  <2>2. Counted(word)' = Counted(word)
    BY <1>6, SortWords
  <2>3. /\ InFile(some)' = InFile(some) /\ InRing(some)' = InRing(some)
        /\ InTo(some)' = InTo(some) /\ InFrom(some)' = InFrom(some)
    BY <2>1, WordsKept
  <2>4. Occurrences(some)' = Occurrences(some)
    BY <2>1 DEF Occurrences, Places
  <2>5. QED
    BY <1>1, <2>2, <2>3, <2>4 DEF Conserved
<1>7. CASE UNCHANGED vars \/ Poll \/ Terminated
  <2>1. UNCHANGED << conf, input, round, ring, store, toChild, fromChild >>
    BY <1>7 DEF Poll, Terminated, vars, job, mainVars, shuffle
  <2>2. QED
    BY <1>1, <2>1, WordsStay
<1>8. ASSUME NEW w \in Workers,
             RunStep(w) \/ ChildStep(w) \/ ReceiverStep(w)
             \/ GiveUp(w) \/ ChildDies(w) \/ UseDeleted(w),
             ~ \E m \in Mappers : FeedLine(m) \/ FeedEnd(m) \/ MapWord(m) \/ PushBack(m),
             ~ \E r \in Reducers : Sort(r)
      PROVE  Conserved(word, some)'
  <2>1. UNCHANGED << conf, input, round, ring, store >>
    <3>1. UNCHANGED << conf, input >>
      BY ConfKept
    <3>2. UNCHANGED store
      BY <1>8, StoreKept
    <3>3. UNCHANGED << round, ring >>
      BY <1>8, WorkerKinds DEF RunStep, GiveUp, UseDeleted, WriteKills, Fork, JoinReceiver, FeedTask,
         NoMoreTasks, ReadNoKey, Crash, Thread, mainVars, ChildDies, ChildStep, MapChildEnds, ReduceLine,
         ReduceChildEnds, Child, ReceiverStep, DivideByReduceNum, MapReceiverEnds, AppendLine, DropLine,
         ReduceReceiverEnds, Receiver
    <3>4. QED
      BY <3>1, <3>2, <3>3
  <2>2. /\ \A m \in Mappers : UNCHANGED toChild[<< "map", m >>]
        /\ \A m \in Mappers : UNCHANGED fromChild[<< "map", m >>]
    BY <1>1, <1>8, WorkerKinds, WorkerIs DEF RunStep, GiveUp, UseDeleted, WriteKills, Fork, JoinReceiver,
       FeedTask, NoMoreTasks, ReadNoKey, Crash, ChildDies, ChildStep, MapChildEnds, ReduceLine,
       ReduceChildEnds, ReceiverStep, DivideByReduceNum, MapReceiverEnds, AppendLine, DropLine,
       ReduceReceiverEnds, Receiver
  <2>3. QED
    BY <1>1, <2>1, <2>2, WordsStay
<1>9. QED
  BY <1>2, <1>3, <1>4, <1>5, <1>6, <1>7, <1>8 DEF Next

-----------------------------------------------------------------------------
(* A reducer, from the pairs it is given to its part file *)

(* The places of a word in a queue of words                                *)
LEMMA WhereType ==
  ASSUME NEW s \in Seq(Words), NEW x
  PROVE  /\ IsFiniteSet(Where(s, x)) /\ Cardinality(Where(s, x)) \in Nat
         /\ Cardinality(Where(s, x)) > 0 => \E i \in DOMAIN s : s[i] = x
         /\ (\E i \in DOMAIN s : s[i] = x) => Cardinality(Where(s, x)) > 0
<1>1. DOMAIN s = 1 .. Len(s) /\ Len(s) \in Nat
  BY Elements
<1>2. IsFiniteSet(1 .. Len(s))
  BY <1>1, FS_Interval
<1>3. IsFiniteSet(Where(s, x))
  BY <1>1, <1>2, FS_Subset DEF Where
<1>4. Cardinality(Where(s, x)) \in Nat /\ (Cardinality(Where(s, x)) = 0 <=> Where(s, x) = {})
  BY <1>3, FS_CardinalityType, FS_EmptySet
<1>5. QED
  BY <1>3, <1>4 DEF Where

LEMMA WhereAppend ==
  ASSUME NEW s \in Seq(Words), NEW y \in Words, NEW x
  PROVE  Cardinality(Where(Append(s, y), x)) = Cardinality(Where(s, x)) + IF y = x THEN 1 ELSE 0
<1>1. /\ DOMAIN s = 1 .. Len(s) /\ Len(s) \in Nat /\ DOMAIN Append(s, y) = 1 .. Len(s) + 1
      /\ \A i \in 1 .. Len(s) : Append(s, y)[i] = s[i]
      /\ Append(s, y)[Len(s) + 1] = y
  OBVIOUS
<1>2. CASE y = x
  <2>1. Where(Append(s, y), x) = Where(s, x) \cup {Len(s) + 1} /\ Len(s) + 1 \notin Where(s, x)
    BY <1>1, <1>2 DEF Where
  <2>2. QED
    BY <1>2, <2>1, WhereType, FS_AddElement
<1>3. CASE y # x
  <2>1. Where(Append(s, y), x) = Where(s, x)
    BY <1>1, <1>3 DEF Where
  <2>2. QED
    BY <1>3, <2>1, WhereType
<1>4. QED
  BY <1>2, <1>3

LEMMA WhereTail ==
  ASSUME NEW s \in Seq(Words), s # << >>, NEW x
  PROVE  Cardinality(Where(s, x)) = Cardinality(Where(Tail(s), x)) + IF Head(s) = x THEN 1 ELSE 0
<1>1. PICK n \in Nat : n = Len(s) - 1 /\ n + 1 = Len(s)
  <2>1. Len(s) - 1 \in Nat /\ Len(s) - 1 + 1 = Len(s)
    OBVIOUS
  <2>2. QED
    BY <2>1
<1>2. /\ DOMAIN s = 1 .. n + 1 /\ DOMAIN Tail(s) = 1 .. n /\ Head(s) = s[1]
      /\ \A i \in 1 .. n : Tail(s)[i] = s[i + 1]
  BY <1>1
<1>3. PICK t : t = Tail(s)
  OBVIOUS
<1> DEFINE A == Where(s, x) \ {1}
           f == [i \in A |-> i - 1]
<1>4. f \in [A -> Where(t, x)]
  <2>1. ASSUME NEW i \in A PROVE i - 1 \in Where(t, x)
    <3>1. i \in 1 .. n + 1 /\ i # 1 /\ s[i] = x
      BY <1>2 DEF Where
    <3>2. i - 1 \in 1 .. n /\ i - 1 + 1 = i
      BY <3>1
    <3>3. QED
      BY <1>2, <1>3, <3>1, <3>2 DEF Where
  <2>2. QED
    BY <2>1
<1>5. \A i, j \in A : f[i] = f[j] => i = j
  <2>1. \A i \in A : i \in Nat
    BY <1>2 DEF Where
  <2>2. QED
    BY <2>1
<1>6. \A k \in Where(t, x) : \E i \in A : f[i] = k
  <2>1. ASSUME NEW k \in Where(t, x) PROVE \E i \in A : f[i] = k
    <3>1. k + 1 \in A /\ k + 1 - 1 = k /\ k \in Nat
      BY <1>2, <1>3 DEF Where
    <3>2. f[k + 1] = k
      BY <3>1
    <3>3. QED
      BY <3>1, <3>2
  <2>2. QED
    BY <2>1
<1>7. IsFiniteSet(Where(s, x)) /\ Cardinality(Where(s, x)) \in Nat
  BY WhereType
<1>8. IsFiniteSet(A) /\ Cardinality(A) = Cardinality(Where(s, x)) - IF 1 \in Where(s, x) THEN 1 ELSE 0
  BY <1>7, FS_RemoveElement
<1>9. Cardinality(Where(t, x)) = Cardinality(A)
  <2> HIDE DEF A, f
  <2>1. QED
    BY <1>4, <1>5, <1>6, <1>8, SameSize
<1>10. 1 \in Where(s, x) <=> Head(s) = x
  BY <1>2 DEF Where
<1>11. QED
  BY <1>3, <1>7, <1>8, <1>9, <1>10

(* At the beginning nothing is given out.                                  *)
LEMMA FeedFresh ==
  ASSUME NEW keys \in Seq(Key)
  PROVE  Feeding(keys, 1, 1, << >>, NoWord, 0)
<1>1. keys # << >> => 1 <= Len(keys) /\ 1 <= keys[1].count + 1
  <2>1. ASSUME keys # << >> PROVE 1 \in DOMAIN keys /\ 1 <= Len(keys)
    BY <2>1
  <2>2. QED
    BY <2>1, KeyFacts
<1>2. ASSUME NEW k \in DOMAIN keys
      PROVE  Fed(keys, 1, 1, k)
             = Eaten(keys, NoWord, 0, k) + Cardinality(Where(<< >>, keys[k].word))
  <2>1. k \in Nat /\ k >= 1
    BY KeyFacts
  <2>2. Fed(keys, 1, 1, k) = 0 /\ Eaten(keys, NoWord, 0, k) = 0
    BY <2>1 DEF Fed, Eaten, NoWord
  <2>3. Cardinality(Where(<< >>, keys[k].word)) = 0
    BY FS_EmptySet DEF Where
  <2>4. QED
    BY <2>2, <2>3
<1>3. QED
  BY <1>1, <1>2 DEF Feeding, NoWord

LEMMA OutputFresh ==
  ASSUME NEW keys \in Seq(Key), NEW old \in Seq(Results)
  PROVE  Output(old, keys, old, << >>, 0, << >>)
BY DEF Output

(* What the counts of a Feeding are                                        *)
LEMMA EatenType ==
  ASSUME NEW keys \in Seq(Key), NEW a \in Results \cup {NoWord}, NEW n \in Nat,
         NEW k \in DOMAIN keys
  PROVE  Eaten(keys, a, n, k) \in Nat
<1>1. a.count \in Nat /\ keys[k].count \in Nat
  BY KeyFacts DEF Results, NoWord
<1>2. QED
  BY <1>1 DEF Eaten

LEMMA FedType ==
  ASSUME NEW keys \in Seq(Key), NEW kp \in Nat, NEW vp \in Nat, kp >= 1, vp >= 1,
         keys # << >> => kp <= Len(keys) /\ vp <= keys[kp].count + 1, NEW k \in DOMAIN keys
  PROVE  /\ Fed(keys, kp, vp, k) \in Nat /\ Fed(keys, kp, vp, k) <= keys[k].count
         /\ Fed(keys, kp, vp, k) > 0 => k <= kp
<1>1. keys[k].count \in Nat /\ k \in Nat /\ keys # << >>
  BY KeyFacts
<1>2. QED
  BY <1>1 DEF Fed

(* get_reduce_task_r() gives out one pair.                                 *)
LEMMA FeedStep ==
  ASSUME NEW keys \in Seq(Key), Distinct(keys), NEW queue \in Seq(Words),
         NEW kp, NEW vp, NEW n \in Nat,
         NEW a \in Results \cup {NoWord}, Feeding(keys, kp, vp, queue, a, n), keys # << >>,
         NEW k, NEW v,
         IF vp <= keys[kp].count THEN k = kp /\ v = vp ELSE k = kp + 1 /\ v = 1,
         k <= Len(keys)
  PROVE  Feeding(keys, k, v + 1, Append(queue, keys[k].word), a, n)
<1>1. /\ kp \in Nat /\ vp \in Nat /\ kp >= 1 /\ vp >= 1 /\ kp <= Len(keys)
      /\ vp <= keys[kp].count + 1
      /\ \A j \in DOMAIN keys : Fed(keys, kp, vp, j)
           = Eaten(keys, a, n, j) + Cardinality(Where(queue, keys[j].word))
      /\ \A i \in DOMAIN queue : \E j \in DOMAIN keys : queue[i] = keys[j].word
      /\ \A i, j \in DOMAIN queue : \A l, m \in DOMAIN keys :
           i < j /\ queue[i] = keys[l].word /\ queue[j] = keys[m].word => l <= m
      /\ IF a.word = 0 THEN a.count = 0 /\ n = 0
         ELSE a.count >= 1 /\ (n < Len(keys) => a.word = keys[n + 1].word)
  BY DEF Feeding
<1>2. DOMAIN keys = 1 .. Len(keys) /\ Len(keys) \in Nat
  OBVIOUS
<1>3. kp \in DOMAIN keys /\ keys[kp].count \in Nat
  BY <1>1, <1>2, KeyFacts
<1>4. k \in DOMAIN keys /\ k \in Nat /\ v \in Nat /\ v >= 1 /\ kp <= k
  BY <1>1, <1>2
<1>5. keys[k].count \in Nat /\ keys[k].count >= 1 /\ keys[k].word \in Words
  BY <1>4, KeyFacts
<1>6. v + 1 <= keys[k].count + 1
  BY <1>1, <1>3, <1>4, <1>5
<1>7. ASSUME NEW j \in DOMAIN keys
      PROVE  Fed(keys, k, v + 1, j) = Fed(keys, kp, vp, j) + IF j = k THEN 1 ELSE 0
  <2>1. j \in Nat /\ keys[j].count \in Nat
    BY KeyFacts
  <2>2. CASE vp <= keys[kp].count
    BY <1>1, <2>1, <2>2 DEF Fed
  <2>3. CASE ~ (vp <= keys[kp].count)
    <3>1. k = kp + 1 /\ v = 1 /\ vp - 1 = keys[kp].count
      BY <1>1, <1>3, <2>3
    <3>2. QED
      BY <1>1, <2>1, <3>1 DEF Fed
  <2>4. QED
    BY <2>2, <2>3
<1>8. ASSUME NEW j \in DOMAIN keys
      PROVE  Cardinality(Where(Append(queue, keys[k].word), keys[j].word))
             = Cardinality(Where(queue, keys[j].word)) + IF j = k THEN 1 ELSE 0
  <2>1. keys[k].word = keys[j].word <=> j = k
    BY <1>4 DEF Distinct
  <2>2. QED
    BY <1>5, <2>1, WhereAppend
<1>9. \A j \in DOMAIN keys : Fed(keys, k, v + 1, j)
        = Eaten(keys, a, n, j) + Cardinality(Where(Append(queue, keys[k].word), keys[j].word))
  <2>1. ASSUME NEW j \in DOMAIN keys
        PROVE  Fed(keys, k, v + 1, j)
               = Eaten(keys, a, n, j) + Cardinality(Where(Append(queue, keys[k].word), keys[j].word))
    <3>1. Eaten(keys, a, n, j) \in Nat /\ Cardinality(Where(queue, keys[j].word)) \in Nat
      BY EatenType, WhereType
    <3>2. QED
      BY <1>1, <1>7, <1>8, <3>1
  <2>2. QED
    BY <2>1
<1>10. PICK len \in Nat : len = Len(queue)
  OBVIOUS
<1>11. PICK q \in Seq(Words) : q = Append(queue, keys[k].word)
  <2>1. Append(queue, keys[k].word) \in Seq(Words)
    BY <1>5
  <2>2. QED
    BY <2>1
<1>12. /\ DOMAIN queue = 1 .. len /\ DOMAIN q = 1 .. len + 1
       /\ \A i \in 1 .. len : q[i] = queue[i]
       /\ q[len + 1] = keys[k].word
  BY <1>5, <1>10, <1>11
<1>13. \A i \in DOMAIN q : \E j \in DOMAIN keys : q[i] = keys[j].word
  <2>1. ASSUME NEW i \in DOMAIN q PROVE \E j \in DOMAIN keys : q[i] = keys[j].word
    <3>1. CASE i = len + 1
      BY <1>4, <1>12, <3>1
    <3>2. CASE i # len + 1
      <4>1. i \in 1 .. len
        BY <1>12, <3>2
      <4>2. QED
        BY <1>1, <1>12, <4>1
    <3>3. QED
      BY <3>1, <3>2
  <2>2. QED
    BY <2>1
<1>14. ASSUME NEW i \in DOMAIN q, NEW j \in DOMAIN q, NEW l \in DOMAIN keys, NEW m \in DOMAIN keys,
              i < j, q[i] = keys[l].word, q[j] = keys[m].word
       PROVE  l <= m
  <2>1. i \in 1 .. len
    BY <1>12, <1>14
  <2>2. CASE j = len + 1
    <3>1. m = k
      BY <1>4, <1>12, <1>14, <2>2 DEF Distinct
    <3>2. queue[i] = keys[l].word /\ i \in DOMAIN queue
      BY <1>12, <1>14, <2>1
    <3>3. Cardinality(Where(queue, keys[l].word)) > 0
      BY <3>2, WhereType
    <3>4. Fed(keys, kp, vp, l) > 0
      <4>1. Eaten(keys, a, n, l) \in Nat /\ Cardinality(Where(queue, keys[l].word)) \in Nat
        BY EatenType, WhereType
      <4>2. QED
        BY <1>1, <3>3, <4>1
    <3>5. l <= kp /\ l \in Nat
      BY <1>1, <1>2, <3>4, FedType
    <3>6. QED
      BY <1>1, <1>4, <3>1, <3>5
  <2>3. CASE j # len + 1
    <3>1. j \in 1 .. len
      BY <1>12, <2>3
    <3>2. QED
      BY <1>1, <1>12, <1>14, <2>1, <3>1
  <2>4. QED
    BY <2>2, <2>3
<1>15. QED
  <2>1. /\ k >= 1 /\ v + 1 \in Nat /\ v + 1 >= 1
    BY <1>1, <1>4
  <2>2. QED
    BY <1>1, <1>4, <1>6, <1>9, <1>11, <1>13, <1>14, <2>1 DEF Feeding

(* reducer.py reads one pair, and prints the pair before when the word is  *)
(* another one.                                                            *)
LEMMA ReadStep ==
  ASSUME NEW keys \in Seq(Key), Distinct(keys), NEW queue \in Seq(Words), queue # << >>,
         NEW kp, NEW vp, NEW n \in Nat, NEW a \in Results \cup {NoWord},
         Feeding(keys, kp, vp, queue, a, n), NEW new, new \in BOOLEAN,
         new <=> a.word # 0 /\ Head(queue) # a.word
  PROVE  LET b == [word |-> Head(queue), count |-> IF new THEN 1 ELSE a.count + 1]
             l == IF new THEN n + 1 ELSE n
         IN  /\ Feeding(keys, kp, vp, Tail(queue), b, l) /\ l < Len(keys)
             /\ new => a = keys[n + 1]
<1> DEFINE b == [word |-> Head(queue), count |-> IF new THEN 1 ELSE a.count + 1]
           l == IF new THEN n + 1 ELSE n
<1>1. /\ kp \in Nat /\ vp \in Nat /\ kp >= 1 /\ vp >= 1
      /\ keys = << >> => kp = 1 /\ vp = 1
      /\ keys # << >> => kp <= Len(keys) /\ vp <= keys[kp].count + 1
      /\ \A j \in DOMAIN keys : Fed(keys, kp, vp, j)
           = Eaten(keys, a, n, j) + Cardinality(Where(queue, keys[j].word))
      /\ \A i \in DOMAIN queue : \E j \in DOMAIN keys : queue[i] = keys[j].word
      /\ \A i, j \in DOMAIN queue : \A k, m \in DOMAIN keys :
           i < j /\ queue[i] = keys[k].word /\ queue[j] = keys[m].word => k <= m
      /\ IF a.word = 0 THEN a.count = 0 /\ n = 0
         ELSE a.count >= 1 /\ (n < Len(keys) => a.word = keys[n + 1].word)
  BY DEF Feeding
<1>2. DOMAIN keys = 1 .. Len(keys) /\ Len(keys) \in Nat
  OBVIOUS
<1>3. PICK len \in Nat : len = Len(queue) - 1 /\ len + 1 = Len(queue)
  <2>1. Len(queue) - 1 \in Nat /\ Len(queue) - 1 + 1 = Len(queue)
    OBVIOUS
  <2>2. QED
    BY <2>1
<1>4. PICK tail \in Seq(Words) : tail = Tail(queue)
  <2>1. Tail(queue) \in Seq(Words)
    OBVIOUS
  <2>2. QED
    BY <2>1
<1>5. /\ DOMAIN queue = 1 .. len + 1 /\ DOMAIN tail = 1 .. len
      /\ Head(queue) = queue[1] /\ Head(queue) \in Words
      /\ \A i \in 1 .. len : tail[i] = queue[i + 1]
  BY <1>3, <1>4
<1>6. PICK h \in DOMAIN keys : Head(queue) = keys[h].word
  <2>1. 1 \in DOMAIN queue
    BY <1>5
  <2>2. QED
    BY <1>1, <1>5, <2>1
<1>7. ASSUME NEW j \in DOMAIN keys, j < h
      PROVE  Eaten(keys, a, n, j) = keys[j].count /\ keys[j].count \in Nat \ {0}
  <2>1. Fed(keys, kp, vp, h) > 0
    <3>1. Cardinality(Where(queue, keys[h].word)) > 0
      <4>1. 1 \in DOMAIN queue /\ queue[1] = keys[h].word
        BY <1>5, <1>6
      <4>2. QED
        BY <4>1, WhereType
    <3>2. Eaten(keys, a, n, h) \in Nat /\ Cardinality(Where(queue, keys[h].word)) \in Nat
      BY EatenType, WhereType
    <3>3. QED
      BY <1>1, <3>1, <3>2
  <2>2. h <= kp
    BY <1>1, <2>1, FedType
  <2>3. j \in Nat /\ h \in Nat /\ keys[j].count \in Nat \ {0}
    BY <1>2, KeyFacts
  <2>4. Fed(keys, kp, vp, j) = keys[j].count
    BY <1>1, <1>7, <2>2, <2>3 DEF Fed
  <2>5. Cardinality(Where(queue, keys[j].word)) = 0
    <3>1. ASSUME NEW i \in DOMAIN queue, queue[i] = keys[j].word PROVE FALSE
      <4>1. CASE i = 1
        BY <1>5, <1>6, <1>7, <2>3, <3>1, <4>1 DEF Distinct
      <4>2. CASE i # 1
        <5>1. 1 < i /\ 1 \in DOMAIN queue /\ queue[1] = keys[h].word
          BY <1>5, <1>6, <4>2
        <5>2. h <= j
          BY <1>1, <3>1, <5>1
        <5>3. QED
          BY <1>7, <2>3, <5>2
      <4>3. QED
        BY <4>1, <4>2
    <3>2. Cardinality(Where(queue, keys[j].word)) \in Nat
      BY WhereType
    <3>3. QED
      BY <3>1, <3>2, WhereType
  <2>6. Eaten(keys, a, n, j) \in Nat
    BY EatenType
  <2>7. QED
    BY <1>1, <2>3, <2>4, <2>5, <2>6
<1>8. n < h
  <2>1. ASSUME h <= n PROVE FALSE
    <3>1. h \in Nat /\ keys[h].count \in Nat
      BY <1>2, KeyFacts
    <3>2. Eaten(keys, a, n, h) = keys[h].count
      BY <2>1 DEF Eaten
    <3>3. Fed(keys, kp, vp, h) <= keys[h].count /\ Fed(keys, kp, vp, h) \in Nat
      BY <1>1, FedType
    <3>4. Cardinality(Where(queue, keys[h].word)) \in Nat /\ Cardinality(Where(queue, keys[h].word)) > 0
      <4>1. 1 \in DOMAIN queue /\ queue[1] = keys[h].word
        BY <1>5, <1>6
      <4>2. QED
        BY <4>1, WhereType
    <3>5. QED
      BY <1>1, <3>1, <3>2, <3>3, <3>4
  <2>2. h \in Nat
    BY <1>2
  <2>3. QED
    BY <2>1, <2>2
<1>9. h \in Nat /\ h <= Len(keys) /\ n < Len(keys) /\ n + 1 \in DOMAIN keys
  BY <1>2, <1>8
<1>10. a.count \in Nat
  BY DEF Results, NoWord
<1>11. h = l + 1
  <2>1. CASE a.word = 0
    <3>1. ~ new /\ n = 0 /\ a.count = 0
      BY <1>1, <2>1
    <3>2. ASSUME h # 1 PROVE FALSE
      <4>1. 1 \in DOMAIN keys /\ 1 < h
        BY <1>2, <1>9, <3>2
      <4>2. Eaten(keys, a, n, 1) = 0
        BY <3>1 DEF Eaten
      <4>3. QED
        BY <1>7, <4>1, <4>2
    <3>3. QED
      BY <3>1, <3>2
  <2>2. CASE a.word # 0 /\ ~ new
    <3>1. keys[h].word = keys[n + 1].word
      BY <1>1, <1>6, <1>9, <2>2
    <3>2. QED
      BY <1>9, <2>2, <3>1 DEF Distinct
  <2>3. CASE new
    <3>1. a.word # 0 /\ keys[h].word # keys[n + 1].word
      BY <1>1, <1>6, <1>9, <2>3
    <3>2. h # n + 1
      BY <3>1
    <3>3. ASSUME h > n + 2 PROVE FALSE
      <4>1. n + 2 \in DOMAIN keys /\ n + 2 < h
        BY <1>2, <1>9, <3>3
      <4>2. Eaten(keys, a, n, n + 2) = 0
        BY DEF Eaten
      <4>3. QED
        BY <1>7, <4>1, <4>2
    <3>4. QED
      BY <1>8, <1>9, <2>3, <3>2, <3>3
  <2>4. QED
    BY <2>1, <2>2, <2>3
<1>12. ASSUME new PROVE a = keys[n + 1] /\ a.count = keys[n + 1].count
  <2>1. n + 1 < h
    BY <1>9, <1>11, <1>12
  <2>2. Eaten(keys, a, n, n + 1) = keys[n + 1].count
    BY <1>7, <1>9, <2>1
  <2>3. a.count = keys[n + 1].count
    BY <2>2 DEF Eaten
  <2>4. a.word = keys[n + 1].word /\ a.word # 0
    BY <1>1, <1>9, <1>12
  <2>5. a \in Results /\ keys[n + 1] \in Results
    BY <1>9, <2>4, KeyFacts DEF NoWord
  <2>6. QED
    BY <2>3, <2>4, <2>5 DEF Results
<1>13. b.word = keys[h].word /\ b.word # 0 /\ b.count \in Nat \ {0}
  BY <1>5, <1>6, <1>10, WordsAssumption
<1>14. ASSUME NEW j \in DOMAIN keys
       PROVE  Eaten(keys, b, l, j) = Eaten(keys, a, n, j) + IF j = h THEN 1 ELSE 0
  <2>1. j \in Nat /\ keys[j].count \in Nat
    BY KeyFacts
  <2>2. CASE new
    <3>1. h = n + 2 /\ l = n + 1 /\ b.count = 1 /\ a.count = keys[n + 1].count
      BY <1>9, <1>11, <1>12, <2>2
    <3>2. QED
      BY <2>1, <3>1 DEF Eaten
  <2>3. CASE ~ new
    <3>1. h = n + 1 /\ l = n /\ b.count = a.count + 1
      BY <1>9, <1>11, <2>3
    <3>2. QED
      BY <1>10, <2>1, <3>1 DEF Eaten
  <2>4. QED
    BY <2>2, <2>3
<1>15. ASSUME NEW j \in DOMAIN keys
       PROVE  Cardinality(Where(queue, keys[j].word))
              = Cardinality(Where(tail, keys[j].word)) + IF j = h THEN 1 ELSE 0
  <2>1. Head(queue) = keys[j].word <=> j = h
    BY <1>6 DEF Distinct
  <2>2. QED
    BY <1>4, <2>1, WhereTail
<1>16. ASSUME NEW j \in DOMAIN keys
       PROVE  Fed(keys, kp, vp, j)
              = Eaten(keys, b, l, j) + Cardinality(Where(tail, keys[j].word))
  <2>1. Eaten(keys, a, n, j) \in Nat /\ Cardinality(Where(tail, keys[j].word)) \in Nat
    BY EatenType, WhereType
  <2>2. QED
    BY <1>1, <1>14, <1>15, <2>1
<1>17. ASSUME NEW i \in DOMAIN tail PROVE \E j \in DOMAIN keys : tail[i] = keys[j].word
  <2>1. i + 1 \in DOMAIN queue /\ tail[i] = queue[i + 1]
    BY <1>5
  <2>2. QED
    BY <1>1, <2>1
<1>18. ASSUME NEW i \in DOMAIN tail, NEW j \in DOMAIN tail,
              NEW k \in DOMAIN keys, NEW m \in DOMAIN keys,
              i < j, tail[i] = keys[k].word, tail[j] = keys[m].word
       PROVE  k <= m
  <2>1. /\ i + 1 \in DOMAIN queue /\ tail[i] = queue[i + 1]
        /\ j + 1 \in DOMAIN queue /\ tail[j] = queue[j + 1] /\ i + 1 < j + 1
    BY <1>5, <1>18
  <2>2. QED
    BY <1>1, <1>18, <2>1
<1>19. l \in Nat /\ l < Len(keys) /\ b.word = keys[l + 1].word /\ b.count >= 1
  BY <1>9, <1>11, <1>13
<1> HIDE DEF b, l
<1>20. Feeding(keys, kp, vp, tail, b, l)
  BY <1>1, <1>13, <1>16, <1>17, <1>18, <1>19 DEF Feeding
<1>21. QED
  BY <1>4, <1>12, <1>19, <1>20 DEF b, l

(* "dump last one": when all pairs were given out and read, the pair that  *)
(* reducer.py is at is the last key with all its values.                   *)
LEMMA EndStep ==
  ASSUME NEW keys \in Seq(Key), keys # << >>, NEW kp, NEW vp, NEW n \in Nat,
         NEW a \in Results \cup {NoWord}, Feeding(keys, kp, vp, << >>, a, n),
         (IF vp <= keys[kp].count THEN kp ELSE kp + 1) > Len(keys),
         a.word # 0 => n < Len(keys)
  PROVE  /\ a = keys[n + 1] /\ a.count > 0 /\ n + 1 = Len(keys)
         /\ Feeding(keys, kp, vp, << >>, a, n + 1)
<1>1. /\ kp \in Nat /\ vp \in Nat /\ kp >= 1 /\ vp >= 1 /\ kp <= Len(keys)
      /\ vp <= keys[kp].count + 1
      /\ \A j \in DOMAIN keys : Fed(keys, kp, vp, j)
           = Eaten(keys, a, n, j) + Cardinality(Where(<< >>, keys[j].word))
      /\ IF a.word = 0 THEN a.count = 0 /\ n = 0
         ELSE a.count >= 1 /\ (n < Len(keys) => a.word = keys[n + 1].word)
  BY DEF Feeding
<1>2. DOMAIN keys = 1 .. Len(keys) /\ Len(keys) \in Nat \ {0}
  OBVIOUS
<1>3. kp \in DOMAIN keys /\ keys[kp].count \in Nat
  BY <1>1, <1>2, KeyFacts
<1>4. kp = Len(keys) /\ vp - 1 = keys[kp].count
  <2>1. ~ (vp <= keys[kp].count) /\ kp + 1 > Len(keys)
    BY <1>1, <1>2
  <2>2. /\ kp \in Nat /\ vp \in Nat /\ kp <= Len(keys) /\ vp <= keys[kp].count + 1
    BY <1>1
  <2>3. Len(keys) \in Nat /\ keys[kp].count \in Nat
    BY <1>2, <1>3
  <2>4. kp = Len(keys)
    BY <2>1, <2>2, <2>3
  <2>5. vp - 1 = keys[kp].count
    BY <2>1, <2>2, <2>3
  <2>6. QED
    BY <2>4, <2>5
<1>5. a.count \in Nat
  BY DEF Results, NoWord
<1>6. ASSUME NEW j \in DOMAIN keys
      PROVE  /\ Eaten(keys, a, n, j) = keys[j].count /\ keys[j].count \in Nat \ {0}
             /\ Fed(keys, kp, vp, j) = keys[j].count
  <2>1. j \in Nat /\ j <= kp /\ keys[j].count \in Nat \ {0}
    BY <1>2, <1>4, KeyFacts
  <2>2. Fed(keys, kp, vp, j) = keys[j].count
    BY <1>4, <2>1 DEF Fed
  <2>3. Cardinality(Where(<< >>, keys[j].word)) = 0
    BY FS_EmptySet DEF Where
  <2>4. Eaten(keys, a, n, j) \in Nat
    BY EatenType
  <2>5. QED
    BY <1>1, <2>1, <2>2, <2>3, <2>4
<1>7. a.word # 0
  <2>1. ASSUME a.word = 0 PROVE FALSE
    <3>1. n = 0 /\ a.count = 0
      BY <1>1, <2>1
    <3>2. Eaten(keys, a, n, 1) = 0
      BY <3>1 DEF Eaten
    <3>3. QED
      BY <1>2, <1>6, <3>2
  <2>2. QED
    BY <2>1
<1>8. n < Len(keys) /\ n + 1 \in DOMAIN keys
  BY <1>2, <1>7
<1>9. n + 1 = Len(keys)
  <2>1. ASSUME n + 1 # Len(keys) PROVE FALSE
    <3>1. n + 2 \in DOMAIN keys
      <4>1. n + 2 \in Nat /\ n + 2 <= Len(keys)
        <5>1. Len(keys) \in Nat /\ n < Len(keys)
          BY <1>2, <1>8
        <5>2. QED
          BY <2>1, <5>1
      <4>2. QED
        BY <1>2, <4>1
    <3>2. Eaten(keys, a, n, n + 2) = 0
      BY DEF Eaten
    <3>3. QED
      BY <1>6, <3>1, <3>2
  <2>2. QED
    BY <2>1
<1>10. a.count = keys[n + 1].count /\ a.word = keys[n + 1].word
  <2>1. Eaten(keys, a, n, n + 1) = a.count
    BY DEF Eaten
  <2>2. QED
    BY <1>1, <1>6, <1>7, <1>8, <2>1
<1>11. a = keys[n + 1]
  <2>1. a \in Results /\ keys[n + 1] \in Results
    BY <1>7, <1>8, KeyFacts DEF NoWord
  <2>2. QED
    BY <1>10, <2>1 DEF Results
<1>12. \A j \in DOMAIN keys : Fed(keys, kp, vp, j)
         = Eaten(keys, a, n + 1, j) + Cardinality(Where(<< >>, keys[j].word))
  <2>1. ASSUME NEW j \in DOMAIN keys
        PROVE  Fed(keys, kp, vp, j)
               = Eaten(keys, a, n + 1, j) + Cardinality(Where(<< >>, keys[j].word))
    <3>1. Eaten(keys, a, n + 1, j) = keys[j].count
      BY <1>2, <1>9 DEF Eaten
    <3>2. Cardinality(Where(<< >>, keys[j].word)) = 0
      BY FS_EmptySet DEF Where
    <3>3. QED
      BY <1>6, <3>1, <3>2
  <2>2. QED
    BY <2>1
<1>13. ~ (n + 1 < Len(keys)) /\ a.count >= 1
  BY <1>1, <1>7, <1>9
<1>14. Feeding(keys, kp, vp, << >>, a, n + 1)
  BY <1>1, <1>7, <1>12, <1>13 DEF Feeding
<1>15. a.count > 0
  BY <1>5, <1>13
<1>16. QED
  BY <1>9, <1>11, <1>14, <1>15

(* What reducer.py prints goes to the pipe, from there to the buffer and   *)
(* from there, last line first, to the file.                               *)
LEMMA OutputPrinted ==
  ASSUME NEW keys \in Seq(Key), NEW old \in Seq(Results), NEW file \in Seq(Results),
         NEW lines \in Seq(Results), NEW queue \in Seq(Results),
         NEW gone, Output(old, keys, file, lines, gone, queue),
         NEW n, n = Len(file) - Len(old) + Len(lines) + gone + Len(queue), n < Len(keys)
  PROVE  Output(old, keys, file, lines, gone, Append(queue, keys[n + 1]))
<1>1. PICK done \in Nat : done = Len(file) - Len(old)
  <2>1. Len(file) - Len(old) \in Nat
    BY DEF Output
  <2>2. QED
    BY <2>1
<1>2. /\ done >= 0 /\ gone \in Nat /\ done + Len(lines) + gone + Len(queue) <= Len(keys)
      /\ \A i \in DOMAIN lines : lines[i] = keys[done + i]
      /\ \A i \in DOMAIN queue : queue[i] = keys[done + Len(lines) + gone + i]
      /\ \A word \in Words :
           (\E i \in Len(old) + 1 .. Len(file) : file[i].word = word)
           <=> (\E k \in 1 .. done : keys[k].word = word)
  BY <1>1 DEF Output
<1>3. PICK x : x = keys[n + 1]
  OBVIOUS
<1>4. PICK len \in Nat : len = Len(queue)
  OBVIOUS
<1>5. n = done + Len(lines) + gone + len /\ Len(lines) \in Nat /\ Len(keys) \in Nat /\ n + 1 \in Nat
  BY <1>1, <1>2, <1>4
<1>6. x \in Results
  <2>1. n + 1 \in DOMAIN keys
    <3>1. n \in Nat
      BY <1>2, <1>5
    <3>2. QED
      BY <1>5, <3>1
  <2>2. QED
    BY <1>3, <2>1, KeyFacts
<1>7. PICK q : q = Append(queue, x)
  OBVIOUS
<1>8. /\ DOMAIN queue = 1 .. len /\ DOMAIN q = 1 .. len + 1 /\ Len(q) = len + 1
      /\ \A i \in 1 .. len : q[i] = queue[i]
      /\ q[len + 1] = x
  BY <1>4, <1>6, <1>7
<1>9. done + Len(lines) + gone + Len(q) <= Len(keys)
  BY <1>2, <1>5, <1>8
<1>10. \A i \in DOMAIN q : q[i] = keys[done + Len(lines) + gone + i]
  <2>1. ASSUME NEW i \in DOMAIN q PROVE q[i] = keys[done + Len(lines) + gone + i]
    <3>1. CASE i = len + 1
      <4>1. done + Len(lines) + gone + i = n + 1
        <5>1. PICK full \in Nat, g \in Nat : full = Len(lines) /\ g = gone
          BY <1>2, <1>5
        <5>2. n = done + full + g + len
          BY <1>5, <5>1
        <5>3. done + full + g + (len + 1) = (done + full + g + len) + 1
          OBVIOUS
        <5>4. done + full + g + i = n + 1
          BY <3>1, <5>2, <5>3, Zenon
        <5>5. QED
          BY <5>1, <5>4
      <4>2. QED
        BY <1>3, <1>8, <3>1, <4>1
    <3>2. CASE i # len + 1
      <4>1. i \in 1 .. len
        BY <1>8, <3>2
      <4>2. QED
        BY <1>2, <1>8, <4>1
    <3>3. QED
      BY <3>1, <3>2
  <2>2. QED
    BY <2>1
<1>11. Output(old, keys, file, lines, gone, q)
  BY <1>1, <1>2, <1>9, <1>10 DEF Output
<1>12. QED
  BY <1>3, <1>7, <1>11

LEMMA OutputAppended ==
  ASSUME NEW keys \in Seq(Key), NEW old \in Seq(Results), NEW file \in Seq(Results),
         NEW lines \in Seq(Results), NEW queue \in Seq(Results), queue # << >>,
         Output(old, keys, file, lines, 0, queue)
  PROVE  Output(old, keys, file, Append(lines, Head(queue)), 0, Tail(queue))
<1>1. PICK done \in Nat : done = Len(file) - Len(old)
  <2>1. Len(file) - Len(old) \in Nat
    BY DEF Output
  <2>2. QED
    BY <2>1
<1>2. /\ done >= 0 /\ done + Len(lines) + Len(queue) <= Len(keys)
      /\ \A i \in DOMAIN lines : lines[i] = keys[done + i]
      /\ \A i \in DOMAIN queue : queue[i] = keys[done + Len(lines) + i]
      /\ \A word \in Words :
           (\E i \in Len(old) + 1 .. Len(file) : file[i].word = word)
           <=> (\E k \in 1 .. done : keys[k].word = word)
  <2>1. /\ done >= 0 /\ done + Len(lines) + 0 + Len(queue) <= Len(keys)
        /\ \A i \in DOMAIN queue : queue[i] = keys[done + Len(lines) + 0 + i]
    BY <1>1 DEF Output
  <2>2. done + Len(lines) + 0 = done + Len(lines)
    OBVIOUS
  <2>3. QED
    BY <1>1, <2>1, <2>2 DEF Output
<1>3. PICK len \in Nat : len = Len(queue) - 1 /\ len + 1 = Len(queue)
  <2>1. Len(queue) - 1 \in Nat /\ Len(queue) - 1 + 1 = Len(queue)
    OBVIOUS
  <2>2. QED
    BY <2>1
<1>4. PICK full \in Nat : full = Len(lines)
  OBVIOUS
<1>5. PICK p, q : p = Append(lines, Head(queue)) /\ q = Tail(queue)
  OBVIOUS
<1>6. /\ DOMAIN queue = 1 .. len + 1 /\ DOMAIN q = 1 .. len /\ Len(q) = len
      /\ Head(queue) = queue[1] /\ Head(queue) \in Results
      /\ \A i \in 1 .. len : q[i] = queue[i + 1]
  BY <1>3, <1>5
<1>7. /\ DOMAIN lines = 1 .. full /\ DOMAIN p = 1 .. full + 1 /\ Len(p) = full + 1
      /\ \A i \in 1 .. full : p[i] = lines[i]
      /\ p[full + 1] = queue[1]
  BY <1>4, <1>5, <1>6
<1>8. done + Len(p) + Len(q) <= Len(keys)
  BY <1>2, <1>3, <1>4, <1>6, <1>7
<1>9. \A i \in DOMAIN p : p[i] = keys[done + i]
  <2>1. ASSUME NEW i \in DOMAIN p PROVE p[i] = keys[done + i]
    <3>1. CASE i = full + 1
      <4>1. queue[1] = keys[done + full + 1]
        <5>1. 1 \in DOMAIN queue
          BY <1>6
        <5>2. queue[1] = keys[done + Len(lines) + 1]
          BY <1>2, <5>1
        <5>3. QED
          BY <1>4, <5>2
      <4>2. done + full + 1 = done + i
        BY <3>1
      <4>3. QED
        BY <1>7, <3>1, <4>1, <4>2
    <3>2. CASE i # full + 1
      <4>1. i \in 1 .. full
        BY <1>7, <3>2
      <4>2. QED
        BY <1>2, <1>7, <4>1
    <3>3. QED
      BY <3>1, <3>2
  <2>2. QED
    BY <2>1
<1>10. \A i \in DOMAIN q : q[i] = keys[done + Len(p) + i]
  <2>1. ASSUME NEW i \in DOMAIN q PROVE q[i] = keys[done + Len(p) + i]
    <3>1. i + 1 \in DOMAIN queue /\ q[i] = queue[i + 1]
      BY <1>6
    <3>2. queue[i + 1] = keys[done + full + (i + 1)]
      BY <1>2, <1>4, <3>1
    <3>3. done + full + (i + 1) = done + Len(p) + i
      BY <1>6, <1>7
    <3>4. QED
      BY <3>1, <3>2, <3>3
  <2>2. QED
    BY <2>1
<1>11. Output(old, keys, file, p, 0, q)
  <2>1. done + Len(p) + 0 = done + Len(p) /\ 0 \in Nat
    BY <1>7
  <2>2. QED
    BY <1>1, <1>2, <1>8, <1>9, <1>10, <2>1 DEF Output
<1>12. QED
  BY <1>5, <1>11

LEMMA OutputDropped ==
  ASSUME NEW keys \in Seq(Key), NEW old \in Seq(Results), NEW file \in Seq(Results),
         NEW lines \in Seq(Results), NEW queue \in Seq(Results), queue # << >>,
         NEW gone, Output(old, keys, file, lines, gone, queue)
  PROVE  Output(old, keys, file, lines, gone + 1, Tail(queue))
<1>1. PICK done \in Nat : done = Len(file) - Len(old)
  <2>1. Len(file) - Len(old) \in Nat
    BY DEF Output
  <2>2. QED
    BY <2>1
<1>2. /\ gone \in Nat /\ done + Len(lines) + gone + Len(queue) <= Len(keys)
      /\ \A i \in DOMAIN lines : lines[i] = keys[done + i]
      /\ \A i \in DOMAIN queue : queue[i] = keys[done + Len(lines) + gone + i]
      /\ \A word \in Words :
           (\E i \in Len(old) + 1 .. Len(file) : file[i].word = word)
           <=> (\E k \in 1 .. done : keys[k].word = word)
  BY <1>1 DEF Output
<1>3. PICK len \in Nat : len = Len(queue) - 1 /\ len + 1 = Len(queue)
  <2>1. Len(queue) - 1 \in Nat /\ Len(queue) - 1 + 1 = Len(queue)
    OBVIOUS
  <2>2. QED
    BY <2>1
<1>4. PICK q : q = Tail(queue)
  OBVIOUS
<1>5. /\ DOMAIN queue = 1 .. len + 1 /\ DOMAIN q = 1 .. len /\ Len(q) = len
      /\ \A i \in 1 .. len : q[i] = queue[i + 1]
  BY <1>3, <1>4
<1>6. PICK full \in Nat : full = Len(lines)
  OBVIOUS
<1>7. done + Len(lines) + (gone + 1) + Len(q) <= Len(keys)
  BY <1>2, <1>3, <1>5, <1>6
<1>8. ASSUME NEW i \in DOMAIN q PROVE q[i] = keys[done + Len(lines) + (gone + 1) + i]
  <2>1. i + 1 \in DOMAIN queue /\ q[i] = queue[i + 1]
    BY <1>5
  <2>2. queue[i + 1] = keys[done + full + gone + (i + 1)]
    BY <1>2, <1>6, <2>1
  <2>3. done + full + gone + (i + 1) = done + full + (gone + 1) + i
    BY <1>2, <1>5
  <2>4. QED
    BY <1>6, <2>1, <2>2, <2>3
<1>9. Output(old, keys, file, lines, gone + 1, q)
  <2>1. gone + 1 \in Nat /\ done >= 0
    BY <1>2
  <2>2. QED
    BY <1>1, <1>2, <1>7, <1>8, <2>1 DEF Output
<1>10. QED
  BY <1>4, <1>9

LEMMA Concatenation ==
  ASSUME NEW S, NEW s \in Seq(S), NEW t \in Seq(S)
  PROVE  /\ Len(s \o t) = Len(s) + Len(t)
         /\ \A i \in 1 .. Len(s) : (s \o t)[i] = s[i]
         /\ \A i \in 1 .. Len(t) : (s \o t)[Len(s) + i] = t[i]
OBVIOUS

LEMMA OutputDumped ==
  ASSUME NEW keys \in Seq(Key), NEW old \in Seq(Results), NEW file \in Seq(Results),
         NEW lines \in Seq(Results), NEW queue \in Seq(Results), NEW gone,
         Output(old, keys, file, lines, gone, queue)
  PROVE  Output(old, keys, file \o Reverse(lines), << >>, gone, queue)
<1>1. PICK done \in Nat : done = Len(file) - Len(old)
  <2>1. Len(file) - Len(old) \in Nat
    BY DEF Output
  <2>2. QED
    BY <2>1
<1>2. /\ done >= 0 /\ gone \in Nat /\ done + Len(lines) + gone + Len(queue) <= Len(keys)
      /\ \A i \in DOMAIN lines : lines[i] = keys[done + i]
      /\ \A i \in DOMAIN queue : queue[i] = keys[done + Len(lines) + gone + i]
      /\ \A word \in Words :
           (\E i \in Len(old) + 1 .. Len(file) : file[i].word = word)
           <=> (\E k \in 1 .. done : keys[k].word = word)
  BY <1>1 DEF Output
<1>3. PICK full \in Nat, len \in Nat, size \in Nat :
        full = Len(lines) /\ len = Len(file) /\ size = Len(old)
  OBVIOUS
<1>4. PICK back \in Seq(Results) : back = Reverse(lines)
  <2>1. Reverse(lines) \in Seq(Results)
    BY ReverseType
  <2>2. QED
    BY <2>1
<1>5. /\ Len(back) = full /\ DOMAIN lines = 1 .. full
      /\ \A i \in 1 .. full : back[i] = lines[full - i + 1]
  BY <1>3, <1>4, ReverseType
<1>6. PICK new : new = file \o back
  OBVIOUS
<1>7. /\ Len(new) = len + full
      /\ \A i \in 1 .. len : new[i] = file[i]
      /\ \A i \in 1 .. full : new[len + i] = back[i]
  <2>1. /\ Len(file \o back) = Len(file) + Len(back)
        /\ \A i \in 1 .. Len(file) : (file \o back)[i] = file[i]
        /\ \A i \in 1 .. Len(back) : (file \o back)[Len(file) + i] = back[i]
    BY Concatenation
  <2>2. QED
    BY <1>3, <1>5, <1>6, <2>1
<1>8. len = size + done /\ Len(new) - Len(old) = done + full
  BY <1>1, <1>3, <1>7
<1>9. ASSUME NEW word \in Words
      PROVE  (\E i \in Len(old) + 1 .. Len(new) : new[i].word = word)
             <=> (\E k \in 1 .. done + full : keys[k].word = word)
  <2>1. ASSUME NEW i \in Len(old) + 1 .. Len(new), new[i].word = word
        PROVE  \E k \in 1 .. done + full : keys[k].word = word
    <3>1. i \in Nat /\ i >= size + 1 /\ i <= len + full
      BY <1>3, <1>7
    <3>2. CASE i <= len
      <4>1. i \in 1 .. len /\ i \in size + 1 .. len
        BY <3>1, <3>2
      <4>2. PICK k \in 1 .. done : keys[k].word = word
        BY <1>2, <1>3, <1>7, <2>1, <4>1
      <4>3. QED
        BY <4>2
    <3>3. CASE i > len
      <4>1. PICK j \in 1 .. full : i = len + j
        <5>1. i - len \in 1 .. full /\ i = len + (i - len)
          BY <3>1, <3>3
        <5>2. QED
          BY <5>1
      <4>2. full - j + 1 \in 1 .. full /\ done + (full - j + 1) \in 1 .. done + full
        OBVIOUS
      <4>3. new[i] = keys[done + (full - j + 1)]
        BY <1>2, <1>5, <1>7, <4>1, <4>2
      <4>4. QED
        BY <2>1, <4>2, <4>3
    <3>4. QED
      BY <3>1, <3>2, <3>3
  <2>2. ASSUME NEW k \in 1 .. done + full, keys[k].word = word
        PROVE  \E i \in Len(old) + 1 .. Len(new) : new[i].word = word
    <3>1. CASE k <= done
      <4>1. k \in 1 .. done
        BY <3>1
      <4>2. PICK i \in size + 1 .. len : file[i].word = word
        BY <1>2, <1>3, <2>2, <4>1
      <4>3. i \in 1 .. len /\ i \in size + 1 .. len + full
        OBVIOUS
      <4>4. QED
        BY <1>3, <1>7, <4>2, <4>3
    <3>2. CASE k > done
      <4>1. PICK j \in 1 .. full : j = full - (k - done) + 1 /\ full - j + 1 = k - done
        <5>1. /\ full - (k - done) + 1 \in 1 .. full
              /\ full - (full - (k - done) + 1) + 1 = k - done
          BY <3>2
        <5>2. QED
          BY <5>1
      <4>2. k - done \in 1 .. full /\ done + (k - done) = k
        BY <3>2
      <4>3. new[len + j] = keys[k]
        <5>1. new[len + j] = back[j] /\ back[j] = lines[full - j + 1]
          BY <1>5, <1>7
        <5>2. lines[full - j + 1] = lines[k - done]
          BY <4>1
        <5>3. lines[k - done] = keys[done + (k - done)]
          BY <1>2, <1>5, <4>2
        <5>4. QED
          BY <4>2, <5>1, <5>2, <5>3
      <4>4. len + j \in size + 1 .. len + full
        BY <1>8
      <4>5. QED
        BY <1>3, <1>7, <2>2, <4>3, <4>4
    <3>3. QED
      BY <3>1, <3>2
  <2>3. QED
    BY <2>1, <2>2
<1>10. \A i \in DOMAIN queue : queue[i] = keys[done + full + 0 + gone + i]
  <2>1. done + full + 0 = done + full
    OBVIOUS
  <2>2. QED
    BY <1>2, <1>3, <2>1
<1>11. done + full + 0 + gone + Len(queue) <= Len(keys)
  <2>1. done + full + 0 = done + full
    OBVIOUS
  <2>2. QED
    BY <1>2, <1>3, <2>1
<1>12. Output(old, keys, new, << >>, gone, queue)
  <2>1. Len(<< >>) = 0 /\ DOMAIN << >> = {}
    OBVIOUS
  <2>2. Len(new) - Len(old) = done + full /\ done + full >= 0
    BY <1>8
  <2>3. QED
    BY <1>2, <1>9, <1>10, <1>11, <2>1, <2>2 DEF Output
<1>13. QED
  BY <1>4, <1>6, <1>12

(* What the parts of ReducerInv depend on                                  *)
Same(r) ==
  /\ UNCHANGED << store[r], key_pos[r], value_pos[r], acc[r], buff[r], files[r], dropped[r] >>
  /\ UNCHANGED << toChild[<< "reduce", r >>], fromChild[<< "reduce", r >>] >>

Good(r) == FeedInv(r) /\ OutInv(r) /\ StageInv(r)

LEMMA PrintedType ==
  ASSUME TypeOK, NEW r \in Reducers, OutInv(r)
  PROVE  /\ store[r] \in Seq(Key) /\ files[r] \in Seq(Results) /\ buff[r] \in Seq(Results)
         /\ OldFiles[r] \in Seq(Results) /\ fromChild[<< "reduce", r >>] \in Seq(Results)
         /\ toChild[<< "reduce", r >>] \in Seq(Words)
         /\ Printed(r) \in Nat /\ Printed(r) <= Len(store[r])
<1>1. /\ store[r] \in Seq(Key) /\ files[r] \in Seq(Results) /\ buff[r] \in Seq(Results)
      /\ OldFiles[r] \in Seq(Results) /\ fromChild[<< "reduce", r >>] \in Seq(Results)
      /\ toChild[<< "reduce", r >>] \in Seq(Words)
  BY StoreType, FilesAssumption DEF TypeOK, Results
<1>2. /\ Len(files[r]) \in Nat /\ Len(buff[r]) \in Nat /\ Len(OldFiles[r]) \in Nat
      /\ Len(fromChild[<< "reduce", r >>]) \in Nat
  BY <1>1
<1>3. /\ Len(files[r]) - Len(OldFiles[r]) >= 0
      /\ dropped[r] \in Nat
      /\ Len(files[r]) - Len(OldFiles[r]) + Len(buff[r]) + dropped[r]
         + Len(fromChild[<< "reduce", r >>]) <= Len(store[r])
  BY DEF OutInv, Output
<1>4. Printed(r) \in Nat /\ Printed(r) <= Len(store[r])
  <2>1. PICK f \in Nat, o \in Nat, b \in Nat, g \in Nat, q \in Nat :
          /\ f = Len(files[r]) /\ o = Len(OldFiles[r]) /\ b = Len(buff[r])
          /\ g = dropped[r] /\ q = Len(fromChild[<< "reduce", r >>])
    BY <1>2, <1>3
  <2>2. f - o >= 0 /\ f - o + b + g + q <= Len(store[r]) /\ Printed(r) = f - o + b + g + q
    BY <1>3, <2>1 DEF Printed
  <2>3. f - o + b + g + q \in Nat
    BY <2>2
  <2>4. QED
    BY <2>2, <2>3
<1>5. QED
  BY <1>1, <1>4

LEMMA SameData ==
  ASSUME NEW r, FeedInv(r), OutInv(r), Same(r)
  PROVE  /\ FeedInv(r)' /\ OutInv(r)'
         /\ Printed(r)' = Printed(r) /\ Position(r)' = Position(r)
<1>1. PICK keys, kp, vp, a, lines, file, gone, to, from :
        /\ keys = store[r] /\ kp = key_pos[r] /\ vp = value_pos[r] /\ a = acc[r]
        /\ lines = buff[r] /\ file = files[r] /\ gone = dropped[r]
        /\ to = toChild[<< "reduce", r >>] /\ from = fromChild[<< "reduce", r >>]
  OBVIOUS
<1>2. /\ store'[r] = keys /\ key_pos'[r] = kp /\ value_pos'[r] = vp /\ acc'[r] = a
      /\ buff'[r] = lines /\ files'[r] = file /\ dropped'[r] = gone
      /\ toChild'[<< "reduce", r >>] = to /\ fromChild'[<< "reduce", r >>] = from
  BY <1>1 DEF Same
<1>3. Printed(r)' = Printed(r)
  BY <1>1, <1>2 DEF Printed
<1>4. PICK n : n = Printed(r) /\ n = Printed(r)'
  BY <1>3
<1>5. Feeding(keys, kp, vp, to, a, n) /\ Output(OldFiles[r], keys, file, lines, gone, from)
  BY <1>1, <1>4 DEF FeedInv, OutInv
<1>6. FeedInv(r)'
  BY <1>2, <1>4, <1>5 DEF FeedInv
<1>7. OutInv(r)'
  BY <1>2, <1>5 DEF OutInv
<1>8. Position(r)' = Position(r)
  BY <1>1, <1>2 DEF Position
<1>9. QED
  BY <1>3, <1>6, <1>7, <1>8

(* Nothing happens to the reducer but that it is started, or sorted        *)
LEMMA ReducerStays ==
  ASSUME NEW r, Good(r), Same(r), UNCHANGED << child[<< "reduce", r >>], recv[<< "reduce", r >>] >>,
         << "reduce", r >> \in gaveUp <=> << "reduce", r >> \in gaveUp',
         \/ UNCHANGED run[<< "reduce", r >>]
         \/ /\ run[<< "reduce", r >>] \in {"new", "sort"}
            /\ run'[<< "reduce", r >>] \in {"sort", "fork"}
  PROVE  Good(r)'
<1>1. /\ FeedInv(r)' /\ OutInv(r)' /\ Printed(r)' = Printed(r) /\ Position(r)' = Position(r)
  BY SameData DEF Good
<1>2. StageInv(r)'
  BY <1>1 DEF Good, StageInv, Same
<1>3. QED
  BY <1>1, <1>2 DEF Good

(* A reducer that has not been given anything                              *)
LEMMA ReducerFresh ==
  ASSUME TypeOK', NEW r \in Reducers, key_pos'[r] = 1, value_pos'[r] = 1, acc'[r] = NoWord,
         buff'[r] = << >>, files'[r] = OldFiles[r], dropped'[r] = 0,
         toChild'[<< "reduce", r >>] = << >>,
         fromChild'[<< "reduce", r >>] = << >>,
         \/ run'[<< "reduce", r >>] \in {"new", "sort", "fork", "feed"}
         \/ << "reduce", r >> \in gaveUp',
         child'[<< "reduce", r >>] # "ended"
  PROVE  Good(r)'
<1>1. store'[r] \in Seq(Key) /\ OldFiles[r] \in Seq(Results)
  BY FilesAssumption DEF TypeOK, Key, Results
<1>2. Len(OldFiles[r]) \in Nat
  BY <1>1
<1>3. Printed(r)' = 0
  BY <1>2 DEF Printed
<1>4. FeedInv(r)'
  <2>1. Feeding(store'[r], 1, 1, << >>, NoWord, 0)
    BY <1>1, FeedFresh
  <2>2. QED
    BY <1>3, <2>1 DEF FeedInv
<1>5. OutInv(r)'
  <2>1. Output(OldFiles[r], store'[r], OldFiles[r], << >>, 0, << >>)
    BY <1>1, OutputFresh
  <2>2. QED
    BY <2>1 DEF OutInv
<1>6. StageInv(r)'
  BY <1>3 DEF StageInv, NoWord
<1>7. QED
  BY <1>4, <1>5, <1>6 DEF Good

LEMMA InitReducerInv == Init => ReducerInv
<1> SUFFICES ASSUME Init, NEW r \in Reducers PROVE FeedInv(r) /\ OutInv(r) /\ StageInv(r)
  BY DEF ReducerInv
<1>1. PICK w : w = << "reduce", r >> /\ w \in Workers
  BY WorkerIs
<1>2. /\ store[r] = << >> /\ key_pos[r] = 1 /\ value_pos[r] = 1 /\ acc[r] = NoWord
      /\ buff[r] = << >> /\ files[r] = OldFiles[r] /\ dropped[r] = 0
      /\ toChild[w] = << >> /\ fromChild[w] = << >>
      /\ run[w] = "new" /\ child[w] = "none" /\ recv[w] = "none"
  BY <1>1 DEF Init
<1>3. << >> \in Seq(Key) /\ OldFiles[r] \in Seq(Results)
  <2>1. OldFiles[r] \in Seq(Results)
    BY FilesAssumption DEF Results
  <2>2. QED
    BY <2>1
<1>4. Len(OldFiles[r]) \in Nat
  BY <1>3
<1>5. Printed(r) = 0
  BY <1>1, <1>2, <1>4 DEF Printed
<1>6. FeedInv(r)
  BY <1>1, <1>2, <1>3, <1>5, FeedFresh DEF FeedInv
<1>7. OutInv(r)
  BY <1>1, <1>2, <1>3, OutputFresh DEF OutInv
<1>8. StageInv(r)
  BY <1>1, <1>2, <1>5 DEF StageInv, NoWord
<1>9. QED
  BY <1>6, <1>7, <1>8

(* While a mapper's output is read no reducer has been started.            *)
LEMMA PushPhase ==
  ASSUME IInv, TypeOK, CInv, NEW m \in Mappers, PushBack(m)
  PROVE  /\ \A r \in Reducers : run[<< "reduce", r >>] = "new"
         /\ Phase = "map"
<1>1. Alive /\ recv[<< "map", m >>] = "reading"
  BY DEF PushBack, Receiver
<1>2. ~ Quiet(<< "map", m >>)
  BY <1>1, WorkerIs DEF IInv, ReceiverInv, Quiet
<1>3. pc \in {"init", "open", "startMaps", "startReduces", "delete", "return"}
  BY <1>1 DEF Alive, TypeOK
<1>4. CASE pc \in {"init", "open", "startMaps", "startReduces"}
  <2>1. pc = "startMaps" /\ ret = "none"
    BY <1>2, <1>4, WorkerIs DEF IInv, StartInv, ReturnInv, Quiet
  <2>2. QED
    BY <2>1, WorkerIs DEF IInv, StartInv, Phase
<1>5. CASE pc \in {"delete", "return"}
  <2>1. ret = "noMap"
    BY <1>2, <1>5, WorkerIs DEF IInv, ReturnInv, CInv, ControlInv
  <2>2. QED
    BY <1>5, <2>1 DEF CInv, ControlInv, Phase
<1>6. QED
  BY <1>3, <1>4, <1>5

LEMMA FeedTaskGood ==
  ASSUME TypeOK, StoreInv, NEW r \in Reducers, Good(r), FeedTask(r) PROVE Good(r)'
<1>1. PICK w, k, v : w = << "reduce", r >> /\ k = Position(r)[1] /\ v = Position(r)[2]
  OBVIOUS
<1>2. PICK keys, kp, vp, a, queue, n :
        /\ keys = store[r] /\ kp = key_pos[r] /\ vp = value_pos[r] /\ a = acc[r]
        /\ queue = toChild[w] /\ n = Printed(r)
  OBVIOUS
<1>3. /\ UNCHANGED << store, acc, buff, files, dropped, fromChild, child, recv, gaveUp >>
      /\ run[w] = "feed" /\ run'[w] = "feed" /\ keys # << >> /\ k <= Len(keys)
      /\ toChild'[w] = Append(queue, keys[k].word) /\ key_pos'[r] = k /\ value_pos'[r] = v + 1
  BY <1>1, <1>2, WorkerIs DEF FeedTask, Thread, output, TypeOK
<1>4. /\ keys \in Seq(Key) /\ queue \in Seq(Words) /\ n \in Nat /\ a \in Results \cup {NoWord}
      /\ Distinct(keys)
  BY <1>1, <1>2, PrintedType DEF TypeOK, Good, StoreInv, GoodKeys
<1>5. IF vp <= keys[kp].count THEN k = kp /\ v = vp ELSE k = kp + 1 /\ v = 1
  BY <1>1, <1>2 DEF Position
<1>6. Feeding(keys, kp, vp, queue, a, n)
  BY <1>1, <1>2 DEF Good, FeedInv
<1>7. Feeding(keys, k, v + 1, Append(queue, keys[k].word), a, n)
  BY <1>3, <1>4, <1>5, <1>6, FeedStep
<1>8. Printed(r)' = n /\ n = Printed(r)
  BY <1>2, <1>3 DEF Printed
<1>9. FeedInv(r)'
  BY <1>1, <1>2, <1>3, <1>7, <1>8 DEF FeedInv
<1>10. OutInv(r)'
  BY <1>3 DEF Good, OutInv
<1>11. StageInv(r)'
  BY <1>1, <1>3, <1>8 DEF Good, StageInv
<1>12. QED
  BY <1>9, <1>10, <1>11 DEF Good

LEMMA ReduceLineGood ==
  ASSUME TypeOK, StoreInv, CInv, NEW r \in Reducers, Good(r), ReduceLine(r) PROVE Good(r)'
<1>1. PICK w, new, word : /\ w = << "reduce", r >> /\ word = Head(toChild[w])
                          /\ new = (acc[r].word # 0 /\ word # acc[r].word)
  OBVIOUS
<1>2. PICK keys, kp, vp, a, queue, from, gone, n :
        /\ keys = store[r] /\ kp = key_pos[r] /\ vp = value_pos[r] /\ a = acc[r]
        /\ queue = toChild[w] /\ from = fromChild[w] /\ gone = dropped[r] /\ n = Printed(r)
  OBVIOUS
<1>3. /\ UNCHANGED << store, key_pos, value_pos, buff, files, dropped, run, recv, gaveUp >>
      /\ child[w] = "running" /\ child'[w] = "running" /\ queue # << >>
      /\ toChild'[w] = Tail(queue)
      /\ fromChild'[w] = IF new THEN Append(from, a) ELSE from
      /\ acc'[r] = [word |-> word, count |-> IF new THEN 1 ELSE a.count + 1]
  BY <1>1, <1>2, WorkerIs DEF ReduceLine, Child, output, shuffle, TypeOK
<1>4. /\ keys \in Seq(Key) /\ queue \in Seq(Words) /\ n \in Nat /\ a \in Results \cup {NoWord}
      /\ Distinct(keys) /\ files[r] \in Seq(Results) /\ buff[r] \in Seq(Results)
      /\ OldFiles[r] \in Seq(Results) /\ from \in Seq(Results)
  BY <1>1, <1>2, PrintedType DEF TypeOK, Good, StoreInv, GoodKeys
<1>5. Feeding(keys, kp, vp, queue, a, n) /\ Output(OldFiles[r], keys, files[r], buff[r], gone, from)
  BY <1>1, <1>2 DEF Good, FeedInv, OutInv
<1>6. new \in BOOLEAN /\ (new <=> a.word # 0 /\ Head(queue) # a.word) /\ word = Head(queue)
  BY <1>1, <1>2
<1>7. PICK b, l : /\ b = [word |-> word, count |-> IF new THEN 1 ELSE a.count + 1]
                  /\ l = IF new THEN n + 1 ELSE n
  OBVIOUS
<1>8. Feeding(keys, kp, vp, Tail(queue), b, l) /\ l < Len(keys) /\ (new => a = keys[n + 1])
  BY <1>3, <1>4, <1>5, <1>6, <1>7, ReadStep
<1>9. n = Len(files[r]) - Len(OldFiles[r]) + Len(buff[r]) + gone + Len(from)
  BY <1>1, <1>2 DEF Printed
<1>10. n < Len(keys)
  <2>1. Len(keys) \in Nat
    BY <1>4
  <2>2. QED
    BY <1>4, <1>7, <1>8, <2>1
<1>11. Printed(r)' = l
  <2>1. Printed(r)' = Len(files[r]) - Len(OldFiles[r]) + Len(buff[r]) + gone + Len(fromChild'[w])
    BY <1>1, <1>2, <1>3 DEF Printed
  <2>2. CASE new
    <3>1. fromChild'[w] = Append(from, a) /\ a \in Results
      <4>1. n + 1 \in DOMAIN keys
        BY <1>4, <1>10
      <4>2. QED
        BY <1>3, <1>4, <1>8, <2>2, <4>1, KeyFacts
    <3>2. Len(Append(from, a)) = Len(from) + 1
      BY <1>4, <3>1
    <3>3. PICK f \in Nat, o \in Nat, c \in Nat, q \in Nat, g \in Nat :
            /\ f = Len(files[r]) /\ o = Len(OldFiles[r]) /\ c = Len(buff[r]) /\ q = Len(from)
            /\ g = gone
      BY <1>4, <1>5 DEF Output
    <3>4. Printed(r)' = f - o + c + g + (q + 1) /\ n = f - o + c + g + q
      BY <1>9, <2>1, <3>1, <3>2, <3>3
    <3>5. f - o + c + g + (q + 1) = (f - o + c + g + q) + 1
      OBVIOUS
    <3>6. QED
      BY <1>7, <2>2, <3>4, <3>5
  <2>3. CASE ~ new
    BY <1>3, <1>7, <1>9, <2>1, <2>3
  <2>4. QED
    BY <1>6, <2>2, <2>3
<1>12. FeedInv(r)'
  BY <1>1, <1>2, <1>3, <1>7, <1>8, <1>11 DEF FeedInv
<1>13. OutInv(r)'
  <2>1. Output(OldFiles[r], keys, files[r], buff[r], gone, fromChild'[w])
    <3>1. CASE new
      <4>1. Output(OldFiles[r], keys, files[r], buff[r], gone, Append(from, keys[n + 1]))
        BY <1>4, <1>5, <1>9, <1>10, OutputPrinted
      <4>2. QED
        BY <1>3, <1>8, <3>1, <4>1
    <3>2. CASE ~ new
      BY <1>3, <1>5, <3>2
    <3>3. QED
      BY <1>6, <3>1, <3>2
  <2>2. QED
    BY <1>1, <1>2, <1>3, <2>1 DEF OutInv
<1>14. StageInv(r)'
  <2>1. run[w] \notin {"new", "sort", "fork"}
    BY <1>1, <1>3, WorkerIs DEF CInv, QueueInv
  <2>2. Position(r)' = Position(r)
    BY <1>3 DEF Position
  <2>3. QED
    BY <1>1, <1>2, <1>3, <1>8, <1>11, <2>1, <2>2 DEF Good, StageInv
<1>15. QED
  BY <1>12, <1>13, <1>14 DEF Good

LEMMA ReduceChildEndsGood ==
  ASSUME TypeOK, StoreInv, NEW r \in Reducers, Good(r), ReduceChildEnds(r) PROVE Good(r)'
<1>1. PICK w : w = << "reduce", r >>
  OBVIOUS
<1>2. PICK keys, kp, vp, a, from, gone, n :
        /\ keys = store[r] /\ kp = key_pos[r] /\ vp = value_pos[r] /\ a = acc[r]
        /\ from = fromChild[w] /\ gone = dropped[r] /\ n = Printed(r)
  OBVIOUS
<1>3. /\ UNCHANGED << store, key_pos, value_pos, acc, buff, files, dropped, run, recv, gaveUp,
                   toChild >>
      /\ child[w] = "running" /\ child'[w] = "ended" /\ toChild[w] = << >>
      /\ run[w] \in {"join", "ended"} /\ w \notin gaveUp
      /\ fromChild'[w] = IF a.count > 0 THEN Append(from, a) ELSE from
  BY <1>1, <1>2, WorkerIs DEF ReduceChildEnds, Child, InputClosed, output, shuffle, TypeOK
<1>4. /\ keys \in Seq(Key) /\ n \in Nat /\ a \in Results \cup {NoWord}
      /\ files[r] \in Seq(Results) /\ buff[r] \in Seq(Results)
      /\ OldFiles[r] \in Seq(Results) /\ from \in Seq(Results)
  BY <1>1, <1>2, PrintedType DEF TypeOK, Good
<1>5. /\ Feeding(keys, kp, vp, << >>, a, n) /\ Output(OldFiles[r], keys, files[r], buff[r], gone, from)
  BY <1>1, <1>2, <1>3 DEF Good, FeedInv, OutInv
<1>6. /\ keys # << >> /\ Position(r)[1] > Len(keys)
      /\ a.word # 0 => n < Len(keys)
  BY <1>1, <1>2, <1>3 DEF Good, StageInv
<1>7. (IF vp <= keys[kp].count THEN kp ELSE kp + 1) > Len(keys)
  BY <1>2, <1>6 DEF Position
<1>8. /\ a = keys[n + 1] /\ a.count > 0 /\ n + 1 = Len(keys)
      /\ Feeding(keys, kp, vp, << >>, a, n + 1)
  BY <1>4, <1>5, <1>6, <1>7, EndStep
<1>9. n = Len(files[r]) - Len(OldFiles[r]) + Len(buff[r]) + gone + Len(from)
  BY <1>1, <1>2 DEF Printed
<1>10. n < Len(keys)
  BY <1>4, <1>8
<1>11. Output(OldFiles[r], keys, files[r], buff[r], gone, Append(from, keys[n + 1]))
  BY <1>4, <1>5, <1>9, <1>10, OutputPrinted
<1>12. fromChild'[w] = Append(from, keys[n + 1])
  BY <1>3, <1>8
<1>13. Printed(r)' = n + 1
  <2>1. Printed(r)' = Len(files[r]) - Len(OldFiles[r]) + Len(buff[r]) + gone + Len(fromChild'[w])
    BY <1>1, <1>2, <1>3 DEF Printed
  <2>2. keys[n + 1] \in Results
    <3>1. n + 1 \in DOMAIN keys
      BY <1>4, <1>10
    <3>2. QED
      BY <1>4, <3>1, KeyFacts
  <2>3. Len(Append(from, keys[n + 1])) = Len(from) + 1
    BY <1>4, <2>2
  <2>4. PICK f, o, c, q :
          f = Len(files[r]) /\ o = Len(OldFiles[r]) /\ c = Len(buff[r]) /\ q = Len(from)
    OBVIOUS
  <2>5. f \in Nat /\ o \in Nat /\ c \in Nat /\ q \in Nat
    <3>1. files[r] \in Seq(Results) => Len(files[r]) \in Nat
      OBVIOUS
    <3>2. OldFiles[r] \in Seq(Results) => Len(OldFiles[r]) \in Nat
      OBVIOUS
    <3>3. buff[r] \in Seq(Results) => Len(buff[r]) \in Nat
      OBVIOUS
    <3>4. from \in Seq(Results) => Len(from) \in Nat
      OBVIOUS
    <3>5. QED
      BY <1>4, <2>4, <3>1, <3>2, <3>3, <3>4
  <2>6. gone \in Nat
    BY <1>5 DEF Output
  <2>7. Printed(r)' = f - o + c + gone + (q + 1) /\ n = f - o + c + gone + q
    BY <1>9, <1>12, <2>1, <2>3, <2>4
  <2>8. f - o + c + gone + (q + 1) = (f - o + c + gone + q) + 1
    BY <2>5, <2>6
  <2>9. QED
    BY <2>7, <2>8
<1>14. FeedInv(r)'
  BY <1>1, <1>2, <1>3, <1>8, <1>13 DEF FeedInv
<1>15. OutInv(r)'
  BY <1>1, <1>2, <1>3, <1>11, <1>12 DEF OutInv
<1>16. StageInv(r)'
  <2>1. Position(r)' = Position(r)
    BY <1>3 DEF Position
  <2>2. QED
    BY <1>1, <1>2, <1>3, <1>8, <1>13, <2>1 DEF Good, StageInv
<1>17. QED
  BY <1>14, <1>15, <1>16 DEF Good

(* The receiver moves lines on, or refuses them, and prints none.          *)
LEMMA ReceiverGood ==
  ASSUME TypeOK, IInv, NEW r \in Reducers, Good(r),
         AppendLine(r) \/ DropLine(r) \/ ReduceReceiverEnds(r)
  PROVE  Good(r)'
<1>1. PICK w : w = << "reduce", r >> /\ w \in Workers
  BY WorkerIs
<1>2. PICK keys, lines, from, file, old, g :
        /\ keys = store[r] /\ lines = buff[r] /\ from = fromChild[w] /\ file = files[r]
        /\ old = OldFiles[r] /\ g = dropped[r]
  OBVIOUS
<1>3. /\ keys \in Seq(Key) /\ file \in Seq(Results) /\ lines \in Seq(Results)
      /\ old \in Seq(Results) /\ from \in Seq(Results)
  BY <1>1, <1>2, PrintedType DEF Good
<1>4. /\ UNCHANGED << store, key_pos, value_pos, acc, toChild, run, child, gaveUp >>
      /\ recv[w] = "reading"
  BY <1>1 DEF AppendLine, DropLine, ReduceReceiverEnds, Receiver
<1>5. Output(old, keys, file, lines, g, from) /\ g \in Nat
  BY <1>1, <1>2 DEF Good, OutInv, Output
<1>6. PICK f \in Nat, o \in Nat, c \in Nat, q \in Nat :
        f = Len(file) /\ o = Len(old) /\ c = Len(lines) /\ q = Len(from)
  BY <1>3
<1>7. Printed(r) = f - o + c + g + q
  BY <1>1, <1>2, <1>6 DEF Printed
<1>8. g > 0 => c = PIPE_SIZE
  BY <1>1, <1>2, <1>4, <1>6 DEF Good, StageInv
<1>9. /\ Output(old, keys, files'[r], buff'[r], dropped'[r], fromChild'[w])
      /\ Len(files'[r]) - o + Len(buff'[r]) + dropped'[r] + Len(fromChild'[w])
         = f - o + c + g + q
      /\ recv'[w] = "reading" /\ dropped'[r] > 0 => Len(buff'[r]) = PIPE_SIZE
  <2>1. ASSUME NEW batch \in Seq(Results), NEW rest, Output(old, keys, file, batch, g, rest),
               rest \in Seq(Results)
        PROVE  /\ Output(old, keys, file \o Reverse(batch), << >>, g, rest)
               /\ Len(file \o Reverse(batch)) = f + Len(batch)
    <3>1. Reverse(batch) \in Seq(Results) /\ Len(Reverse(batch)) = Len(batch)
      BY ReverseType
    <3>2. Len(file \o Reverse(batch)) = f + Len(batch)
      BY <1>3, <1>6, <3>1, Concatenation
    <3>3. QED
      BY <1>3, <2>1, <3>2, OutputDumped
  <2>2. CASE AppendLine(r)
    <3>1. PICK p, t : p = Append(lines, Head(from)) /\ t = Tail(from)
      OBVIOUS
    <3>2. /\ from # << >> /\ c < PIPE_SIZE /\ fromChild'[w] = t /\ recv'[w] = "reading"
          /\ dropped'[r] = g
          /\ \/ buff'[r] = << >> /\ files'[r] = file \o Reverse(p)
             \/ buff'[r] = p /\ files'[r] = file
      BY <1>1, <1>2, <1>6, <2>2, <3>1 DEF AppendLine, Dump, Receiver, TypeOK
    <3>3. g = 0
      BY <1>5, <1>6, <1>8, <3>2, SizeAssumption
    <3>4. /\ Output(old, keys, file, p, g, t) /\ p \in Seq(Results) /\ t \in Seq(Results)
      <4>1. Head(from) \in Results /\ Tail(from) \in Seq(Results)
        BY <1>3, <3>2
      <4>2. Append(lines, Head(from)) \in Seq(Results)
        BY <1>3, <4>1
      <4>3. QED
        BY <1>3, <1>5, <3>1, <3>2, <3>3, <4>1, <4>2, OutputAppended
    <3>5. Len(p) = c + 1 /\ Len(t) = q - 1
      <4>1. Head(from) \in Results
        BY <1>3, <3>2
      <4>2. Len(Append(lines, Head(from))) = Len(lines) + 1 /\ Len(Tail(from)) = Len(from) - 1
        BY <1>3, <3>2, <4>1
      <4>3. QED
        BY <1>6, <3>1, <4>2
    <3>6. CASE buff'[r] = << >> /\ files'[r] = file \o Reverse(p)
      <4>1. /\ Output(old, keys, file \o Reverse(p), << >>, g, t)
            /\ Len(file \o Reverse(p)) = f + Len(p)
        BY <2>1, <3>4
      <4>2. /\ Len(files'[r]) = f + (c + 1) /\ Len(buff'[r]) = 0 /\ Len(fromChild'[w]) = q - 1
        BY <3>2, <3>5, <3>6, <4>1
      <4>3. f + (c + 1) - o + 0 + 0 + (q - 1) = f - o + c + 0 + q
        OBVIOUS
      <4>4. Output(old, keys, files'[r], buff'[r], dropped'[r], fromChild'[w])
        BY <3>2, <3>6, <4>1
      <4>5. Len(files'[r]) - o + Len(buff'[r]) + dropped'[r] + Len(fromChild'[w])
            = f - o + c + g + q
        BY <3>2, <3>3, <4>2, <4>3
      <4>6. ~ (dropped'[r] > 0)
        BY <3>2, <3>3
      <4>7. QED
        BY <4>4, <4>5, <4>6
    <3>7. CASE buff'[r] = p /\ files'[r] = file
      <4>1. Len(files'[r]) = f /\ Len(buff'[r]) = c + 1 /\ Len(fromChild'[w]) = q - 1
        BY <1>6, <3>2, <3>5, <3>7
      <4>2. f - o + (c + 1) + 0 + (q - 1) = f - o + c + 0 + q
        OBVIOUS
      <4>3. Output(old, keys, files'[r], buff'[r], dropped'[r], fromChild'[w])
        BY <3>2, <3>4, <3>7
      <4>4. Len(files'[r]) - o + Len(buff'[r]) + dropped'[r] + Len(fromChild'[w])
            = f - o + c + g + q
        BY <3>2, <3>3, <4>1, <4>2
      <4>5. ~ (dropped'[r] > 0)
        BY <3>2, <3>3
      <4>6. QED
        BY <4>3, <4>4, <4>5
    <3>8. QED
      BY <3>2, <3>6, <3>7
  <2>3. CASE DropLine(r)
    <3>1. /\ from # << >> /\ fromChild'[w] = Tail(from) /\ dropped'[r] = g + 1
          /\ buff'[r] = lines /\ files'[r] = file /\ Len(lines) = PIPE_SIZE
      BY <1>1, <1>2, <2>3 DEF DropLine, Receiver, TypeOK
    <3>2. Output(old, keys, file, lines, g + 1, Tail(from))
      BY <1>3, <1>5, <3>1, OutputDropped
    <3>3. Len(Tail(from)) = q - 1
      BY <1>3, <1>6, <3>1
    <3>4. f - o + c + (g + 1) + (q - 1) = f - o + c + g + q
      BY <1>5
    <3>5. Output(old, keys, files'[r], buff'[r], dropped'[r], fromChild'[w])
      BY <3>1, <3>2
    <3>6. Len(files'[r]) - o + Len(buff'[r]) + dropped'[r] + Len(fromChild'[w])
          = f - o + c + g + q
      BY <1>6, <3>1, <3>3, <3>4
    <3>7. QED
      BY <3>1, <3>5, <3>6
  <2>4. CASE ReduceReceiverEnds(r)
    <3>1. /\ fromChild'[w] = from /\ dropped'[r] = g /\ recv'[w] = "ended"
          /\ \/ files'[r] = file \o Reverse(lines) /\ buff'[r] = << >>
             \/ files'[r] = file /\ buff'[r] = lines
      BY <1>1, <1>2, <2>4 DEF ReduceReceiverEnds, Dump, Receiver, TypeOK
    <3>2. CASE files'[r] = file \o Reverse(lines) /\ buff'[r] = << >>
      <4>1. /\ Output(old, keys, file \o Reverse(lines), << >>, g, from)
            /\ Len(file \o Reverse(lines)) = f + c
        BY <1>3, <1>5, <1>6, <2>1
      <4>2. Len(buff'[r]) = 0 /\ Len(fromChild'[w]) = q /\ Len(files'[r]) = f + c
        BY <1>6, <3>1, <3>2, <4>1
      <4>3. f + c - o + 0 + g + q = f - o + c + g + q
        BY <1>5
      <4>4. Output(old, keys, files'[r], buff'[r], dropped'[r], fromChild'[w])
        BY <3>1, <3>2, <4>1
      <4>5. Len(files'[r]) - o + Len(buff'[r]) + dropped'[r] + Len(fromChild'[w])
            = f - o + c + g + q
        BY <3>1, <4>2, <4>3
      <4>6. QED
        BY <3>1, <4>4, <4>5
    <3>3. CASE files'[r] = file /\ buff'[r] = lines
      BY <1>5, <1>6, <3>1, <3>3
    <3>4. QED
      BY <3>1, <3>2, <3>3
  <2>5. QED
    BY <2>2, <2>3, <2>4
<1>10. Printed(r)' = Printed(r)
  BY <1>1, <1>2, <1>6, <1>7, <1>9 DEF Printed
<1>11. FeedInv(r)'
  <2>1. PICK n : n = Printed(r) /\ n = Printed(r)'
    BY <1>10
  <2>2. Feeding(keys, key_pos[r], value_pos[r], toChild[w], acc[r], n)
    BY <1>1, <1>2, <2>1 DEF Good, FeedInv
  <2>3. QED
    BY <1>1, <1>2, <1>4, <2>1, <2>2 DEF FeedInv
<1>12. OutInv(r)'
  BY <1>1, <1>2, <1>4, <1>9 DEF OutInv
<1>13. StageInv(r)'
  <2>1. run[w] \notin {"new", "sort", "fork"}
    BY <1>1, <1>4 DEF IInv, ReceiverInv
  <2>2. Position(r)' = Position(r)
    BY <1>4 DEF Position
  <2>3. recv'[w] = "reading" /\ dropped'[r] > 0 => Len(buff'[r]) = PIPE_SIZE
    BY <1>9
  <2>4. QED
    BY <1>1, <1>4, <1>10, <2>1, <2>2, <2>3 DEF Good, StageInv
<1>14. QED
  BY <1>11, <1>12, <1>13 DEF Good

(* A step of somebody else                                                 *)
Aside(r) ==
  LET w == << "reduce", r >>
  IN  Same(r) /\ UNCHANGED << run[w], child[w], recv[w] >> /\ (w \in gaveUp <=> w \in gaveUp')

LEMMA AsideGood == ASSUME NEW r \in Reducers, Good(r), Aside(r) PROVE Good(r)'
BY ReducerStays DEF Aside

LEMMA CrashAside == ASSUME NEW r \in Reducers, Crash PROVE Aside(r)
BY DEF Crash, Aside, Same, shuffle, output

LEMMA OtherRunAside ==
  ASSUME TypeOK, NEW v \in Workers, NEW r \in Reducers, << "reduce", r >> # v,
         RunStep(v) \/ GiveUp(v) \/ UseDeleted(v)
  PROVE  Aside(r)
<1>1. PICK w : w = << "reduce", r >> /\ w \in Workers /\ w # v
  BY WorkerIs
<1>2. /\ run \in [Workers -> {"new", "sort", "fork", "feed", "join", "ended"}]
      /\ recv \in [Workers -> {"none", "reading", "ended"}]
      /\ child \in [Workers -> ChildStates]
      /\ DOMAIN toChild = Workers /\ DOMAIN fromChild = Workers
  BY DEF TypeOK, ChildStates
<1>3. CASE Fork(v) \/ JoinReceiver(v) \/ GiveUp(v)
  BY <1>1, <1>2, <1>3 DEF Fork, JoinReceiver, GiveUp, Thread, Aside, Same, shuffle, output
<1>4. ASSUME NEW m, v = << "map", m >>, FeedLine(m) \/ FeedEnd(m) PROVE Aside(r)
  BY <1>1, <1>2, <1>4 DEF FeedLine, FeedEnd, Thread, Aside, Same, shuffle, output
<1>5. ASSUME NEW s \in Reducers, v = << "reduce", s >>, Sort(s) PROVE Aside(r)
  <2>1. r # s
    BY <1>5
  <2>2. store'[r] = store[r]
    BY <1>5, <2>1, SortEffect
  <2>3. QED
    BY <1>1, <1>2, <1>5, <2>2 DEF Sort, Thread, Aside, Same, output
<1>6. ASSUME NEW s \in Reducers, v = << "reduce", s >>, FeedTask(s) PROVE Aside(r)
  <2>1. r # s
    BY <1>6
  <2>2. key_pos'[r] = key_pos[r] /\ value_pos'[r] = value_pos[r]
    BY <1>6, <2>1 DEF FeedTask, TypeOK
  <2>3. QED
    BY <1>1, <1>2, <1>6, <2>2 DEF FeedTask, Thread, Aside, Same, output
<1>7. ASSUME NEW s \in Reducers, v = << "reduce", s >>, NoMoreTasks(s) PROVE Aside(r)
  BY <1>1, <1>2, <1>7 DEF NoMoreTasks, Thread, Aside, Same, shuffle, output
<1>8. ASSUME NEW s \in Reducers, v = << "reduce", s >>, ReadNoKey(s) PROVE Aside(r)
  BY <1>8, CrashAside DEF ReadNoKey
<1>9. CASE UseDeleted(v) \/ WriteKills(v)
  BY <1>9, CrashAside DEF UseDeleted, WriteKills
<1>10. QED
  BY <1>3, <1>4, <1>5, <1>6, <1>7, <1>8, <1>9, WorkerKinds DEF RunStep

LEMMA OtherChildAside ==
  ASSUME TypeOK, NEW v \in Workers, NEW r \in Reducers, << "reduce", r >> # v, ChildStep(v)
  PROVE  Aside(r)
<1>1. PICK w : w = << "reduce", r >> /\ w \in Workers /\ w # v
  BY WorkerIs
<1>2. /\ child \in [Workers -> ChildStates]
      /\ DOMAIN toChild = Workers /\ DOMAIN fromChild = Workers
      /\ acc \in [Reducers -> Results \cup {NoWord}]
  BY DEF TypeOK, ChildStates
<1>3. ASSUME NEW m, v = << "map", m >>, MapWord(m) \/ MapChildEnds(m) PROVE Aside(r)
  <2>1. toChild'[w] = toChild[w] /\ fromChild'[w] = fromChild[w]
    BY <1>1, <1>2, <1>3 DEF MapWord, MapChildEnds
  <2>2. QED
    BY <1>1, <1>2, <1>3, <2>1 DEF MapWord, MapChildEnds, Child, Aside, Same, shuffle, output
<1>4. ASSUME NEW s \in Reducers, v = << "reduce", s >>, ReduceLine(s) PROVE Aside(r)
  <2>1. r # s
    BY <1>4
  <2>2. acc'[r] = acc[r] /\ toChild'[w] = toChild[w] /\ fromChild'[w] = fromChild[w]
    BY <1>1, <1>2, <1>4, <2>1 DEF ReduceLine
  <2>3. QED
    BY <1>1, <1>2, <1>4, <2>2 DEF ReduceLine, Child, Aside, Same, shuffle, output
<1>5. ASSUME NEW s \in Reducers, v = << "reduce", s >>, ReduceChildEnds(s) PROVE Aside(r)
  <2>1. fromChild'[w] = fromChild[w]
    BY <1>1, <1>2, <1>5 DEF ReduceChildEnds
  <2>2. QED
    BY <1>1, <1>2, <1>5, <2>1 DEF ReduceChildEnds, Child, Aside, Same, shuffle, output
<1>6. QED
  BY <1>3, <1>4, <1>5, WorkerKinds DEF ChildStep

LEMMA ChildDiesAside ==
  ASSUME TypeOK, NEW v \in Workers, NEW r \in Reducers, << "reduce", r >> # v, ChildDies(v)
  PROVE  Aside(r)
<1>1. PICK w : w = << "reduce", r >> /\ w \in Workers /\ w # v
  BY WorkerIs
<1>2. child'[w] = child[w]
  BY <1>1 DEF ChildDies, Child, TypeOK
<1>3. QED
  BY <1>1, <1>2 DEF ChildDies, Child, Aside, Same, shuffle, output

LEMMA OtherReceiverAside ==
  ASSUME TypeOK, NEW v \in Workers, NEW r \in Reducers, << "reduce", r >> # v, ReceiverStep(v),
         ~ (\E m \in Mappers : PushBack(m))
  PROVE  Aside(r)
<1>1. PICK w : w = << "reduce", r >> /\ w \in Workers /\ w # v
  BY WorkerIs
<1>2. /\ recv \in [Workers -> {"none", "reading", "ended"}] /\ DOMAIN fromChild = Workers
      /\ buff \in [Reducers -> Seq(Results)] /\ files \in [Reducers -> Seq(Results)]
      /\ dropped \in [Reducers -> Nat]
  BY DEF TypeOK, ChildStates
<1>3. ASSUME NEW m \in Mappers, v = << "map", m >>, MapReceiverEnds(m) PROVE Aside(r)
  BY <1>1, <1>2, <1>3 DEF MapReceiverEnds, Receiver, Aside, Same, output
<1>4. ASSUME NEW m \in Mappers, DivideByReduceNum(m) PROVE Aside(r)
  BY <1>4, CrashAside DEF DivideByReduceNum
<1>5. ASSUME NEW s \in Reducers, v = << "reduce", s >>, AppendLine(s) PROVE Aside(r)
  <2>1. r # s
    BY <1>5
  <2>2. buff'[r] = buff[r] /\ files'[r] = files[r] /\ fromChild'[w] = fromChild[w]
    BY <1>1, <1>2, <1>5, <2>1 DEF AppendLine, Dump
  <2>3. QED
    BY <1>1, <1>2, <1>5, <2>2 DEF AppendLine, Receiver, Aside, Same
<1>6. ASSUME NEW s \in Reducers, v = << "reduce", s >>, ReduceReceiverEnds(s) PROVE Aside(r)
  <2>1. r # s
    BY <1>6
  <2>2. buff'[r] = buff[r] /\ files'[r] = files[r]
    BY <1>1, <1>2, <1>6, <2>1 DEF ReduceReceiverEnds, Dump
  <2>3. QED
    BY <1>1, <1>2, <1>6, <2>2 DEF ReduceReceiverEnds, Receiver, Aside, Same
<1>7. ASSUME NEW s \in Reducers, v = << "reduce", s >>, DropLine(s) PROVE Aside(r)
  <2>1. r # s
    BY <1>7
  <2>2. dropped'[r] = dropped[r] /\ fromChild'[w] = fromChild[w]
    BY <1>1, <1>2, <1>7, <2>1 DEF DropLine
  <2>3. QED
    BY <1>1, <1>2, <1>7, <2>2 DEF DropLine, Receiver, Aside, Same
<1>8. QED
  BY <1>3, <1>4, <1>5, <1>6, <1>7, WorkerKinds DEF ReceiverStep

(* The main thread only starts reducers.                                   *)
LEMMA MainGood ==
  ASSUME IInv, TypeOK, NEW r \in Reducers, Good(r), MainStep \/ MainFails
  PROVE  Good(r)'
<1>1. PICK w : w = << "reduce", r >> /\ w \in Workers
  BY WorkerIs
<1>2. run \in [Workers -> {"new", "sort", "fork", "feed", "join", "ended"}]
  BY DEF TypeOK, ChildStates
<1>3. ASSUME NEW kind, NEW at, NEW first, StartWorker(kind, at, first),
             kind = "reduce" => at = "startReduces" /\ first = "sort"
      PROVE  Good(r)'
  <2>1. Same(r) /\ UNCHANGED << child[w], recv[w] >> /\ gaveUp' = gaveUp
    BY <1>3 DEF StartWorker, Main, Same, shuffle, output
  <2>2. CASE << kind, started >> = w
    <3>1. pc = "startReduces" /\ first = "sort" /\ w[2] = started /\ w[1] = "reduce"
      BY <1>1, <1>3, <2>2 DEF StartWorker, Main
    <3>2. run[w] = "new"
      <4>1. ~ (w[2] < started)
        BY <3>1 DEF TypeOK
      <4>2. QED
        BY <1>1, <3>1, <4>1 DEF IInv, StartInv
    <3>3. run'[w] = "sort"
      BY <1>1, <1>2, <1>3, <2>2, <3>1 DEF StartWorker
    <3>4. QED
      BY <1>1, <2>1, <3>2, <3>3, ReducerStays
  <2>3. CASE << kind, started >> # w
    <3>1. run'[w] = run[w]
      BY <1>1, <1>2, <1>3, <2>3 DEF StartWorker
    <3>2. QED
      BY <1>1, <2>1, <3>1, ReducerStays
  <2>4. QED
    BY <2>2, <2>3
<1>4. ASSUME Crash PROVE Good(r)'
  BY <1>4, CrashAside, AsideGood
<1>5. ASSUME NEW from, NEW to, Main(from, to), UNCHANGED run PROVE Good(r)'
  BY <1>5, AsideGood DEF Main, Aside, Same, shuffle, output
<1>6. ASSUME NEW m, NEW item, DispatchMapper(m, item) PROVE Good(r)'
  BY <1>6, AsideGood DEF DispatchMapper, Aside, Same, shuffle, output
<1>7. CASE StartMap \/ StartReduce
  BY <1>3, <1>4, <1>7 DEF StartMap, StartReduce, StartNobody
<1>8. CASE DealLine \/ SendEnd
  BY <1>6, <1>8 DEF DealLine, SendEnd
<1>9. CASE DivideByMapNum \/ DeleteNobody
  BY <1>4, <1>9 DEF DivideByMapNum, DeleteNobody
<1>10. CASE Initialize \/ OpenInput \/ JoinMaps \/ JoinReduces \/ Delete \/ Exit \/ MainFails
  BY <1>5, <1>10 DEF Initialize, OpenInput, JoinMaps, JoinReduces, Delete, Exit, MainFails,
     InitFails, OpenFails, StartMapFails, StartReduceFails, Quit
<1>11. QED
  BY <1>7, <1>8, <1>9, <1>10 DEF MainStep

(* A mapper's output is read before any reducer has been given anything.   *)
LEMMA PushBackGood ==
  ASSUME IInv, TypeOK, TypeOK', CInv, NEW r \in Reducers, Good(r), NEW m \in Mappers, PushBack(m)
  PROVE  Good(r)'
<1>1. PICK w, v : w = << "reduce", r >> /\ v = << "map", m >> /\ w \in Workers /\ v \in Workers
                  /\ w # v
  <2>1. << "reduce", r >> \in Workers /\ << "map", m >> \in Workers
        /\ << "reduce", r >> # << "map", m >>
    BY WorkerIs
  <2>2. QED
    BY <2>1
<1>2. run[w] = "new"
  BY <1>1, PushPhase
<1>3. /\ key_pos[r] = 1 /\ value_pos[r] = 1 /\ acc[r] = NoWord
      /\ buff[r] = << >> /\ files[r] = OldFiles[r] /\ dropped[r] = 0
  BY <1>1, <1>2 DEF Good, StageInv
<1>4. /\ toChild[w] = << >> /\ fromChild[w] = << >> /\ child[w] = "none" /\ recv[w] = "none"
  BY <1>1, <1>2 DEF CInv, QueueInv, IInv, ReceiverInv
<1>5. /\ UNCHANGED << key_pos, value_pos, acc, buff, files, dropped, toChild, run, child >>
      /\ recv' = [recv EXCEPT ![v] = "reading"]
      /\ fromChild' = [fromChild EXCEPT ![v] = Tail(@)]
  BY <1>1 DEF PushBack, Receiver, output
<1>6. recv'[w] = "none" /\ fromChild'[w] = << >>
  BY <1>1, <1>4, <1>5 DEF TypeOK
<1>7. QED
  BY <1>1, <1>2, <1>3, <1>4, <1>5, <1>6, ReducerFresh

(* The thread of the reducer itself                                        *)
LEMMA OwnRunGood ==
  ASSUME IInv, TypeOK, TypeOK', CInv, StoreInv, NEW r \in Reducers, Good(r), NEW w \in Workers,
         w = << "reduce", r >>, RunStep(w) \/ GiveUp(w) \/ UseDeleted(w)
  PROVE  Good(r)'
<1>1. /\ run \in [Workers -> {"new", "sort", "fork", "feed", "join", "ended"}]
      /\ recv \in [Workers -> {"none", "reading", "ended"}]
      /\ child \in [Workers -> ChildStates]
  BY DEF TypeOK, ChildStates
<1>2. ASSUME run[w] \in {"sort", "fork"}
      PROVE  /\ key_pos[r] = 1 /\ value_pos[r] = 1 /\ acc[r] = NoWord
             /\ buff[r] = << >> /\ files[r] = OldFiles[r] /\ dropped[r] = 0
             /\ toChild[w] = << >> /\ fromChild[w] = << >>
             /\ child[w] = "none" /\ recv[w] = "none"
  BY <1>2 DEF Good, StageInv, CInv, QueueInv, IInv, ReceiverInv
<1>3. CASE Fork(w)
  <2>1. /\ run[w] = "fork" /\ run'[w] = "feed" /\ child'[w] \in {"running", "failed"}
        /\ UNCHANGED << key_pos, value_pos, acc, buff, files, dropped, toChild, fromChild >>
    BY <1>1, <1>3 DEF Fork, Thread, shuffle, output
  <2>2. QED
    BY <1>2, <2>1, ReducerFresh
<1>4. CASE GiveUp(w)
  <2>1. /\ run[w] = "fork" /\ w \in gaveUp' /\ child'[w] \in {"running", "failed"}
        /\ UNCHANGED << key_pos, value_pos, acc, buff, files, dropped, toChild, fromChild >>
    BY <1>1, <1>4 DEF GiveUp, Thread, shuffle, output
  <2>2. QED
    BY <1>2, <2>1, ReducerFresh
<1>5. CASE Sort(r)
  <2>1. /\ run[w] = "sort" /\ run'[w] = "fork" /\ child'[w] = child[w] /\ recv'[w] = recv[w]
        /\ UNCHANGED << key_pos, value_pos, acc, buff, files, dropped, toChild, fromChild >>
    BY <1>1, <1>5 DEF Sort, Thread, output
  <2>2. QED
    BY <1>2, <2>1, ReducerFresh
<1>6. CASE JoinReceiver(w) \/ NoMoreTasks(r)
  <2>1. /\ Same(r) /\ UNCHANGED << child, recv, gaveUp, store >>
        /\ run'[w] \in {"join", "ended"}
        /\ \/ run[w] = "join"
           \/ store[r] # << >> /\ Position(r)[1] > Len(store[r])
    BY <1>1, <1>6 DEF JoinReceiver, NoMoreTasks, Thread, Same, shuffle, output
  <2>2. /\ FeedInv(r)' /\ OutInv(r)' /\ Printed(r)' = Printed(r) /\ Position(r)' = Position(r)
    BY <2>1, SameData DEF Good
  <2>3. StageInv(r)'
    BY <2>1, <2>2 DEF Good, StageInv, Same
  <2>4. QED
    BY <2>2, <2>3 DEF Good
<1>7. CASE FeedTask(r)
  BY <1>7, FeedTaskGood
<1>8. CASE ReadNoKey(r) \/ UseDeleted(w) \/ WriteKills(w)
  BY <1>8, CrashAside, AsideGood DEF ReadNoKey, UseDeleted, WriteKills
<1>9. QED
  BY <1>3, <1>4, <1>5, <1>6, <1>7, <1>8 DEF RunStep

(* A child that dies leaves what it has printed, and what it has not read. *)
LEMMA OwnChildDiesGood ==
  ASSUME TypeOK, NEW r \in Reducers, Good(r), ChildDies(<< "reduce", r >>)
  PROVE  Good(r)'
<1>1. PICK w : w = << "reduce", r >> /\ w \in Workers
  BY WorkerIs
<1>2. /\ Same(r) /\ UNCHANGED << run, recv, gaveUp, store >>
      /\ child[w] = "running" /\ child'[w] = "died"
  BY <1>1 DEF ChildDies, Child, Same, shuffle, output, TypeOK
<1>3. /\ FeedInv(r)' /\ OutInv(r)' /\ Printed(r)' = Printed(r) /\ Position(r)' = Position(r)
  BY <1>2, SameData DEF Good
<1>4. StageInv(r)'
  BY <1>1, <1>2, <1>3 DEF Good, StageInv, Same
<1>5. QED
  BY <1>3, <1>4 DEF Good

LEMMA NextReducerInv ==
  IInv /\ TypeOK /\ TypeOK' /\ CInv /\ StoreInv /\ ReducerInv /\ [Next]_vars => ReducerInv'
<1> SUFFICES ASSUME IInv, TypeOK, TypeOK', CInv, StoreInv, ReducerInv, [Next]_vars,
                    NEW r \in Reducers
             PROVE  Good(r)'
  BY DEF ReducerInv, Good
<1>1. Good(r)
  BY DEF ReducerInv, Good
<1>2. ASSUME UNCHANGED vars PROVE Good(r)'
  BY <1>1, <1>2, AsideGood DEF Aside, Same, vars, shuffle, output
<1>3. CASE MainStep \/ MainFails
  BY <1>1, <1>3, MainGood
<1>4. ASSUME NEW v \in Workers, RunStep(v) \/ GiveUp(v) \/ UseDeleted(v) PROVE Good(r)'
  BY <1>1, <1>4, OtherRunAside, AsideGood, OwnRunGood
<1>5. ASSUME NEW v \in Workers, ChildStep(v) \/ ChildDies(v) PROVE Good(r)'
  <2>1. CASE v = << "reduce", r >>
    <3>1. ReduceLine(r) \/ ReduceChildEnds(r) \/ ChildDies(<< "reduce", r >>)
      BY <1>5, <2>1 DEF ChildStep
    <3>2. QED
      BY <1>1, <3>1, ReduceLineGood, ReduceChildEndsGood, OwnChildDiesGood
  <2>2. CASE v # << "reduce", r >>
    BY <1>1, <1>5, <2>2, OtherChildAside, ChildDiesAside, AsideGood
  <2>3. QED
    BY <2>1, <2>2
<1>6. ASSUME NEW v \in Workers, ReceiverStep(v) PROVE Good(r)'
  <2>1. CASE v = << "reduce", r >>
    <3>1. AppendLine(r) \/ DropLine(r) \/ ReduceReceiverEnds(r)
      BY <1>6, <2>1 DEF ReceiverStep
    <3>2. QED
      BY <1>1, <3>1, ReceiverGood
  <2>2. ASSUME NEW m \in Mappers, PushBack(m) PROVE Good(r)'
    BY <1>1, <2>2, PushBackGood
  <2>3. CASE v # << "reduce", r >> /\ ~ (\E m \in Mappers : PushBack(m))
    BY <1>1, <1>6, <2>3, OtherReceiverAside, AsideGood
  <2>4. QED
    BY <2>1, <2>2, <2>3
<1>7. QED
  BY <1>2, <1>3, <1>4, <1>5, <1>6 DEF Next, Poll, Terminated

-----------------------------------------------------------------------------
(* Nothing but what is in the file is on its way, or stored *)

LEMMA RealKept == ASSUME UNCHANGED input PROVE Real' = Real /\ RealLines' = RealLines
BY DEF Real, RealLines, Abstract!Occurring

LEMMA RealParts ==
  ASSUME RealInv
  PROVE  /\ \A m \in Mappers : /\ ring[m] \in Seq(RealLines \cup {END_PIPE})
                               /\ toChild[<< "map", m >>] \in Seq(RealLines)
                               /\ fromChild[<< "map", m >>] \in Seq(Real)
         /\ \A r \in Reducers : \A k \in DOMAIN store[r] : store[r][k].word \in Real
BY DEF RealInv

(* The lines of the file                                                   *)
LEMMA RealFile == ASSUME TypeOK, NEW l \in DOMAIN input PROVE input[l] \in RealLines
<1>1. input[l] \in Seq(Words \cup {NotAlpha})
  BY FileFacts DEF Lines
<1>2. ASSUME NEW k \in DOMAIN input[l] PROVE input[l][k] \in Real \cup {NotAlpha}
  <2>1. input[l][k] \in Words \cup {NotAlpha}
    BY <1>1, Elements
  <2>2. QED
    BY <2>1 DEF Real, Abstract!Occurring
<1>3. PICK s : s = input[l]
  OBVIOUS
<1>4. s \in Seq(Real \cup {NotAlpha})
  BY <1>1, <1>2, <1>3
<1>5. QED
  BY <1>3, <1>4 DEF RealLines

LEMMA InitRealInv == ASSUME Init PROVE RealInv
BY WorkerIs DEF Init, RealInv

(* Queues change as they do, and no other word is stored.                  *)
LEMMA RealNext ==
  ASSUME UNCHANGED input,
         \A m \in Mappers : /\ ring'[m] \in Seq(RealLines \cup {END_PIPE})
                            /\ toChild'[<< "map", m >>] \in Seq(RealLines)
                            /\ fromChild'[<< "map", m >>] \in Seq(Real),
         \A r \in Reducers : \A k \in DOMAIN store'[r] : store'[r][k].word \in Real
  PROVE  RealInv'
BY RealKept DEF RealInv

LEMMA RealStays ==
  ASSUME RealInv, UNCHANGED << input, ring, store >>,
         \A m \in Mappers : UNCHANGED << toChild[<< "map", m >>], fromChild[<< "map", m >>] >>
  PROVE  RealInv'
BY RealParts, RealNext

LEMMA DispatchReal ==
  ASSUME TypeOK, RealInv, NEW m \in Mappers, NEW item \in RealLines \cup {END_PIPE},
         DispatchMapper(m, item)
  PROVE  RealInv'
<1>1. /\ UNCHANGED << input, toChild, fromChild, store >>
      /\ ring' = [ring EXCEPT ![m] = Append(@, item)]
  BY DEF DispatchMapper, job, shuffle
<1>2. Append(ring[m], item) \in Seq(RealLines \cup {END_PIPE})
  <2>1. ring[m] \in Seq(RealLines \cup {END_PIPE})
    BY RealParts
  <2>2. QED
    BY <2>1
<1>3. DOMAIN ring = Mappers
  BY DEF TypeOK
<1>4. \A n \in Mappers : ring'[n] \in Seq(RealLines \cup {END_PIPE})
  BY <1>1, <1>2, <1>3, RealParts
<1>5. QED
  BY <1>1, <1>4, RealParts, RealNext

LEMMA MainReal == ASSUME TypeOK, RealInv, MainStep \/ MainFails PROVE RealInv'
<1>1. CASE DealLine
  <2>1. conf.map_num > 0 /\ round < Len(input) /\ DispatchMapper(round % conf.map_num, input[round + 1])
    BY <1>1 DEF DealLine
  <2>2. round + 1 \in DOMAIN input /\ round % conf.map_num \in Mappers
    BY <2>1, FileFacts, DealtTo
  <2>3. input[round + 1] \in RealLines
    BY <2>2, RealFile
  <2>4. QED
    BY <2>1, <2>2, <2>3, DispatchReal
<1>2. CASE SendEnd
  <2>1. /\ round \in Len(input) .. Len(input) + conf.map_num - 1
        /\ DispatchMapper(round - Len(input), END_PIPE)
    BY <1>2 DEF SendEnd
  <2>2. round - Len(input) \in Mappers
    <3>1. conf.map_num \in Nat /\ Len(input) \in Nat /\ round \in Nat
      BY FileFacts, DealtTo
    <3>2. round - Len(input) \in Nat /\ round - Len(input) < conf.map_num
      BY <2>1, <3>1
    <3>3. QED
      BY <3>2, DealtTo
  <2>3. QED
    BY <2>1, <2>2, DispatchReal
<1>3. CASE ~ DealLine /\ ~ SendEnd
  <2>1. UNCHANGED << input, ring, store, toChild, fromChild >>
    BY <1>3 DEF MainStep, MainFails, Main, Crash, Initialize, OpenInput, StartMap,
       DivideByMapNum, JoinMaps, StartReduce, JoinReduces, Delete, DeleteNobody, Exit, InitFails,
       OpenFails, StartMapFails, StartReduceFails, Quit, StartWorker, StartNobody, shuffle, job
  <2>2. QED
    BY <2>1, RealStays
<1>4. QED
  BY <1>1, <1>2, <1>3

LEMMA FeedReal ==
  ASSUME TypeOK, RealInv, NEW m \in Mappers, FeedLine(m) \/ FeedEnd(m) PROVE RealInv'
<1>1. PICK w : w = << "map", m >> /\ w \in Workers
  BY WorkerIs
<1>2. PICK q : q = ring[m] /\ q \in Seq(RealLines \cup {END_PIPE}) /\ q # << >>
  <2>1. ring[m] \in Seq(RealLines \cup {END_PIPE}) /\ ring[m] # << >>
    BY RealParts DEF FeedLine, FeedEnd
  <2>2. QED
    BY <2>1
<1>3. /\ UNCHANGED << input, fromChild, store >> /\ ring' = [ring EXCEPT ![m] = Tail(@)]
      /\ \/ UNCHANGED toChild
         \/ Head(q) # END_PIPE /\ toChild' = [toChild EXCEPT ![w] = Append(@, Head(q))]
  BY <1>1, <1>2 DEF FeedLine, FeedEnd, Thread, job, shuffle
<1>4. DOMAIN ring = Mappers /\ DOMAIN toChild = Workers
  BY DEF TypeOK
<1>5. \A n \in Mappers : ring'[n] \in Seq(RealLines \cup {END_PIPE})
  <2>1. Tail(q) \in Seq(RealLines \cup {END_PIPE})
    BY <1>2
  <2>2. QED
    BY <1>2, <1>3, <1>4, <2>1, RealParts
<1>6. \A n \in Mappers : toChild'[<< "map", n >>] \in Seq(RealLines)
  <2>1. CASE UNCHANGED toChild
    BY <2>1, RealParts
  <2>2. CASE Head(q) # END_PIPE /\ toChild' = [toChild EXCEPT ![w] = Append(@, Head(q))]
    <3>1. Head(q) \in RealLines
      <4>1. Head(q) \in RealLines \cup {END_PIPE}
        BY <1>2
      <4>2. QED
        BY <2>2, <4>1
    <3>2. toChild[w] \in Seq(RealLines)
      BY <1>1, RealParts
    <3>3. Append(toChild[w], Head(q)) \in Seq(RealLines)
      BY <3>1, <3>2
    <3>4. QED
      BY <1>1, <1>4, <2>2, <3>3, RealParts, WorkerIs
  <2>3. QED
    BY <1>3, <2>1, <2>2
<1>7. QED
  BY <1>3, <1>5, <1>6, RealParts, RealNext

LEMMA MapWordReal == ASSUME TypeOK, RealInv, NEW m \in Mappers, MapWord(m) PROVE RealInv'
<1>1. PICK w, text, word : /\ w = << "map", m >> /\ text = Head(toChild[w])
                           /\ word = Head(text)
  OBVIOUS
<1>2. /\ UNCHANGED << input, ring, store >> /\ toChild[w] # << >>
      /\ fromChild' = IF word = NotAlpha THEN fromChild
                      ELSE [fromChild EXCEPT ![w] = Append(@, word)]
      /\ toChild'   = [toChild EXCEPT ![w] = IF Len(text) = 1 THEN Tail(@)
                                             ELSE << Tail(text) >> \o Tail(@)]
  BY <1>1 DEF MapWord, Child, job, shuffle
<1>3. w \in Workers /\ DOMAIN toChild = Workers /\ DOMAIN fromChild = Workers
  BY <1>1, WorkerIs DEF TypeOK
<1>4. toChild[w] \in Seq(RealLines) /\ toChild[w] \in Seq(Lines) /\ fromChild[w] \in Seq(Real)
  BY <1>1, RealParts DEF TypeOK
<1>5. text \in RealLines /\ Tail(toChild[w]) \in Seq(RealLines)
  BY <1>1, <1>2, <1>4
<1>6. text # << >>
  <2>1. Head(toChild[w]) \in Lines
    BY <1>2, <1>4
  <2>2. QED
    BY <1>1, <2>1 DEF Lines
<1>7. word \in Real \cup {NotAlpha} /\ Tail(text) \in RealLines
  BY <1>1, <1>5, <1>6 DEF RealLines
<1>8. \A n \in Mappers : toChild'[<< "map", n >>] \in Seq(RealLines)
  <2>1. << Tail(text) >> \o Tail(toChild[w]) \in Seq(RealLines)
    <3>1. << Tail(text) >> \in Seq(RealLines)
      BY <1>7
    <3>2. QED
      BY <1>5, <3>1
  <2>2. toChild'[w] \in Seq(RealLines)
    BY <1>2, <1>3, <1>5, <2>1
  <2>3. \A v \in Workers \ {w} : toChild'[v] = toChild[v]
    BY <1>2, <1>3
  <2>4. QED
    BY <2>2, <2>3, RealParts, WorkerIs
<1>9. \A n \in Mappers : fromChild'[<< "map", n >>] \in Seq(Real)
  <2>1. fromChild'[w] \in Seq(Real)
    <3>1. word # NotAlpha => Append(fromChild[w], word) \in Seq(Real)
      BY <1>4, <1>7
    <3>2. QED
      BY <1>2, <1>3, <1>4, <3>1
  <2>2. \A v \in Workers \ {w} : fromChild'[v] = fromChild[v]
    BY <1>2, <1>3
  <2>3. QED
    BY <2>1, <2>2, RealParts, WorkerIs
<1>10. QED
  BY <1>2, <1>8, <1>9, RealParts, RealNext

LEMMA PushBackReal ==
  ASSUME TypeOK, StoreInv, RealInv, NEW m \in Mappers, PushBack(m) PROVE RealInv'
<1>1. PICK w, x, slot : /\ w = << "map", m >> /\ x = Head(fromChild[w])
                        /\ slot = Hash[x] % conf.reduce_num
  OBVIOUS
<1>2. /\ x \in Words /\ slot \in Reducers /\ fromChild[w] # << >>
      /\ fromChild' = [fromChild EXCEPT ![w] = Tail(@)]
      /\ store'[slot] = Stored(store[slot], x)
      /\ \A r \in Reducers \ {slot} : store'[r] = store[r]
      /\ UNCHANGED << input, ring, toChild >>
  BY <1>1, PushBackEffect DEF PushBack, Receiver, job
<1>3. fromChild[w] \in Seq(Real) /\ w \in Workers /\ DOMAIN fromChild = Workers
  BY <1>1, RealParts, WorkerIs DEF TypeOK
<1>4. x \in Real /\ Tail(fromChild[w]) \in Seq(Real)
  BY <1>1, <1>2, <1>3
<1>5. \A n \in Mappers : fromChild'[<< "map", n >>] \in Seq(Real)
  BY <1>2, <1>3, <1>4, RealParts, WorkerIs
<1>6. ASSUME NEW k \in DOMAIN store'[slot] PROVE store'[slot][k].word \in Real
  <2>1. \/ store'[slot][k].word = x
        \/ k \in DOMAIN store[slot] /\ store'[slot][k].word = store[slot][k].word
    <3>1. store[slot] \in Seq(Key) /\ Distinct(store[slot])
      BY <1>2, StoreType DEF StoreInv, GoodKeys
    <3>2. QED
      BY <1>2, <1>6, <3>1, StoredFacts
  <2>2. QED
    BY <1>2, <1>4, <2>1, RealParts
<1>7. \A r \in Reducers : \A k \in DOMAIN store'[r] : store'[r][k].word \in Real
  BY <1>2, <1>6, RealParts
<1>8. QED
  BY <1>2, <1>5, <1>7, RealParts, RealNext

LEMMA SortReal == ASSUME TypeOK, StoreInv, RealInv, NEW r \in Reducers, Sort(r) PROVE RealInv'
<1>1. UNCHANGED << input, ring, toChild, fromChild >>
  BY DEF Sort, Thread, job
<1>2. store[r] \in Seq(Key) /\ Distinct(store[r])
  BY StoreType DEF StoreInv, GoodKeys
<1>3. \A k \in DOMAIN store'[r] : \E l \in DOMAIN store[r] : store'[r][k] = store[r][l]
  BY <1>2, SortEffect, SortedFacts
<1>4. \A s \in Reducers : \A k \in DOMAIN store'[s] : store'[s][k].word \in Real
  BY <1>3, SortEffect, RealParts
<1>5. QED
  BY <1>1, <1>4, RealParts, RealNext

LEMMA NextRealInv == TypeOK /\ StoreInv /\ RealInv /\ [Next]_vars => RealInv'
<1> SUFFICES ASSUME TypeOK, StoreInv, RealInv, [Next]_vars PROVE RealInv'
  OBVIOUS
<1>1. /\ DOMAIN toChild = Workers /\ DOMAIN fromChild = Workers
  BY DEF TypeOK
<1>2. ASSUME UNCHANGED vars PROVE RealInv'
  BY <1>2, RealStays DEF vars, job, shuffle
<1>3. ASSUME NEW w \in Workers, RunStep(w) \/ GiveUp(w) \/ UseDeleted(w),
             ~ (\E m \in Mappers : FeedLine(m) \/ FeedEnd(m)), ~ (\E r \in Reducers : Sort(r))
      PROVE  RealInv'
  <2>1. ASSUME NEW r, w = << "reduce", r >>, FeedTask(r) PROVE RealInv'
    <3>1. \A m \in Mappers : UNCHANGED toChild[<< "map", m >>]
      BY <1>1, <2>1, WorkerIs DEF FeedTask
    <3>2. UNCHANGED << input, ring, fromChild, store >>
      BY <2>1 DEF FeedTask, Thread, job
    <3>3. QED
      BY <3>1, <3>2, RealStays
  <2>2. CASE ~ (w[1] = "reduce" /\ FeedTask(w[2]))
    <3>1. UNCHANGED << input, ring, toChild, fromChild, store >>
      BY <1>3, <2>2, WorkerKinds DEF RunStep, GiveUp, UseDeleted, WriteKills, Fork,
         JoinReceiver, NoMoreTasks, ReadNoKey, Crash, Thread, job, shuffle
    <3>2. QED
      BY <3>1, RealStays
  <2>3. QED
    BY <2>1, <2>2, WorkerKinds
<1>4. ASSUME NEW w \in Workers, ChildStep(w) \/ ChildDies(w), ~ (\E m \in Mappers : MapWord(m))
      PROVE  RealInv'
  <2>1. UNCHANGED << input, ring, store >>
    BY <1>4 DEF ChildDies, ChildStep, MapWord, MapChildEnds, ReduceLine, ReduceChildEnds, Child,
       job, shuffle
  <2>2. \A m \in Mappers : UNCHANGED << toChild[<< "map", m >>], fromChild[<< "map", m >>] >>
    BY <1>1, <1>4, WorkerIs, WorkerKinds DEF ChildDies, ChildStep, MapChildEnds, ReduceLine,
       ReduceChildEnds
  <2>3. QED
    BY <2>1, <2>2, RealStays
<1>5. ASSUME NEW w \in Workers, ReceiverStep(w), ~ (\E m \in Mappers : PushBack(m)) PROVE RealInv'
  <2>1. UNCHANGED << input, ring, toChild, store >>
    BY <1>5, WorkerKinds DEF ReceiverStep, DivideByReduceNum, MapReceiverEnds, AppendLine,
       DropLine, ReduceReceiverEnds, Receiver, Crash, job, shuffle
  <2>2. \A m \in Mappers : UNCHANGED fromChild[<< "map", m >>]
    BY <1>1, <1>5, WorkerIs, WorkerKinds DEF ReceiverStep, DivideByReduceNum, MapReceiverEnds,
       AppendLine, DropLine, ReduceReceiverEnds, Crash
  <2>3. QED
    BY <2>1, <2>2, RealStays
<1>6. QED
  BY <1>2, <1>3, <1>4, <1>5, MainReal, FeedReal, MapWordReal, PushBackReal, SortReal
  DEF Next, Poll, Terminated

-----------------------------------------------------------------------------
(* Every step of a job is a step of MapReduce or none *)

RefinementInv ==
  IInv /\ TypeOK /\ CInv /\ StoreInv /\ WordInv /\ ReducerInv /\ RealInv

LEMMA InitRefinementInv == Init => RefinementInv
BY InitIInv, InitTypes, InitCInv, InitStoreInv, InitWordInv, InitReducerInv, InitRealInv
   DEF RefinementInv

LEMMA NextRefinementInv == RefinementInv /\ [Next]_vars => RefinementInv'
<1> SUFFICES ASSUME RefinementInv, [Next]_vars PROVE RefinementInv'
  OBVIOUS
<1>1. IInv' /\ TypeOK'
  BY NextIInv, NextTypes DEF RefinementInv
<1>2. CInv' /\ StoreInv' /\ WordInv' /\ RealInv'
  BY NextCInv, NextStoreInv, NextWordInv, NextRealInv DEF RefinementInv
<1>3. ReducerInv'
  BY <1>1, NextReducerInv DEF RefinementInv
<1>4. QED
  BY <1>1, <1>2, <1>3 DEF RefinementInv

(* What the operators of MapReduce say here                                *)
LEMMA AbstractAlike == ASSUME NEW word \in Words PROVE Abstract!Alike(word) = Alike(word)
BY DEF Abstract!Alike, Alike

LEMMA TotalIs ==
  ASSUME NEW word \in Words PROVE Abstract!Total(word) = Occurrences(Alike(word))
<1>1. \A l : Abstract!Places(word, l) = Places(Alike(word), l)
  BY AbstractAlike DEF Abstract!Places, Places
<1>2. UNION { Abstract!Places(word, l) : l \in DOMAIN input }
      = UNION { Places(Alike(word), l) : l \in DOMAIN input }
  BY <1>1
<1>3. QED
  BY <1>2 DEF Abstract!Total, Occurrences, Abstract!Cardinality, Cardinality

LEMMA KeysKept ==
  ASSUME UNCHANGED conf
  PROVE  [w \in Words |-> KeyOf(w)]' = [w \in Words |-> KeyOf(w)]
BY DEF KeyOf, Slot

(* What Lost depends on                                                    *)
LEMMA LostKept ==
  ASSUME gaveUp' = {} <=> gaveUp = {}, \A w \in Workers : NoChild(w)' <=> NoChild(w),
         \A r \in Reducers : LinesLost(r)' <=> LinesLost(r)
  PROVE  Lost' = Lost
<1>1. Lost' <=> Lost
  BY DEF Lost
<1>2. Lost \in BOOLEAN /\ Lost' \in BOOLEAN
  BY DEF Lost
<1>3. QED
  BY <1>1, <1>2

LEMMA NoneLost ==
  ASSUME UNCHANGED << gaveUp, child, dropped, recv, buff >> PROVE Lost' = Lost
BY LostKept DEF NoChild, LinesLost

(* What the abstract state depends on                                      *)
LEMMA NothingSeen ==
  ASSUME UNCHANGED << conf, input, files >>, \A w \in Words : Counted(w)' = Counted(w),
         Phase' = Phase, Lost' = Lost
  PROVE  UNCHANGED Abstract!vars
<1>1. [w \in Words |-> KeyOf(w)]' = [w \in Words |-> KeyOf(w)]
  BY KeysKept
<1>2. [w \in Words |-> Counted(w)]' = [w \in Words |-> Counted(w)]
  OBVIOUS
<1>3. QED
  BY <1>1, <1>2 DEF Abstract!vars, Abstract!job

(* What a step leaves alone that does not count and does not write         *)
LEMMA DataKept ==
  ASSUME UNCHANGED << conf, input, store >>
  PROVE  /\ [v \in Words |-> KeyOf(v)]' = [v \in Words |-> KeyOf(v)]
         /\ [v \in Words |-> Counted(v)]' = [v \in Words |-> Counted(v)]
         /\ \A v \in Words : Counted(v)' = Counted(v)
         /\ UNCHANGED Abstract!job
<1>1. [v \in Words |-> KeyOf(v)]' = [v \in Words |-> KeyOf(v)]
  BY KeysKept
<1>2. \A v \in Words : Counted(v)' = Counted(v)
  BY CountedKept
<1>3. QED
  BY <1>1, <1>2 DEF Abstract!job

(* The job stops.                                                          *)
LEMMA Stops ==
  ASSUME UNCHANGED << conf, input, files, store >>, Lost' = Lost, Phase \in {"map", "reduce"},
         Phase' = "stopped"
  PROVE  Abstract!Next
<1>1. Abstract!Stop
  BY DataKept DEF Abstract!Stop
<1>2. QED
  BY <1>1 DEF Abstract!Next

(* Something is lost.                                                      *)
LEMMA Loses ==
  ASSUME UNCHANGED << conf, input, files, store, pc, ret >>, Lost', Lost \/ Phase \in {"map", "reduce"}
  PROVE  Abstract!Next \/ UNCHANGED Abstract!vars
<1>1. Phase' = Phase /\ Lost' = TRUE
  BY DEF Phase, Lost
<1>2. CASE Lost
  <2>1. Lost' = Lost
    BY <1>1, <1>2 DEF Lost
  <2>2. QED
    BY <1>1, <2>1, DataKept, NothingSeen
<1>3. CASE Phase \in {"map", "reduce"}
  <2>1. Abstract!Lose
    BY <1>1, <1>3, DataKept DEF Abstract!Lose
  <2>2. QED
    BY <2>1 DEF Abstract!Next
<1>4. QED
  BY <1>2, <1>3

(* Where the job is when a worker is                                       *)
LEMMA WorkerPhase ==
  ASSUME IInv, TypeOK, CInv, Alive, NEW w \in Workers, ~ Quiet(w)
  PROVE  /\ Phase \in {"map", "reduce"} /\ ret # "ok"
         /\ w[1] = "reduce" => Phase = "reduce"
<1>1. pc \in {"init", "open", "startMaps", "startReduces", "delete", "return"}
  BY DEF Alive, TypeOK
<1>2. CASE pc \in {"init", "open", "startMaps", "startReduces"}
  <2>1. ret = "none" /\ pc \in {"startMaps", "startReduces"}
    BY <1>2 DEF IInv, ReturnInv, StartInv, Quiet
  <2>2. w[1] = "reduce" => pc = "startReduces"
    BY <2>1 DEF IInv, StartInv, Quiet
  <2>3. QED
    BY <1>2, <2>1, <2>2 DEF Phase
<1>3. CASE pc \in {"delete", "return"}
  <2>1. ret \in {"noMap", "noReduce"}
    BY <1>3 DEF IInv, ReturnInv
  <2>2. ret = "noMap" => w[1] # "reduce"
    BY WorkerKinds DEF CInv, ControlInv, Quiet
  <2>3. QED
    BY <1>3, <2>1, <2>2 DEF Phase
<1>4. QED
  BY <1>1, <1>2, <1>3

(* The job crashes.                                                        *)
LEMMA CrashRefines ==
  ASSUME TypeOK, Crash, Alive, ret # "ok"
  PROVE  Abstract!Next
<1>1. /\ UNCHANGED << conf, input, files, store, gaveUp, child, dropped, recv, buff, ret >>
      /\ pc' = "crashed"
  BY DEF Crash, job, shuffle, output
<1>2. Phase \in {"map", "reduce"} /\ Phase' = "stopped"
  BY <1>1 DEF Phase, Alive
<1>3. Lost' = Lost
  BY <1>1, NoneLost
<1>4. QED
  BY <1>1, <1>2, <1>3, Stops

LEMMA InitRefines == Init => Abstract!Init
<1> SUFFICES ASSUME Init PROVE Abstract!Init
  OBVIOUS
<1>1. TypeOK
  BY InitTypes
<1>2. [w \in Words |-> KeyOf(w)] \in [Words -> Nat \X Nat]
  <2>1. ASSUME NEW w \in Words PROVE KeyOf(w) \in Nat \X Nat
    <3>1. Slot(w) \in Nat
      <4>1. conf.reduce_num \in Nat /\ Hash[w] \in Nat
        BY <1>1, DealtTo, WordsAssumption
      <4>2. QED
        BY <4>1 DEF Slot
    <3>2. Sign[w] \in Nat
      BY WordsAssumption
    <3>3. QED
      BY <3>1, <3>2 DEF KeyOf
  <2>2. QED
    BY <2>1
<1>3. OldFiles \in [Reducers -> Seq(Abstract!Results)]
  BY FilesAssumption DEF Abstract!Results
<1>4. Phase = "map" /\ files = OldFiles /\ input \in Inputs
  BY DEF Init, Phase
<1>5. Lost = FALSE
  BY WorkerIs DEF Init, Lost, NoChild, LinesLost
<1>6. \A w \in Words : Counted(w) = 0
  <2>1. ASSUME NEW w \in Words PROVE Counted(w) = 0
    <3>1. ASSUME conf.reduce_num # 0 PROVE Counted(w) = 0
      <4>1. Slot(w) \in Reducers
        <5>1. conf.reduce_num > 0
          BY <1>1, <3>1, DealtTo
        <5>2. QED
          BY <1>1, <3>1, <5>1, DealtTo DEF Slot
      <4>2. store[Slot(w)] = << >>
        BY <4>1 DEF Init
      <4>3. CountIn(store[Slot(w)], w) = 0
        BY <4>2, CountNot
      <4>4. QED
        BY <3>1, <4>3 DEF Counted
    <3>2. QED
      BY <3>1 DEF Counted
  <2>2. QED
    BY <2>1
<1>7. [w \in Words |-> Counted(w)] = [w \in Words |-> 0]
  BY <1>6
<1>8. QED
  BY <1>2, <1>3, <1>4, <1>5, <1>7 DEF Abstract!Init

(* push_back_r() counts a word, for all words with its key.                *)
LEMMA PushBackRefines ==
  ASSUME RefinementInv, NEW m \in Mappers, PushBack(m) PROVE Abstract!Next
<1> USE DEF RefinementInv
<1>1. PICK w, x : w = << "map", m >> /\ x = Head(fromChild[w])
  OBVIOUS
<1>2. x \in Words /\ fromChild[w] \in Seq(Words) /\ fromChild[w] # << >>
  BY <1>1, PushBackEffect
<1>3. Phase = "map"
  BY PushPhase
<1>4. /\ UNCHANGED << conf, input, pc, ret, files, gaveUp, child, dropped, buff >>
      /\ recv[w] = "reading" /\ recv' = [recv EXCEPT ![w] = "reading"]
  BY <1>1 DEF PushBack, Receiver, job, mainVars, output
<1>5. ASSUME NEW v \in Words
      PROVE  Counted(v)' = IF KeyOf(v) = KeyOf(x) THEN Counted(v) + 1 ELSE Counted(v)
  <2>1. Counted(v)' = Counted(v) + IF x \in Alike(v) THEN 1 ELSE 0
    BY <1>1, PushBackCounted
  <2>2. x \in Alike(v) <=> KeyOf(v) = KeyOf(x)
    BY <1>2 DEF Alike
  <2>3. Counted(v) \in Nat
    BY CountedType
  <2>4. CASE x \in Alike(v)
    <3>1. Counted(v)' = Counted(v) + 1
      BY <2>1, <2>4, Zenon
    <3>2. QED
      BY <2>2, <2>4, <3>1, Zenon
  <2>5. CASE x \notin Alike(v)
    <3>1. Counted(v)' = Counted(v) + 0
      BY <2>1, <2>5, Zenon
    <3>2. Counted(v) + 0 = Counted(v)
      BY <2>3
    <3>3. QED
      BY <2>2, <2>5, <3>1, <3>2, Zenon
  <2>6. QED
    BY <2>4, <2>5
<1>6. Counted(x) < Abstract!Total(x)
  <2>1. PICK some : some = Alike(x)
    OBVIOUS
  <2>2. Conserved(x, some) /\ x \in some
    BY <1>2, <2>1 DEF WordInv, Alike
  <2>3. << m, 1, 1 >> \in InFrom(some)
    <3>1. 1 \in 1 .. Len(fromChild[w]) /\ fromChild[w][1] = x
      BY <1>1, <1>2
    <3>2. m \in DOMAIN FromChildren /\ 1 \in DOMAIN FromChildren[m] /\ FromChildren[m][1] = << x >>
      BY <1>1, <3>1 DEF FromChildren
    <3>3. 1 \in DOMAIN FromChildren[m][1] /\ FromChildren[m][1][1] = x
      BY <3>2
    <3>4. QED
      BY <2>2, <3>2, <3>3, InIs DEF InFrom
  <2>4. Cardinality(InFrom(some)) # 0
    BY <2>2, <2>3, FS_EmptySet DEF Conserved
  <2>5. /\ Cardinality(InFile(some)) \in Nat /\ Cardinality(InRing(some)) \in Nat
        /\ Cardinality(InTo(some)) \in Nat /\ Cardinality(InFrom(some)) \in Nat
        /\ Counted(x) \in Nat
    BY <1>2, <2>2, Sizes
  <2>6. Counted(x) < Occurrences(some)
    BY <2>2, <2>4, <2>5 DEF Conserved
  <2>7. QED
    BY <1>2, <2>1, <2>6, TotalIs
<1>7. [v \in Words |-> Counted(v)]'
      = [v \in Words |-> IF [u \in Words |-> KeyOf(u)][v] = [u \in Words |-> KeyOf(u)][x]
                         THEN [u \in Words |-> Counted(u)][v] + 1
                         ELSE [u \in Words |-> Counted(u)][v]]
  <2>1. PICK c, k : c = [v \in Words |-> Counted(v)] /\ k = [v \in Words |-> KeyOf(v)]
    OBVIOUS
  <2>2. \A v \in Words : c[v] = Counted(v) /\ k[v] = KeyOf(v)
    BY <2>1
  <2>3. \A v \in Words : Counted(v)' = IF k[v] = k[x] THEN c[v] + 1 ELSE c[v]
    BY <1>2, <1>5, <2>2
  <2>4. [v \in Words |-> Counted(v)]' = [v \in Words |-> IF k[v] = k[x] THEN c[v] + 1 ELSE c[v]]
    BY <2>3
  <2>5. QED
    BY <2>1, <2>4
<1>8. [v \in Words |-> KeyOf(v)]' = [v \in Words |-> KeyOf(v)]
  BY <1>4, KeysKept
<1>9. Phase' = Phase
  BY <1>4 DEF Phase
<1>10. Lost' = Lost
  <2>1. \A r \in Reducers : recv'[<< "reduce", r >>] = recv[<< "reduce", r >>]
    BY <1>1, <1>4, WorkerIs DEF TypeOK
  <2>2. QED
    BY <1>4, <2>1, LostKept DEF NoChild, LinesLost
<1>11. [u \in Words |-> Counted(u)][x] < Abstract!Total(x)
  BY <1>2, <1>6
<1>12. Abstract!CountWord(x)
  BY <1>3, <1>4, <1>7, <1>8, <1>9, <1>10, <1>11 DEF Abstract!CountWord, Abstract!job
<1>13. QED
  BY <1>2, <1>12 DEF Abstract!Next

LEMMA ReducersAreNumbers == Reducers \subseteq Nat
BY SettingsAssumption DEF Reducers

(* Run() goes on with a child or without, or returns.                      *)
LEMMA ForkRefines ==
  ASSUME RefinementInv, NEW w \in Workers, Fork(w) \/ GiveUp(w)
  PROVE  Abstract!Next \/ UNCHANGED Abstract!vars
<1> USE DEF RefinementInv
<1>1. /\ Alive /\ run[w] = "fork"
      /\ UNCHANGED << conf, input, pc, ret, files, store, buff, dropped >>
  BY DEF Fork, GiveUp, Thread, job, mainVars, output, shuffle
<1>2. Phase \in {"map", "reduce"}
  BY <1>1, WorkerPhase DEF Quiet
<1>3. PICK outcome \in {"running", "failed"} : child' = [child EXCEPT ![w] = outcome]
  BY DEF Fork, GiveUp
<1>4. child \in [Workers -> ChildStates] /\ recv \in [Workers -> {"none", "reading", "ended"}]
  BY DEF TypeOK, ChildStates
<1>5. CASE GiveUp(w)
  <2>1. Lost'
    BY <1>5 DEF GiveUp, Lost
  <2>2. QED
    BY <1>1, <1>2, <2>1, Loses
<1>6. CASE Fork(w) /\ outcome = "failed"
  <2>1. NoChild(w)'
    BY <1>3, <1>4, <1>6 DEF NoChild
  <2>2. Lost'
    BY <2>1 DEF Lost
  <2>3. QED
    BY <1>1, <1>2, <2>2, Loses
<1>7. CASE Fork(w) /\ outcome = "running"
  <2>1. recv' = [recv EXCEPT ![w] = "reading"] /\ gaveUp' = gaveUp
    BY <1>7 DEF Fork
  <2>2. child[w] = "none" /\ recv[w] = "none"
    BY <1>1 DEF CInv, QueueInv, IInv, ReceiverInv
  <2>3. ASSUME NEW v \in Workers PROVE NoChild(v)' <=> NoChild(v)
    BY <1>3, <1>4, <1>7, <2>2 DEF NoChild
  <2>4. ASSUME NEW r \in Reducers PROVE LinesLost(r)' <=> LinesLost(r)
    <3>1. << "reduce", r >> \in Workers
      BY WorkerIs
    <3>2. recv'[<< "reduce", r >>] = "ended" <=> recv[<< "reduce", r >>] = "ended"
      BY <1>4, <2>1, <2>2, <3>1
    <3>3. QED
      BY <1>1, <3>2 DEF LinesLost
  <2>5. Lost' = Lost
    BY <2>1, <2>3, <2>4, LostKept
  <2>6. QED
    <3>1. Phase' = Phase /\ \A v \in Words : Counted(v)' = Counted(v)
      BY <1>1, CountedKept DEF Phase
    <3>2. QED
      BY <1>1, <2>5, <3>1, NothingSeen
<1>8. QED
  BY <1>3, <1>5, <1>6, <1>7

(* A child dies: its worker still runs or gave up, for the receiver of one *)
(* that came to its end has seen the end of the child.                     *)
LEMMA ChildDiesRefines ==
  ASSUME RefinementInv, NEW w \in Workers, ChildDies(w)
  PROVE  Abstract!Next \/ UNCHANGED Abstract!vars
<1> USE DEF RefinementInv
<1>1. /\ Alive /\ child[w] = "running" /\ child' = [child EXCEPT ![w] = "died"]
      /\ UNCHANGED << conf, input, pc, ret, files, store >>
  BY DEF ChildDies, Child, job, mainVars, output, shuffle
<1>2. NoChild(w)'
  BY <1>1 DEF NoChild, TypeOK
<1>3. Lost'
  BY <1>2 DEF Lost
<1>4. CASE Quiet(w)
  <2>1. run[w] = "ended"
    BY <1>1, <1>4 DEF Quiet, CInv, QueueInv
  <2>2. w \in gaveUp
    BY <1>1, <2>1 DEF CInv, QueueInv, Unread
  <2>3. Lost
    BY <2>2 DEF Lost
  <2>4. QED
    BY <1>1, <1>3, <2>3, Loses
<1>5. CASE ~ Quiet(w)
  <2>1. Phase \in {"map", "reduce"}
    BY <1>1, <1>5, WorkerPhase
  <2>2. QED
    BY <1>1, <1>3, <2>1, Loses
<1>6. QED
  BY <1>4, <1>5

(* When nothing was lost and all mappers are joined, every word is counted.*)
LEMMA NothingUnderWay ==
  ASSUME RefinementInv, Dealing, round = Len(input) + conf.map_num, Joined("map"),
         \A m \in Mappers : << "map", m >> \notin gaveUp /\ ~ NoChild(<< "map", m >>),
         NEW word \in Words
  PROVE  Counted(word) = Abstract!Total(word)
<1> USE DEF RefinementInv
<1>1. \A i \in 0 .. conf.map_num - 1 : run[<< "map", i >>] = "ended"
  BY DEF Joined, Started
<1>2. ASSUME NEW m \in Mappers
      PROVE  /\ ring[m] = << >> /\ toChild[<< "map", m >>] = << >>
             /\ fromChild[<< "map", m >>] = << >>
  <2>1. PICK w : w = << "map", m >> /\ w \in Workers /\ w[1] = "map" /\ w[2] = m
    <3>1. << "map", m >> \in Workers /\ << "map", m >>[1] = "map" /\ << "map", m >>[2] = m
      BY WorkerIs
    <3>2. QED
      BY <3>1
  <2>2. m \in Nat /\ conf.map_num \in Nat
    BY <2>1, WorkerKinds, DealtTo
  <2>3. CASE m < conf.map_num
    <3>1. run[w] = "ended"
      BY <1>1, <2>1, <2>2, <2>3
    <3>2. w \notin gaveUp /\ ~ NoChild(w)
      BY <2>1
    <3>3. ring[m] = << >>
      BY <2>1, <3>1, <3>2 DEF CInv, RingInv, RingOf
    <3>4. recv[w] = "ended" /\ child[w] = "ended"
      BY <2>1, <3>1, <3>2 DEF CInv, QueueInv, Unread, NoChild
    <3>5. toChild[w] = << >> /\ fromChild[w] = << >>
      BY <2>1, <3>4 DEF CInv, QueueInv
    <3>6. QED
      BY <2>1, <3>3, <3>5
  <2>4. CASE ~ (m < conf.map_num)
    <3>1. run[w] = "new"
      BY <2>1, <2>4 DEF IInv, StartInv, Started
    <3>2. ring[m] = << >>
      <4>1. m >= conf.map_num
        BY <2>2, <2>4
      <4>2. QED
        BY <4>1 DEF CInv, RingInv, RingOf
    <3>3. toChild[w] = << >> /\ fromChild[w] = << >>
      BY <2>1, <3>1 DEF CInv, QueueInv
    <3>4. QED
      BY <2>1, <3>2, <3>3
  <2>5. QED
    BY <2>3, <2>4
<1>3. ASSUME NEW m \in Mappers
      PROVE  DOMAIN InRings[m] = {} /\ DOMAIN ToChildren[m] = {} /\ DOMAIN FromChildren[m] = {}
  <2>1. 1 .. Len(<< >>) = {} /\ DOMAIN << >> = {}
    OBVIOUS
  <2>2. /\ DOMAIN InRings[m] = 1 .. Len(ring[m]) /\ ToChildren[m] = toChild[<< "map", m >>]
        /\ DOMAIN FromChildren[m] = 1 .. Len(fromChild[<< "map", m >>])
    BY DEF InRings, ToChildren, FromChildren
  <2>3. QED
    BY <1>2, <2>1, <2>2
<1>4. /\ DOMAIN InRings = Mappers /\ DOMAIN ToChildren = Mappers
      /\ DOMAIN FromChildren = Mappers
  BY DEF InRings, ToChildren, FromChildren
<1>5. PICK some : some = Alike(word)
  OBVIOUS
<1>6. InRing(some) = {} /\ InTo(some) = {} /\ InFrom(some) = {}
  BY <1>3, <1>4 DEF InRing, InTo, InFrom, In
<1>7. InFile(some) = {}
  <2>1. conf.map_num \in Nat /\ Len(input) \in Nat
    BY DealtTo, FileFacts
  <2>2. 1 .. Len(input) - round = {}
    BY <2>1
  <2>3. QED
    BY <2>2 DEF InFile, In, Undealt
<1>8. Conserved(word, some) /\ Counted(word) \in Nat
  BY <1>5, CountedType DEF WordInv
<1>9. /\ Cardinality(InFile(some)) = 0 /\ Cardinality(InRing(some)) = 0
      /\ Cardinality(InTo(some)) = 0 /\ Cardinality(InFrom(some)) = 0
  BY <1>6, <1>7, FS_EmptySet
<1>10. Counted(word) = Occurrences(some)
  BY <1>8, <1>9 DEF Conserved
<1>11. QED
  BY <1>5, <1>10, TotalIs

LEMMA JoinMapsRefines ==
  ASSUME RefinementInv, JoinMaps PROVE Abstract!Next
<1> USE DEF RefinementInv
<1>1. /\ pc = "startMaps" /\ pc' = "startReduces"
      /\ UNCHANGED << conf, input, ret, files, store, gaveUp, child, dropped, recv, buff >>
  BY DEF JoinMaps, Dealing, Main, shuffle, output
<1>2. ret = "none"
  BY <1>1 DEF IInv, ReturnInv
<1>3. Phase = "map" /\ Phase' = "reduce"
  BY <1>1, <1>2 DEF Phase
<1>4. Lost \/ \A w \in Words : [v \in Words |-> Counted(v)][w] = Abstract!Total(w)
  <2>1. ASSUME ~ Lost, NEW w \in Words PROVE Counted(w) = Abstract!Total(w)
    <3>1. \A m \in Mappers : << "map", m >> \notin gaveUp /\ ~ NoChild(<< "map", m >>)
      BY <2>1, WorkerIs DEF Lost
    <3>2. QED
      BY <3>1, NothingUnderWay DEF JoinMaps
  <2>2. QED
    BY <2>1
<1>5. Lost' = Lost
  BY <1>1, NoneLost
<1>6. Abstract!BeginReduce
  BY <1>1, <1>3, <1>4, <1>5, DataKept DEF Abstract!BeginReduce
<1>7. QED
  BY <1>6 DEF Abstract!Next

(* How many keys of a reducer have gone to its part file                   *)
Done(r) == Len(files[r]) - Len(OldFiles[r])

LEMMA DoneFacts ==
  ASSUME RefinementInv, NEW r \in Reducers
  PROVE  /\ store[r] \in Seq(Key) /\ files[r] \in Seq(Results) /\ buff[r] \in Seq(Results)
         /\ Len(files[r]) \in Nat /\ Len(OldFiles[r]) \in Nat /\ Len(buff[r]) \in Nat
         /\ Len(store[r]) \in Nat /\ DOMAIN store[r] = 1 .. Len(store[r])
         /\ fromChild[<< "reduce", r >>] \in Seq(Results)
         /\ Done(r) \in Nat /\ Done(r) <= Len(store[r])
         /\ Output(OldFiles[r], store[r], files[r], buff[r], dropped[r],
                   fromChild[<< "reduce", r >>])
         /\ GoodKeys(r) /\ StageInv(r) /\ dropped[r] \in Nat
<1> USE DEF RefinementInv
<1>1. OutInv(r) /\ StageInv(r) /\ GoodKeys(r) /\ dropped[r] \in Nat
  BY DEF ReducerInv, StoreInv, TypeOK
<1>2. /\ store[r] \in Seq(Key) /\ files[r] \in Seq(Results) /\ buff[r] \in Seq(Results)
      /\ OldFiles[r] \in Seq(Results) /\ fromChild[<< "reduce", r >>] \in Seq(Results)
  BY <1>1, PrintedType
<1>3. PICK f \in Nat, o \in Nat, b \in Nat, q \in Nat, s \in Nat, g \in Nat :
        f = Len(files[r]) /\ o = Len(OldFiles[r]) /\ b = Len(buff[r]) /\ g = dropped[r]
        /\ q = Len(fromChild[<< "reduce", r >>]) /\ s = Len(store[r])
  <2>1. /\ Len(files[r]) \in Nat /\ Len(OldFiles[r]) \in Nat /\ Len(buff[r]) \in Nat
        /\ Len(fromChild[<< "reduce", r >>]) \in Nat /\ Len(store[r]) \in Nat
    BY <1>2
  <2>2. QED
    BY <1>1, <2>1
<1>4. Output(OldFiles[r], store[r], files[r], buff[r], dropped[r], fromChild[<< "reduce", r >>])
  BY <1>1 DEF OutInv
<1>5. f - o >= 0 /\ f - o + b + g + q <= s
  BY <1>3, <1>4 DEF Output
<1>6. f - o \in Nat /\ f - o <= s
  BY <1>5
<1>7. DOMAIN store[r] = 1 .. Len(store[r])
  BY <1>2
<1>8. QED
  BY <1>1, <1>2, <1>3, <1>4, <1>6, <1>7 DEF Done

LEMMA LastPart ==
  ASSUME NEW S, NEW s \in Seq(S), NEW o \in Nat, NEW d \in Nat, NEW f, f = o + d, f = Len(s)
  PROVE  /\ DOMAIN SubSeq(s, o + 1, f) = 1 .. d
         /\ \A k \in 1 .. d : SubSeq(s, o + 1, f)[k] = s[o + k]
<1>1. CASE d = 0
  <2>1. o + 1 > f
    BY <1>1
  <2>2. SubSeq(s, o + 1, f) = << >>
    BY <2>1
  <2>3. QED
    BY <1>1, <2>2
<1>2. CASE d > 0
  <2>1. o + 1 \in 1 .. Len(s) + 1 /\ f \in o .. Len(s) /\ f - (o + 1) + 1 = d
    BY <1>2
  <2>2. Len(SubSeq(s, o + 1, f)) = d /\ SubSeq(s, o + 1, f) \in Seq(S)
    BY <2>1, SubSeqProperties
  <2>3. \A k \in 1 .. d : SubSeq(s, o + 1, f)[k] = s[o + 1 + k - 1]
    <3>1. \A i \in o + 1 .. f : s[i] \in S
      BY <1>2
    <3>2. \A k \in 1 .. f - (o + 1) + 1 : SubSeq(s, o + 1, f)[k] = s[o + 1 + k - 1]
      <4>1. o + 1 \in Int /\ f \in Int
        OBVIOUS
      <4>2. QED
        BY <3>1, <4>1, SubSeqProperties
    <3>3. QED
      BY <2>1, <3>2
  <2>4. \A k \in 1 .. d : o + 1 + k - 1 = o + k
    OBVIOUS
  <2>5. QED
    BY <2>2, <2>3, <2>4
<1>3. QED
  BY <1>1, <1>2

(* What the job wrote to a part                                            *)
LEMMA NewIs ==
  ASSUME RefinementInv, NEW r \in Reducers
  PROVE  /\ \A k \in DOMAIN Abstract!New(r) : Abstract!New(r)[k].word \in Words
         /\ \A word \in Words :
              (\E k \in DOMAIN Abstract!New(r) : Abstract!New(r)[k].word = word)
              <=> (\E k \in 1 .. Done(r) : store[r][k].word = word)
<1>1. PICK f \in Nat, o \in Nat, d \in Nat :
        f = Len(files[r]) /\ o = Len(OldFiles[r]) /\ d = Done(r) /\ d = f - o
  BY DoneFacts DEF Done
<1>2. PICK file \in Seq(Results) : file = files[r]
  BY DoneFacts
<1>3. Abstract!New(r) = SubSeq(file, o + 1, f)
  BY <1>1, <1>2 DEF Abstract!New
<1>4. /\ DOMAIN SubSeq(file, o + 1, f) = 1 .. d
      /\ \A k \in 1 .. d : SubSeq(file, o + 1, f)[k] = file[o + k]
  <2>1. f = o + d
    BY <1>1
  <2>2. f = Len(file)
    BY <1>1, <1>2
  <2>3. QED
    BY <2>1, <2>2, LastPart
<1>5. PICK new : new = Abstract!New(r)
  OBVIOUS
<1>6. DOMAIN new = 1 .. d /\ \A k \in 1 .. d : new[k] = file[o + k]
  BY <1>3, <1>4, <1>5
<1>7. \A k \in 1 .. d : o + k \in o + 1 .. f
  BY <1>1
<1>8. \A k \in DOMAIN new : new[k].word \in Words
  <2>1. ASSUME NEW i \in o + 1 .. f PROVE file[i].word \in Words
    <3>1. i \in 1 .. Len(file)
      BY <1>1, <1>2
    <3>2. file[i] \in Results
      BY <3>1, Elements
    <3>3. QED
      BY <3>2 DEF Results
  <2>2. QED
    BY <1>6, <1>7, <2>1
<1>9. ASSUME NEW word \in Words
      PROVE  (\E k \in DOMAIN new : new[k].word = word)
             <=> (\E k \in 1 .. d : store[r][k].word = word)
  <2>1. (\E i \in o + 1 .. f : file[i].word = word)
        <=> (\E k \in 1 .. d : store[r][k].word = word)
    <3>1. Output(OldFiles[r], store[r], file, buff[r], dropped[r], fromChild[<< "reduce", r >>])
      BY <1>2, DoneFacts
    <3>2. (\E i \in Len(OldFiles[r]) + 1 .. Len(file) : file[i].word = word)
          <=> (\E k \in 1 .. Len(file) - Len(OldFiles[r]) : store[r][k].word = word)
      BY <3>1 DEF Output
    <3>3. QED
      BY <1>1, <1>2, <3>2
  <2>2. (\E i \in o + 1 .. f : file[i].word = word)
        <=> (\E k \in 1 .. d : file[o + k].word = word)
    <3>1. ASSUME NEW i \in o + 1 .. f PROVE i - o \in 1 .. d /\ o + (i - o) = i
      BY <1>1
    <3>2. QED
      BY <1>7, <3>1
  <2>3. QED
    BY <1>6, <2>1, <2>2
<1>10. QED
  BY <1>1, <1>5, <1>8, <1>9

(* The keys written are those that went to the files.                      *)
LEMMA WrittenIs ==
  ASSUME RefinementInv, NEW word \in Words
  PROVE  Abstract!IsWritten(word) <=>
           \E r \in Reducers : \E k \in 1 .. Done(r) : KeyOf(store[r][k].word) = KeyOf(word)
<1>1. PICK key : key = [w \in Words |-> KeyOf(w)]
  OBVIOUS
<1>2. \A w \in Words : key[w] = KeyOf(w)
  BY <1>1
<1>3. Abstract!IsWritten(word) <=>
        \E r \in Reducers : \E k \in DOMAIN Abstract!New(r) :
          key[Abstract!New(r)[k].word] = key[word]
  BY <1>1 DEF Abstract!IsWritten
<1>4. ASSUME NEW r \in Reducers
      PROVE  (\E k \in DOMAIN Abstract!New(r) : key[Abstract!New(r)[k].word] = key[word])
             <=> (\E k \in 1 .. Done(r) : KeyOf(store[r][k].word) = KeyOf(word))
  <2>1. PICK new, keys, n : new = Abstract!New(r) /\ keys = store[r] /\ n = Done(r)
    OBVIOUS
  <2>2. /\ \A k \in DOMAIN new : new[k].word \in Words
        /\ \A w \in Words : (\E k \in DOMAIN new : new[k].word = w)
                            <=> (\E k \in 1 .. n : keys[k].word = w)
    BY <2>1, NewIs
  <2>3. ASSUME NEW k \in 1 .. n PROVE keys[k].word \in Words
    <3>1. PICK d \in Nat, l \in Nat : d = Done(r) /\ l = Len(store[r]) /\ d <= l
      BY DoneFacts
    <3>2. k \in DOMAIN store[r]
      <4>1. DOMAIN store[r] = 1 .. l /\ k \in 1 .. d
        BY <2>1, <3>1, DoneFacts
      <4>2. QED
        BY <3>1, <4>1
    <3>3. store[r] \in Seq(Key)
      BY DoneFacts
    <3>4. QED
      BY <2>1, <3>2, <3>3, KeyFacts
  <2>4. (\E k \in DOMAIN new : key[new[k].word] = key[word])
        <=> (\E k \in 1 .. n : KeyOf(keys[k].word) = KeyOf(word))
    <3>1. ASSUME NEW k \in DOMAIN new, key[new[k].word] = key[word]
          PROVE  \E l \in 1 .. n : KeyOf(keys[l].word) = KeyOf(word)
      <4>1. new[k].word \in Words
        BY <2>2
      <4>2. PICK l \in 1 .. n : keys[l].word = new[k].word
        BY <2>2, <4>1
      <4>3. QED
        BY <1>2, <3>1, <4>1, <4>2
    <3>2. ASSUME NEW l \in 1 .. n, KeyOf(keys[l].word) = KeyOf(word)
          PROVE  \E k \in DOMAIN new : key[new[k].word] = key[word]
      <4>1. keys[l].word \in Words
        BY <2>3
      <4>2. PICK k \in DOMAIN new : new[k].word = keys[l].word
        BY <2>2, <4>1
      <4>3. QED
        BY <1>2, <3>2, <4>1, <4>2
    <3>3. QED
      BY <3>1, <3>2
  <2>5. QED
    BY <2>1, <2>4
<1>5. QED
  BY <1>3, <1>4

(* A key that has not gone to the file is counted and not written.         *)
LEMMA WaitingIs ==
  ASSUME RefinementInv, NEW r \in Reducers, NEW k \in DOMAIN store[r], k > Done(r)
  PROVE  /\ store[r][k].word \in Abstract!Unwritten
         /\ Counted(store[r][k].word) = store[r][k].count
<1>1. PICK word : word = store[r][k].word
  OBVIOUS
<1>2. /\ word \in Words /\ store[r][k].count \in Nat \ {0} /\ k \in Nat
      /\ conf.reduce_num # 0 /\ Slot(word) = r /\ Distinct(store[r])
  <2>1. GoodKeys(r) /\ store[r] \in Seq(Key)
    BY DoneFacts
  <2>2. store[r][k].word \in Words /\ store[r][k].count \in Nat \ {0} /\ k \in Nat
    BY <2>1, KeyFacts
  <2>3. conf.reduce_num > 0 /\ Hash[word] % conf.reduce_num = r /\ Distinct(store[r])
    BY <1>1, <2>1 DEF GoodKeys, KeysOf
  <2>4. conf.reduce_num # 0
    BY <2>3, DealtTo DEF RefinementInv
  <2>5. QED
    BY <1>1, <2>2, <2>3, <2>4 DEF Slot
<1>3. Counted(word) = store[r][k].count
  <2>1. CountIn(store[r], word) = store[r][k].count
    BY <1>1, <1>2, CountAt
  <2>2. QED
    BY <1>2, <2>1 DEF Counted
<1>4. ~ Abstract!IsWritten(word)
  <2>1. ASSUME NEW s \in Reducers, NEW l \in 1 .. Done(s),
               KeyOf(store[s][l].word) = KeyOf(word)
        PROVE  FALSE
    <3>1. l \in DOMAIN store[s] /\ l <= Done(s)
      <4>1. PICK d \in Nat, n \in Nat : d = Done(s) /\ n = Len(store[s]) /\ d <= n
        BY DoneFacts
      <4>2. DOMAIN store[s] = 1 .. n /\ l \in 1 .. d
        BY <4>1, DoneFacts
      <4>3. QED
        BY <4>1, <4>2
    <3>2. Hash[store[s][l].word] % conf.reduce_num = s
      BY <3>1, DoneFacts DEF GoodKeys, KeysOf
    <3>3. Slot(store[s][l].word) = Slot(word) /\ Sign[store[s][l].word] = Sign[word]
      BY <2>1 DEF KeyOf
    <3>4. s = r
      BY <1>2, <3>2, <3>3 DEF Slot
    <3>5. l = k
      BY <1>1, <1>2, <3>1, <3>3, <3>4 DEF Distinct
    <3>6. Done(r) \in Nat
      BY DoneFacts
    <3>7. QED
      BY <1>2, <3>1, <3>4, <3>5, <3>6
  <2>2. QED
    BY <1>2, <2>1, WrittenIs
<1>5. word \in Abstract!Occurring
  <2>1. store[r][k].word \in Real
    BY RealParts DEF RefinementInv
  <2>2. QED
    BY <1>1, <2>1 DEF Real
<1>6. [w \in Words |-> Counted(w)][word] > 0
  BY <1>2, <1>3
<1>7. QED
  BY <1>1, <1>3, <1>4, <1>5, <1>6 DEF Abstract!Unwritten

(* A buffer goes to its part file.                                         *)
LEMMA DumpRefines ==
  ASSUME RefinementInv, NEW r \in Reducers, NEW lines \in Seq(Results), Phase = "reduce",
         \A i \in DOMAIN lines : /\ Done(r) + i \in DOMAIN store[r]
                                 /\ lines[i] = store[r][Done(r) + i],
         UNCHANGED << conf, input, pc, ret, store >>, Lost' = Lost,
         files' = [files EXCEPT ![r] = @ \o Reverse(lines)]
  PROVE  Abstract!Next
<1>0. PICK keys, back : keys = store[r] /\ back = Reverse(lines)
  OBVIOUS
<1>1. PICK n \in Nat, d \in Nat :
        n = Len(lines) /\ d = Done(r) /\ keys = store[r] /\ back = Reverse(lines)
  <2>1. Len(lines) \in Nat
    OBVIOUS
  <2>2. Done(r) \in Nat
    BY DoneFacts
  <2>3. QED
    BY <1>0, <2>1, <2>2
<1>2. /\ DOMAIN lines = 1 .. n /\ back \in Seq(Results) /\ Len(back) = n
      /\ \A i \in 1 .. n : back[i] = lines[n - i + 1]
  <2>1. /\ Reverse(lines) \in Seq(Results) /\ Len(Reverse(lines)) = Len(lines)
        /\ \A i \in 1 .. Len(lines) : Reverse(lines)[i] = lines[Len(lines) - i + 1]
    BY ReverseType
  <2>2. DOMAIN lines = 1 .. Len(lines)
    OBVIOUS
  <2>3. QED
    BY <1>1, <2>1, <2>2
<1>3. DOMAIN back = 1 .. n
  BY <1>2
<1>4. ASSUME NEW i \in 1 .. n
      PROVE  /\ d + (n - i + 1) \in DOMAIN keys /\ back[i] = keys[d + (n - i + 1)]
             /\ back[i].word \in Abstract!Unwritten /\ back[i].word \in Words
             /\ back[i] = [word |-> back[i].word, count |-> Counted(back[i].word)]
  <2>1. n - i + 1 \in 1 .. n /\ d + (n - i + 1) > d
    OBVIOUS
  <2>2. d + (n - i + 1) \in DOMAIN keys /\ back[i] = keys[d + (n - i + 1)]
    BY <1>1, <1>2, <2>1
  <2>3. /\ keys[d + (n - i + 1)].word \in Abstract!Unwritten
        /\ Counted(keys[d + (n - i + 1)].word) = keys[d + (n - i + 1)].count
    BY <1>1, <2>1, <2>2, WaitingIs
  <2>4. keys[d + (n - i + 1)] \in Results
    BY <1>1, <2>2, DoneFacts, KeyFacts
  <2>5. QED
    BY <2>2, <2>3, <2>4 DEF Results
<1>5. PICK batch : batch = [i \in 1 .. n |-> back[i].word]
  OBVIOUS
<1>6. ASSUME NEW i \in 1 .. n, NEW j \in 1 .. n, KeyOf(batch[i]) = KeyOf(batch[j]) PROVE i = j
  <2>1. Distinct(keys)
    BY <1>1, DoneFacts DEF GoodKeys
  <2>2. PICK a, b : a = d + (n - i + 1) /\ b = d + (n - j + 1)
    OBVIOUS
  <2>3. /\ a \in DOMAIN keys /\ b \in DOMAIN keys
        /\ keys[a].word = batch[i] /\ keys[b].word = batch[j]
    BY <1>4, <1>5, <2>2
  <2>4. Sign[batch[i]] = Sign[batch[j]]
    BY <1>6 DEF KeyOf
  <2>5. a = b
    BY <2>1, <2>3, <2>4 DEF Distinct
  <2>6. QED
    BY <2>2, <2>5
<1>7. PICK S : S = { batch[i] : i \in 1 .. n }
  OBVIOUS
<1>8. S \in SUBSET Abstract!Unwritten /\ batch \in [1 .. n -> S] /\ S \subseteq Words
  BY <1>4, <1>5, <1>7
<1>9. Cardinality(S) = n
  <2>1. IsFiniteSet(1 .. n) /\ Cardinality(1 .. n) = n
    <3>1. IsFiniteSet(1 .. n) /\ Cardinality(1 .. n) = IF 1 > n THEN 0 ELSE n - 1 + 1
      BY FS_Interval
    <3>2. QED
      BY <3>1
  <2>2. \A y \in S : \E i \in 1 .. n : batch[i] = y
    BY <1>7
  <2>3. \A i, j \in 1 .. n : batch[i] = batch[j] => i = j
    BY <1>6
  <2>4. QED
    BY <1>8, <2>1, <2>2, <2>3, SameSize
<1>10. batch \in Abstract!SetToSeqs(S)
  <2>1. Abstract!Cardinality(S) = Cardinality(S)
    BY DEF Abstract!Cardinality, Cardinality
  <2>2. \A i, j \in 1 .. n : batch[i] = batch[j] => i = j
    BY <1>6
  <2>3. QED
    BY <1>8, <1>9, <2>1, <2>2 DEF Abstract!SetToSeqs
<1>11. S \in Abstract!OnePerKey
  <2>1. ASSUME NEW v \in S, NEW w \in S, KeyOf(v) = KeyOf(w) PROVE v = w
    BY <1>6, <1>7, <2>1
  <2>2. PICK key : key = [w \in Words |-> KeyOf(w)]
    OBVIOUS
  <2>3. \A v, w \in S : key[v] = key[w] => v = w
    BY <1>8, <2>1, <2>2
  <2>4. QED
    BY <1>8, <2>2, <2>3 DEF Abstract!OnePerKey
<1>12. PICK c : c = [w \in Words |-> Counted(w)]
  OBVIOUS
<1>13. back = [k \in DOMAIN batch |-> [word |-> batch[k], count |-> c[batch[k]]]]
  <2>1. back = [k \in 1 .. n |-> back[k]]
    BY <1>2, <1>3
  <2>2. DOMAIN batch = 1 .. n
    BY <1>5
  <2>3. ASSUME NEW k \in 1 .. n PROVE back[k] = [word |-> batch[k], count |-> c[batch[k]]]
    BY <1>4, <1>5, <1>12
  <2>4. QED
    BY <2>1, <2>2, <2>3
<1>14. files' = [files EXCEPT ![r] = @ \o
                  [k \in DOMAIN batch |-> [word |-> batch[k], count |-> c[batch[k]]]]]
  BY <1>1, <1>13
<1>15. Phase' = Phase
  BY DEF Phase
<1>16. Abstract!Write(r, batch)
  <2>1. /\ UNCHANGED Abstract!job
        /\ [v \in Words |-> Counted(v)]' = [v \in Words |-> Counted(v)]
    BY DataKept
  <2>2. QED
    BY <1>12, <1>14, <1>15, <2>1 DEF Abstract!Write
<1>17. Abstract!WriteSome
  BY <1>10, <1>11, <1>16 DEF Abstract!WriteSome
<1>18. QED
  BY <1>17 DEF Abstract!Next

(* The buffer holds the next keys.                                         *)
LEMMA BufferIsNext ==
  ASSUME NEW keys \in Seq(Key), NEW old \in Seq(Results), NEW file \in Seq(Results),
         NEW lines \in Seq(Results), NEW queue \in Seq(Results), NEW gone \in Nat,
         Output(old, keys, file, lines, gone, queue), NEW i \in DOMAIN lines
  PROVE  LET done == Len(file) - Len(old)
         IN  done + i \in DOMAIN keys /\ lines[i] = keys[done + i]
<1>1. PICK f \in Nat, o \in Nat, c \in Nat, q \in Nat, s \in Nat :
        f = Len(file) /\ o = Len(old) /\ c = Len(lines) /\ q = Len(queue) /\ s = Len(keys)
  OBVIOUS
<1>2. f - o >= 0 /\ f - o + c + gone + q <= s /\ lines[i] = keys[f - o + i]
  BY <1>1 DEF Output
<1>3. DOMAIN lines = 1 .. c /\ DOMAIN keys = 1 .. s
  BY <1>1
<1>4. f - o + i \in 1 .. s
  BY <1>2, <1>3
<1>5. QED
  BY <1>1, <1>2, <1>3, <1>4

(* The receiver of a reducer reads in the reduce phase.                    *)
LEMMA ReceiverPhase ==
  ASSUME RefinementInv, NEW r \in Reducers, NEW to, Receiver(<< "reduce", r >>, to)
  PROVE  /\ Phase = "reduce" /\ recv[<< "reduce", r >>] = "reading"
         /\ UNCHANGED << conf, input, pc, ret, gaveUp, child >>
         /\ recv' = [recv EXCEPT ![<< "reduce", r >>] = to]
<1>1. PICK w : w = << "reduce", r >>
  OBVIOUS
<1>2. /\ Alive /\ recv[w] = "reading" /\ UNCHANGED << conf, input, pc, ret, gaveUp, child >>
      /\ recv' = [recv EXCEPT ![w] = to]
  BY <1>1 DEF Receiver, job, mainVars
<1>3. w \in Workers /\ w[1] = "reduce"
  BY <1>1, WorkerIs
<1>4. ~ Quiet(w)
  BY <1>2, <1>3 DEF RefinementInv, IInv, ReceiverInv, Quiet
<1>5. Phase = "reduce"
  BY <1>2, <1>3, <1>4, WorkerPhase DEF RefinementInv
<1>6. QED
  BY <1>1, <1>2, <1>5

(* A line is put into the buffer, which is dumped when it is full.         *)
LEMMA AppendLineRefines ==
  ASSUME RefinementInv, NEW r \in Reducers, AppendLine(r)
  PROVE  Abstract!Next \/ UNCHANGED Abstract!vars
<1> USE DEF RefinementInv
<1>1. PICK w, from : w = << "reduce", r >> /\ from = fromChild[w]
  OBVIOUS
<1>2. PICK lines : lines = Append(buff[r], Head(from))
  OBVIOUS
<1>3. /\ from # << >> /\ Len(buff[r]) < PIPE_SIZE /\ Receiver(w, "reading")
      /\ UNCHANGED << store, dropped >>
      /\ \/ files' = [files EXCEPT ![r] = @ \o Reverse(lines)]
         \/ files' = files
  BY <1>1, <1>2 DEF AppendLine, Dump
<1>4. /\ Phase = "reduce" /\ recv[w] = "reading"
      /\ UNCHANGED << conf, input, pc, ret, gaveUp, child >>
      /\ recv' = [recv EXCEPT ![w] = "reading"]
  BY <1>1, <1>3, ReceiverPhase
<1>5. dropped[r] = 0
  <2>1. dropped[r] > 0 => Len(buff[r]) = PIPE_SIZE
    BY <1>1, <1>4, DoneFacts DEF StageInv
  <2>2. Len(buff[r]) \in Nat /\ dropped[r] \in Nat /\ PIPE_SIZE \in Nat
    BY DoneFacts, SizeAssumption
  <2>3. QED
    BY <1>3, <2>1, <2>2
<1>6. Lost' = Lost
  <2>1. ASSUME NEW s \in Reducers PROVE LinesLost(s)' <=> LinesLost(s)
    <3>1. PICK v : v = << "reduce", s >> /\ v \in Workers
      BY WorkerIs
    <3>2. recv'[v] = recv[v]
      BY <1>4, <3>1 DEF TypeOK
    <3>3. CASE s = r
      <4>1. recv[v] = "reading"
        BY <1>1, <1>4, <3>1, <3>3
      <4>2. QED
        BY <1>3, <3>1, <3>2, <4>1 DEF LinesLost
    <3>4. CASE s # r
      <4>1. buff'[s] = buff[s]
        BY <3>4 DEF AppendLine, Dump, TypeOK
      <4>2. QED
        BY <1>3, <3>1, <3>2, <4>1 DEF LinesLost
    <3>5. QED
      BY <3>3, <3>4
  <2>2. QED
    BY <1>4, <2>1, LostKept DEF NoChild
<1>7. /\ store[r] \in Seq(Key) /\ files[r] \in Seq(Results) /\ buff[r] \in Seq(Results)
      /\ OldFiles[r] \in Seq(Results) /\ from \in Seq(Results)
      /\ Output(OldFiles[r], store[r], files[r], buff[r], 0, from)
  BY <1>1, <1>5, DoneFacts, FilesAssumption DEF Results
<1>8. Output(OldFiles[r], store[r], files[r], lines, 0, Tail(from))
  BY <1>2, <1>3, <1>7, OutputAppended
<1>9. lines \in Seq(Results)
  <2>1. Head(from) \in Results
    BY <1>3, <1>7
  <2>2. Append(buff[r], Head(from)) \in Seq(Results)
    BY <1>7, <2>1
  <2>3. QED
    BY <1>2, <2>2
<1>10. ASSUME NEW i \in DOMAIN lines
       PROVE  Done(r) + i \in DOMAIN store[r] /\ lines[i] = store[r][Done(r) + i]
  <2>1. Tail(from) \in Seq(Results)
    BY <1>3, <1>7
  <2>2. QED
    BY <1>7, <1>8, <1>9, <2>1, BufferIsNext DEF Done
<1>11. CASE files' = [files EXCEPT ![r] = @ \o Reverse(lines)]
  BY <1>3, <1>4, <1>6, <1>9, <1>10, <1>11, DumpRefines
<1>12. CASE files' = files
  <2>1. Phase' = Phase /\ \A v \in Words : Counted(v)' = Counted(v)
    BY <1>3, <1>4, CountedKept DEF Phase
  <2>2. QED
    BY <1>4, <1>6, <1>12, <2>1, NothingSeen
<1>13. QED
  BY <1>3, <1>11, <1>12

(* A line that does not fit is lost.                                       *)
LEMMA DropLineRefines ==
  ASSUME RefinementInv, NEW r \in Reducers, DropLine(r)
  PROVE  Abstract!Next \/ UNCHANGED Abstract!vars
<1>1. /\ Receiver(<< "reduce", r >>, "reading") /\ dropped' = [dropped EXCEPT ![r] = @ + 1]
      /\ UNCHANGED << store, files >>
  BY DEF DropLine
<1>2. Phase = "reduce" /\ UNCHANGED << conf, input, pc, ret >>
  BY <1>1, ReceiverPhase
<1>3. dropped'[r] > 0
  BY <1>1 DEF RefinementInv, TypeOK
<1>4. Lost'
  BY <1>3 DEF Lost, LinesLost
<1>5. QED
  BY <1>1, <1>2, <1>4, Loses

(* The last dump of a reducer                                              *)
LEMMA ReceiverEndsRefines ==
  ASSUME RefinementInv, NEW r \in Reducers, ReduceReceiverEnds(r)
  PROVE  Abstract!Next \/ UNCHANGED Abstract!vars
<1> USE DEF RefinementInv
<1>1. PICK w : w = << "reduce", r >> /\ w \in Workers
  BY WorkerIs
<1>2. /\ Receiver(w, "ended") /\ Dump(r, buff[r]) /\ UNCHANGED << store, dropped >>
  BY <1>1 DEF ReduceReceiverEnds
<1>3. /\ Phase = "reduce" /\ recv[w] = "reading"
      /\ UNCHANGED << conf, input, pc, ret, gaveUp, child >>
      /\ recv' = [recv EXCEPT ![w] = "ended"]
  BY <1>1, <1>2, ReceiverPhase
<1>4. buff \in [Reducers -> Seq(Results)] /\ recv \in [Workers -> {"none", "reading", "ended"}]
  BY DEF TypeOK
<1>5. ASSUME buff'[r] = << >> PROVE Lost' = Lost
  <2>1. ASSUME NEW s \in Reducers PROVE LinesLost(s)' <=> LinesLost(s)
    <3>1. PICK v : v = << "reduce", s >> /\ v \in Workers
      BY WorkerIs
    <3>2. CASE s = r
      BY <1>1, <1>2, <1>3, <1>5, <3>1, <3>2 DEF LinesLost
    <3>3. CASE s # r
      <4>1. buff'[s] = buff[s] /\ recv'[v] = recv[v]
        <5>1. v # w
          BY <1>1, <3>1, <3>3
        <5>2. recv'[v] = recv[v]
          BY <1>3, <1>4, <3>1, <5>1
        <5>3. buff'[s] = buff[s]
          BY <1>2, <1>4, <3>3 DEF Dump
        <5>4. QED
          BY <5>2, <5>3
      <4>2. QED
        BY <1>2, <3>1, <4>1 DEF LinesLost
    <3>4. QED
      BY <3>2, <3>3
  <2>2. QED
    BY <1>3, <2>1, LostKept DEF NoChild
<1>6. CASE files' = [files EXCEPT ![r] = @ \o Reverse(buff[r])] /\ buff' = [buff EXCEPT ![r] = << >>]
  <2>1. /\ store[r] \in Seq(Key) /\ files[r] \in Seq(Results) /\ buff[r] \in Seq(Results)
        /\ OldFiles[r] \in Seq(Results) /\ fromChild[w] \in Seq(Results) /\ dropped[r] \in Nat
        /\ Output(OldFiles[r], store[r], files[r], buff[r], dropped[r], fromChild[w])
    BY <1>1, DoneFacts, FilesAssumption DEF Results
  <2>2. \A i \in DOMAIN buff[r] : /\ Done(r) + i \in DOMAIN store[r]
                                  /\ buff[r][i] = store[r][Done(r) + i]
    BY <2>1, BufferIsNext DEF Done
  <2>3. Lost' = Lost
    BY <1>4, <1>5, <1>6
  <2>4. QED
    BY <1>2, <1>3, <1>6, <2>1, <2>2, <2>3, DumpRefines
<1>7. CASE files' = files /\ buff' = [buff EXCEPT ![r] = buff[r]]
  <2>1. buff'[r] = buff[r]
    BY <1>4, <1>7
  <2>2. CASE buff[r] = << >>
    <3>1. Lost' = Lost
      BY <1>5, <2>1, <2>2
    <3>2. Phase' = Phase /\ \A v \in Words : Counted(v)' = Counted(v)
      BY <1>2, <1>3, CountedKept DEF Phase
    <3>3. QED
      BY <1>3, <1>7, <3>1, <3>2, NothingSeen
  <2>3. CASE buff[r] # << >>
    <3>1. LinesLost(r)'
      BY <1>1, <1>3, <1>4, <2>1, <2>3 DEF LinesLost
    <3>2. Lost'
      BY <3>1 DEF Lost
    <3>3. QED
      BY <1>2, <1>3, <1>7, <3>2, Loses
  <2>4. QED
    BY <2>2, <2>3
<1>8. QED
  BY <1>2, <1>6, <1>7 DEF Dump

(* When nothing was lost and the reducers are joined, all is written.      *)
LEMMA JoinReducesRefines ==
  ASSUME RefinementInv, JoinReduces PROVE Abstract!Next
<1> USE DEF RefinementInv
<1>1. /\ pc = "startReduces" /\ pc' = "delete" /\ ret' = "ok"
      /\ \A i \in 0 .. conf.reduce_num - 1 : run[<< "reduce", i >>] = "ended"
      /\ UNCHANGED << conf, input, files, store, gaveUp, child, dropped, recv, buff >>
  BY DEF JoinReduces, Joined, Started, Main, shuffle, output
<1>2. ret = "none"
  BY <1>1 DEF IInv, ReturnInv
<1>3. Phase = "reduce" /\ Phase' = "done"
  BY <1>1, <1>2 DEF Phase
<1>4. ASSUME ~ Lost, NEW word \in Words, Counted(word) > 0 PROVE Abstract!IsWritten(word)
  <2>1. conf.reduce_num > 0 /\ conf.reduce_num \in Nat
    <3>1. conf.reduce_num \in Nat
      BY DealtTo
    <3>2. conf.reduce_num # 0
      BY <1>4 DEF Counted
    <3>3. QED
      BY <3>1, <3>2
  <2>2. PICK r \in Reducers : r = Hash[word] % conf.reduce_num /\ r < conf.reduce_num
    BY <2>1, DealtTo
  <2>3. Slot(word) = r
    BY <2>1, <2>2 DEF Slot
  <2>4. PICK w : w = << "reduce", r >> /\ w \in Workers
    BY WorkerIs
  <2>5. run[w] = "ended" /\ w \notin gaveUp /\ ~ NoChild(w) /\ ~ LinesLost(r)
    <3>1. r \in 0 .. conf.reduce_num - 1
      BY <2>1, <2>2, DealtTo, ReducersAreNumbers
    <3>2. QED
      BY <1>1, <1>4, <2>4, <3>1 DEF Lost
  <2>6. recv[w] = "ended" /\ child[w] = "ended"
    BY <2>4, <2>5 DEF CInv, QueueInv, Unread, NoChild
  <2>7. /\ fromChild[w] = << >> /\ buff[r] = << >> /\ dropped[r] = 0
        /\ Printed(r) = Len(store[r])
    <3>1. fromChild[w] = << >> /\ Printed(r) = Len(store[r])
      BY <2>4, <2>6, DoneFacts DEF CInv, QueueInv, StageInv
    <3>2. buff[r] = << >> /\ ~ (dropped[r] > 0)
      BY <2>4, <2>5, <2>6 DEF LinesLost
    <3>3. dropped[r] \in Nat
      BY DoneFacts
    <3>4. QED
      BY <3>1, <3>2, <3>3
  <2>8. Done(r) = Len(store[r])
    <3>1. Len(buff[r]) = 0 /\ Len(fromChild[w]) = 0
      BY <2>7
    <3>2. Printed(r) = Done(r) + 0 + 0 + 0
      BY <2>4, <2>7, <3>1 DEF Printed, Done
    <3>3. PICK d \in Nat : d = Done(r)
      BY DoneFacts
    <3>4. d + 0 + 0 + 0 = d
      OBVIOUS
    <3>5. QED
      BY <2>7, <3>2, <3>3, <3>4
  <2>9. PICK k \in DOMAIN store[r] : Sign[store[r][k].word] = Sign[word]
    <3>1. CountIn(store[r], word) > 0
      BY <1>4, <2>1, <2>3 DEF Counted
    <3>2. QED
      BY <3>1, CountType, DoneFacts
  <2>10. KeyOf(store[r][k].word) = KeyOf(word)
    <3>1. Hash[store[r][k].word] % conf.reduce_num = r
      BY DoneFacts DEF GoodKeys, KeysOf
    <3>2. Slot(store[r][k].word) = r
      BY <2>1, <3>1 DEF Slot
    <3>3. QED
      BY <2>3, <2>9, <3>2 DEF KeyOf
  <2>11. k \in 1 .. Done(r)
    BY <2>8, DoneFacts
  <2>12. QED
    BY <2>10, <2>11, WrittenIs
<1>5. Lost \/ Abstract!Unwritten = {}
  <2>1. ASSUME ~ Lost PROVE Abstract!Unwritten = {}
    <3>1. ASSUME NEW word \in Abstract!Unwritten PROVE FALSE
      <4>1. word \in Words /\ ~ Abstract!IsWritten(word)
        BY DEF Abstract!Unwritten, Abstract!Occurring
      <4>2. [v \in Words |-> Counted(v)][word] > 0
        BY DEF Abstract!Unwritten
      <4>3. Counted(word) > 0
        BY <4>1, <4>2
      <4>4. QED
        BY <1>4, <2>1, <4>1, <4>3
    <3>2. QED
      BY <3>1
  <2>2. QED
    BY <2>1
<1>6. Lost' = Lost
  BY <1>1, NoneLost
<1>7. Abstract!Finish
  BY <1>1, <1>3, <1>5, <1>6, DataKept DEF Abstract!Finish
<1>8. QED
  BY <1>7 DEF Abstract!Next

(* What Lost and the abstract data depend on                               *)
Seen == << conf, input, files, store, gaveUp, child, dropped, recv, buff >>

LEMMA SeenKept ==
  ASSUME UNCHANGED Seen, Phase' = Phase PROVE UNCHANGED Abstract!vars
<1>1. /\ UNCHANGED << conf, input, files, store >>
      /\ UNCHANGED << gaveUp, child, dropped, recv, buff >>
  BY DEF Seen
<1>2. Lost' = Lost
  BY <1>1, NoneLost
<1>3. \A v \in Words : Counted(v)' = Counted(v)
  BY <1>1, CountedKept
<1>4. QED
  BY <1>1, <1>2, <1>3, NothingSeen

(* The rest of what the main thread does is not seen, or stops the job.    *)
LEMMA MainRefines ==
  ASSUME RefinementInv, MainStep \/ MainFails
  PROVE  Abstract!Next \/ UNCHANGED Abstract!vars
<1> USE DEF RefinementInv
<1>1. ASSUME NEW from, NEW to, Main(from, to)
      PROVE  UNCHANGED Seen /\ pc = from /\ pc' = to
  BY <1>1 DEF Main, shuffle, output, Seen
<1>2. pc \in {"init", "open", "startMaps", "startReduces"} => ret = "none"
  BY DEF IInv, ReturnInv
<1>3. CASE Initialize \/ InitFails \/ OpenInput
  <2>1. Phase' = Phase /\ UNCHANGED Seen
    BY <1>1, <1>2, <1>3 DEF Initialize, InitFails, OpenInput, Phase
  <2>2. QED
    BY <2>1, SeenKept
<1>4. CASE OpenFails \/ StartMapFails \/ StartReduceFails
  <2>1. Phase' = Phase /\ UNCHANGED Seen
    BY <1>1, <1>2, <1>4 DEF OpenFails, StartMapFails, StartReduceFails, Quit, Phase
  <2>2. QED
    BY <2>1, SeenKept
<1>5. ASSUME NEW kind, NEW at, NEW first, StartWorker(kind, at, first)
      PROVE  UNCHANGED Abstract!vars
  <2>1. Phase' = Phase /\ UNCHANGED Seen
    BY <1>1, <1>5 DEF StartWorker, Phase
  <2>2. QED
    BY <2>1, SeenKept
<1>6. CASE DealLine \/ SendEnd
  <2>1. Phase' = Phase /\ UNCHANGED Seen
    BY <1>6 DEF DealLine, SendEnd, DispatchMapper, Phase, job, shuffle, output, Seen
  <2>2. QED
    BY <2>1, SeenKept
<1>7. CASE JoinMaps
  BY <1>7, JoinMapsRefines
<1>8. CASE JoinReduces
  BY <1>8, JoinReducesRefines
<1>9. CASE Delete
  <2>1. Phase' = Phase /\ UNCHANGED Seen
    BY <1>1, <1>9 DEF Delete, Phase
  <2>2. QED
    BY <2>1, SeenKept
<1>10. CASE Exit
  <2>1. UNCHANGED Seen /\ pc = "return" /\ pc' = "exited" /\ ret' = ret
    BY <1>1, <1>10 DEF Exit
  <2>2. CASE ret = "ok"
    <3>1. Phase' = Phase
      BY <2>1, <2>2 DEF Phase
    <3>2. QED
      BY <2>1, <3>1, SeenKept
  <2>3. CASE ret # "ok"
    <3>1. Phase \in {"map", "reduce"} /\ Phase' = "stopped"
      BY <2>1, <2>3 DEF Phase
    <3>2. /\ UNCHANGED << conf, input, files, store >>
          /\ UNCHANGED << gaveUp, child, dropped, recv, buff >>
      BY <2>1 DEF Seen
    <3>3. Lost' = Lost
      BY <3>2, NoneLost
    <3>4. QED
      BY <3>1, <3>2, <3>3, Stops
  <2>4. QED
    BY <2>2, <2>3
<1>11. ASSUME NEW kind, NEW at \in {"startMaps", "startReduces"}, StartNobody(kind, at)
       PROVE  Abstract!Next
  <2>1. Alive /\ ret # "ok" /\ Crash
    BY <1>2, <1>11 DEF StartNobody, Alive
  <2>2. QED
    BY <2>1, CrashRefines
<1>12. CASE DivideByMapNum
  <2>1. Alive /\ ret # "ok" /\ Crash
    BY <1>2, <1>12 DEF DivideByMapNum, Dealing, Alive
  <2>2. QED
    BY <2>1, CrashRefines
<1>13. CASE DeleteNobody
  <2>1. Alive /\ Crash /\ ~ inited /\ conf.map_num + conf.reduce_num > 0
    BY <1>13 DEF DeleteNobody, Alive
  <2>2. ret # "ok"
    <3>1. conf.map_num = 0 /\ conf.reduce_num = 0 => ~ (conf.map_num + conf.reduce_num > 0)
      OBVIOUS
    <3>2. QED
      BY <2>1, <3>1 DEF CInv, ControlInv
  <2>3. QED
    BY <2>1, <2>2, CrashRefines
<1>14. QED
  BY <1>3, <1>4, <1>5, <1>6, <1>7, <1>8, <1>9, <1>10, <1>11, <1>12, <1>13
  DEF MainStep, MainFails, StartMap, StartReduce

(* A worker that crashes the process                                       *)
LEMMA WorkerCrashRefines ==
  ASSUME RefinementInv, NEW w \in Workers, Alive, ~ Quiet(w), Crash
  PROVE  Abstract!Next
BY WorkerPhase, CrashRefines DEF RefinementInv

LEMMA WorkerRefines ==
  ASSUME RefinementInv, NEW w \in Workers, RunStep(w) \/ GiveUp(w) \/ UseDeleted(w)
  PROVE  Abstract!Next \/ UNCHANGED Abstract!vars
<1> USE DEF RefinementInv
<1>1. ASSUME NEW from, NEW to, Thread(w, from, to), UNCHANGED << gaveUp, child, recv >>,
             \A v \in Words : Counted(v)' = Counted(v)
      PROVE  UNCHANGED Abstract!vars
  <2>1. UNCHANGED << conf, input, files, dropped, buff >> /\ Phase' = Phase
    BY <1>1 DEF Thread, job, mainVars, output, Phase
  <2>2. Lost' = Lost
    BY <1>1, <2>1, NoneLost
  <2>3. QED
    BY <1>1, <2>1, <2>2, NothingSeen
<1>2. ASSUME NEW from, NEW to, Thread(w, from, to), UNCHANGED << gaveUp, child, recv, store >>
      PROVE  UNCHANGED Abstract!vars
  <2>1. UNCHANGED conf
    BY <1>2 DEF Thread, job
  <2>2. \A v \in Words : Counted(v)' = Counted(v)
    BY <1>2, <2>1, CountedKept
  <2>3. QED
    BY <1>1, <1>2, <2>2
<1>3. CASE Fork(w) \/ GiveUp(w)
  BY <1>3, ForkRefines
<1>4. CASE JoinReceiver(w)
  BY <1>2, <1>4 DEF JoinReceiver, shuffle
<1>5. ASSUME NEW m \in Mappers, w = << "map", m >>, FeedLine(m) \/ FeedEnd(m)
      PROVE  UNCHANGED Abstract!vars
  BY <1>2, <1>5 DEF FeedLine, FeedEnd, shuffle
<1>6. ASSUME NEW r \in Reducers, w = << "reduce", r >>, Sort(r) PROVE UNCHANGED Abstract!vars
  <2>1. \A v \in Words : Counted(v)' = Counted(v)
    BY <1>6, SortWords
  <2>2. QED
    BY <1>1, <1>6, <2>1 DEF Sort
<1>7. ASSUME NEW r \in Reducers, w = << "reduce", r >>, FeedTask(r) \/ NoMoreTasks(r)
      PROVE  UNCHANGED Abstract!vars
  BY <1>2, <1>7 DEF FeedTask, NoMoreTasks, shuffle
<1>8. ASSUME NEW r \in Reducers, w = << "reduce", r >>, ReadNoKey(r) PROVE Abstract!Next
  BY <1>8, WorkerCrashRefines DEF ReadNoKey, Quiet
<1>9. CASE WriteKills(w)
  BY <1>9, WorkerCrashRefines DEF WriteKills, HasLine, Quiet
<1>10. CASE UseDeleted(w)
  BY <1>10, WorkerCrashRefines DEF UseDeleted, Quiet, Alive
<1>11. QED
  BY <1>3, <1>4, <1>5, <1>6, <1>7, <1>8, <1>9, <1>10, WorkerKinds DEF RunStep

LEMMA ChildRefines ==
  ASSUME NEW w \in Workers, ChildStep(w) PROVE UNCHANGED Abstract!vars
<1>1. PICK to \in {"running", "ended"} : Child(w, to)
  <2>1. CASE w[1] = "map"
    BY <2>1, WorkerKinds DEF ChildStep, MapWord, MapChildEnds
  <2>2. CASE w[1] = "reduce"
    BY <2>2, WorkerKinds DEF ChildStep, ReduceLine, ReduceChildEnds
  <2>3. QED
    BY <2>1, <2>2 DEF ChildStep
<1>2. /\ UNCHANGED << conf, input, pc, ret, files, store, gaveUp, recv, dropped, buff >>
      /\ child[w] = "running" /\ child' = [child EXCEPT ![w] = to]
  BY <1>1 DEF Child, job, mainVars, shuffle, output
<1>3. \A v \in Workers : NoChild(v)' <=> NoChild(v)
  BY <1>1, <1>2 DEF NoChild
<1>4. Lost' = Lost
  BY <1>2, <1>3, LostKept DEF LinesLost
<1>5. \A v \in Words : Counted(v)' = Counted(v)
  BY <1>2, CountedKept
<1>6. Phase' = Phase
  BY <1>2 DEF Phase
<1>7. QED
  BY <1>2, <1>4, <1>5, <1>6, NothingSeen

LEMMA ReceiverRefines ==
  ASSUME RefinementInv, NEW w \in Workers, ReceiverStep(w)
  PROVE  Abstract!Next \/ UNCHANGED Abstract!vars
<1> USE DEF RefinementInv
<1>1. ASSUME NEW m \in Mappers, PushBack(m) PROVE Abstract!Next
  BY <1>1, PushBackRefines
<1>2. ASSUME NEW m \in Mappers, w = << "map", m >>, DivideByReduceNum(m) PROVE Abstract!Next
  <2>1. Alive /\ recv[w] = "reading" /\ Crash
    BY <1>2 DEF DivideByReduceNum
  <2>2. ~ Quiet(w)
    BY <2>1 DEF IInv, ReceiverInv, Quiet
  <2>3. QED
    BY <2>1, <2>2, WorkerCrashRefines
<1>3. ASSUME NEW m \in Mappers, MapReceiverEnds(m) PROVE UNCHANGED Abstract!vars
  <2>1. /\ UNCHANGED << conf, input, pc, ret, files, store, gaveUp, child, dropped, buff >>
        /\ recv' = [recv EXCEPT ![<< "map", m >>] = "ended"]
    BY <1>3 DEF MapReceiverEnds, Receiver, job, mainVars, output
  <2>2. \A r \in Reducers : recv'[<< "reduce", r >>] = recv[<< "reduce", r >>]
    BY <2>1, WorkerIs DEF TypeOK
  <2>3. Lost' = Lost
    BY <2>1, <2>2, LostKept DEF NoChild, LinesLost
  <2>4. \A v \in Words : Counted(v)' = Counted(v)
    BY <2>1, CountedKept
  <2>5. Phase' = Phase
    BY <2>1 DEF Phase
  <2>6. QED
    BY <2>1, <2>3, <2>4, <2>5, NothingSeen
<1>4. ASSUME NEW r \in Reducers, AppendLine(r) \/ DropLine(r) \/ ReduceReceiverEnds(r)
      PROVE  Abstract!Next \/ UNCHANGED Abstract!vars
  BY <1>4, AppendLineRefines, DropLineRefines, ReceiverEndsRefines
<1>5. QED
  BY <1>1, <1>2, <1>3, <1>4, WorkerKinds DEF ReceiverStep

LEMMA NextRefines == RefinementInv /\ [Next]_vars => [Abstract!Next]_(Abstract!vars)
<1> SUFFICES ASSUME RefinementInv, [Next]_vars
             PROVE  Abstract!Next \/ UNCHANGED Abstract!vars
  OBVIOUS
<1>1. CASE MainStep \/ MainFails
  BY <1>1, MainRefines
<1>2. ASSUME NEW w \in Workers, RunStep(w) \/ GiveUp(w) \/ UseDeleted(w)
      PROVE  Abstract!Next \/ UNCHANGED Abstract!vars
  BY <1>2, WorkerRefines
<1>3. ASSUME NEW w \in Workers, ChildStep(w) PROVE UNCHANGED Abstract!vars
  BY <1>3, ChildRefines
<1>4. ASSUME NEW w \in Workers, ChildDies(w) PROVE Abstract!Next \/ UNCHANGED Abstract!vars
  BY <1>4, ChildDiesRefines
<1>5. ASSUME NEW w \in Workers, ReceiverStep(w) PROVE Abstract!Next \/ UNCHANGED Abstract!vars
  BY <1>5, ReceiverRefines
<1>6. CASE UNCHANGED vars
  <2>1. UNCHANGED Seen /\ UNCHANGED << pc, ret >>
    BY <1>6 DEF vars, job, mainVars, output, shuffle, Seen
  <2>2. Phase' = Phase
    BY <2>1 DEF Phase
  <2>3. QED
    BY <2>1, <2>2, SeenKept
<1>7. QED
  BY <1>1, <1>2, <1>3, <1>4, <1>5, <1>6 DEF Next, Poll, Terminated

(* End to end: whatever the threads, pipes, children and buffers do, and   *)
(* in whatever order, words are counted under the keys of the shuffle,     *)
(* nothing is written before the mappers are joined, and when run()        *)
(* returns 0 the part files hold, behind what they held before, each key   *)
(* of the words counted once with its count: all keys of the input with    *)
(* all their words, unless a worker or child or line was lost.             *)
THEOREM AJobIsMapReduce == Spec => ImplementsMapReduce
<1>1. Init => RefinementInv /\ Abstract!Init
  BY InitRefinementInv, InitRefines
<1>2. RefinementInv /\ [Next]_vars => RefinementInv'
  BY NextRefinementInv
<1>3. RefinementInv /\ [Next]_vars => [Abstract!Next]_(Abstract!vars)
  BY NextRefines
<1>4. QED
  BY <1>1, <1>2, <1>3, PTL DEF Spec, ImplementsMapReduce, Abstract!Spec

-----------------------------------------------------------------------------
(* Why a job crashes *)

(* The failures that keep words from the shuffle                           *)
MapsFail == \/ \E m \in Mappers : << "map", m >> \in gaveUp
            \/ \E w \in Workers : NoChild(w)

AllCounted ==
  pc = "startReduces" => MapsFail \/ \A v \in Words : Counted(v) = Abstract!Total(v)

CrashInv == RefinementInv /\ AllCounted /\ CrashesHaveACause

LEMMA InitCrashInv == Init => CrashInv
BY InitRefinementInv DEF Init, CrashInv, AllCounted, CrashesHaveACause

(* What failed stays failed.                                               *)
LEMMA FailuresStay ==
  ASSUME CInv, TypeOK, [Next]_vars, MapsFail PROVE MapsFail'
<1>1. CASE \E m \in Mappers : << "map", m >> \in gaveUp
  <2>1. gaveUp \subseteq gaveUp'
    <3>1. CASE UNCHANGED vars
      BY <3>1 DEF vars
    <3>2. CASE MainStep \/ MainFails
      BY <3>2 DEF MainStep, MainFails, Initialize, InitFails, OpenInput, OpenFails, Quit, StartMap,
         StartReduce, StartWorker, StartNobody, StartMapFails, StartReduceFails, DealLine,
         DivideByMapNum, SendEnd, DispatchMapper, JoinMaps, JoinReduces, Delete, DeleteNobody,
         Exit, Main, Crash
    <3>3. ASSUME NEW w \in Workers, RunStep(w) \/ GiveUp(w) \/ UseDeleted(w)
          PROVE  gaveUp \subseteq gaveUp'
      BY <3>3 DEF RunStep, GiveUp, UseDeleted, Fork, JoinReceiver, FeedLine, FeedEnd, Sort,
         FeedTask, NoMoreTasks, ReadNoKey, WriteKills, Crash
    <3>4. ASSUME NEW w \in Workers, ChildStep(w) \/ ChildDies(w) \/ ReceiverStep(w)
          PROVE  gaveUp \subseteq gaveUp'
      BY <3>4 DEF ChildStep, ChildDies, MapWord, MapChildEnds, ReduceLine, ReduceChildEnds, Child,
         ReceiverStep, PushBack, DivideByReduceNum, MapReceiverEnds, AppendLine, DropLine,
         ReduceReceiverEnds, Receiver, Crash
    <3>5. QED
      BY <3>1, <3>2, <3>3, <3>4 DEF Next, Poll, Terminated
  <2>2. QED
    BY <1>1, <2>1 DEF MapsFail
<1>2. ASSUME NEW v \in Workers, NoChild(v) PROVE NoChild(v)'
  <2>1. UNCHANGED child \/ \E w \in Workers : \E to :
          child[w] \in {"none", "running"} /\ child' = [child EXCEPT ![w] = to]
    <3>1. CASE UNCHANGED vars
      BY <3>1 DEF vars
    <3>2. CASE MainStep \/ MainFails
      BY <3>2 DEF MainStep, MainFails, Initialize, InitFails, OpenInput, OpenFails, Quit, StartMap,
         StartReduce, StartWorker, StartNobody, StartMapFails, StartReduceFails, DealLine,
         DivideByMapNum, SendEnd, DispatchMapper, JoinMaps, JoinReduces, Delete, DeleteNobody,
         Exit, Main, Crash
    <3>3. ASSUME NEW w \in Workers, Fork(w) \/ GiveUp(w)
          PROVE  \E to : child[w] = "none" /\ child' = [child EXCEPT ![w] = to]
      BY <3>3 DEF Fork, GiveUp, Thread, CInv, QueueInv
    <3>4. ASSUME NEW w \in Workers, RunStep(w) \/ UseDeleted(w), ~ Fork(w)
          PROVE  UNCHANGED child
      BY <3>4 DEF RunStep, UseDeleted, JoinReceiver, FeedLine, FeedEnd, Sort,
         FeedTask, NoMoreTasks, ReadNoKey, WriteKills, Crash
    <3>5. ASSUME NEW w \in Workers, ChildStep(w) \/ ChildDies(w)
          PROVE  \E to : child[w] = "running" /\ child' = [child EXCEPT ![w] = to]
      <4>1. \A u, to : Child(u, to) => child[u] = "running" /\ child' = [child EXCEPT ![u] = to]
        BY DEF Child
      <4>2. QED
        BY <3>5, <4>1, WorkerKinds DEF ChildStep, ChildDies, MapWord, MapChildEnds, ReduceLine,
           ReduceChildEnds
    <3>6. ASSUME NEW w \in Workers, ReceiverStep(w) PROVE UNCHANGED child
      BY <3>6 DEF ReceiverStep, PushBack, DivideByReduceNum, MapReceiverEnds, AppendLine,
         DropLine, ReduceReceiverEnds, Receiver, Crash
    <3>7. ASSUME NEW w \in Workers, RunStep(w) \/ GiveUp(w) \/ UseDeleted(w)
          PROVE  UNCHANGED child \/ \E to : /\ child[w] \in {"none", "running"}
                                           /\ child' = [child EXCEPT ![w] = to]
      BY <3>3, <3>4, <3>7
    <3>8. ASSUME NEW w \in Workers, ChildStep(w) \/ ChildDies(w) \/ ReceiverStep(w)
          PROVE  UNCHANGED child \/ \E to : /\ child[w] \in {"none", "running"}
                                           /\ child' = [child EXCEPT ![w] = to]
      BY <3>5, <3>6, <3>8
    <3>9. QED
      BY <3>1, <3>2, <3>7, <3>8 DEF Next, Poll, Terminated
  <2>2. child \in [Workers -> ChildStates]
    BY DEF TypeOK, ChildStates
  <2>3. QED
    BY <1>2, <2>1, <2>2 DEF NoChild
<1>3. QED
  BY <1>1, <1>2 DEF MapsFail

(* The reduce phase begins with the join of the mappers.                   *)
LEMMA ReducePhase ==
  ASSUME [Next]_vars, pc' = "startReduces" PROVE pc = "startReduces" \/ JoinMaps
<1>1. CASE UNCHANGED vars
  BY <1>1 DEF vars, mainVars
<1>2. CASE MainStep \/ MainFails
  BY <1>2 DEF MainStep, MainFails, Initialize, InitFails, OpenInput, OpenFails, Quit, StartMap,
     StartReduce, StartWorker, StartNobody, StartMapFails, StartReduceFails, DealLine,
     DivideByMapNum, SendEnd, DispatchMapper, JoinReduces, Delete, DeleteNobody, Exit, Main, Crash
<1>3. ASSUME NEW w \in Workers, RunStep(w) \/ GiveUp(w) \/ UseDeleted(w) PROVE UNCHANGED pc
  BY <1>3 DEF RunStep, GiveUp, UseDeleted, Fork, JoinReceiver, FeedLine, FeedEnd, Sort,
     FeedTask, NoMoreTasks, ReadNoKey, WriteKills, Crash, Thread, mainVars
<1>4. ASSUME NEW w \in Workers, ChildStep(w) \/ ChildDies(w) \/ ReceiverStep(w) PROVE UNCHANGED pc
  BY <1>4 DEF ChildStep, ChildDies, MapWord, MapChildEnds, ReduceLine, ReduceChildEnds, Child,
     ReceiverStep, PushBack, DivideByReduceNum, MapReceiverEnds, AppendLine, DropLine,
     ReduceReceiverEnds, Receiver, Crash, mainVars
<1>5. QED
  BY <1>1, <1>2, <1>3, <1>4 DEF Next, Poll, Terminated

(* In the reduce phase nothing more is counted.                            *)
LEMMA AllCountedStays ==
  ASSUME RefinementInv, AllCounted, [Next]_vars PROVE AllCounted'
<1> SUFFICES ASSUME pc' = "startReduces", ~ MapsFail', NEW v \in Words
             PROVE  (Counted(v) = Abstract!Total(v))'
  BY DEF AllCounted
<1>1. ~ MapsFail
  BY FailuresStay DEF RefinementInv
<1>2. CASE JoinMaps
  <2>1. UNCHANGED << conf, input, store >>
    BY <1>2 DEF JoinMaps, Main, shuffle
  <2>2. \A m \in Mappers : << "map", m >> \notin gaveUp /\ ~ NoChild(<< "map", m >>)
    BY <1>1, WorkerIs DEF MapsFail
  <2>3. Counted(v) = Abstract!Total(v)
    BY <1>2, <2>2, NothingUnderWay DEF JoinMaps
  <2>4. Counted(v)' = Counted(v)
    BY <2>1, CountedKept
  <2>5. Abstract!Total(v)' = Abstract!Total(v)
    <3>1. UNCHANGED Abstract!job
      BY <2>1, DataKept
    <3>2. QED
      BY <3>1 DEF Abstract!job, Abstract!Total, Abstract!Places, Abstract!Alike
  <2>6. QED
    BY <2>3, <2>4, <2>5
<1>3. CASE pc = "startReduces"
  <2>1. Phase = "reduce" /\ Counted(v) = Abstract!Total(v)
    BY <1>1, <1>3 DEF AllCounted, Phase, RefinementInv, IInv, ReturnInv
  <2>2. Abstract!Next \/ UNCHANGED Abstract!vars
    BY NextRefines
  <2>3. ~ (\E w \in Words : Abstract!CountWord(w))
    BY <2>1 DEF Abstract!CountWord
  <2>4. UNCHANGED Abstract!job /\ [w \in Words |-> Counted(w)]' = [w \in Words |-> Counted(w)]
    BY <2>2, <2>3 DEF Abstract!Next, Abstract!vars, Abstract!Lose, Abstract!BeginReduce,
       Abstract!WriteSome, Abstract!Write, Abstract!Finish, Abstract!Stop
  <2>5. Counted(v)' = Counted(v)
    <3>1. PICK c : c = [w \in Words |-> Counted(w)]
      OBVIOUS
    <3>2. c[v] = Counted(v) /\ c = [w \in Words |-> Counted(w)']
      BY <2>4, <3>1
    <3>3. c[v] = Counted(v)'
      BY <3>2
    <3>4. QED
      BY <3>2, <3>3
  <2>6. Abstract!Total(v)' = Abstract!Total(v)
    BY <2>4 DEF Abstract!job, Abstract!Total, Abstract!Places, Abstract!Alike
  <2>7. QED
    BY <2>1, <2>5, <2>6
<1>4. QED
  BY <1>2, <1>3, ReducePhase

(* A word of the input is counted when all are.                            *)
LEMMA OccurringCounts ==
  ASSUME RefinementInv, NEW v \in Abstract!Occurring, Counted(v) = Abstract!Total(v)
  PROVE  conf.reduce_num = 0 \/ store[Slot(v)] # << >>
<1>1. v \in Words
  BY DEF Abstract!Occurring
<1>2. PICK l \in DOMAIN input : \E k \in DOMAIN input[l] : input[l][k] = v
  BY DEF Abstract!Occurring
<1>3. PICK k \in DOMAIN input[l] : input[l][k] = v
  BY <1>2
<1>4. PICK some : some = Alike(v)
  OBVIOUS
<1>5. v \in some
  BY <1>1, <1>4 DEF Alike
<1>6. << l, k >> \in UNION { Places(some, i) : i \in DOMAIN input }
  <2>1. << l, k >> \in Places(some, l)
    BY <1>3, <1>5 DEF Places
  <2>2. QED
    BY <2>1
<1>7. Occurrences(some) # 0
  <2>1. IsFiniteSet(UNION { Places(some, i) : i \in DOMAIN input })
    BY PlacesAreFinite DEF RefinementInv
  <2>2. UNION { Places(some, i) : i \in DOMAIN input } # {}
    BY <1>6
  <2>3. QED
    BY <2>1, <2>2, FS_EmptySet DEF Occurrences
<1>8. Counted(v) # 0
  BY <1>1, <1>4, <1>7, TotalIs
<1>9. CASE conf.reduce_num # 0
  <2>1. CountIn(store[Slot(v)], v) # 0
    BY <1>8, <1>9 DEF Counted
  <2>2. ASSUME store[Slot(v)] = << >> PROVE FALSE
    BY <2>1, <2>2, CountNot
  <2>3. QED
    BY <2>2
<1>10. QED
  BY <1>9

LEMMA CrashHasACause ==
  ASSUME RefinementInv, AllCounted, Alive, Crash, CrashesHaveACause,
         NEW w \in Workers,
         UseDeleted(w) \/ WriteKills(w) \/ (w[1] = "reduce" /\ ReadNoKey(w[2]))
  PROVE  CrashesHaveACause'
<1> USE DEF RefinementInv
<1>1. /\ UNCHANGED << conf, input, inited, ret, child, gaveUp >>
      /\ Abstract!Occurring' = Abstract!Occurring /\ \A v \in Words : Slot(v)' = Slot(v)
  BY DEF Crash, job, Abstract!Occurring, Slot
<1>2. CASE UseDeleted(w)
  <2>1. ret \in {"noMap", "noReduce"}
    BY <1>2 DEF UseDeleted, IInv, ReturnInv, Quiet
  <2>2. QED
    BY <1>1, <2>1 DEF CrashesHaveACause
<1>3. CASE WriteKills(w)
  <2>1. NoChild(w)
    BY <1>3 DEF WriteKills, HasLine, Unread, NoChild, CInv, QueueInv
  <2>2. NoChild(w)'
    BY <1>1, <2>1 DEF NoChild
  <2>3. QED
    BY <2>2 DEF CrashesHaveACause
<1>4. CASE w[1] = "reduce" /\ ReadNoKey(w[2])
  <2>1. PICK r \in Reducers : w = << "reduce", r >> /\ w[1] = "reduce" /\ w[2] = r
    BY <1>4, WorkerKinds
  <2>2. run[w] = "feed" /\ store[r] = << >>
    BY <1>4, <2>1 DEF ReadNoKey
  <2>3. ~ Quiet(w)
    BY <2>2 DEF Quiet
  <2>4. r \in 0 .. conf.reduce_num - 1
    <3>1. r < conf.reduce_num /\ r \in Nat /\ conf.reduce_num \in Nat
      BY <2>1, <2>2, WorkerKinds, DealtTo DEF IInv, StartInv, Started
    <3>2. QED
      BY <3>1
  <2>5. pc = "startReduces" \/ ret \in {"noMap", "noReduce"}
    <3>1. Phase = "reduce" /\ ret # "ok"
      BY <2>1, <2>3, WorkerPhase
    <3>2. QED
      BY <3>1 DEF Phase
  <2>6. CASE ret \in {"noMap", "noReduce"}
    BY <1>1, <2>6 DEF CrashesHaveACause
  <2>7. CASE pc = "startReduces" /\ MapsFail
    <3>1. MapsFail'
      BY <1>1, <2>7 DEF MapsFail, NoChild
    <3>2. QED
      BY <3>1 DEF CrashesHaveACause, MapsFail
  <2>8. CASE pc = "startReduces" /\ ~ MapsFail
    <3>1. ASSUME NEW v \in Abstract!Occurring PROVE Slot(v) # r
      <4>1. v \in Words
        BY DEF Abstract!Occurring
      <4>2. Counted(v) = Abstract!Total(v)
        BY <2>8, <4>1 DEF AllCounted
      <4>3. conf.reduce_num = 0 \/ store[Slot(v)] # << >>
        BY <4>2, OccurringCounts
      <4>4. conf.reduce_num # 0
        BY <2>4, DealtTo
      <4>5. QED
        BY <2>2, <4>3, <4>4
    <3>2. \A v \in Abstract!Occurring' : Slot(v)' # r
      BY <1>1, <3>1 DEF Abstract!Occurring
    <3>3. r \in 0 .. conf'.reduce_num - 1
      BY <1>1, <2>4
    <3>4. QED
      BY <3>2, <3>3 DEF CrashesHaveACause
  <2>9. QED
    BY <2>5, <2>6, <2>7, <2>8
<1>5. QED
  BY <1>2, <1>3, <1>4

LEMMA CrashesHaveACauseStays ==
  ASSUME RefinementInv, AllCounted, CrashesHaveACause, [Next]_vars PROVE CrashesHaveACause'
<1> SUFFICES ASSUME pc' = "crashed" PROVE CrashesHaveACause'
  BY DEF CrashesHaveACause
<1>1. CASE UNCHANGED vars
  <2>1. UNCHANGED << pc, conf, input, inited, ret, child, gaveUp >>
    BY <1>1 DEF vars, job, mainVars
  <2>2. /\ \A w : NoChild(w)' <=> NoChild(w)
        /\ \A w : Slot(w)' = Slot(w)
        /\ Abstract!Occurring' = Abstract!Occurring
    BY <2>1 DEF NoChild, Slot, Abstract!Occurring
  <2>3. QED
    BY <2>1, <2>2 DEF CrashesHaveACause
<1>2. CASE MainStep \/ MainFails
  <2>1. /\ DivideByMapNum \/ DeleteNobody \/ StartNobody("map", "startMaps")
           \/ StartNobody("reduce", "startReduces") \/ DealLine \/ SendEnd
    BY <1>2 DEF MainStep, MainFails, Initialize, InitFails, OpenInput, OpenFails, Quit, StartMap,
       StartReduce, StartWorker, StartMapFails, StartReduceFails, JoinMaps, JoinReduces, Delete,
       Exit, Main
  <2>2. CASE DivideByMapNum \/ DeleteNobody \/ StartNobody("map", "startMaps")
             \/ StartNobody("reduce", "startReduces")
    BY <2>2 DEF DivideByMapNum, DeleteNobody, StartNobody, Crash, job, CrashesHaveACause
  <2>3. CASE DealLine \/ SendEnd
    BY <2>3 DEF DealLine, SendEnd, DispatchMapper, Dealing
  <2>4. QED
    BY <2>1, <2>2, <2>3
<1>3. ASSUME NEW w \in Workers, RunStep(w) \/ GiveUp(w) \/ UseDeleted(w) PROVE CrashesHaveACause'
  <2>1. ASSUME NEW from, NEW to, Thread(w, from, to) PROVE FALSE
    BY <2>1 DEF Thread, mainVars, Alive
  <2>2. UseDeleted(w) \/ WriteKills(w) \/ (w[1] = "reduce" /\ ReadNoKey(w[2]))
    <3>1. CASE w[1] = "map"
      <4>1. PICK m \in Mappers : w = << "map", m >> /\ w[2] = m
        BY <3>1, WorkerKinds
      <4>2. ~ FeedLine(m) /\ ~ FeedEnd(m) /\ ~ Fork(w) /\ ~ GiveUp(w) /\ ~ JoinReceiver(w)
        BY <2>1, <4>1 DEF FeedLine, FeedEnd, Fork, GiveUp, JoinReceiver
      <4>3. QED
        BY <1>3, <3>1, <4>1, <4>2 DEF RunStep
    <3>2. CASE w[1] = "reduce"
      <4>1. PICK r \in Reducers : w = << "reduce", r >> /\ w[2] = r
        BY <3>2, WorkerKinds
      <4>2. /\ ~ Sort(r) /\ ~ FeedTask(r) /\ ~ NoMoreTasks(r)
            /\ ~ Fork(w) /\ ~ GiveUp(w) /\ ~ JoinReceiver(w)
        BY <2>1, <4>1 DEF Sort, FeedTask, NoMoreTasks, Fork, GiveUp, JoinReceiver
      <4>3. QED
        BY <1>3, <3>2, <4>1, <4>2 DEF RunStep
    <3>3. QED
      BY <3>1, <3>2, WorkerKinds
  <2>3. Alive /\ Crash
    BY <2>2 DEF UseDeleted, WriteKills, ReadNoKey, Alive
  <2>4. QED
    BY <2>2, <2>3, CrashHasACause
<1>4. ASSUME NEW w \in Workers, ChildStep(w) \/ ChildDies(w) PROVE CrashesHaveACause'
  <2>1. ASSUME NEW to, Child(w, to) PROVE FALSE
    BY <2>1 DEF Child, mainVars, Alive
  <2>2. QED
    BY <1>4, <2>1, WorkerKinds DEF ChildStep, ChildDies, MapWord, MapChildEnds, ReduceLine,
       ReduceChildEnds
<1>5. ASSUME NEW w \in Workers, ReceiverStep(w) PROVE CrashesHaveACause'
  <2>1. ASSUME NEW v, NEW to, Receiver(v, to) PROVE FALSE
    BY <2>1 DEF Receiver, mainVars, Alive
  <2>2. w[1] = "map" /\ DivideByReduceNum(w[2])
    BY <1>5, <2>1, WorkerKinds DEF ReceiverStep, PushBack, MapReceiverEnds, AppendLine, DropLine,
       ReduceReceiverEnds
  <2>3. QED
    BY <2>2 DEF DivideByReduceNum, Crash, job, CrashesHaveACause
<1>6. QED
  BY <1>1, <1>2, <1>3, <1>4, <1>5 DEF Next, Poll, Terminated

(* A job crashes only for a number that is 0, an init() that failed, a     *)
(* thread that could not be started, a child that there was none of or     *)
(* that died, a mapper that gave up, or a reducer that no word of the      *)
(* input belongs to.                                                       *)
THEOREM EveryCrashHasACause == Spec => []CrashesHaveACause
<1>1. Init => CrashInv
  BY InitCrashInv
<1>2. CrashInv /\ [Next]_vars => CrashInv'
  BY NextRefinementInv, AllCountedStays, CrashesHaveACauseStays DEF CrashInv
<1>3. CrashInv => CrashesHaveACause
  BY DEF CrashInv
<1>4. QED
  BY <1>1, <1>2, <1>3, PTL DEF Spec

=============================================================================
