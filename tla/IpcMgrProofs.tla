---------------------------- MODULE IpcMgrProofs ----------------------------
(***************************************************************************)
(* Proofs about the pipes and the children for any number of mappers and   *)
(* reducers and pipes of any size: an end of file means on either side     *)
(* what the code takes it for, whichever ends a child inherits and         *)
(* whatever fork(), fdopen(), pthread_create() or child fails.             *)
(***************************************************************************)
EXTENDS IpcMgr, TLAPS

ThreadStates == {"new", "start", "forked", "opening", "writing", "joining", "waiting", "done"}
ChildStates  == {"none", "forked", "redirected", "running", "printing", "flushing", "ending",
                 "zombie", "reaped"}
Gone         == {"none", "zombie", "reaped"}
Programs     == {"running", "printing", "flushing", "ending"}

Types ==
  /\ phase \in {"map", "reduce", "exited", "killed"}
  /\ thread \in [Procs -> ThreadStates]
  /\ receiver \in [Procs -> {"new", "reading", "ended"}]
  /\ child \in [Procs -> ChildStates]
  /\ held \in [Ends -> SUBSET (Procs \cup {PARENT})]
  /\ inPipe \in [Procs -> 0 .. Capacity] /\ outPipe \in [Procs -> 0 .. Capacity]
  /\ sent \in [Procs -> Nat] /\ consumed \in [Procs -> Nat]
  /\ printed \in [Procs -> Nat] /\ received \in [Procs -> Nat]
  /\ failed \subseteq Procs

(* No reducer has begun in the map phase.                                  *)
PhaseInv == phase = "map" => \A i \in Reduces : thread[i] = "new"

(* What is still to come while a thread is on its way: its child, its      *)
(* receiver, and the closing of the ends that the parent holds.            *)
ThreadInv(i) ==
  /\ thread[i] \in {"new", "start"} => child[i] = "none"
  /\ thread[i] \in {"new", "start", "forked", "opening"} => receiver[i] = "new"
  /\ ParentUp /\ thread[i] \in {"new", "start"} => \A e \in ChildEnds(i) : PARENT \in held[e]
  /\ ParentUp /\ thread[i] \in {"new", "start", "forked", "opening", "writing"}
       => PARENT \in held[End(i, "p2c", "w")]

(* The ends a child has, from fork() to its death.                         *)
HeldInv(i) ==
  \A e \in Ends :
    /\ child[i] \in Gone => i \notin held[e]
    /\ child[i] = "forked" /\ e \in ChildEnds(i) => i \in held[e]
    /\ child[i] = "redirected" /\ e.proc = i => (i \in held[e] <=> e \in ChildEnds(i))
    /\ child[i] \in Programs => (i \in held[e] <=> e \in ChildEnds(i))

(* Pipes neither lose nor invent a line.                                   *)
CountInv(i) == inPipe[i] + consumed[i] = sent[i] /\ outPipe[i] + received[i] = printed[i]

(* EofMeansChildIsGone and EofMeansInputIsComplete of one child            *)
OutputInv(i) == receiver[i] = "ended" => child[i] \in Gone /\ received[i] = printed[i]

InputInv(i) ==
  i \notin failed /\ child[i] \in {"flushing", "ending", "zombie", "reaped"} =>
    /\ ParentUp => thread[i] \in {"joining", "waiting", "done"}
    /\ consumed[i] = sent[i]

ProcInv(i) == ThreadInv(i) /\ HeldInv(i) /\ CountInv(i) /\ OutputInv(i) /\ InputInv(i)

IInv == Types /\ PhaseInv /\ \A i \in Procs : ProcInv(i)

-----------------------------------------------------------------------------
(* Facts about ends *)

LEMMA EndsOfProc ==
  ASSUME NEW i \in Procs
  PROVE  /\ ChildEnds(i) \subseteq Ends /\ ParentEnds(i) \subseteq Ends
         /\ ChildEnds(i) \cap ParentEnds(i) = {}
         /\ \A e \in Ends : e.proc = i <=> e \in ChildEnds(i) \cup ParentEnds(i)
         /\ \A e \in ChildEnds(i) \cup ParentEnds(i) : e.proc = i
         /\ End(i, "p2c", "w") \in ParentEnds(i) /\ End(i, "c2p", "r") \in ParentEnds(i)
         /\ End(i, "c2p", "w") \in ChildEnds(i) /\ End(i, "p2c", "r") \in ChildEnds(i)
BY DEF ChildEnds, ParentEnds, Ends, End

(* What closing does.                                                      *)
LEMMA CloseEffect ==
  ASSUME Types, NEW p, NEW E, Close(p, E)
  PROVE  /\ held' \in [Ends -> SUBSET (Procs \cup {PARENT})]
         /\ \A e \in Ends : \A q : q \in held'[e] <=> q \in held[e] /\ ~ (q = p /\ e \in E)
BY DEF Close, Types

(* A step that leaves a process and its ends alone keeps its invariant.    *)
LEMMA Untouched ==
  ASSUME NEW j \in Procs, ProcInv(j), ParentUp' => ParentUp,
         thread'[j] = thread[j], receiver'[j] = receiver[j], child'[j] = child[j],
         inPipe'[j] = inPipe[j], outPipe'[j] = outPipe[j], sent'[j] = sent[j],
         consumed'[j] = consumed[j], printed'[j] = printed[j], received'[j] = received[j],
         j \in failed' <=> j \in failed,
         \A e \in Ends : j \in held'[e] <=> j \in held[e],
         ParentUp' => \A e \in Ends : e.proc = j => (PARENT \in held'[e] <=> PARENT \in held[e])
  PROVE  ProcInv(j)'
<1>1. ThreadInv(j)'
  BY EndsOfProc DEF ProcInv, ThreadInv
<1>2. HeldInv(j)'
  BY DEF ProcInv, HeldInv
<1>3. CountInv(j)' /\ OutputInv(j)' /\ InputInv(j)'
  BY DEF ProcInv, CountInv, OutputInv, InputInv
<1>4. QED
  BY <1>1, <1>2, <1>3 DEF ProcInv

LEMMA ParentIsNoChild == \A i \in Procs : i # PARENT
BY ProcsAssumption DEF Procs

-----------------------------------------------------------------------------
(* The initial states *)

LEMMA InitIInv == Init => IInv
<1> SUFFICES ASSUME Init PROVE IInv
  OBVIOUS
<1>1. Types
  BY CapacityAssumption DEF Init, Types, ThreadStates, ChildStates
<1>2. PhaseInv
  BY ProcsAssumption DEF Init, PhaseInv, Procs
<1>3. ASSUME NEW i \in Procs PROVE ProcInv(i)
  <2>1. ThreadInv(i)
    BY EndsOfProc DEF Init, ThreadInv
  <2>2. HeldInv(i)
    BY ParentIsNoChild DEF Init, HeldInv, Programs
  <2>3. CountInv(i) /\ OutputInv(i) /\ InputInv(i)
    BY DEF Init, CountInv, OutputInv, InputInv
  <2>4. QED
    BY <2>1, <2>2, <2>3 DEF ProcInv
<1>4. QED
  BY <1>1, <1>2, <1>3 DEF IInv


-----------------------------------------------------------------------------
(* One process at a time *)

(* The step leaves the other processes and their ends alone.               *)
Only(i) ==
  /\ ParentUp' => ParentUp
  /\ \A j \in Procs \ {i} :
       /\ thread'[j] = thread[j] /\ receiver'[j] = receiver[j] /\ child'[j] = child[j]
       /\ inPipe'[j] = inPipe[j] /\ outPipe'[j] = outPipe[j] /\ sent'[j] = sent[j]
       /\ consumed'[j] = consumed[j] /\ printed'[j] = printed[j]
       /\ received'[j] = received[j]
       /\ j \in failed' <=> j \in failed
       /\ \A e \in Ends : j \in held'[e] <=> j \in held[e]
       /\ ParentUp' => \A e \in Ends : e.proc = j =>
                        (PARENT \in held'[e] <=> PARENT \in held[e])

LEMMA OnlyStep ==
  ASSUME IInv, NEW i \in Procs, Only(i), Types', PhaseInv', ProcInv(i)'
  PROVE  IInv'
<1>1. ASSUME NEW j \in Procs \ {i} PROVE ProcInv(j)'
  BY Untouched DEF IInv, Only
<1>2. QED
  BY <1>1 DEF IInv

LEMMA ThreadEffect ==
  ASSUME IInv, NEW i \in Procs, NEW from \in ThreadStates \ {"new"}, NEW to \in ThreadStates,
         Thread(i, from, to), phase' = phase
  PROVE  /\ ParentUp /\ ParentUp' /\ thread[i] = from
         /\ thread' \in [Procs -> ThreadStates] /\ thread'[i] = to
         /\ \A j \in Procs \ {i} : thread'[j] = thread[j]
         /\ PhaseInv'
<1>1. /\ ParentUp /\ ParentUp' /\ thread[i] = from
      /\ thread' \in [Procs -> ThreadStates] /\ thread'[i] = to
      /\ \A j \in Procs \ {i} : thread'[j] = thread[j]
  BY DEF Thread, ParentUp, IInv, Types
<1>2. PhaseInv'
  BY <1>1 DEF IInv, PhaseInv, Procs
<1>3. QED
  BY <1>1, <1>2

LEMMA ChildEffect ==
  ASSUME IInv, NEW i \in Procs, NEW from, NEW to \in ChildStates, Child(i, from, to)
  PROVE  /\ child[i] = from /\ child' \in [Procs -> ChildStates] /\ child'[i] = to
         /\ \A j \in Procs \ {i} : child'[j] = child[j]
BY DEF Child, IInv, Types

-----------------------------------------------------------------------------
(* The thread of a mapper or reducer *)

(* The child is given the ends that the parent has open, its own two among *)
(* them.                                                                   *)
LEMMA ForkIInv == ASSUME IInv, NEW i \in Procs, Fork(i) PROVE IInv'
<1>1. /\ Thread(i, "start", "forked") /\ child' = [child EXCEPT ![i] = "forked"]
      /\ held' = [e \in Ends |-> IF PARENT \in held[e] THEN held[e] \cup {i} ELSE held[e]]
      /\ UNCHANGED << phase, receiver, inPipe, outPipe, sent, consumed, printed, received, failed >>
  BY DEF Fork, Inherited, data
<1>2. /\ ParentUp /\ ParentUp' /\ thread[i] = "start" /\ thread' \in [Procs -> ThreadStates]
      /\ thread'[i] = "forked" /\ \A j \in Procs \ {i} : thread'[j] = thread[j]
      /\ PhaseInv'
  BY <1>1, ThreadEffect DEF ThreadStates
<1>3. /\ child[i] = "none" /\ child'[i] = "forked" /\ child' \in [Procs -> ChildStates]
      /\ \A j \in Procs \ {i} : child'[j] = child[j]
  BY <1>1, <1>2 DEF IInv, Types, ProcInv, ThreadInv, ChildStates
<1>4. /\ held' \in [Ends -> SUBSET (Procs \cup {PARENT})]
      /\ \A e \in Ends : \A q : q \in held'[e] <=> q \in held[e] \/ (q = i /\ PARENT \in held[e])
  BY <1>1 DEF IInv, Types
<1>5. Types'
  BY <1>1, <1>2, <1>3, <1>4 DEF IInv, Types
<1>6. Only(i)
  BY <1>1, <1>2, <1>3, <1>4, ParentIsNoChild DEF Only
<1>7. ProcInv(i)'
  <2>1. ProcInv(i) /\ receiver'[i] = "new"
    BY <1>1, <1>2 DEF IInv, ProcInv, ThreadInv
  <2>2. ThreadInv(i)'
    BY <1>2, <1>4, <2>1, EndsOfProc DEF ProcInv, ThreadInv
  <2>3. HeldInv(i)'
    BY <1>2, <1>3, <1>4, <2>1, EndsOfProc DEF ProcInv, ThreadInv, HeldInv, Gone, Programs
  <2>4. CountInv(i)' /\ OutputInv(i)' /\ InputInv(i)'
    BY <1>1, <1>3, <2>1 DEF ProcInv, CountInv, OutputInv, InputInv
  <2>5. QED
    BY <2>2, <2>3, <2>4 DEF ProcInv
<1>8. QED
  BY <1>2, <1>5, <1>6, <1>7, OnlyStep

(* A step that gives the thread a new state and lets the parent close ends *)
(* of its pipes.                                                           *)
LEMMA ThreadMoves ==
  ASSUME IInv, NEW i \in Procs, NEW from \in ThreadStates \ {"new"},
         NEW to \in ThreadStates \ {"new", "start"}, Thread(i, from, to),
         NEW E \in SUBSET (ChildEnds(i) \cup ParentEnds(i)), Close(PARENT, E),
         UNCHANGED << phase, child, data, failed >>,
         receiver' \in [Procs -> {"new", "reading", "ended"}],
         \A j \in Procs \ {i} : receiver'[j] = receiver[j],
         receiver'[i] = "ended" => receiver[i] = "ended",
         to \in {"forked", "opening"} => receiver'[i] = "new",
         to \in {"forked", "opening", "writing"} =>
           from \in {"start", "forked", "opening", "writing"} /\ End(i, "p2c", "w") \notin E,
         from \in {"joining", "waiting", "done"} => to \in {"joining", "waiting", "done"}
  PROVE  IInv'
<1>1. /\ ParentUp /\ ParentUp' /\ thread[i] = from /\ thread' \in [Procs -> ThreadStates]
      /\ thread'[i] = to /\ \A j \in Procs \ {i} : thread'[j] = thread[j]
      /\ PhaseInv'
  BY ThreadEffect
<1>2. /\ held' \in [Ends -> SUBSET (Procs \cup {PARENT})]
      /\ \A e \in Ends : \A q : q \in held'[e] <=> q \in held[e] /\ ~ (q = PARENT /\ e \in E)
  BY CloseEffect DEF IInv
<1>3. UNCHANGED << phase, child, inPipe, outPipe, sent, consumed, printed, received, failed >>
  BY DEF data
<1>4. Types'
  BY <1>1, <1>2, <1>3 DEF IInv, Types
<1>5. \A e \in E : e.proc = i
  BY EndsOfProc
<1>6. Only(i)
  BY <1>1, <1>2, <1>3, <1>5, ParentIsNoChild DEF Only
<1>7. ProcInv(i)'
  <2>1. ProcInv(i)
    BY DEF IInv
  <2>2. ThreadInv(i)'
    BY <1>1, <1>2, <1>3, <2>1, EndsOfProc DEF ProcInv, ThreadInv
  <2>3. HeldInv(i)'
    BY <1>2, <1>3, <2>1, ParentIsNoChild DEF ProcInv, HeldInv
  <2>4. CountInv(i)' /\ OutputInv(i)' /\ InputInv(i)'
    BY <1>1, <1>3, <2>1 DEF ProcInv, CountInv, OutputInv, InputInv
  <2>5. QED
    BY <2>2, <2>3, <2>4 DEF ProcInv
<1>8. QED
  BY <1>1, <1>4, <1>6, <1>7, OnlyStep

(* A step that leaves all ends as they are closes none.                    *)
LEMMA ClosesNone == ASSUME Types, held' = held PROVE \A p : Close(p, {})
BY DEF Types, Close

LEMMA SetUpIInv ==
  ASSUME IInv, NEW i \in Procs,
         \/ ForkFails(i) \/ CloseUselessInParent(i) \/ StartReceiver(i) \/ StartReceiverFails(i)
  PROVE  IInv'
<1>1. Types /\ ProcInv(i)
  BY DEF IInv
<1>2. CASE ForkFails(i)
  <2>1. Close(PARENT, {})
    BY <1>1, <1>2, ClosesNone DEF ForkFails
  <2>2. receiver[i] = "new"
    BY <1>1, <1>2 DEF ForkFails, Thread, ProcInv, ThreadInv
  <2>3. QED
    BY <1>1, <1>2, <2>1, <2>2, ThreadMoves DEF ForkFails, Types, ThreadStates
<1>3. CASE CloseUselessInParent(i)
  <2>1. receiver[i] = "new"
    BY <1>1, <1>3 DEF CloseUselessInParent, Thread, ProcInv, ThreadInv
  <2>2. End(i, "p2c", "w") \notin ChildEnds(i)
    BY EndsOfProc
  <2>3. QED
    BY <1>1, <1>3, <2>1, <2>2, ThreadMoves
       DEF CloseUselessInParent, UselessInParent, Types, ThreadStates
<1>4. CASE StartReceiver(i)
  <2>1. Close(PARENT, {})
    BY <1>1, <1>4, ClosesNone DEF StartReceiver
  <2>2. /\ receiver' \in [Procs -> {"new", "reading", "ended"}] /\ receiver'[i] = "reading"
        /\ \A j \in Procs \ {i} : receiver'[j] = receiver[j]
    BY <1>1, <1>4 DEF StartReceiver, Types
  <2>3. QED
    BY <1>4, <2>1, <2>2, ThreadMoves DEF StartReceiver, ThreadStates
<1>5. CASE StartReceiverFails(i)
  <2>1. Close(PARENT, {})
    BY <1>1, <1>5, ClosesNone DEF StartReceiverFails
  <2>2. QED
    BY <1>1, <1>5, <2>1, ThreadMoves DEF StartReceiverFails, Types, ThreadStates
<1>6. QED
  BY <1>2, <1>3, <1>4, <1>5

LEMMA CloseAndJoinIInv ==
  ASSUME IInv, NEW i \in Procs, CloseWrite(i) \/ JoinReceiver(i)
  PROVE  IInv'
<1>1. /\ { End(i, "p2c", "w") } \subseteq ParentEnds(i)
      /\ { End(i, "c2p", "r") } \subseteq ParentEnds(i)
  BY EndsOfProc
<1>2. CASE CloseWrite(i)
  BY <1>1, <1>2, ThreadMoves DEF CloseWrite, IInv, Types, ThreadStates
<1>3. CASE JoinReceiver(i)
  BY <1>1, <1>3, ThreadMoves DEF JoinReceiver, IInv, Types, ThreadStates
<1>4. QED
  BY <1>2, <1>3

LEMMA WriteIInv == ASSUME IInv, NEW i \in Procs, Write(i) PROVE IInv'
<1>1. /\ Thread(i, "writing", "writing") /\ inPipe[i] < Capacity
      /\ inPipe' = [inPipe EXCEPT ![i] = @ + 1] /\ sent' = [sent EXCEPT ![i] = @ + 1]
      /\ UNCHANGED << phase, receiver, child, held, outPipe, consumed, printed, received, failed >>
  BY DEF Write, Bump
<1>2. /\ ParentUp /\ ParentUp' /\ thread[i] = "writing" /\ thread' \in [Procs -> ThreadStates]
      /\ thread'[i] = "writing" /\ \A j \in Procs \ {i} : thread'[j] = thread[j]
      /\ PhaseInv'
  BY <1>1, ThreadEffect DEF ThreadStates
<1>3. /\ inPipe \in [Procs -> 0 .. Capacity] /\ sent \in [Procs -> Nat]
      /\ consumed \in [Procs -> Nat]
      /\ Capacity \in Nat
  BY CapacityAssumption DEF IInv, Types
<1>4. /\ inPipe' \in [Procs -> 0 .. Capacity] /\ sent' \in [Procs -> Nat]
      /\ inPipe'[i] = inPipe[i] + 1 /\ sent'[i] = sent[i] + 1
      /\ \A j \in Procs \ {i} : inPipe'[j] = inPipe[j] /\ sent'[j] = sent[j]
  <2>1. inPipe[i] + 1 \in 0 .. Capacity
    BY <1>1, <1>3
  <2>2. inPipe' \in [Procs -> 0 .. Capacity]
    BY <1>1, <1>3, <2>1
  <2>3. QED
    BY <1>1, <1>3, <2>2
<1>5. Types'
  BY <1>1, <1>2, <1>4 DEF IInv, Types
<1>6. Only(i)
  BY <1>1, <1>2, <1>4 DEF Only
<1>7. ProcInv(i)'
  <2>1. ProcInv(i)
    BY DEF IInv
  <2>2. ThreadInv(i)' /\ HeldInv(i)' /\ OutputInv(i)'
    BY <1>1, <1>2, <2>1 DEF ProcInv, ThreadInv, HeldInv, OutputInv
  <2>3. CountInv(i)'
    BY <1>1, <1>3, <1>4, <2>1 DEF ProcInv, CountInv
  <2>4. InputInv(i)'
    BY <1>1, <1>2, <2>1 DEF ProcInv, InputInv
  <2>5. QED
    BY <2>2, <2>3, <2>4 DEF ProcInv
<1>8. QED
  BY <1>2, <1>5, <1>6, <1>7, OnlyStep

(* The parent goes with all its threads, and only the children are left.   *)
LEMMA ParentGoes ==
  ASSUME IInv, phase' \in {"exited", "killed"}, Close(PARENT, Ends),
         UNCHANGED << thread, receiver, child, data, failed >>
  PROVE  IInv'
<1>1. ~ ParentUp'
  BY DEF ParentUp
<1>2. /\ held' \in [Ends -> SUBSET (Procs \cup {PARENT})]
      /\ \A e \in Ends : \A q : q \in held'[e] <=> q \in held[e] /\ ~ (q = PARENT /\ e \in Ends)
  BY CloseEffect DEF IInv
<1>3. UNCHANGED << thread, receiver, child, inPipe, outPipe, sent, consumed, printed,
                   received, failed >>
  BY DEF data
<1>4. Types' /\ PhaseInv'
  BY <1>2, <1>3 DEF IInv, Types, PhaseInv
<1>5. ASSUME NEW j \in Procs PROVE ProcInv(j)'
  BY <1>1, <1>2, <1>3, Untouched, ParentIsNoChild DEF IInv
<1>6. QED
  BY <1>4, <1>5 DEF IInv

(* A child that is dead is reaped, by its own thread or another.           *)
LEMMA WaitIInv ==
  ASSUME IInv, NEW i \in Procs, WaitPid(i) \/ WaitAnyPid(i)
  PROVE  IInv'
<1>1. /\ Thread(i, "waiting", "done")
      /\ UNCHANGED << phase, receiver, held, inPipe, outPipe, sent, consumed, printed,
                      received, failed >>
      /\ child' = child \/ \E j \in Procs : /\ child[j] \in {"zombie", "reaped"}
                                             /\ child' = [child EXCEPT ![j] = "reaped"]
  BY DEF WaitPid, WaitAnyPid, data
<1>2. /\ ParentUp /\ ParentUp' /\ thread[i] = "waiting" /\ thread' \in [Procs -> ThreadStates]
      /\ thread'[i] = "done" /\ \A j \in Procs \ {i} : thread'[j] = thread[j]
      /\ PhaseInv'
  BY <1>1, ThreadEffect DEF ThreadStates
<1>3. /\ child' \in [Procs -> ChildStates]
      /\ \A j \in Procs : \/ child'[j] = child[j]
                          \/ child[j] \in {"zombie", "reaped"} /\ child'[j] = "reaped"
  BY <1>1 DEF IInv, Types, ChildStates
<1>4. Types'
  BY <1>1, <1>2, <1>3 DEF IInv, Types
<1>5. ASSUME NEW j \in Procs PROVE ProcInv(j)'
  <2>1. ProcInv(j)
    BY DEF IInv
  <2>2. ThreadInv(j)'
    BY <1>1, <1>2, <1>3, <2>1 DEF ProcInv, ThreadInv
  <2>3. HeldInv(j)'
    BY <1>1, <1>3, <2>1 DEF ProcInv, HeldInv, Gone, Programs
  <2>4. CountInv(j)' /\ OutputInv(j)' /\ InputInv(j)'
    BY <1>1, <1>2, <1>3, <2>1 DEF ProcInv, CountInv, OutputInv, InputInv, Gone
  <2>5. QED
    BY <2>2, <2>3, <2>4 DEF ProcInv
<1>6. QED
  BY <1>2, <1>4, <1>5 DEF IInv

LEMMA RunIInv ==
  ASSUME IInv, NEW i \in Procs, Run(i) \/ ForkFails(i) \/ StartReceiverFails(i)
  PROVE  IInv'
BY ForkIInv, SetUpIInv, WriteIInv, CloseAndJoinIInv, WaitIInv, ParentGoes DEF Run, WriteKills

-----------------------------------------------------------------------------
(* Its receiver *)

LEMMA ReceiverIInv == ASSUME IInv, NEW i \in Procs, Receiver(i) PROVE IInv'
<1>1. ProcInv(i) /\ Types
  BY DEF IInv
<1>2. CASE Receive(i)
  <2>1. /\ receiver[i] = "reading" /\ outPipe[i] > 0
        /\ outPipe' = [outPipe EXCEPT ![i] = @ - 1] /\ received' = [received EXCEPT ![i] = @ + 1]
        /\ UNCHANGED << phase, thread, receiver, child, held, inPipe, sent, consumed, printed,
                        failed >>
    BY <1>2 DEF Receive, Bump
  <2>2. /\ outPipe' \in [Procs -> 0 .. Capacity] /\ received' \in [Procs -> Nat]
        /\ outPipe'[i] = outPipe[i] - 1 /\ received'[i] = received[i] + 1
        /\ \A j \in Procs \ {i} : outPipe'[j] = outPipe[j] /\ received'[j] = received[j]
    <3>1. /\ outPipe \in [Procs -> 0 .. Capacity] /\ received \in [Procs -> Nat] /\ Capacity \in Nat
      BY <1>1, CapacityAssumption DEF Types
    <3>2. outPipe[i] - 1 \in 0 .. Capacity
      BY <2>1, <3>1
    <3>3. outPipe' \in [Procs -> 0 .. Capacity]
      BY <2>1, <3>1, <3>2
    <3>4. QED
      BY <2>1, <3>1, <3>3
  <2>3. Types' /\ PhaseInv'
    BY <2>1, <2>2 DEF IInv, Types, PhaseInv
  <2>4. Only(i)
    BY <2>1, <2>2 DEF Only, ParentUp
  <2>5. ThreadInv(i)' /\ HeldInv(i)' /\ OutputInv(i)' /\ InputInv(i)'
    BY <1>1, <2>1 DEF ProcInv, ThreadInv, HeldInv, OutputInv, InputInv, ParentUp
  <2>6. CountInv(i)'
    BY <1>1, <2>1, <2>2 DEF ProcInv, CountInv, Types
  <2>7. QED
    BY <2>3, <2>4, <2>5, <2>6, OnlyStep DEF ProcInv
<1>3. CASE ReceiveEof(i)
  <2>1. /\ receiver[i] = "reading" /\ outPipe[i] = 0 /\ held[End(i, "c2p", "w")] = {}
        /\ receiver' = [receiver EXCEPT ![i] = "ended"]
        /\ UNCHANGED << phase, thread, child, held, inPipe, outPipe, sent, consumed, printed,
                        received, failed >>
    BY <1>3 DEF ReceiveEof, data
  <2>2. /\ receiver' \in [Procs -> {"new", "reading", "ended"}] /\ receiver'[i] = "ended"
        /\ \A j \in Procs \ {i} : receiver'[j] = receiver[j]
    BY <1>1, <2>1 DEF Types
  <2>3. Types' /\ PhaseInv'
    BY <2>1, <2>2 DEF IInv, Types, PhaseInv
  <2>4. Only(i)
    BY <2>1, <2>2 DEF Only, ParentUp
  <2>5. ThreadInv(i)' /\ HeldInv(i)' /\ CountInv(i)' /\ InputInv(i)'
    BY <1>1, <2>1, <2>2 DEF ProcInv, ThreadInv, HeldInv, CountInv, InputInv, ParentUp
  <2>6. OutputInv(i)'
    <3>1. child[i] \in Gone
      <4>1. /\ End(i, "c2p", "w") \in Ends /\ End(i, "c2p", "w") \in ChildEnds(i)
            /\ End(i, "c2p", "w").proc = i
        BY EndsOfProc
      <4>2. child[i] \notin {"forked", "redirected"} \cup Programs
        BY <1>1, <2>1, <4>1 DEF ProcInv, HeldInv
      <4>3. QED
        BY <1>1, <4>2 DEF Types, ChildStates, Programs, Gone
    <3>2. received[i] = printed[i]
      BY <1>1, <2>1 DEF ProcInv, CountInv, Types
    <3>3. QED
      BY <2>1, <3>1, <3>2 DEF OutputInv
  <2>7. QED
    BY <2>3, <2>4, <2>5, <2>6, OnlyStep DEF ProcInv
<1>4. QED
  BY <1>2, <1>3 DEF Receiver

-----------------------------------------------------------------------------
(* A child process *)

(* A step that gives the child a new state and lets it close ends.         *)
LEMMA ChildMoves ==
  ASSUME IInv, NEW i \in Procs, NEW from \in ChildStates \ {"none"}, NEW to \in ChildStates,
         Child(i, from, to), NEW E, Close(i, E), UNCHANGED << phase, thread, receiver >>,
         inPipe' \in [Procs -> 0 .. Capacity], outPipe' \in [Procs -> 0 .. Capacity],
         UNCHANGED << sent, received >>, consumed' \in [Procs -> Nat],
         printed' \in [Procs -> Nat], failed' \in {failed, failed \cup {i}},
         \A j \in Procs \ {i} : /\ inPipe'[j] = inPipe[j] /\ outPipe'[j] = outPipe[j]
                                /\ consumed'[j] = consumed[j] /\ printed'[j] = printed[j],
         HeldInv(i)', CountInv(i)', OutputInv(i)', InputInv(i)'
  PROVE  IInv'
<1>1. /\ child[i] = from /\ child' \in [Procs -> ChildStates] /\ child'[i] = to
      /\ \A j \in Procs \ {i} : child'[j] = child[j]
  BY ChildEffect
<1>2. /\ held' \in [Ends -> SUBSET (Procs \cup {PARENT})]
      /\ \A e \in Ends : \A q : q \in held'[e] <=> q \in held[e] /\ ~ (q = i /\ e \in E)
  BY CloseEffect DEF IInv
<1>3. Types' /\ PhaseInv'
  BY <1>1, <1>2 DEF IInv, Types, PhaseInv
<1>4. Only(i)
  BY <1>1, <1>2, ParentIsNoChild DEF Only, ParentUp
<1>5. ThreadInv(i)'
  BY <1>1, <1>2, ParentIsNoChild, EndsOfProc DEF IInv, ProcInv, ThreadInv, ParentUp
<1>6. QED
  BY <1>3, <1>4, <1>5, OnlyStep DEF ProcInv

(* Until it is gone the receiver of a child reads.                         *)
LEMMA ReceiverReads ==
  ASSUME IInv, NEW i \in Procs, child[i] \notin Gone
  PROVE  receiver[i] # "ended"
BY DEF IInv, ProcInv, OutputInv

LEMMA RedirectsIInv ==
  ASSUME IInv, NEW i \in Procs, RedirectChildIo(i) \/ CloseUselessInChild(i)
  PROVE  IInv'
<1>1. ProcInv(i) /\ Types
  BY DEF IInv
<1>2. CASE RedirectChildIo(i)
  <2>1. /\ Child(i, "forked", "redirected") /\ Close(i, ParentEnds(i))
        /\ UNCHANGED << phase, thread, receiver, inPipe, outPipe, sent, consumed, printed,
                        received, failed >>
    BY <1>2 DEF RedirectChildIo, data
  <2>2. child[i] = "forked" /\ child'[i] = "redirected"
    BY <2>1, ChildEffect DEF ChildStates
  <2>3. HeldInv(i)'
    BY <1>1, <2>1, <2>2, CloseEffect, EndsOfProc DEF ProcInv, HeldInv, Gone, Programs
  <2>4. CountInv(i)' /\ OutputInv(i)' /\ InputInv(i)'
    BY <1>1, <2>1, <2>2, ReceiverReads DEF ProcInv, CountInv, OutputInv, InputInv, Gone
  <2>5. QED
    BY <1>1, <2>1, <2>3, <2>4, ChildMoves DEF Types, ChildStates
<1>3. CASE CloseUselessInChild(i)
  <2>1. /\ Child(i, "redirected", "running") /\ Close(i, UselessInChild(i))
        /\ UNCHANGED << phase, thread, receiver, inPipe, outPipe, sent, consumed, printed,
                        received, failed >>
    BY <1>3 DEF CloseUselessInChild, data
  <2>2. child[i] = "redirected" /\ child'[i] = "running"
    BY <2>1, ChildEffect DEF ChildStates
  <2>3. \A e \in Ends : i \in held'[e] <=> i \in held[e] /\ e.proc = i
    BY <1>1, <2>1, CloseEffect DEF UselessInChild
  <2>4. HeldInv(i)'
    BY <1>1, <2>2, <2>3, EndsOfProc DEF ProcInv, HeldInv, Gone, Programs
  <2>5. CountInv(i)' /\ OutputInv(i)' /\ InputInv(i)'
    BY <1>1, <2>1, <2>2, ReceiverReads DEF ProcInv, CountInv, OutputInv, InputInv, Gone
  <2>6. QED
    BY <1>1, <2>1, <2>4, <2>5, ChildMoves DEF Types, ChildStates
<1>4. QED
  BY <1>2, <1>3

LEMMA ChildReadIInv == ASSUME IInv, NEW i \in Procs, ChildRead(i) PROVE IInv'
<1>1. ProcInv(i) /\ Types
  BY DEF IInv
<1>2. PICK to \in {"running", "printing"} : Child(i, "running", to)
  BY DEF ChildRead
<1>3. /\ inPipe[i] > 0
      /\ inPipe' = [inPipe EXCEPT ![i] = @ - 1] /\ consumed' = [consumed EXCEPT ![i] = @ + 1]
      /\ UNCHANGED << phase, thread, receiver, held, outPipe, sent, printed, received, failed >>
  BY DEF ChildRead, Bump
<1>4. child[i] = "running" /\ child'[i] = to
  BY <1>2, ChildEffect DEF ChildStates
<1>5. /\ inPipe' \in [Procs -> 0 .. Capacity] /\ consumed' \in [Procs -> Nat]
      /\ inPipe'[i] = inPipe[i] - 1 /\ consumed'[i] = consumed[i] + 1
      /\ \A j \in Procs \ {i} : inPipe'[j] = inPipe[j] /\ consumed'[j] = consumed[j]
  <2>1. /\ inPipe \in [Procs -> 0 .. Capacity] /\ consumed \in [Procs -> Nat] /\ Capacity \in Nat
    BY <1>1, CapacityAssumption DEF Types
  <2>2. inPipe[i] - 1 \in 0 .. Capacity
    BY <1>3, <2>1
  <2>3. inPipe' \in [Procs -> 0 .. Capacity]
    BY <1>3, <2>1, <2>2
  <2>4. QED
    BY <1>3, <2>1, <2>3
<1>6. HeldInv(i)' /\ OutputInv(i)' /\ InputInv(i)'
  BY <1>1, <1>3, <1>4, ReceiverReads DEF ProcInv, HeldInv, OutputInv, InputInv, Gone, Programs
<1>7. CountInv(i)'
  BY <1>1, <1>3, <1>5 DEF ProcInv, CountInv, Types
<1>8. Close(i, {})
  BY <1>1, <1>3, ClosesNone
<1>9. QED
  BY <1>1, <1>2, <1>3, <1>5, <1>6, <1>7, <1>8, ChildMoves DEF Types, ChildStates

(* The writer that a child no longer has was the thread that wrote to it.  *)
LEMMA ChildEofIInv == ASSUME IInv, NEW i \in Procs, ChildEof(i) PROVE IInv'
<1>1. ProcInv(i) /\ Types
  BY DEF IInv
<1>2. PICK to \in {"flushing", "ending"} : Child(i, "running", to)
  BY DEF ChildEof
<1>3. /\ inPipe[i] = 0 /\ held[End(i, "p2c", "w")] = {}
      /\ UNCHANGED << phase, thread, receiver, held, inPipe, outPipe, sent, consumed, printed,
                      received, failed >>
  BY DEF ChildEof, data
<1>4. child[i] = "running" /\ child'[i] = to
  BY <1>2, ChildEffect DEF ChildStates
<1>5. HeldInv(i)' /\ CountInv(i)' /\ OutputInv(i)'
  BY <1>1, <1>3, <1>4, ReceiverReads DEF ProcInv, HeldInv, CountInv, OutputInv, Gone, Programs
<1>6. InputInv(i)'
  <2>1. ParentUp => thread[i] \in {"joining", "waiting", "done"}
    BY <1>1, <1>3 DEF ProcInv, ThreadInv, Types, ThreadStates
  <2>2. consumed[i] = sent[i]
    BY <1>1, <1>3 DEF ProcInv, CountInv, Types
  <2>3. QED
    BY <1>3, <2>1, <2>2 DEF InputInv, ParentUp
<1>7. Close(i, {})
  BY <1>1, <1>3, ClosesNone
<1>8. QED
  BY <1>1, <1>2, <1>3, <1>5, <1>6, <1>7, ChildMoves DEF Types, ChildStates

LEMMA ChildPrintIInv == ASSUME IInv, NEW i \in Procs, ChildPrint(i) PROVE IInv'
<1>1. ProcInv(i) /\ Types
  BY DEF IInv
<1>2. PICK from \in {"printing", "flushing"}, to \in {"running", "ending"} :
        Child(i, from, to) /\ (to = "ending" => from = "flushing")
  BY DEF ChildPrint
<1>3. /\ outPipe[i] < Capacity
      /\ outPipe' = [outPipe EXCEPT ![i] = @ + 1] /\ printed' = [printed EXCEPT ![i] = @ + 1]
      /\ UNCHANGED << phase, thread, receiver, held, inPipe, sent, consumed, received, failed >>
  BY DEF ChildPrint, Bump
<1>4. child[i] = from /\ child'[i] = to
  BY <1>2, ChildEffect DEF ChildStates
<1>5. /\ outPipe' \in [Procs -> 0 .. Capacity] /\ printed' \in [Procs -> Nat]
      /\ outPipe'[i] = outPipe[i] + 1 /\ printed'[i] = printed[i] + 1
      /\ \A j \in Procs \ {i} : outPipe'[j] = outPipe[j] /\ printed'[j] = printed[j]
  <2>1. /\ outPipe \in [Procs -> 0 .. Capacity] /\ printed \in [Procs -> Nat] /\ Capacity \in Nat
    BY <1>1, CapacityAssumption DEF Types
  <2>2. outPipe[i] + 1 \in 0 .. Capacity
    BY <1>3, <2>1
  <2>3. outPipe' \in [Procs -> 0 .. Capacity]
    BY <1>3, <2>1, <2>2
  <2>4. QED
    BY <1>3, <2>1, <2>3
<1>6. HeldInv(i)' /\ OutputInv(i)' /\ InputInv(i)'
  BY <1>1, <1>2, <1>3, <1>4, ReceiverReads
     DEF ProcInv, HeldInv, OutputInv, InputInv, Gone, Programs, ParentUp
<1>7. CountInv(i)'
  BY <1>1, <1>3, <1>5 DEF ProcInv, CountInv, Types
<1>8. Close(i, {})
  BY <1>1, <1>3, ClosesNone
<1>9. QED
  BY <1>1, <1>2, <1>3, <1>5, <1>6, <1>7, <1>8, ChildMoves DEF Types, ChildStates

(* A child that ends, and one that dies                                    *)
LEMMA ChildEndsIInv ==
  ASSUME IInv, NEW i \in Procs, ChildExit(i) \/ ChildFails(i) \/ ChildKilled(i)
  PROVE  IInv'
<1>1. ProcInv(i) /\ Types
  BY DEF IInv
<1>2. PICK from \in Programs :
        Child(i, from, "zombie") /\ (from = "ending" \/ failed' = failed \cup {i})
  BY DEF ChildExit, ChildFails, ChildKilled, Die, Programs
<1>3. /\ Close(i, Ends) /\ failed' \in {failed, failed \cup {i}}
      /\ UNCHANGED << phase, thread, receiver, inPipe, outPipe, sent, consumed, printed, received >>
  BY DEF ChildExit, ChildFails, ChildKilled, Die, data
<1>4. child[i] = from /\ child'[i] = "zombie"
  BY <1>2, ChildEffect DEF ChildStates
<1>5. HeldInv(i)'
  BY <1>1, <1>3, <1>4, CloseEffect DEF HeldInv, Gone, Programs
<1>6. CountInv(i)' /\ OutputInv(i)'
  BY <1>1, <1>2, <1>3, <1>4, ReceiverReads DEF ProcInv, CountInv, OutputInv, Gone, Programs
<1>7. InputInv(i)'
  BY <1>1, <1>2, <1>3, <1>4 DEF ProcInv, InputInv, ParentUp
<1>8. QED
  BY <1>1, <1>2, <1>3, <1>5, <1>6, <1>7, ChildMoves DEF Types, ChildStates, Programs

LEMMA ChildIInv ==
  ASSUME IInv, NEW i \in Procs, ChildStep(i) \/ ChildFails(i)
  PROVE  IInv'
BY RedirectsIInv, ChildReadIInv, ChildEofIInv, ChildPrintIInv, ChildEndsIInv DEF ChildStep

-----------------------------------------------------------------------------
(* The main thread *)

LEMMA StartReducersIInv == ASSUME IInv, StartReducers PROVE IInv'
<1>1. /\ phase = "map" /\ phase' = "reduce"
      /\ thread' = [i \in Procs |-> IF i \in Reduces THEN "start" ELSE thread[i]]
      /\ UNCHANGED << receiver, child, held, inPipe, outPipe, sent, consumed, printed,
                      received, failed >>
  BY DEF StartReducers, data
<1>2. thread' \in [Procs -> ThreadStates]
  BY <1>1 DEF IInv, Types, ThreadStates
<1>3. Types' /\ PhaseInv'
  BY <1>1, <1>2 DEF IInv, Types, PhaseInv
<1>4. ParentUp /\ ParentUp'
  BY <1>1 DEF ParentUp
<1>5. ASSUME NEW i \in Procs PROVE ProcInv(i)'
  <2>1. ProcInv(i)
    BY DEF IInv
  <2>2. \/ thread'[i] = thread[i]
        \/ thread[i] = "new" /\ thread'[i] = "start"
    BY <1>1 DEF IInv, PhaseInv
  <2>3. ThreadInv(i)' /\ HeldInv(i)'
    BY <1>1, <1>4, <2>1, <2>2 DEF ProcInv, ThreadInv, HeldInv
  <2>4. CountInv(i)' /\ OutputInv(i)' /\ InputInv(i)'
    BY <1>1, <1>4, <2>1, <2>2 DEF ProcInv, CountInv, OutputInv, InputInv
  <2>5. QED
    BY <2>3, <2>4 DEF ProcInv
<1>6. QED
  BY <1>3, <1>5 DEF IInv

-----------------------------------------------------------------------------

(* Every step preserves the invariant.                                     *)
LEMMA NextIInv == IInv /\ [Next]_vars => IInv'
<1> SUFFICES ASSUME IInv, [Next]_vars PROVE IInv'
  OBVIOUS
<1>1. CASE UNCHANGED vars
  <2>1. UNCHANGED << phase, thread, receiver, child, held, inPipe, outPipe, sent, consumed,
                     printed, received, failed >>
    BY <1>1 DEF vars, data
  <2>2. Types' /\ PhaseInv'
    BY <2>1 DEF IInv, Types, PhaseInv
  <2>3. ASSUME NEW i \in Procs PROVE ProcInv(i)'
    BY <2>1, Untouched DEF IInv, ParentUp
  <2>4. QED
    BY <2>2, <2>3 DEF IInv
<1>2. CASE Main
  BY <1>2, StartReducersIInv, ParentGoes DEF Main, MainExits
<1>3. CASE Terminated
  BY <1>1, <1>3 DEF Terminated
<1>4. ASSUME NEW i \in Procs, \/ Run(i) \/ ForkFails(i) \/ StartReceiverFails(i)
                              \/ Receiver(i) \/ ChildStep(i) \/ ChildFails(i)
      PROVE  IInv'
  BY <1>4, RunIInv, ReceiverIInv, ChildIInv
<1>5. QED
  BY <1>1, <1>2, <1>3, <1>4 DEF Next

LEMMA InvariantHolds == Spec => []IInv
BY InitIInv, NextIInv, PTL DEF Spec

(* Threads, children and pipes keep their types, a program runs with just  *)
(* the two ends of its own pipes, and a dead child has none, for any       *)
(* number of mappers and reducers.                                         *)
THEOREM TypeCorrect == Spec => []TypeOK
<1>1. IInv => TypeOK
  <2> SUFFICES ASSUME IInv PROVE TypeOK
    OBVIOUS
  <2>1. ASSUME NEW i \in Procs
        PROVE  LET own == { e \in Ends : i \in held[e] } IN
                 /\ child[i] \in {"none", "zombie", "reaped"} => own = {}
                 /\ child[i] \in {"running", "printing", "flushing", "ending"} => own = ChildEnds(i)
    <3> DEFINE own == { e \in Ends : i \in held[e] }
    <3>1. HeldInv(i) /\ ChildEnds(i) \subseteq Ends
      BY EndsOfProc DEF IInv, ProcInv
    <3>2. child[i] \in {"none", "zombie", "reaped"} => own = {}
      BY <3>1 DEF HeldInv, Gone
    <3>3. child[i] \in {"running", "printing", "flushing", "ending"} => own = ChildEnds(i)
      BY <3>1 DEF HeldInv, Programs
    <3>4. QED
      BY <3>2, <3>3
  <2>2. Types
    BY DEF IInv
  <2>3. QED
    BY <2>1, <2>2 DEF TypeOK, Types, ThreadStates, ChildStates
<1>2. QED
  BY <1>1, InvariantHolds, PTL

(* When fgets() in a receiver returns NULL the child has ended, or was     *)
(* never born, and everything it printed has been received, whatever ends  *)
(* its siblings have inherited.                                            *)
THEOREM ReceiversAreRightAboutTheEnd == Spec => []EofMeansChildIsGone
<1>1. IInv => EofMeansChildIsGone
  BY DEF IInv, ProcInv, OutputInv, EofMeansChildIsGone, Gone
<1>2. QED
  BY <1>1, InvariantHolds, PTL

(* When a child sees the end of its input its worker is through with       *)
(* writing, or the parent is gone, and every line it wrote has been read,  *)
(* whichever calls failed.                                                 *)
THEOREM ChildrenAreRightAboutTheEnd == Spec => []EofMeansInputIsComplete
<1>1. IInv => EofMeansInputIsComplete
  BY DEF IInv, ProcInv, InputInv, EofMeansInputIsComplete
<1>2. QED
  BY <1>1, InvariantHolds, PTL

=============================================================================
