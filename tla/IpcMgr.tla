------------------------------- MODULE IpcMgr -------------------------------
(***************************************************************************)
(* The child processes and the pipes between them and the parent: class    *)
(* IpcMgr, which creates all pipes before the first fork() and closes the  *)
(* ends each process must not keep, and its use in Map::Run() and          *)
(* Reduce::Run(), which are the same from fork() on.  A pipe delivers the  *)
(* end of file when its last writer is gone and SIGPIPE when its last      *)
(* reader is, so who holds which end decides whether the job ends.         *)
(***************************************************************************)
EXTENDS Integers, FiniteSets

CONSTANTS
  Maps, Reduces,   (* the mappers and the reducers                         *)
  PARENT,          (* the parent process                                   *)
  Capacity,        (* lines a pipe of the system holds                     *)
  MaxWritten       (* bound: lines the parent writes to one child          *)

ASSUME ProcsAssumption    == Maps \cap Reduces = {} /\ PARENT \notin Maps \cup Reduces
ASSUME CapacityAssumption == Capacity \in Nat \ {0}

Procs == Maps \cup Reduces

Ends == [proc : Procs, pipe : {"c2p", "p2c"}, side : {"r", "w"}]

End(i, p, s) == [proc |-> i, pipe |-> p, side |-> s]

(* The ends that the parent uses, and the ends that its child uses. *)
ParentEnds(i) == { End(i, "c2p", "r"), End(i, "p2c", "w") }
ChildEnds(i)  == { End(i, "c2p", "w"), End(i, "p2c", "r") }

VARIABLES
  phase,       (* of the parent process                                    *)
  thread,      (* where the thread of each mapper and reducer is           *)
  receiver,    (* where its receiver thread is                             *)
  child,       (* where its child process is                               *)
  held,        (* the processes that have an end open                      *)
  inPipe,      (* lines in parent2child                                    *)
  outPipe,     (* lines in child2parent                                    *)
  sent,        (* lines the parent wrote                                   *)
  consumed,    (* lines the child read                                     *)
  printed,     (* lines the child printed                                  *)
  received,    (* lines the receiver got                                   *)
  failed       (* the children that died before the end of their input     *)

data == << inPipe, outPipe, sent, consumed, printed, received >>
vars == << phase, thread, receiver, child, held, data, failed >>

(* IpcMgr::init(): every pipe exists, and only the parent has its ends. *)
Init ==
  /\ phase    = "map"
  /\ thread   = [i \in Procs |-> IF i \in Maps THEN "start" ELSE "new"]
  /\ receiver = [i \in Procs |-> "new"]
  /\ child    = [i \in Procs |-> "none"]
  /\ held     = [e \in Ends |-> {PARENT}]
  /\ inPipe   = [i \in Procs |-> 0]
  /\ outPipe  = [i \in Procs |-> 0]
  /\ sent     = [i \in Procs |-> 0]
  /\ consumed = [i \in Procs |-> 0]
  /\ printed  = [i \in Procs |-> 0]
  /\ received = [i \in Procs |-> 0]
  /\ failed   = {}

(* Process p closes the ends E; closing an end that is not open is no use. *)
Close(p, E) == held' = [e \in Ends |-> IF e \in E THEN held[e] \ {p} ELSE held[e]]

Bump(f, i) == f' = [f EXCEPT ![i] = @ + 1]

ParentUp == phase \in {"map", "reduce"}

-----------------------------------------------------------------------------
(* The thread of a mapper or reducer: Run() *)

Thread(i, from, to) == /\ ParentUp
                       /\ thread[i] = from
                       /\ thread' = [thread EXCEPT ![i] = to]

(* Mutant: fork() only after the parent has closed the child's ends. *)
InheritedLate(i, e) == PARENT \in held[e] /\ e \notin ChildEnds(i)

(* The child gets every end that the parent has open, those of the other   *)
(* children among them.                                                    *)
Inherited(i, e) == PARENT \in held[e]

Fork(i) ==
  /\ Thread(i, "start", "forked")
  /\ child' = [child EXCEPT ![i] = "forked"]
  /\ held'  = [e \in Ends |-> IF Inherited(i, e) THEN held[e] \cup {i} ELSE held[e]]
  /\ UNCHANGED << phase, receiver, data, failed >>

(* fork() returns -1, which Run() takes for the parent's side of a fork. *)
ForkFails(i) ==
  /\ Thread(i, "start", "forked")
  /\ UNCHANGED << phase, receiver, child, held, data, failed >>

(* Mutant: the parent closes the write end of parent2child, too. *)
UselessInParentMore(i) == ChildEnds(i) \cup { End(i, "p2c", "w") }

(* The ends that close_useless_in_parent_r() closes. *)
UselessInParent(i) == ChildEnds(i)

CloseUselessInParent(i) ==
  /\ Thread(i, "forked", "opening")
  /\ Close(PARENT, UselessInParent(i))
  /\ UNCHANGED << phase, receiver, child, data, failed >>

(* fdopen() and pthread_create() *)
StartReceiver(i) ==
  /\ Thread(i, "opening", "writing")
  /\ receiver' = [receiver EXCEPT ![i] = "reading"]
  /\ UNCHANGED << phase, child, held, data, failed >>

(* One of them fails: Run() returns with both ends open. *)
StartReceiverFails(i) ==
  /\ Thread(i, "opening", "done")
  /\ UNCHANGED << phase, receiver, child, held, data, failed >>

(* write() blocks while the pipe is full. *)
Write(i) ==
  /\ Thread(i, "writing", "writing")
  /\ sent[i] < MaxWritten
  /\ held[End(i, "p2c", "r")] # {}
  /\ inPipe[i] < Capacity
  /\ Bump(inPipe, i) /\ Bump(sent, i)
  /\ UNCHANGED << phase, receiver, child, held, outPipe, consumed, printed,
                  received, failed >>

(* write() on a pipe without readers: nothing handles SIGPIPE, so it ends  *)
(* the parent with all its threads.                                        *)
WriteKills(i) ==
  /\ ParentUp
  /\ thread[i] = "writing"
  /\ sent[i] < MaxWritten
  /\ held[End(i, "p2c", "r")] = {}
  /\ phase' = "killed"
  /\ Close(PARENT, Ends)
  /\ UNCHANGED << thread, receiver, child, data, failed >>

(* Mutant: close(pipe_parent2child_w) is forgotten. *)
CloseWriteNot(i) ==
  /\ Thread(i, "writing", "joining")
  /\ UNCHANGED << phase, receiver, child, held, data, failed >>

(* END_PIPE, or no more tasks: close(pipe_parent2child_w) *)
CloseWrite(i) ==
  /\ Thread(i, "writing", "joining")
  /\ Close(PARENT, { End(i, "p2c", "w") })
  /\ UNCHANGED << phase, receiver, child, data, failed >>

(* pthread_join(), fclose() and close() *)
JoinReceiver(i) ==
  /\ Thread(i, "joining", "waiting")
  /\ receiver[i] = "ended"
  /\ Close(PARENT, { End(i, "c2p", "r") })
  /\ UNCHANGED << phase, receiver, child, data, failed >>

(* waitpid(pid): the own child, which somebody else may have reaped *)
WaitPid(i) ==
  /\ Thread(i, "waiting", "done")
  /\ child[i] \in {"zombie", "reaped"}
  /\ child' = [child EXCEPT ![i] = "reaped"]
  /\ UNCHANGED << phase, receiver, held, data, failed >>

(* waitpid(-1) after a failed fork(): any child, or at once if there is    *)
(* none left                                                               *)
WaitAnyPid(i) ==
  /\ Thread(i, "waiting", "done")
  /\ child[i] = "none"
  /\ \/ \E j \in Procs : child[j] = "zombie" /\ child' = [child EXCEPT ![j] = "reaped"]
     \/ (\A j \in Procs : child[j] \in {"none", "reaped"}) /\ UNCHANGED child
  /\ UNCHANGED << phase, receiver, held, data, failed >>

Run(i) == \/ Fork(i) \/ CloseUselessInParent(i) \/ StartReceiver(i) \/ Write(i)
          \/ WriteKills(i) \/ CloseWrite(i) \/ JoinReceiver(i) \/ WaitPid(i)
          \/ WaitAnyPid(i)

-----------------------------------------------------------------------------
(* Its receiver: map_recieve() and reduce_recieve() *)

(* fgets() returns a line. *)
Receive(i) ==
  /\ ParentUp
  /\ receiver[i] = "reading"
  /\ outPipe[i] > 0
  /\ outPipe' = [outPipe EXCEPT ![i] = @ - 1]
  /\ Bump(received, i)
  /\ UNCHANGED << phase, thread, receiver, child, held, inPipe, sent, consumed,
                  printed, failed >>

(* fgets() returns NULL: the pipe is empty and has no writer left. *)
ReceiveEof(i) ==
  /\ ParentUp
  /\ receiver[i] = "reading"
  /\ outPipe[i] = 0
  /\ held[End(i, "c2p", "w")] = {}
  /\ receiver' = [receiver EXCEPT ![i] = "ended"]
  /\ UNCHANGED << phase, thread, child, held, data, failed >>

Receiver(i) == Receive(i) \/ ReceiveEof(i)

-----------------------------------------------------------------------------
(* A child process: redirect_child_io(), then the program it executes *)

Child(i, from, to) == /\ child[i] = from
                      /\ child' = [child EXCEPT ![i] = to]

(* The child's ends become its stdin and stdout, the parent's are closed. *)
RedirectChildIo(i) ==
  /\ Child(i, "forked", "redirected")
  /\ Close(i, ParentEnds(i))
  /\ UNCHANGED << phase, thread, receiver, data, failed >>

(* Mutant: the child keeps the ends of the other mappers and reducers. *)
UselessInChildNone(i) == {}

(* The ends that close_useless_in_child() closes. *)
UselessInChild(i) == { e \in Ends : e.proc # i }

CloseUselessInChild(i) ==
  /\ Child(i, "redirected", "running")
  /\ Close(i, UselessInChild(i))
  /\ UNCHANGED << phase, thread, receiver, data, failed >>

(* The program reads a line and may print one for it. *)
ChildRead(i) ==
  /\ \E to \in {"running", "printing"} : Child(i, "running", to)
  /\ inPipe[i] > 0
  /\ inPipe' = [inPipe EXCEPT ![i] = @ - 1]
  /\ Bump(consumed, i)
  /\ UNCHANGED << phase, thread, receiver, held, outPipe, sent, printed, received,
                  failed >>

(* Its standard input ends; it may have something left to print. *)
ChildEof(i) ==
  /\ \E to \in {"flushing", "ending"} : Child(i, "running", to)
  /\ inPipe[i] = 0
  /\ held[End(i, "p2c", "w")] = {}
  /\ UNCHANGED << phase, thread, receiver, held, data, failed >>

ChildPrint(i) ==
  /\ Child(i, "printing", "running") \/ Child(i, "flushing", "ending")
  /\ held[End(i, "c2p", "r")] # {}
  /\ outPipe[i] < Capacity
  /\ Bump(outPipe, i) /\ Bump(printed, i)
  /\ UNCHANGED << phase, thread, receiver, held, inPipe, sent, consumed, received,
                  failed >>

ChildExit(i) ==
  /\ Child(i, "ending", "zombie")
  /\ Close(i, Ends)
  /\ UNCHANGED << phase, thread, receiver, data, failed >>

(* It dies before that: by itself, or of printing when nobody listens. *)
Die(i) ==
  /\ failed' = failed \cup {i}
  /\ Close(i, Ends)
  /\ UNCHANGED << phase, thread, receiver, data >>

ChildFails(i) == Child(i, "running", "zombie") /\ Die(i)

ChildKilled(i) ==
  /\ Child(i, "printing", "zombie") \/ Child(i, "flushing", "zombie")
  /\ held[End(i, "c2p", "r")] = {}
  /\ Die(i)

ChildStep(i) == \/ RedirectChildIo(i) \/ CloseUselessInChild(i) \/ ChildRead(i)
                \/ ChildEof(i) \/ ChildPrint(i) \/ ChildExit(i) \/ ChildKilled(i)

-----------------------------------------------------------------------------
(* The main thread: JobTracker::run() and main() *)

StartReducers ==
  /\ phase = "map"
  /\ \A i \in Maps : thread[i] = "done"
  /\ phase'  = "reduce"
  /\ thread' = [i \in Procs |-> IF i \in Reduces THEN "start" ELSE thread[i]]
  /\ UNCHANGED << receiver, child, held, data, failed >>

MainExits ==
  /\ phase = "reduce"
  /\ \A i \in Reduces : thread[i] = "done"
  /\ phase' = "exited"
  /\ Close(PARENT, Ends)
  /\ UNCHANGED << thread, receiver, child, data, failed >>

Main == StartReducers \/ MainExits

-----------------------------------------------------------------------------

Terminated ==
  /\ ~ ParentUp
  /\ \A i \in Procs : child[i] \in {"none", "zombie", "reaped"}
  /\ UNCHANGED vars

Next ==
  \/ Main \/ Terminated
  \/ \E i \in Procs : \/ Run(i) \/ ForkFails(i) \/ StartReceiverFails(i)
                      \/ Receiver(i) \/ ChildStep(i) \/ ChildFails(i)

(* Threads and processes that can go on are scheduled, and a child reads   *)
(* its input to the end if it does not die before; nothing has to fail.    *)
Spec == /\ Init /\ [][Next]_vars
        /\ WF_vars(Main)
        /\ \A i \in Procs : /\ WF_vars(Run(i)) /\ WF_vars(Receiver(i))
                            /\ WF_vars(ChildStep(i))

-----------------------------------------------------------------------------
(* Properties *)

(* Everything keeps its type, and each process has the ends it should: a   *)
(* program runs with just the two of its own pipes, a dead child has none. *)
TypeOK ==
  /\ phase \in {"map", "reduce", "exited", "killed"}
  /\ thread \in [Procs -> {"new", "start", "forked", "opening", "writing",
                           "joining", "waiting", "done"}]
  /\ receiver \in [Procs -> {"new", "reading", "ended"}]
  /\ child \in [Procs -> {"none", "forked", "redirected", "running", "printing",
                          "flushing", "ending", "zombie", "reaped"}]
  /\ held \in [Ends -> SUBSET (Procs \cup {PARENT})]
  /\ inPipe \in [Procs -> 0 .. Capacity] /\ outPipe \in [Procs -> 0 .. Capacity]
  /\ \A f \in {sent, consumed, printed, received} : f \in [Procs -> Nat]
  /\ failed \subseteq Procs
  /\ \A i \in Procs : LET own == { e \in Ends : i \in held[e] } IN
       /\ child[i] \in {"none", "zombie", "reaped"} => own = {}
       /\ child[i] \in {"running", "printing", "flushing", "ending"} => own = ChildEnds(i)

(* A receiver takes the end of its pipe for the end of its child: then the *)
(* child must be gone and all it printed received.  It goes wrong when the *)
(* last writer of child2parent can vanish while the child is still to come *)
(* or to print.                                                            *)
EofMeansChildIsGone ==
  \A i \in Procs : receiver[i] = "ended" =>
    child[i] \in {"none", "zombie", "reaped"} /\ received[i] = printed[i]

(* A child takes the end of its input for the end of the job's: then the   *)
(* thread that writes to it must be through with writing, unless the       *)
(* parent is gone, and every line it wrote must have been read.            *)
EofMeansInputIsComplete ==
  \A i \in Procs \ failed :
    child[i] \in {"flushing", "ending", "zombie", "reaped"} =>
      /\ ParentUp => thread[i] \in {"joining", "waiting", "done"}
      /\ consumed[i] = sent[i]

ForkFailed(i) == child[i] = "none" /\ thread[i] \notin {"new", "start"}

(* Run() returned early: nobody closes the write end to child i any more. *)
GaveUp(i) == thread[i] = "done" /\ receiver[i] = "new"

(* The parent process comes to an end: no thread is stuck in write() with  *)
(* a child stuck in printing, or waits for an end of file that a third     *)
(* process holds up (IpcMgr.cpp:186).  One failed fork() or one thread     *)
(* that gave up does not change that; both together do, as the waitpid(-1) *)
(* of the first waits for the child that the second left with open pipes.  *)
JobEnds == <> \/ phase \in {"exited", "killed"}
              \/ (\E i \in Procs : ForkFailed(i)) /\ (\E j \in Procs : GaveUp(j))

(* Every child ends, also when the parent was killed or gave up on it,     *)
(* unless the parent itself does not end for the above reason.             *)
ChildrenEnd ==
  \A i \in Procs : child[i] = "forked" ~>
    \/ child[i] \in {"zombie", "reaped"}
    \/ (\E j \in Procs : ForkFailed(j)) /\ (\E j \in Procs : GaveUp(j))

(* "some error happened in subprocess!" (Map.cpp:154, Reduce.cpp:112): a   *)
(* child's failure is reported after waitpid(), so when a child failed and *)
(* every fork() succeeded the job survives.                                *)
SurvivesChildFailure ==
  failed # {} /\ (\A i \in Procs : ~ ForkFailed(i)) => phase # "killed"

=============================================================================
