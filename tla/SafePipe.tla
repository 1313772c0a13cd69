------------------------------ MODULE SafePipe ------------------------------
(***************************************************************************)
(* A SafePipe shared by producer and consumer threads.  A producer runs    *)
(* JobTracker::dispatch_mapper(): get_free_item() until it succeeds,       *)
(* strcpy() into the slot, push_item().  A consumer runs the loop of       *)
(* Map::Run(): wait_pop_front(), use of the slot, notify_used_end().       *)
(*                                                                         *)
(* The program gives every pipe one producer and one consumer; the class   *)
(* is written for any number, and so is this module.                       *)
(***************************************************************************)
EXTENDS SafePipeOps, Sequences

CONSTANTS Producers, Consumers

ASSUME ThreadsAssumption ==
  /\ Producers \cap Consumers = {}
  /\ Consumers # {}

ASSUME CellsAssumption == Producers \cap Lines = {}

VARIABLES
  pipe,      (* the SafePipe                                               *)
  waiting,   (* the consumers blocked in pthread_cond_wait()               *)
  pc,        (* where each thread is                                       *)
  index,     (* the local `index` or `slot` of each thread                 *)
  str        (* the line each producer is dispatching                      *)

vars == << pipe, waiting, pc, index, str >>

Threads == Producers \cup Consumers

Init ==
  /\ pipe    = NewPipe
  /\ waiting = {}
  /\ pc      = [t \in Threads |-> IF t \in Producers THEN "idle" ELSE "popping"]
  /\ index   = [t \in Threads |-> 0]
  /\ str     = [p \in Producers |-> NoLine]

-----------------------------------------------------------------------------
(* Producers *)

(* get_free_item() succeeds.  When it returns 1 nothing changes and the    *)
(* caller tries again after usleep(), so there is no action for that.      *)
GetFreeItem(p, line) ==
  /\ pc[p] = "idle"
  /\ HasFreeItem(pipe)
  /\ pipe'  = get_free_item(pipe)
  /\ index' = [index EXCEPT ![p] = pipe.tail]
  /\ str'   = [str EXCEPT ![p] = line]
  /\ pc'    = [pc EXCEPT ![p] = "filling"]
  /\ UNCHANGED waiting

(* strcpy(item, str) *)
Fill(p) ==
  /\ pc[p] = "filling"
  /\ pipe' = CopyInto(pipe, index[p], str[p])
  /\ pc'   = [pc EXCEPT ![p] = "pushing"]
  /\ UNCHANGED << waiting, index, str >>

(* Mutant: push_item() forgets pthread_cond_signal(). *)
NoSignal(W) == {W}

(* pthread_cond_signal(): one of the waiting consumers is woken, if any. *)
Signal(W) == IF W = {} THEN {W} ELSE {W \ {c} : c \in W}

(* push_item(index) *)
PushItem(p) ==
  /\ pc[p] = "pushing"
  /\ pipe'    = push_item(pipe, index[p])
  /\ waiting' \in Signal(waiting)
  /\ pc'      = [pc EXCEPT ![p] = "idle"]
  /\ UNCHANGED << index, str >>

-----------------------------------------------------------------------------
(* Consumers *)

(* wait_pop_front(): the wait condition holds, so the thread joins the     *)
(* waiters of _cond and the mutex is released in the same step.            *)
CondWait(c) ==
  /\ pc[c] = "popping"
  /\ c \notin waiting
  /\ ~ FrontReady(pipe)
  /\ waiting' = waiting \cup {c}
  /\ UNCHANGED << pipe, pc, index, str >>

(* wait_pop_front(): the front slot is ready and goes to the consumer. *)
PopFront(c) ==
  /\ pc[c] = "popping"
  /\ c \notin waiting
  /\ FrontReady(pipe)
  /\ pipe'  = pop_front(pipe)
  /\ index' = [index EXCEPT ![c] = pipe.front]
  /\ pc'    = [pc EXCEPT ![c] = "using"]
  /\ UNCHANGED << waiting, str >>

(* notify_used_end(slot), when the consumer is through with the slot. *)
NotifyUsedEnd(c) ==
  /\ pc[c] = "using"
  /\ pipe' = notify_used_end(pipe, index[c])
  /\ pc'   = [pc EXCEPT ![c] = "popping"]
  /\ UNCHANGED << waiting, index, str >>

(* POSIX lets pthread_cond_wait() return without a signal. *)
SpuriousWakeup(c) ==
  /\ c \in waiting
  /\ waiting' = waiting \ {c}
  /\ UNCHANGED << pipe, pc, index, str >>

-----------------------------------------------------------------------------

Produce(p) == Fill(p) \/ PushItem(p)
Consume(c) == CondWait(c) \/ PopFront(c) \/ NotifyUsedEnd(c)

Next ==
  \/ \E p \in Producers : Produce(p) \/ \E line \in Lines : GetFreeItem(p, line)
  \/ \E c \in Consumers : Consume(c) \/ SpuriousWakeup(c)

Spec == Init /\ [][Next]_vars

(* A thread inside a call is scheduled again; none has to begin a call to  *)
(* get_free_item(), and no spurious wake-up has to come.                   *)
Fairness ==
  /\ \A p \in Producers : WF_vars(Produce(p))
  /\ \A c \in Consumers : WF_vars(Consume(c))

FairSpec == Spec /\ Fairness

-----------------------------------------------------------------------------
(* Properties *)

Busy(p) == pc[p] \in {"filling", "pushing"}

(* Ring, wait set and threads keep their types: front and tail are slots,  *)
(* the length fits the ring, only consumers wait, and a producer that has  *)
(* a slot has a line for it.                                               *)
TypeOK ==
  /\ pipe \in PipeType
  /\ waiting \subseteq Consumers
  /\ pc \in [Threads -> {"idle", "filling", "pushing", "popping", "using"}]
  /\ \A p \in Producers : pc[p] \in {"idle", "filling", "pushing"}
  /\ \A c \in Consumers : pc[c] \in {"popping", "using"}
  /\ index \in [Threads -> Slots]
  /\ str \in [Producers -> Lines \cup {NoLine}]
  /\ \A p \in Producers : Busy(p) => str[p] \in Lines

(* Whoever was handed a slot by get_free_item() or wait_pop_front() and    *)
(* has not given it back works on its memory outside the mutex.            *)
Holds(t, s) == /\ index[t] = s
               /\ pc[t] \in {"filling", "pushing", "using"}

(* No slot is in the hands of two threads, however the ring wraps: neither *)
(* two producers, nor two consumers, nor a producer and a consumer.  It is *)
(* what makes the unlocked strcpy() and write() on a slot free of races.   *)
SlotExclusive ==
  \A s \in Slots : \A t, u \in Threads : Holds(t, s) /\ Holds(u, s) => t = u

(* The k-th slot of the queue, counted from the front. *)
SlotAt(k) == LET s == pipe.front + k - 1
             IN  IF s < MaxNum THEN s ELSE s - MaxNum

Queued == { SlotAt(k) : k \in 1 .. pipe.length }

(* Every slot is accounted for: a slot marked ready is queued or in a      *)
(* consumer's hands, and a queued slot not marked ready is one a producer  *)
(* is still filling.  Otherwise a slot would be lost and the ring, which   *)
(* goes round in order, would stop at it for good.                         *)
NoSlotLost ==
  \A s \in Slots :
    /\ pipe.flag[s] = 1 => s \in Queued \/ \E c \in Consumers : Holds(c, s)
    /\ s \in Queued /\ pipe.flag[s] = 0 => \E p \in Producers : Holds(p, s)

(* No lost wake-up: push_item() signals one waiter and wait_pop_front()    *)
(* none, and still, when the front slot is ready, not every consumer is    *)
(* asleep on the condition variable.                                       *)
NoLostWakeup == FrontReady(pipe) => waiting # Consumers

(* What the pipe is to its users: the queued slots in order, each with its *)
(* line once it is pushed, or the producer that is filling it.             *)
Fillers(s) == { p \in Producers : Holds(p, s) }

TheOne(S)  == CHOOSE x \in S : TRUE

Cell == [s \in Slots |->
           IF pipe.flag[s] = 1 THEN pipe.queue[s] ELSE TheOne(Fillers(s))]

Fifo  == [k \in 1 .. pipe.length |-> Cell[SlotAt(k)]]
Asked == [p \in Producers |-> IF Busy(p) THEN str[p] ELSE NoLine]
Hand  == [c \in Consumers |-> IF pc[c] = "using" THEN pipe.queue[index[c]] ELSE NoLine]

Queue == INSTANCE LineQueue WITH
           Capacity <- MaxNum, fifo <- Fifo, asked <- Asked, hand <- Hand

(* The ring with its flags is a first-in first-out queue: lines come out   *)
(* once, in the order of get_free_item(), and a line being read does not   *)
(* change under the reader.                                                *)
ImplementsLineQueue == Queue!QSpec

(* A slot that was pushed is read and handed back in the end, so that the  *)
(* producer polling for it in dispatch_mapper() can go on.                 *)
PushedSlotComesBack ==
  \A s \in Slots : pipe.flag[s] = 1 ~> pipe.flag[s] = 0

=============================================================================
