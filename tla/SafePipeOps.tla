---------------------------- MODULE SafePipeOps ----------------------------
(***************************************************************************)
(* The data of class SafePipe and its methods, as operators that take a    *)
(* pipe and return a pipe.  A pipe is a ring of MaxNum line buffers; the   *)
(* methods run under the pipe's mutex, so each is one atomic change.  The  *)
(* waiting of wait_pop_front() on the condition variable is control and    *)
(* belongs to the modules that use a pipe (SafePipe, MapFeed).             *)
(***************************************************************************)
EXTENDS Integers

CONSTANTS
  MaxNum,   (* _maxnum, the number of slots (PIPE_SIZE in the program)     *)
  Lines,    (* what a slot can hold after strcpy()                         *)
  NoLine    (* what a fresh, uninitialised slot holds                      *)

ASSUME MaxNumAssumption == MaxNum \in Nat \ {0}
ASSUME NoLineAssumption == NoLine \notin Lines

Slots == 0 .. MaxNum - 1

PipeType == [queue  : [Slots -> Lines \cup {NoLine}],
             flag   : [Slots -> {0, 1}],
             front  : Slots,
             tail   : Slots,
             length : 0 .. MaxNum]

(* The constructor and init(): nothing queued, every slot free. *)
NewPipe == [queue  |-> [s \in Slots |-> NoLine],
            flag   |-> [s \in Slots |-> 0],
            front  |-> 0,
            tail   |-> 0,
            length |-> 0]

(* Mutant: the ring does not wrap. *)
NextSlotNoWrap(s) == s + 1

NextSlot(s) == (s + 1) % MaxNum

full(p)  == p.length = MaxNum
empty(p) == p.length = 0

(* Mutant: the slot at the tail is taken for free as soon as the ring is   *)
(* not full, though a consumer may still be reading it.                    *)
HasFreeItemIgnoringFlag(p) == ~ full(p)

(* The test of get_free_item(): room in the ring, and the slot at the tail *)
(* handed back by the consumer that last read it.                          *)
HasFreeItem(p) == ~ full(p) /\ p.flag[p.tail] = 0

(* The rest of get_free_item(): the tail slot goes to the caller. *)
get_free_item(p) ==
  [p EXCEPT !.flag[p.tail] = 0,
            !.tail         = NextSlot(p.tail),
            !.length       = p.length + 1]

(* The caller's strcpy() into the slot it was given, outside the mutex. *)
CopyInto(p, s, line) == [p EXCEPT !.queue[s] = line]

push_item(p, s) == [p EXCEPT !.flag[s] = 1]

(* Mutant: a consumer does not wait for the producer's push_item(). *)
FrontReadyIgnoringFlag(p) == ~ empty(p)

(* The negation of the wait condition of wait_pop_front(). *)
FrontReady(p) == ~ empty(p) /\ p.flag[p.front] = 1

(* The rest of wait_pop_front(): the front slot goes to the caller. *)
pop_front(p) ==
  [p EXCEPT !.front  = NextSlot(p.front),
            !.length = p.length - 1]

(* Mutant: the slot is never handed back to the producers. *)
notify_used_end_lost(p, s) == p

notify_used_end(p, s) == [p EXCEPT !.flag[s] = 0]

=============================================================================
