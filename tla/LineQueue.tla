----------------------------- MODULE LineQueue -----------------------------
(***************************************************************************)
(* What class SafePipe promises to the threads that share it: a bounded    *)
(* first-in first-out queue of lines.  A producer reserves the next place  *)
(* for its line and delivers the line later; a consumer takes the line at  *)
(* the head, once it is delivered, and has it to itself until it releases  *)
(* it.  Nothing here knows of slots, flags, mutexes or wake-ups.           *)
(***************************************************************************)
EXTENDS Integers, Sequences

CONSTANTS
  Producers, Consumers,
  Lines,      (* the lines that can be sent                                *)
  NoLine,     (* no line                                                   *)
  Capacity    (* how many places the queue has                             *)

VARIABLES
  fifo,       (* the places in order: a line, or the producer it awaits    *)
  asked,      (* the line each producer is sending, or NoLine              *)
  hand        (* the line each consumer is reading, or NoLine              *)

qvars == << fifo, asked, hand >>

QInit ==
  /\ fifo  = << >>
  /\ asked = [p \in Producers |-> NoLine]
  /\ hand  = [c \in Consumers |-> NoLine]

Reserve(p, line) ==
  /\ asked[p] = NoLine
  /\ Len(fifo) < Capacity
  /\ fifo'  = Append(fifo, p)
  /\ asked' = [asked EXCEPT ![p] = line]
  /\ UNCHANGED hand

Deliver(p) ==
  /\ asked[p] # NoLine
  /\ fifo'  = [i \in 1 .. Len(fifo) |-> IF fifo[i] = p THEN asked[p] ELSE fifo[i]]
  /\ asked' = [asked EXCEPT ![p] = NoLine]
  /\ UNCHANGED hand

Take(c) ==
  /\ hand[c] = NoLine
  /\ fifo # << >>
  /\ Head(fifo) \in Lines
  /\ hand' = [hand EXCEPT ![c] = Head(fifo)]
  /\ fifo' = Tail(fifo)
  /\ UNCHANGED asked

Release(c) ==
  /\ hand[c] # NoLine
  /\ hand' = [hand EXCEPT ![c] = NoLine]
  /\ UNCHANGED << fifo, asked >>

QNext ==
  \/ \E p \in Producers : Deliver(p) \/ \E line \in Lines : Reserve(p, line)
  \/ \E c \in Consumers : Take(c) \/ Release(c)

QSpec == QInit /\ [][QNext]_qvars

=============================================================================
