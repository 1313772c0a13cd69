------------------------- MODULE ReduceOutputProofs -------------------------
(***************************************************************************)
(* Proofs about the output of the reducers for any number of mappers and   *)
(* reducers, buffers of any size and children that print any number of     *)
(* lines: with at most LowFds + 1 reducers the second close() of a reducer *)
(* thread hits nobody's file, and so every file gets the lines of its      *)
(* reducer, in batches, none lost but those of a failed dump().            *)
(***************************************************************************)
EXTENDS ReduceOutput, FiniteSetTheorems, SequenceTheorems, WellFoundedInduction, TLAPS

ThreadStates   == {"start", "writing", "joining", "closing", "done"}
ReceiverStates == {"new", "reading", "dumping", "flushing", "closing", "ended"}

(* So few reducers that only one file at a time can be open above the      *)
(* descriptors that the map phase left free.                               *)
FewReducers == reduce_num <= LowFds + 1

Types ==
  /\ thread \in [Reducers -> ThreadStates]
  /\ receiver \in [Reducers -> ReceiverStates]
  /\ got \in [Reducers -> Nat] /\ \A i \in Reducers : got[i] <= Prints[i]
  /\ eof \in [Reducers -> BOOLEAN]
  /\ buff \in [Reducers -> Seq(Lines)] /\ \A i \in Reducers : Len(buff[i]) <= PIPE_SIZE
  /\ stream \in [Reducers -> Fds \cup {LOW, NONE}]
  /\ failed \subseteq Reducers
  /\ table \in [Fds -> Reducers \cup {FREE, PIPE}]
  /\ part \in [Reducers -> Seq(Lines)]

(* A reducer thread starts its receiver and outlives it, and a receiver    *)
(* has a file open from fout.open() to fout.close().                       *)
ThreadInv(i) ==
  /\ thread[i] = "start" => receiver[i] = "new"
  /\ thread[i] = "closing" => receiver[i] = "ended"
  /\ stream[i] # NONE <=> receiver[i] \in {"flushing", "closing"}

(* The ends of the pipes that a thread has not closed yet, and the one it  *)
(* closes before it starts its receiver.                                   *)
EndInv(i) ==
  /\ thread[i] = "start" => table[c2p_w(i)] = PIPE /\ table[p2c_r(i)] = PIPE
  /\ thread[i] \in {"start", "writing"} => table[p2c_w(i)] = PIPE
  /\ receiver[i] # "ended" => table[c2p_r(i)] = PIPE
  /\ thread[i] # "start" => table[c2p_w(i)] # PIPE

(* A descriptor that stands for a file is the one of its stream.           *)
FileInv == \A f \in Fds : table[f] \in Reducers => stream[table[f]] = f

(* No file has the descriptor that CloseAgain closes.                      *)
OutsideInv == \A i, j \in Reducers : stream[i] # c2p_r(j)

TableInv == /\ Types /\ FileInv /\ StreamIsOpen /\ OutsideInv
            /\ \A i \in Reducers : ThreadInv(i) /\ EndInv(i)

-----------------------------------------------------------------------------
(* Descriptors *)

LEMMA NumFacts ==
  /\ map_num \in Nat /\ reduce_num \in Nat /\ PIPE_SIZE \in Nat \ {0}
  /\ Reducers \subseteq Nat /\ Fds \subseteq Nat
  /\ PIPE \notin Reducers /\ FREE \notin Reducers /\ PIPE # FREE /\ NONE # LOW
  /\ LOW \notin Fds /\ NONE \notin Fds
  /\ \A i \in Reducers : Prints[i] \in Nat
  /\ LowFds \in Nat
BY NumsAssumption, GaveUpAssumption, SizeAssumption, PrintsAssumption, ValuesAssumption
   DEF Reducers, Fds, LowFds, LeftOpen

(* The ends of the pipes of different reducers are different.              *)
Ends(i) == { c2p_r(i), c2p_w(i), p2c_r(i), p2c_w(i) }

LEMMA EndFacts ==
  ASSUME NEW i \in Reducers
  PROVE  /\ Ends(i) \subseteq Fds
         /\ c2p_r(i) \notin { c2p_w(i), p2c_r(i), p2c_w(i) }
         /\ c2p_w(i) \notin { p2c_r(i), p2c_w(i) } /\ p2c_r(i) # p2c_w(i)
         /\ \A j \in Reducers \ {i} : Ends(i) \cap Ends(j) = {}
BY NumFacts DEF Reducers, Fds, Ends, c2p_r, c2p_w, p2c_r, p2c_w

LEMMA LeastElement ==
  ASSUME NEW S, S \subseteq Nat, S # {}
  PROVE  \E x \in S : \A y \in S : x <= y
<1> DEFINE T == { 0 .. n : n \in S }
<1>1. \A n \in S : 0 .. n \in FiniteSubsetsOf(Nat)
  BY FS_Interval DEF FiniteSubsetsOf
<1>2. T \subseteq FiniteSubsetsOf(Nat) /\ T # {}
  BY <1>1
<1>3. \E a \in T : \A b \in T : ~ (<< b, a >> \in StrictSubsetOrdering(Nat))
  <2> HIDE DEF T
  <2> QED
    BY <1>2, FS_StrictSubsetOrderingWellFounded, WFMin
<1>4. PICK x \in S : \A b \in T : ~ (<< b, 0 .. x >> \in StrictSubsetOrdering(Nat))
  BY <1>3
<1>5. ASSUME NEW y \in S PROVE x <= y
  <2>1. SUFFICES ASSUME y < x PROVE FALSE
    OBVIOUS
  <2>2. x \in Nat /\ y \in Nat /\ x \in 0 .. x /\ x \notin 0 .. y /\ 0 .. y \subseteq 0 .. x
    BY <2>1
  <2>3. << 0 .. y, 0 .. x >> \in StrictSubsetOrdering(Nat)
    BY <2>2 DEF StrictSubsetOrdering
  <2>4. QED
    BY <1>4, <2>3
<1>6. QED
  BY <1>5

(* With few reducers, when the low descriptors are all taken, then by all  *)
(* the other receivers.                                                    *)
LEMMA OthersAreLow ==
  ASSUME FewReducers, NEW i \in Reducers, stream[i] # LOW,
         ~ (Cardinality({ j \in Reducers : stream[j] = LOW }) < LowFds)
  PROVE  \A j \in Reducers \ {i} : stream[j] = LOW
<1> DEFINE L == { j \in Reducers : stream[j] = LOW }
           O == Reducers \ {i}
<1>1. IsFiniteSet(Reducers) /\ Cardinality(Reducers) = reduce_num
  BY NumFacts, FS_Interval DEF Reducers
<1>2. IsFiniteSet(O) /\ Cardinality(O) = reduce_num - 1
  BY <1>1, FS_RemoveElement
<1>3. L \in SUBSET O
  OBVIOUS
<1>4. /\ IsFiniteSet(L) /\ Cardinality(L) <= Cardinality(O)
      /\ Cardinality(O) = Cardinality(L) => O = L
  <2> HIDE DEF L, O
  <2> QED
    BY <1>2, <1>3, FS_Subset
<1>5. Cardinality(L) \in Nat
  BY <1>4, FS_CardinalityType
<1>6. Cardinality(L) = Cardinality(O)
  BY <1>2, <1>4, <1>5, NumFacts DEF FewReducers
<1>7. QED
  BY <1>4, <1>6

(* What open() gives to a receiver that has no file open: a low descriptor *)
(* or a free one, which is nobody's c2p_r.                                 *)
LEMMA LowestFreeFacts ==
  ASSUME FewReducers, TableInv, NEW i \in Reducers, receiver[i] = "dumping"
  PROVE  \/ LowestFree = LOW
         \/ /\ LowestFree \in Fds /\ table[LowestFree] = FREE
            /\ \A j \in Reducers : LowestFree # c2p_r(j)
<1>1. CASE Cardinality({ j \in Reducers : stream[j] = LOW }) < LowFds
  BY <1>1 DEF LowestFree
<1>2. CASE ~ (Cardinality({ j \in Reducers : stream[j] = LOW }) < LowFds)
  <2>1. stream[i] = NONE /\ stream[i] # LOW
    BY NumFacts DEF TableInv, ThreadInv
  <2>2. \A j \in Reducers \ {i} : stream[j] = LOW
    BY <1>2, <2>1, OthersAreLow
  <2>3. \A j \in Reducers : receiver[j] # "ended"
    BY <2>2, NumFacts DEF TableInv, ThreadInv
  <2>4. \A j \in Reducers : table[c2p_r(j)] = PIPE
    BY <2>3 DEF TableInv, EndInv
  <2>5. \A f \in Fds : table[f] \notin Reducers
    BY <2>1, <2>2, NumFacts DEF TableInv, FileInv
  <2>6. c2p_w(i) \in Fds /\ table[c2p_w(i)] = FREE
    <3>1. c2p_w(i) \in Fds
      BY EndFacts DEF Ends
    <3>2. table[c2p_w(i)] # PIPE
      BY DEF TableInv, EndInv, ThreadInv
    <3>3. QED
      BY <2>5, <3>1, <3>2 DEF TableInv, Types
  <2>7. PICK f \in Fds : table[f] = FREE /\ \A g \in Fds : table[g] = FREE => f <= g
    <3> DEFINE S == { g \in Fds : table[g] = FREE }
    <3>1. S \subseteq Nat /\ S # {}
      BY <2>6, NumFacts
    <3>2. \E x \in S : \A y \in S : x <= y
      <4> HIDE DEF S
      <4> QED
        BY <3>1, LeastElement
    <3>3. QED
      BY <3>2
  <2>8. \A g \in 0 .. f - 1 : table[g] # FREE
    BY <2>7, NumFacts DEF Fds
  <2>9. LowestFree \in Fds /\ table[LowestFree] = FREE
    BY <1>2, <2>7, <2>8 DEF LowestFree
  <2>10. QED
    BY <2>4, <2>9, NumFacts
<1>3. QED
  BY <1>1, <1>2

-----------------------------------------------------------------------------
(* The descriptors stay in order *)

LEMMA InitTable == Init => TableInv
<1> SUFFICES ASSUME Init PROVE TableInv
  OBVIOUS
<1>1. Types
  BY NumFacts DEF Init, Types, ThreadStates, ReceiverStates
<1>2. FileInv /\ StreamIsOpen
  BY NumFacts DEF Init, FileInv, StreamIsOpen
<1>3. OutsideInv
  BY EndFacts, NumFacts DEF Init, OutsideInv, Ends
<1>4. ASSUME NEW i \in Reducers PROVE ThreadInv(i) /\ EndInv(i)
  BY EndFacts DEF Init, ThreadInv, EndInv, Ends
<1>5. QED
  BY <1>1, <1>2, <1>3, <1>4 DEF TableInv

(* A reducer thread closes ends of its own pipes only.                     *)
LEMMA ThreadTable ==
  ASSUME TableInv, NEW i \in Reducers, NEW F \in SUBSET Ends(i), Close(F),
         \A f \in F : table[f] \notin Reducers,
         \A j \in Reducers \ {i} : thread'[j] = thread[j] /\ receiver'[j] = receiver[j],
         UNCHANGED stream, Types', ThreadInv(i)', EndInv(i)'
  PROVE  TableInv'
<1>1. \A f \in Fds : table'[f] = IF f \in F THEN FREE ELSE table[f]
  BY DEF Close
<1>2. FileInv'
  BY <1>1, NumFacts DEF FileInv, TableInv
<1>3. StreamIsOpen'
  BY <1>1 DEF StreamIsOpen, TableInv
<1>4. OutsideInv'
  BY DEF OutsideInv, TableInv
<1>5. ASSUME NEW j \in Reducers \ {i} PROVE ThreadInv(j)' /\ EndInv(j)'
  <2>1. ThreadInv(j) /\ EndInv(j) /\ thread'[j] = thread[j] /\ receiver'[j] = receiver[j]
    BY DEF TableInv
  <2>2. \A f \in Ends(j) : table'[f] = table[f]
    BY <1>1, EndFacts
  <2>3. QED
    BY <2>1, <2>2 DEF ThreadInv, EndInv, Ends
<1>6. QED
  BY <1>2, <1>3, <1>4, <1>5 DEF TableInv

LEMMA CloseTypes ==
  ASSUME Types, NEW F, Close(F)
  PROVE  table' \in [Fds -> Reducers \cup {FREE, PIPE}]
BY DEF Types, Close

(* An end that its thread still has open, or that it has closed already.   *)
LEMMA EndsAreNoFiles ==
  ASSUME TableInv, NEW i \in Reducers
  PROVE  /\ thread[i] = "start" => table[c2p_w(i)] \notin Reducers
                                   /\ table[p2c_r(i)] \notin Reducers
         /\ thread[i] = "writing" => table[p2c_w(i)] \notin Reducers
         /\ table[c2p_r(i)] \notin Reducers
<1>1. table[c2p_r(i)] \notin Reducers
  <2>1. SUFFICES ASSUME table[c2p_r(i)] \in Reducers PROVE FALSE
    OBVIOUS
  <2>2. c2p_r(i) \in Fds
    BY EndFacts DEF Ends
  <2>3. stream[table[c2p_r(i)]] = c2p_r(i)
    BY <2>1, <2>2 DEF TableInv, FileInv
  <2>4. QED
    BY <2>1, <2>3 DEF TableInv, OutsideInv
<1>2. QED
  BY <1>1, NumFacts DEF TableInv, EndInv

LEMMA SetUpTable ==
  ASSUME TableInv, NEW i \in Reducers, SetUp(i) \/ SetUpFails(i)
  PROVE  TableInv'
<1>1. /\ thread[i] = "start" /\ Close({ c2p_w(i), p2c_r(i) })
      /\ UNCHANGED << got, eof, buff, stream, failed, part >>
      /\ \/ /\ thread' = [thread EXCEPT ![i] = "writing"]
            /\ receiver' = [receiver EXCEPT ![i] = "reading"]
         \/ thread' = [thread EXCEPT ![i] = "done"] /\ receiver' = receiver
  BY DEF SetUp, SetUpFails, Thread
<1>2. Types'
  BY <1>1, CloseTypes DEF TableInv, Types, ThreadStates, ReceiverStates
<1>3. /\ ThreadInv(i) /\ EndInv(i) /\ thread[i] = "start" /\ receiver[i] = "new"
      /\ thread \in [Reducers -> ThreadStates] /\ receiver \in [Reducers -> ReceiverStates]
  BY <1>1 DEF TableInv, Types, ThreadInv
<1>4. ThreadInv(i)'
  BY <1>1, <1>3 DEF ThreadInv
<1>5. /\ table'[c2p_w(i)] = FREE /\ table'[c2p_r(i)] = table[c2p_r(i)]
      /\ table'[p2c_w(i)] = table[p2c_w(i)]
  BY <1>1, EndFacts DEF Close, Ends
<1>6. EndInv(i)'
  BY <1>1, <1>3, <1>5, NumFacts DEF EndInv
<1>7. \A j \in Reducers \ {i} : thread'[j] = thread[j] /\ receiver'[j] = receiver[j]
  BY <1>1, <1>3
<1>8. \A f \in { c2p_w(i), p2c_r(i) } : table[f] \notin Reducers
  BY <1>1, EndsAreNoFiles
<1>9. { c2p_w(i), p2c_r(i) } \in SUBSET Ends(i)
  BY DEF Ends
<1>10. QED
  BY <1>1, <1>2, <1>4, <1>6, <1>7, <1>8, <1>9, ThreadTable

LEMMA CloseTable ==
  ASSUME TableInv, NEW i \in Reducers, CloseWrite(i) \/ JoinAndFclose(i) \/ CloseAgain(i)
  PROVE  TableInv'
<1>1. PICK f \in { p2c_w(i), c2p_r(i) }, to \in { "joining", "closing", "done" } :
        /\ Thread(i, thread[i], to) /\ Close({f}) /\ thread[i] # "start"
        /\ UNCHANGED << receiver, got, eof, buff, stream, failed, part >>
        /\ f = p2c_w(i) => thread[i] = "writing" /\ to = "joining"
        /\ f = c2p_r(i) => receiver[i] = "ended" /\ to \in { "closing", "done" }
  BY EndFacts DEF CloseWrite, JoinAndFclose, CloseAgain, TableInv, ThreadInv, Thread
<1>2. /\ ThreadInv(i) /\ EndInv(i) /\ thread \in [Reducers -> ThreadStates]
      /\ thread' = [thread EXCEPT ![i] = to]
  BY <1>1 DEF TableInv, Types, Thread
<1>3. Types'
  BY <1>1, <1>2, CloseTypes DEF TableInv, Types, ThreadStates
<1>4. ThreadInv(i)'
  BY <1>1, <1>2, EndFacts DEF ThreadInv
<1>5. /\ table'[c2p_w(i)] = table[c2p_w(i)]
      /\ f # c2p_r(i) => table'[c2p_r(i)] = table[c2p_r(i)]
  BY <1>1, EndFacts DEF Close, Ends
<1>6. EndInv(i)'
  BY <1>1, <1>2, <1>5, EndFacts DEF EndInv
<1>7. \A j \in Reducers \ {i} : thread'[j] = thread[j] /\ receiver'[j] = receiver[j]
  BY <1>1, <1>2
<1>8. table[f] \notin Reducers /\ {f} \in SUBSET Ends(i)
  BY <1>1, EndsAreNoFiles DEF Ends
<1>9. QED
  BY <1>1, <1>3, <1>4, <1>6, <1>7, <1>8, ThreadTable

(* A receiver that does not touch a descriptor                             *)
LEMMA BufferTable ==
  ASSUME TableInv, NEW i \in Reducers, UNCHANGED << thread, stream, table >>,
         NEW to \in ReceiverStates, receiver' = [receiver EXCEPT ![i] = to],
         \/ receiver[i] = "reading" /\ to \in { "reading", "dumping", "ended" }
         \/ receiver[i] = "dumping" /\ to \in { "reading", "ended" }
         \/ receiver[i] = "flushing" /\ to = "closing",
         got' \in [Reducers -> Nat], \A j \in Reducers : got'[j] <= Prints[j],
         eof' \in [Reducers -> BOOLEAN], failed' \subseteq Reducers,
         buff' \in [Reducers -> Seq(Lines)], \A j \in Reducers : Len(buff'[j]) <= PIPE_SIZE,
         part' \in [Reducers -> Seq(Lines)]
  PROVE  TableInv'
<1>1. Types'
  BY DEF TableInv, Types
<1>2. FileInv' /\ StreamIsOpen' /\ OutsideInv'
  BY DEF TableInv, FileInv, StreamIsOpen, OutsideInv
<1>3. ASSUME NEW j \in Reducers PROVE ThreadInv(j)' /\ EndInv(j)'
  <2>1. ThreadInv(j) /\ EndInv(j) /\ receiver \in [Reducers -> ReceiverStates]
    BY DEF TableInv, Types
  <2>2. ThreadInv(j)'
    BY <2>1 DEF ThreadInv
  <2>3. EndInv(j)'
    BY <2>1 DEF EndInv
  <2>4. QED
    BY <2>2, <2>3
<1>4. QED
  BY <1>1, <1>2, <1>3 DEF TableInv

(* fout.open() takes a descriptor that nobody has.                         *)
LEMMA OpenTable ==
  ASSUME FewReducers, TableInv, NEW i \in Reducers, OpenPart(i)
  PROVE  TableInv'
<1> DEFINE d == LowestFree
<1>1. /\ receiver[i] = "dumping" /\ receiver' = [receiver EXCEPT ![i] = "flushing"]
      /\ stream' = [stream EXCEPT ![i] = d]
      /\ table' = [f \in Fds |-> IF f = d THEN i ELSE table[f]]
      /\ UNCHANGED << thread, got, eof, buff, failed, part >>
  BY DEF OpenPart, Receiver
<1>2. \/ d = LOW
      \/ d \in Fds /\ table[d] = FREE /\ \A j \in Reducers : d # c2p_r(j)
  BY <1>1, LowestFreeFacts
<1> HIDE DEF d
<1>3. stream[i] = NONE /\ Types
  BY <1>1 DEF TableInv, ThreadInv
<1>4. Types'
  BY <1>1, <1>2, <1>3 DEF Types, ReceiverStates
<1>5. FileInv'
  BY <1>1, <1>2, <1>3, NumFacts DEF TableInv, FileInv, Types
<1>6. StreamIsOpen'
  BY <1>1, <1>2, <1>3, NumFacts DEF TableInv, StreamIsOpen, Types
<1>7. OutsideInv'
  <2>1. \A j \in Reducers : c2p_r(j) \in Fds
    BY EndFacts DEF Ends
  <2>2. QED
    BY <1>1, <1>2, <1>3, <2>1, NumFacts DEF TableInv, OutsideInv, Types
<1>8. ASSUME NEW j \in Reducers PROVE ThreadInv(j)' /\ EndInv(j)'
  <2>1. ThreadInv(j) /\ EndInv(j) /\ d # NONE
    BY <1>2, NumFacts DEF TableInv
  <2>2. ThreadInv(j)'
    BY <1>1, <1>3, <2>1 DEF ThreadInv, Types
  <2>3. \A f \in Ends(j) : table'[f] = table[f] \/ (table[f] = FREE /\ table'[f] = i)
    BY <1>1, <1>2, NumFacts, EndFacts
  <2>4. EndInv(j)'
    BY <1>1, <1>3, <2>1, <2>3, NumFacts DEF EndInv, Ends, Types
  <2>5. QED
    BY <2>2, <2>4
<1>9. QED
  BY <1>4, <1>5, <1>6, <1>7, <1>8 DEF TableInv

(* fout.close() gives back what fout.open() took.                          *)
LEMMA CloseFileTable ==
  ASSUME TableInv, NEW i \in Reducers, ClosePart(i)
  PROVE  TableInv'
<1> DEFINE d == stream[i]
<1>1. /\ receiver[i] = "closing" /\ receiver' = [receiver EXCEPT ![i] = AfterDump(i)]
      /\ Close({d}) /\ stream' = [stream EXCEPT ![i] = NONE]
      /\ UNCHANGED << thread, got, eof, buff, failed, part >>
      /\ AfterDump(i) \in { "reading", "ended" }
  BY DEF ClosePart, Receiver, AfterDump
<1>2. \A f \in Fds : table'[f] = IF f = d THEN FREE ELSE table[f]
  BY <1>1 DEF Close
<1>3. Types /\ (d \in Fds => table[d] = i)
  BY DEF TableInv, StreamIsOpen
<1>4. Types'
  BY <1>1, <1>3, CloseTypes DEF Types, ReceiverStates
<1>5. FileInv'
  <2>1. SUFFICES ASSUME NEW f \in Fds, table'[f] \in Reducers PROVE stream'[table'[f]] = f
    BY DEF FileInv
  <2>2. f # d /\ table'[f] = table[f]
    BY <1>2, <2>1, NumFacts
  <2>3. stream[table[f]] = f /\ table[f] # i
    BY <2>1, <2>2 DEF TableInv, FileInv
  <2>4. QED
    BY <1>1, <1>3, <2>1, <2>2, <2>3 DEF Types
<1>6. StreamIsOpen'
  <2>1. SUFFICES ASSUME NEW j \in Reducers, stream'[j] \in Fds PROVE table'[stream'[j]] = j
    BY DEF StreamIsOpen
  <2>2. j # i /\ stream'[j] = stream[j]
    BY <1>1, <1>3, <2>1, NumFacts DEF Types
  <2>3. table[stream[j]] = j /\ stream[j] # d
    BY <1>3, <2>1, <2>2 DEF TableInv, StreamIsOpen
  <2>4. QED
    BY <1>2, <2>1, <2>2, <2>3
<1>7. OutsideInv'
  <2>1. \A j \in Reducers : c2p_r(j) \in Fds
    BY EndFacts DEF Ends
  <2>2. QED
    BY <1>1, <1>3, <2>1, NumFacts DEF TableInv, OutsideInv, Types
<1>8. ASSUME NEW j \in Reducers PROVE ThreadInv(j)' /\ EndInv(j)'
  <2>1. ThreadInv(j) /\ EndInv(j) /\ ThreadInv(i)
    BY DEF TableInv
  <2>2. ThreadInv(j)'
    BY <1>1, <1>3, <2>1, NumFacts DEF ThreadInv, Types
  <2>3. \A f \in Ends(j) : table'[f] = table[f] \/ (table[f] = i /\ table'[f] = FREE)
    BY <1>2, <1>3, EndFacts
  <2>4. EndInv(j)'
    BY <1>1, <1>3, <2>1, <2>3, NumFacts DEF EndInv, Ends, Types
  <2>5. QED
    BY <2>2, <2>4
<1>9. QED
  BY <1>4, <1>5, <1>6, <1>7, <1>8 DEF TableInv

-----------------------------------------------------------------------------
(* What is in the buffers and files *)

(* Lines from `from` + 1 on                                                *)
Run(i, from, lines) == \A n \in DOMAIN lines : lines[n] = << i, from + n >>

(* The number of the n-th line of a file: backwards within its batch       *)
Backwards(i, n) ==
  LET before == PIPE_SIZE * ((n - 1) \div PIPE_SIZE)
      top    == IF before + PIPE_SIZE <= Prints[i] THEN before + PIPE_SIZE ELSE Prints[i]
  IN  top - (n - 1 - before)

Batches(i, lines) == \A n \in DOMAIN lines : lines[n] = << i, Backwards(i, n) >>

Complete(i, lines) ==
  \A k \in 1 .. Len(lines) : \E n \in DOMAIN lines : lines[n] = << i, k >>

(* How many lines a reducer has kept                                       *)
Kept(i) == Len(part[i]) + Len(buff[i])

(* Nothing is lost unless a dump() failed, and then nothing more is kept   *)
(* until the last dump(), as the buffer stays full.                        *)
KeptInv(i) ==
  /\ Kept(i) <= got[i]
  /\ i \notin failed => Kept(i) = got[i]
  /\ i \notin failed /\ receiver[i] = "reading" => Len(buff[i]) < PIPE_SIZE
  /\ Len(buff[i]) < PIPE_SIZE /\ receiver[i] \notin { "closing", "ended" } => Kept(i) = got[i]
  /\ ~ eof[i] /\ receiver[i] # "reading" => Kept(i) = got[i]
  /\ eof[i] => got[i] = Prints[i] /\ receiver[i] \in { "dumping", "flushing", "closing", "ended" }
  /\ receiver[i] = "ended" => eof[i]

(* Whole batches are written before the last one.                          *)
BatchInv(i) ==
  /\ ~ eof[i] /\ receiver[i] \in { "dumping", "flushing" } => Len(buff[i]) = PIPE_SIZE
  /\ receiver[i] \in { "new", "closing" } => buff[i] = << >>
  /\ ~ eof[i] \/ receiver[i] \in { "dumping", "flushing" } =>
       \E q \in Nat : Len(part[i]) = PIPE_SIZE * q

(* A receiver ends with its buffer written, unless the last dump() failed. *)
EndedInv(i) == receiver[i] = "ended" /\ i \notin failed => buff[i] = << >>

ContentInv(i) ==
  /\ KeptInv(i) /\ BatchInv(i) /\ EndedInv(i)
  /\ Run(i, Len(part[i]), buff[i])
  /\ Batches(i, part[i]) /\ Complete(i, part[i])

IInv == TableInv /\ \A i \in Reducers : ContentInv(i)

LEMMA InitIInv == Init => IInv
<1> SUFFICES ASSUME Init PROVE IInv
  OBVIOUS
<1>1. ASSUME NEW i \in Reducers PROVE ContentInv(i)
  <2>1. /\ receiver[i] = "new" /\ got[i] = 0 /\ eof[i] = FALSE
        /\ buff[i] = << >> /\ part[i] = << >>
    BY DEF Init
  <2>2. Len(part[i]) = PIPE_SIZE * 0
    BY <2>1, NumFacts
  <2>3. KeptInv(i) /\ BatchInv(i) /\ EndedInv(i)
    BY <2>1, <2>2, NumFacts DEF KeptInv, BatchInv, EndedInv, Kept
  <2>4. Run(i, Len(part[i]), buff[i]) /\ Batches(i, part[i]) /\ Complete(i, part[i])
    BY <2>1 DEF Run, Batches, Complete
  <2>5. QED
    BY <2>3, <2>4 DEF ContentInv
<1>2. QED
  BY <1>1, InitTable DEF IInv

(* A step that leaves the lines of a reducer alone                         *)
LEMMA ContentStays ==
  ASSUME NEW i \in Reducers, ContentInv(i), i \in failed <=> i \in failed',
         receiver'[i] = receiver[i], got'[i] = got[i], eof'[i] = eof[i],
         buff'[i] = buff[i], part'[i] = part[i]
  PROVE  ContentInv(i)'
BY DEF ContentInv, KeptInv, BatchInv, EndedInv, Kept, Run, Batches, Complete

LEMMA AppendIInv ==
  ASSUME IInv, NEW i \in Reducers, AppendLine(i)
  PROVE  IInv'
<1> DEFINE b == Append(buff[i], << i, got[i] + 1 >>)
           to == IF MustDump(b) THEN "dumping" ELSE "reading"
<1>1. /\ receiver[i] = "reading" /\ receiver' = [receiver EXCEPT ![i] = to]
      /\ got[i] < Prints[i] /\ Len(buff[i]) < PIPE_SIZE
      /\ got' = [got EXCEPT ![i] = got[i] + 1] /\ buff' = [buff EXCEPT ![i] = b]
      /\ UNCHANGED << thread, eof, stream, failed, table, part >>
  BY DEF AppendLine, Receiver, HasRoom
<1>2. /\ Types /\ ContentInv(i) /\ got[i] \in Nat /\ buff[i] \in Seq(Lines)
      /\ part[i] \in Seq(Lines) /\ Len(part[i]) \in Nat /\ Len(buff[i]) \in Nat
  BY DEF IInv, TableInv, Types
<1>3. b \in Seq(Lines) /\ Len(b) = Len(buff[i]) + 1 /\ Len(b) <= PIPE_SIZE
      /\ to = IF Len(b) = PIPE_SIZE THEN "dumping" ELSE "reading"
  BY <1>1, <1>2, NumFacts DEF Lines, MustDump
<1>4. Run(i, Len(part[i]), b)
  <2>1. Kept(i) = got[i] /\ Run(i, Len(part[i]), buff[i])
    BY <1>1, <1>2 DEF ContentInv, KeptInv
  <2>2. SUFFICES ASSUME NEW n \in 1 .. Len(buff[i]) + 1
                 PROVE  b[n] = << i, Len(part[i]) + n >>
    BY <1>2 DEF Run
  <2>3. CASE n = Len(buff[i]) + 1
    <3>1. b[Len(buff[i]) + 1] = << i, got[i] + 1 >>
      BY <1>2
    <3>2. got[i] + 1 = Len(part[i]) + (Len(buff[i]) + 1)
      <4>1. got[i] = Len(part[i]) + Len(buff[i])
        BY <2>1 DEF Kept
      <4>2. \A g, k, l \in Nat : g = k + l => g + 1 = k + (l + 1)
        OBVIOUS
      <4>3. Len(part[i]) \in Nat /\ Len(buff[i]) \in Nat /\ got[i] \in Nat
        BY <1>2
      <4>4. QED
        BY <4>1, <4>2, <4>3, Zenon
    <3>3. QED
      BY <2>3, <3>1, <3>2
  <2>4. CASE n # Len(buff[i]) + 1
    BY <1>2, <2>1, <2>4 DEF Run
  <2>5. QED
    BY <2>3, <2>4
<1> HIDE DEF b, to
<1>5. TableInv'
  <2>1. /\ got' \in [Reducers -> Nat] /\ \A j \in Reducers : got'[j] <= Prints[j]
        /\ buff' \in [Reducers -> Seq(Lines)] /\ \A j \in Reducers : Len(buff'[j]) <= PIPE_SIZE
        /\ eof' \in [Reducers -> BOOLEAN] /\ failed' \subseteq Reducers
        /\ part' \in [Reducers -> Seq(Lines)]
    BY <1>1, <1>2, <1>3, NumFacts DEF Types
  <2>2. TableInv /\ to \in { "reading", "dumping" } /\ to \in ReceiverStates
    BY <1>3 DEF IInv, ReceiverStates
  <2>3. QED
    BY <1>1, <2>1, <2>2, BufferTable
<1>6. /\ receiver'[i] = to /\ got'[i] = got[i] + 1 /\ buff'[i] = b
      /\ eof'[i] = eof[i] /\ part'[i] = part[i] /\ failed' = failed
  BY <1>1, <1>2 DEF Types
<1>7. KeptInv(i) /\ BatchInv(i) /\ ~ eof[i] /\ Kept(i) = got[i] /\ Kept(i)' = got[i] + 1
  BY <1>1, <1>2, <1>3, <1>6 DEF ContentInv, KeptInv, Kept, Types
<1>8. KeptInv(i)' /\ BatchInv(i)' /\ EndedInv(i)'
  BY <1>1, <1>2, <1>3, <1>6, <1>7, NumFacts DEF KeptInv, BatchInv, EndedInv
<1>9. ContentInv(i)'
  BY <1>2, <1>4, <1>6, <1>8 DEF ContentInv, Batches, Complete, Run
<1>10. ASSUME NEW j \in Reducers \ {i} PROVE ContentInv(j)'
  BY <1>1, <1>2, ContentStays DEF IInv, Types
<1>11. QED
  BY <1>5, <1>9, <1>10 DEF IInv

(* A line that is lost, the end of the child, or a file that cannot be     *)
(* opened: buffers and files stay as they are.                             *)
LEMMA NoLineIInv ==
  ASSUME IInv, NEW i \in Reducers, DropLine(i) \/ ReceiveEof(i) \/ OpenFails(i)
  PROVE  IInv'
<1>1. PICK to \in { "reading", "dumping", "ended" } :
      /\ receiver' = [receiver EXCEPT ![i] = to]
      /\ UNCHANGED << thread, buff, stream, table, part >>
      /\ \/ /\ receiver[i] = "reading" /\ to = "reading" /\ UNCHANGED << eof, failed >>
            /\ got[i] < Prints[i] /\ ~ HasRoom(buff[i])
            /\ got' = [got EXCEPT ![i] = got[i] + 1]
         \/ /\ receiver[i] = "reading" /\ got[i] = Prints[i] /\ UNCHANGED << got, failed >>
            /\ to = IF buff[i] = << >> THEN "ended" ELSE "dumping"
            /\ eof' = [eof EXCEPT ![i] = TRUE]
         \/ /\ receiver[i] = "dumping" /\ UNCHANGED << got, eof >>
            /\ to = (IF eof[i] THEN "ended" ELSE "reading") /\ failed' = failed \cup {i}
  BY DEF DropLine, ReceiveEof, OpenFails, Receiver, AfterDump
<1>2. /\ Types /\ ContentInv(i) /\ got[i] \in Nat /\ buff[i] \in Seq(Lines)
      /\ part[i] \in Seq(Lines) /\ Len(part[i]) \in Nat /\ Len(buff[i]) \in Nat
      /\ eof[i] \in BOOLEAN /\ Len(buff[i]) <= PIPE_SIZE
  BY DEF IInv, TableInv, Types
<1>3. TableInv'
  <2>1. /\ got' \in [Reducers -> Nat] /\ \A j \in Reducers : got'[j] <= Prints[j]
        /\ buff' \in [Reducers -> Seq(Lines)] /\ \A j \in Reducers : Len(buff'[j]) <= PIPE_SIZE
        /\ eof' \in [Reducers -> BOOLEAN] /\ failed' \subseteq Reducers
        /\ part' \in [Reducers -> Seq(Lines)]
    <3>1. got' \in [Reducers -> Nat] /\ \A j \in Reducers : got'[j] <= Prints[j]
      <4>1. got' = got \/ (got' = [got EXCEPT ![i] = got[i] + 1] /\ got[i] < Prints[i])
        BY <1>1
      <4>2. got \in [Reducers -> Nat] /\ \A j \in Reducers : got[j] <= Prints[j]
        BY <1>2 DEF Types
      <4>3. got[i] < Prints[i] => got[i] + 1 \in Nat /\ got[i] + 1 <= Prints[i]
        BY <4>2, NumFacts
      <4>4. QED
        BY <4>1, <4>2, <4>3
    <3>2. eof' \in [Reducers -> BOOLEAN]
      <4>1. eof' = eof \/ eof' = [eof EXCEPT ![i] = TRUE]
        BY <1>1
      <4>2. QED
        BY <1>2, <4>1 DEF Types
    <3>3. failed' \subseteq Reducers
      BY <1>1, <1>2 DEF Types
    <3>4. QED
      BY <1>1, <1>2, <3>1, <3>2, <3>3 DEF Types
  <2>2. TableInv /\ to \in ReceiverStates
    BY <1>1 DEF IInv, ReceiverStates
  <2>3. QED
    BY <1>1, <2>1, <2>2, BufferTable
<1>4. /\ receiver'[i] = to /\ buff'[i] = buff[i] /\ part'[i] = part[i] /\ Kept(i)' = Kept(i)
      /\ KeptInv(i) /\ BatchInv(i) /\ EndedInv(i)
  BY <1>1, <1>2 DEF Types, Kept, ContentInv
<1>5. KeptInv(i)' /\ BatchInv(i)' /\ EndedInv(i)'
  <2>1. CASE to = "reading" /\ receiver[i] = "reading"
    <3>1. got'[i] = got[i] + 1 /\ Len(buff[i]) = PIPE_SIZE /\ UNCHANGED << eof, failed >>
      BY <1>1, <1>2, <2>1, NumFacts DEF HasRoom, Types
    <3>2. KeptInv(i)'
      <4>1. i \in failed /\ ~ eof[i] /\ Kept(i) <= got[i] /\ Kept(i) \in Nat
        BY <1>2, <1>4, <2>1, <3>1, NumFacts DEF KeptInv, Kept
      <4>2. Kept(i)' <= got'[i]
        BY <1>2, <1>4, <3>1, <4>1
      <4>3. ~ (Len(buff[i]) < PIPE_SIZE)
        BY <3>1, NumFacts
      <4>4. QED
        BY <1>4, <2>1, <3>1, <4>1, <4>2, <4>3 DEF KeptInv
    <3>3. BatchInv(i)' /\ EndedInv(i)'
      BY <1>2, <1>4, <2>1, <3>1 DEF BatchInv, EndedInv
    <3>4. QED
      BY <3>2, <3>3
  <2>2. CASE receiver[i] = "reading" /\ to # "reading"
    <3>1. /\ eof'[i] = TRUE /\ got[i] = Prints[i] /\ UNCHANGED << got, failed >>
          /\ to = IF buff[i] = << >> THEN "ended" ELSE "dumping"
      BY <1>1, <1>2, <2>2 DEF Types
    <3>2. ~ eof[i]
      BY <1>4, <2>2 DEF KeptInv
    <3>3. KeptInv(i)'
      BY <1>2, <1>4, <2>2, <3>1, <3>2, NumFacts DEF KeptInv
    <3>4. BatchInv(i)' /\ EndedInv(i)'
      BY <1>2, <1>4, <2>2, <3>1, <3>2 DEF BatchInv, EndedInv
    <3>5. QED
      BY <3>3, <3>4
  <2>3. CASE receiver[i] = "dumping"
    <3>1. /\ i \in failed' /\ UNCHANGED << got, eof >>
          /\ to = IF eof[i] THEN "ended" ELSE "reading"
      BY <1>1, <2>3
    <3>2. KeptInv(i)'
      BY <1>2, <1>4, <2>3, <3>1, NumFacts DEF KeptInv
    <3>3. BatchInv(i)' /\ EndedInv(i)'
      BY <1>2, <1>4, <2>3, <3>1 DEF BatchInv, EndedInv
    <3>4. QED
      BY <3>2, <3>3
  <2>4. QED
    BY <1>1, <2>1, <2>2, <2>3
<1>6. ContentInv(i)'
  BY <1>2, <1>4, <1>5 DEF ContentInv, Batches, Complete, Run
<1>7. ASSUME NEW j \in Reducers \ {i} PROVE ContentInv(j)'
  BY <1>1, <1>2, ContentStays DEF IInv, Types
<1>8. QED
  BY <1>3, <1>6, <1>7 DEF IInv

(* fout.open() and fout.close()                                            *)
LEMMA FileIInv ==
  ASSUME FewReducers, IInv, NEW i \in Reducers, OpenPart(i) \/ ClosePart(i)
  PROVE  IInv'
<1>1. TableInv'
  BY OpenTable, CloseFileTable DEF IInv
<1>2. PICK to \in ReceiverStates :
      /\ receiver' = [receiver EXCEPT ![i] = to]
      /\ UNCHANGED << got, eof, buff, failed, part >>
      /\ \/ receiver[i] = "dumping" /\ to = "flushing"
         \/ receiver[i] = "closing" /\ to = IF eof[i] THEN "ended" ELSE "reading"
  BY DEF OpenPart, ClosePart, Receiver, AfterDump, ReceiverStates
<1>3. /\ Types /\ ContentInv(i) /\ eof[i] \in BOOLEAN
      /\ KeptInv(i) /\ BatchInv(i) /\ EndedInv(i)
  BY DEF IInv, TableInv, Types, ContentInv
<1>4. /\ receiver'[i] = to /\ buff'[i] = buff[i] /\ part'[i] = part[i] /\ Kept(i)' = Kept(i)
      /\ eof'[i] = eof[i] /\ got'[i] = got[i] /\ failed' = failed
  BY <1>2, <1>3 DEF Types, Kept
<1>5. KeptInv(i)'
  <2>1. receiver[i] = "closing" => Len(buff[i]) < PIPE_SIZE
    BY <1>3, NumFacts DEF BatchInv
  <2>2. QED
    BY <1>2, <1>3, <1>4, <2>1 DEF KeptInv
<1>6. BatchInv(i)' /\ EndedInv(i)'
  BY <1>2, <1>3, <1>4 DEF KeptInv, BatchInv, EndedInv
<1>7. ContentInv(i)'
  BY <1>3, <1>4, <1>5, <1>6 DEF ContentInv, Batches, Complete, Run
<1>8. ASSUME NEW j \in Reducers \ {i} PROVE ContentInv(j)'
  BY <1>2, <1>3, ContentStays DEF IInv, Types
<1>9. QED
  BY <1>1, <1>7, <1>8 DEF IInv

(* The lines of a buffer, backwards behind whole batches, are a batch.     *)
LEMMA BatchIndex ==
  ASSUME NEW q \in Nat, NEW r \in 0 .. PIPE_SIZE - 1, NEW n, n = PIPE_SIZE * q + r + 1
  PROVE  PIPE_SIZE * ((n - 1) \div PIPE_SIZE) = PIPE_SIZE * q /\ n - 1 - PIPE_SIZE * q = r
<1>1. \A P \in Nat \ {0} : \A k \in Nat, l \in 0 .. P - 1 : (P * k + l) \div P = k
  OBVIOUS
<1>2. n - 1 = PIPE_SIZE * q + r
  BY NumFacts
<1>3. QED
  BY <1>1, <1>2, NumFacts

LEMMA ReverseFacts ==
  ASSUME NEW b \in Seq(Lines)
  PROVE  /\ Reverse(b) \in Seq(Lines) /\ Len(Reverse(b)) = Len(b)
         /\ \A n \in 1 .. Len(b) : Reverse(b)[n] = b[Len(b) - n + 1]
BY DEF Reverse

(* What a file has after a batch that begins at PIPE_SIZE * q              *)
LEMMA AppendBatch ==
  ASSUME NEW i \in Reducers, NEW p \in Seq(Lines), NEW b \in Seq(Lines), NEW q \in Nat,
         Len(p) = PIPE_SIZE * q, Len(b) <= PIPE_SIZE, Run(i, Len(p), b),
         Batches(i, p), Complete(i, p), Len(p) + Len(b) <= Prints[i],
         Len(b) < PIPE_SIZE => Len(p) + Len(b) = Prints[i]
  PROVE  Batches(i, p \o Reverse(b)) /\ Complete(i, p \o Reverse(b))
<1> DEFINE s == p \o Reverse(b)
<1>0. DOMAIN p = 1 .. Len(p) /\ DOMAIN b = 1 .. Len(b)
  OBVIOUS
<1>1. /\ Len(p) \in Nat /\ Len(b) \in Nat /\ s \in Seq(Lines) /\ Len(s) = Len(p) + Len(b)
      /\ \A n \in 1 .. Len(p) : s[n] = p[n]
      /\ \A r \in 0 .. Len(b) - 1 : s[Len(p) + r + 1] = b[Len(b) - r]
  <2>1. /\ Reverse(b) \in Seq(Lines) /\ Len(Reverse(b)) = Len(b)
        /\ \A n \in 1 .. Len(b) : Reverse(b)[n] = b[Len(b) - n + 1]
    BY ReverseFacts
  <2>2. /\ Len(p) \in Nat /\ Len(b) \in Nat /\ s \in Seq(Lines) /\ Len(s) = Len(p) + Len(b)
        /\ \A n \in 1 .. Len(p) : s[n] = p[n]
        /\ \A n \in 1 .. Len(b) : s[Len(p) + n] = Reverse(b)[n]
    <3> DEFINE t == Reverse(b)
    <3>1. t \in Seq(Lines) /\ Len(t) = Len(b) /\ Len(p) \in Nat /\ Len(b) \in Nat
      BY <2>1
    <3> HIDE DEF t
    <3>2. /\ p \o t \in Seq(Lines) /\ Len(p \o t) = Len(p) + Len(t)
          /\ \A n \in 1 .. Len(p) + Len(t) :
               (p \o t)[n] = IF n <= Len(p) THEN p[n] ELSE t[n - Len(p)]
      BY <3>1, ConcatProperties, Zenon
    <3>3. ASSUME NEW n \in 1 .. Len(b) PROVE (p \o t)[Len(p) + n] = t[n]
      <4>1. Len(p) + n \in 1 .. Len(p) + Len(t) /\ ~ (Len(p) + n <= Len(p))
            /\ Len(p) + n - Len(p) = n
        BY <3>1
      <4>2. QED
        BY <3>2, <4>1
    <3>4. \A n \in 1 .. Len(p) : (p \o t)[n] = p[n]
      BY <3>1, <3>2
    <3>5. QED
      BY <3>1, <3>2, <3>3, <3>4 DEF t
  <2>3. ASSUME NEW r \in 0 .. Len(b) - 1 PROVE s[Len(p) + r + 1] = b[Len(b) - r]
    <3>1. r + 1 \in 1 .. Len(b) /\ Len(b) - (r + 1) + 1 = Len(b) - r
          /\ Len(p) + r + 1 = Len(p) + (r + 1)
      BY <2>2
    <3>2. QED
      BY <2>1, <2>2, <3>1
  <2>4. QED
    BY <2>2, <2>3
<1> HIDE DEF s
<1>2. /\ \A r \in 0 .. Len(b) - 1 : b[Len(b) - r] = << i, Len(p) + (Len(b) - r) >>
      /\ DOMAIN s = 1 .. Len(s)
  <2>1. ASSUME NEW r \in 0 .. Len(b) - 1 PROVE b[Len(b) - r] = << i, Len(p) + (Len(b) - r) >>
    <3>1. Len(b) - r \in 1 .. Len(b)
      BY <1>1
    <3>2. QED
      BY <1>0, <3>1 DEF Run
  <2>2. DOMAIN s = 1 .. Len(s)
    BY <1>1
  <2>3. QED
    BY <2>1, <2>2
<1>3. Batches(i, s)
  <2>1. SUFFICES ASSUME NEW n \in 1 .. Len(s) PROVE s[n] = << i, Backwards(i, n) >>
    BY <1>2 DEF Batches
  <2>2. CASE n \in 1 .. Len(p)
    BY <1>0, <1>1, <2>2 DEF Batches
  <2>3. CASE n \notin 1 .. Len(p)
    <3>1. PICK r \in 0 .. Len(b) - 1 : n = Len(p) + r + 1
      <4>1. n - Len(p) - 1 \in 0 .. Len(b) - 1 /\ n = Len(p) + (n - Len(p) - 1) + 1
        BY <1>1, <2>3
      <4>2. QED
        BY <4>1
    <3>2. r \in 0 .. PIPE_SIZE - 1 /\ n = PIPE_SIZE * q + r + 1
      BY <1>1, <3>1, NumFacts
    <3>3. /\ PIPE_SIZE * ((n - 1) \div PIPE_SIZE) = Len(p)
          /\ n - 1 - Len(p) = r
      BY <3>2, BatchIndex
    <3>4. (IF Len(p) + PIPE_SIZE <= Prints[i] THEN Len(p) + PIPE_SIZE ELSE Prints[i])
            = Len(p) + Len(b)
      <4>1. Len(p) \in Nat /\ Len(b) \in Nat /\ Prints[i] \in Nat /\ PIPE_SIZE \in Nat
        BY <1>1, NumFacts
      <4>2. QED
        BY <4>1
    <3>5. Backwards(i, n) = Len(p) + Len(b) - r
      BY <3>3, <3>4 DEF Backwards
    <3>6. QED
      BY <1>1, <1>2, <3>1, <3>5
  <2>4. QED
    BY <2>2, <2>3
<1>4. Complete(i, s)
  <2>1. SUFFICES ASSUME NEW k \in 1 .. Len(s) PROVE \E n \in DOMAIN s : s[n] = << i, k >>
    BY DEF Complete
  <2>2. CASE k \in 1 .. Len(p)
    <3>1. PICK n \in 1 .. Len(p) : p[n] = << i, k >>
      BY <1>0, <2>2 DEF Complete
    <3>2. n \in DOMAIN s
      BY <1>1, <1>2
    <3>3. QED
      BY <1>1, <3>1, <3>2
  <2>3. CASE k \notin 1 .. Len(p)
    <3>1. PICK r \in 0 .. Len(b) - 1 : Len(p) + (Len(b) - r) = k
      <4>1. /\ Len(p) + Len(b) - k \in 0 .. Len(b) - 1
            /\ Len(p) + (Len(b) - (Len(p) + Len(b) - k)) = k
        BY <1>1, <2>3
      <4>2. QED
        BY <4>1
    <3>2. Len(p) + r + 1 \in DOMAIN s
      BY <1>1, <1>2
    <3>3. s[Len(p) + r + 1] = << i, k >>
      BY <1>1, <1>2, <3>1
    <3>4. QED
      BY <3>2, <3>3
  <2>4. QED
    BY <2>2, <2>3
<1>5. QED
  BY <1>3, <1>4 DEF s

(* The lines of a buffer go to the file of its own reducer.                *)
LEMMA FlushIInv ==
  ASSUME IInv, NEW i \in Reducers, Flush(i)
  PROVE  IInv'
<1> DEFINE s == part[i] \o Reverse(buff[i])
<1>1. /\ receiver[i] = "flushing" /\ receiver' = [receiver EXCEPT ![i] = "closing"]
      /\ buff' = [buff EXCEPT ![i] = << >>]
      /\ UNCHANGED << thread, got, eof, stream, failed, table >>
  BY DEF Flush, Receiver
<1>2. /\ Types /\ ContentInv(i) /\ got[i] \in Nat /\ buff[i] \in Seq(Lines)
      /\ part[i] \in Seq(Lines) /\ Len(part[i]) \in Nat /\ Len(buff[i]) \in Nat
      /\ eof[i] \in BOOLEAN /\ Len(buff[i]) <= PIPE_SIZE /\ got[i] <= Prints[i]
      /\ KeptInv(i) /\ BatchInv(i)
  BY DEF IInv, TableInv, Types, ContentInv
<1>3. /\ part'[i] = s /\ \A j \in Reducers \ {i} : part'[j] = part[j]
      /\ DOMAIN part' = Reducers
  <2>1. stream[i] = LOW \/ table[stream[i]] = i
    BY <1>1 DEF IInv, TableInv, ThreadInv, StreamIsOpen, Types
  <2>2. part' = [j \in Reducers |->
                   IF (IF stream[i] = LOW THEN j = i ELSE table[stream[i]] = j)
                   THEN part[j] \o Reverse(buff[i]) ELSE part[j]]
    BY DEF Flush, DumpOrder
  <2>3. QED
    BY <2>1, <2>2
<1>4. s \in Seq(Lines) /\ Len(s) = Len(part[i]) + Len(buff[i])
  <2> DEFINE t == Reverse(buff[i])
  <2>1. t \in Seq(Lines) /\ Len(t) = Len(buff[i])
    BY <1>2, ReverseFacts
  <2> HIDE DEF t
  <2>2. part[i] \o t \in Seq(Lines) /\ Len(part[i] \o t) = Len(part[i]) + Len(t)
    BY <1>2, <2>1, ConcatProperties, Zenon
  <2>3. QED
    BY <2>1, <2>2 DEF t
<1>5. Batches(i, s) /\ Complete(i, s)
  <2>1. PICK q \in Nat : Len(part[i]) = PIPE_SIZE * q
    BY <1>1, <1>2 DEF BatchInv
  <2>2. Kept(i) <= Prints[i]
    <3>1. Kept(i) <= got[i]
      BY <1>2 DEF KeptInv
    <3>2. Kept(i) \in Nat
      <4>1. \A k, l \in Nat : k + l \in Nat
        OBVIOUS
      <4>2. QED
        BY <1>2, <4>1, Zenon DEF Kept
    <3>3. QED
      BY <1>2, <3>1, <3>2, NumFacts
  <2>3. Len(buff[i]) < PIPE_SIZE => Kept(i) = Prints[i]
    BY <1>1, <1>2, NumFacts DEF KeptInv, BatchInv
  <2>4. Run(i, Len(part[i]), buff[i]) /\ Batches(i, part[i]) /\ Complete(i, part[i])
    BY <1>2 DEF ContentInv
  <2>5. QED
    BY <1>2, <2>1, <2>2, <2>3, <2>4, AppendBatch DEF Kept
<1> HIDE DEF s
<1>6. TableInv'
  <2>1. part' \in [Reducers -> Seq(Lines)]
    <3>1. \A j \in Reducers : part'[j] \in Seq(Lines)
      BY <1>2, <1>3, <1>4 DEF Types
    <3>2. part' = [j \in Reducers |-> part'[j]]
      BY DEF Flush
    <3>3. QED
      BY <3>1, <3>2
  <2>2. /\ got' \in [Reducers -> Nat] /\ \A j \in Reducers : got'[j] <= Prints[j]
        /\ eof' \in [Reducers -> BOOLEAN] /\ failed' \subseteq Reducers
    BY <1>1, <1>2 DEF Types
  <2>3. buff' \in [Reducers -> Seq(Lines)] /\ \A j \in Reducers : Len(buff'[j]) <= PIPE_SIZE
    BY <1>1, <1>2, NumFacts DEF Types
  <2>4. TableInv /\ "closing" \in ReceiverStates
    BY DEF IInv, ReceiverStates
  <2>5. QED
    BY <1>1, <2>1, <2>2, <2>3, <2>4, BufferTable
<1>7. /\ receiver'[i] = "closing" /\ buff'[i] = << >> /\ eof'[i] = eof[i] /\ got'[i] = got[i]
      /\ failed' = failed /\ Len(buff'[i]) = 0
  BY <1>1, <1>2 DEF Types
<1>8. Kept(i)' = Kept(i)
  BY <1>2, <1>3, <1>4, <1>7 DEF Kept
<1>9. KeptInv(i)' /\ EndedInv(i)'
  BY <1>1, <1>2, <1>7, <1>8 DEF KeptInv, EndedInv
<1>10. BatchInv(i)'
  <2>1. ~ eof[i] => \E q \in Nat : Len(s) = PIPE_SIZE * q
    <3>1. SUFFICES ASSUME ~ eof[i] PROVE \E q \in Nat : Len(s) = PIPE_SIZE * q
      OBVIOUS
    <3>2. PICK q \in Nat : Len(part[i]) = PIPE_SIZE * q
      BY <1>1, <1>2 DEF BatchInv
    <3>3. Len(buff[i]) = PIPE_SIZE
      BY <1>1, <1>2, <3>1 DEF BatchInv
    <3>4. Len(s) = PIPE_SIZE * (q + 1)
      BY <1>4, <3>2, <3>3, NumFacts
    <3>5. QED
      BY <3>4
  <2>2. QED
    BY <1>3, <1>7, <2>1 DEF BatchInv
<1>11. Run(i, Len(part[i]), buff[i])'
  BY <1>7 DEF Run
<1>12. ContentInv(i)'
  BY <1>3, <1>5, <1>9, <1>10, <1>11 DEF ContentInv, Batches, Complete
<1>13. ASSUME NEW j \in Reducers \ {i} PROVE ContentInv(j)'
  BY <1>1, <1>2, <1>3, ContentStays DEF IInv, Types
<1>14. QED
  BY <1>6, <1>12, <1>13 DEF IInv

(* A reducer thread only closes descriptors.                               *)
LEMMA ThreadIInv ==
  ASSUME IInv, NEW i \in Reducers,
         SetUp(i) \/ SetUpFails(i) \/ CloseWrite(i) \/ JoinAndFclose(i) \/ CloseAgain(i)
  PROVE  IInv'
<1>1. TableInv'
  BY SetUpTable, CloseTable DEF IInv
<1>2. /\ UNCHANGED << got, eof, buff, failed, part >>
      /\ \/ receiver' = receiver
         \/ receiver[i] = "new" /\ receiver' = [receiver EXCEPT ![i] = "reading"]
  BY DEF SetUp, SetUpFails, CloseWrite, JoinAndFclose, CloseAgain, Thread, IInv, TableInv, ThreadInv
<1>3. ASSUME NEW j \in Reducers PROVE ContentInv(j)'
  <2>1. ContentInv(j) /\ receiver \in [Reducers -> ReceiverStates]
    BY DEF IInv, TableInv, Types
  <2>2. CASE receiver'[j] = receiver[j]
    BY <1>2, <2>1, <2>2, ContentStays
  <2>3. CASE receiver[j] = "new" /\ receiver'[j] = "reading"
    <3>1. KeptInv(j) /\ BatchInv(j) /\ Kept(j)' = Kept(j) /\ Len(buff[j]) = 0
      BY <1>2, <2>1, <2>3 DEF ContentInv, BatchInv, Kept
    <3>2. KeptInv(j)'
      BY <1>2, <2>3, <3>1, NumFacts DEF KeptInv
    <3>3. BatchInv(j)' /\ EndedInv(j)'
      BY <1>2, <2>3, <3>1 DEF KeptInv, BatchInv, EndedInv
    <3>4. QED
      BY <1>2, <2>1, <3>2, <3>3 DEF ContentInv, Run, Batches, Complete
  <2>4. QED
    BY <1>2, <2>1, <2>2, <2>3
<1>4. QED
  BY <1>1, <1>3 DEF IInv

LEMMA NextIInv == ASSUME FewReducers, IInv, [Next]_vars PROVE IInv'
<1>1. CASE UNCHANGED vars
  <2>1. TableInv'
    BY <1>1 DEF vars, IInv, TableInv, Types, FileInv, StreamIsOpen, OutsideInv, ThreadInv, EndInv
  <2>2. ASSUME NEW i \in Reducers PROVE ContentInv(i)'
    BY <1>1, ContentStays DEF vars, IInv
  <2>3. QED
    BY <2>1, <2>2 DEF IInv
<1>2. CASE Next /\ ~ UNCHANGED vars
  <2>1. PICK i \in Reducers :
          \/ SetUp(i) \/ SetUpFails(i) \/ CloseWrite(i) \/ JoinAndFclose(i)
          \/ CloseAgain(i) \/ AppendLine(i) \/ DropLine(i) \/ ReceiveEof(i)
          \/ OpenPart(i) \/ OpenFails(i) \/ Flush(i) \/ ClosePart(i)
    BY <1>2 DEF Next, Terminated
  <2>2. QED
    BY <2>1, ThreadIInv, AppendIInv, NoLineIInv, FileIInv, FlushIInv
<1>3. QED
  BY <1>1, <1>2

-----------------------------------------------------------------------------
(* The theorems *)

(* The invariant of every behaviour with few reducers.                     *)
LEMMA Invariance == ASSUME FewReducers PROVE Spec => []IInv
<1>1. Init => IInv
  BY InitIInv
<1>2. IInv /\ [Next]_vars => IInv'
  BY NextIInv
<1>3. QED
  BY <1>1, <1>2, PTL DEF Spec

(* With at most LowFds + 1 reducers, the state of threads, buffers,        *)
(* descriptors and files is well-typed, and a buffer never holds more      *)
(* lines than there are (DumpBuff::append()).                              *)
THEOREM TypeCorrect == ASSUME FewReducers PROVE Spec => []TypeOK
<1>1. IInv => TypeOK
  BY NumFacts DEF IInv, TableInv, Types, TypeOK, ThreadStates, ReceiverStates
<1>2. QED
  BY <1>1, Invariance, PTL

(* With at most LowFds + 1 reducers, that is 4 * map_num + 1 less two for  *)
(* each mapper that gave up, the second close() in Reduce::Run() never     *)
(* closes a file that another receiver writes.                             *)
THEOREM SecondCloseIsHarmless == ASSUME FewReducers PROVE Spec => []StreamIsOpen
<1>1. IInv => StreamIsOpen
  BY DEF IInv, TableInv
<1>2. QED
  BY <1>1, Invariance, PTL

(* With so few reducers each part file has the lines of its own reducer,   *)
(* in batches of PIPE_SIZE that are each backwards (DumpBuff::dump()),     *)
(* whichever dump() fails.                                                 *)
THEOREM FilesAreReversedInBatches == ASSUME FewReducers PROVE Spec => []ReversedInBatches
<1>1. IInv => ReversedInBatches
  BY DEF IInv, ContentInv, Batches, Backwards, ReversedInBatches
<1>2. QED
  BY <1>1, Invariance, PTL

LEMMA NoHoles == ASSUME IInv PROVE NoHolesInOutput
<1> SUFFICES ASSUME NEW i \in Reducers
             PROVE  LET kept == part[i] \o buff[i] IN
                      /\ Len(kept) <= got[i]
                      /\ i \notin failed => Len(kept) = got[i]
                      /\ \A k \in 1 .. Len(kept) : \E n \in DOMAIN kept : kept[n] = << i, k >>
  BY DEF NoHolesInOutput
<1> DEFINE p == part[i]
           b == buff[i]
           kept == p \o b
<1>1. /\ p \in Seq(Lines) /\ b \in Seq(Lines) /\ KeptInv(i)
      /\ Run(i, Len(p), b) /\ Complete(i, p)
  BY DEF IInv, TableInv, Types, ContentInv
<1>2. Len(p) + Len(b) <= got[i] /\ (i \notin failed => Len(p) + Len(b) = got[i])
  BY <1>1, Zenon DEF KeptInv, Kept
<1> HIDE DEF p, b
<1>3. /\ kept \in Seq(Lines) /\ Len(kept) = Len(p) + Len(b)
      /\ \A n \in 1 .. Len(p) + Len(b) : kept[n] = IF n <= Len(p) THEN p[n] ELSE b[n - Len(p)]
  BY <1>1, ConcatProperties, Zenon
<1> HIDE DEF kept
<1>4. /\ DOMAIN kept = 1 .. Len(kept) /\ DOMAIN p = 1 .. Len(p) /\ DOMAIN b = 1 .. Len(b)
      /\ Len(p) \in Nat /\ Len(b) \in Nat
  BY <1>1, <1>3
<1>5. ASSUME NEW k \in 1 .. Len(kept) PROVE \E n \in DOMAIN kept : kept[n] = << i, k >>
  <2>1. CASE k <= Len(p)
    <3>1. k \in 1 .. Len(p)
      BY <1>3, <1>4, <2>1
    <3>2. PICK n \in 1 .. Len(p) : p[n] = << i, k >>
      BY <1>1, <1>4, <3>1 DEF Complete
    <3>3. n \in 1 .. Len(p) + Len(b) /\ n <= Len(p)
      BY <1>4
    <3>4. QED
      BY <1>3, <1>4, <3>2, <3>3
  <2>2. CASE ~ (k <= Len(p))
    <3>1. k - Len(p) \in 1 .. Len(b) /\ Len(p) + (k - Len(p)) = k
      BY <1>3, <1>4, <2>2
    <3>2. b[k - Len(p)] = << i, k >>
      BY <1>1, <1>4, <3>1 DEF Run
    <3>3. QED
      BY <1>3, <1>4, <2>2, <3>2
  <2>3. QED
    BY <2>1, <2>2
<1>6. QED
  BY <1>2, <1>3, <1>5 DEF kept, p, b

(* With so few reducers everything a receiver got is in its file or its    *)
(* buffer, without gaps, and nothing is missing unless a dump() failed.    *)
THEOREM NothingIsLostFromBetween == ASSUME FewReducers PROVE Spec => []NoHolesInOutput
<1>1. IInv => NoHolesInOutput
  BY NoHoles
<1>2. QED
  BY <1>1, Invariance, PTL

(* With so few reducers, what Reduce.cpp:32 asks for holds: a receiver     *)
(* that is through, and whose file never failed to open, has written every *)
(* line its child printed.                                                 *)
THEOREM EverythingIsDumped == ASSUME FewReducers PROVE Spec => []AllDataIsDumped
<1>1. ASSUME IInv PROVE AllDataIsDumped
  <2>1. SUFFICES ASSUME NEW i \in Reducers, i \notin failed, receiver[i] = "ended",
                        NEW k \in 1 .. Prints[i]
                 PROVE  \E n \in DOMAIN part[i] : part[i][n] = << i, k >>
    BY DEF AllDataIsDumped
  <2>2. KeptInv(i) /\ EndedInv(i) /\ Complete(i, part[i]) /\ part[i] \in Seq(Lines)
    BY <1>1 DEF IInv, ContentInv, TableInv, Types
  <2>3. /\ buff[i] = << >> /\ Kept(i) = Prints[i]
    BY <2>1, <2>2 DEF KeptInv, EndedInv
  <2>4. Len(part[i]) = Prints[i]
    BY <2>2, <2>3 DEF Kept
  <2>5. QED
    BY <2>2, <2>4 DEF Complete
<1>2. QED
  BY <1>1, Invariance, PTL

=============================================================================
