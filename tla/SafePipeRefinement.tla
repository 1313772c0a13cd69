------------------------- MODULE SafePipeRefinement -------------------------
(***************************************************************************)
(* Proof that a SafePipe implements the first-in first-out queue LineQueue *)
(* for any number of slots, producers and consumers.                       *)
(***************************************************************************)
EXTENDS SafePipeProofs

(* What is in the slots: a pushed slot holds a line, and a slot about to   *)
(* be pushed holds the line its producer dispatches.                       *)
ContentInv ==
  /\ \A s \in Slots : pipe.flag[s] = 1 => pipe.queue[s] \in Lines
  /\ \A p \in Producers : pc[p] = "pushing" => pipe.queue[index[p]] = str[p]

(* The inductive invariant with the contents. *)
RInv == IInv /\ ContentInv

(* No slot has contents that matter at the start. *)
LEMMA InitRInv == Init => RInv
BY InitIInv, ThreadsAssumption, MaxNumAssumption
DEF RInv, ContentInv, Init, NewPipe, Threads, Slots

(* The contents change only under the hands of the slot's holder. *)
LEMMA NextContent == RInv /\ [Next]_vars => ContentInv'
<1> SUFFICES ASSUME RInv, [Next]_vars PROVE ContentInv'
  OBVIOUS
<1>1. /\ pipe \in PipeType
      /\ pc \in [Threads -> {"idle", "filling", "pushing", "popping", "using"}]
      /\ index \in [Threads -> Slots]
      /\ str \in [Producers -> Lines \cup {NoLine}]
      /\ \A p \in Producers : Busy(p) => str[p] \in Lines
  BY DEF RInv, IInv, TypeOK
<1>2. /\ pipe.queue \in [Slots -> Lines \cup {NoLine}]
      /\ pipe.flag \in [Slots -> {0, 1}]
      /\ pipe.front \in Slots /\ pipe.tail \in Slots
  BY <1>1 DEF PipeType
<1>3. ASSUME NEW p \in Producers, NEW line \in Lines, GetFreeItem(p, line)
      PROVE  ContentInv'
  <2>1. /\ pipe'.queue = pipe.queue
        /\ pipe'.flag = [pipe.flag EXCEPT ![pipe.tail] = 0]
    BY <1>1, <1>3 DEF PipeType, GetFreeItem, get_free_item
  <2>2. \A q \in Producers : pc'[q] = "pushing" =>
          pc[q] = "pushing" /\ index'[q] = index[q] /\ str'[q] = str[q]
    BY <1>1, <1>3 DEF GetFreeItem, Threads
  <2>3. QED
    BY <1>2, <2>1, <2>2 DEF RInv, ContentInv
<1>4. ASSUME NEW p \in Producers, Fill(p) PROVE ContentInv'
  <2>1. p \in Threads /\ index[p] \in Slots /\ str[p] \in Lines
    BY <1>1, <1>4 DEF Fill, Busy, Threads
  <2>2. /\ pipe'.queue = [pipe.queue EXCEPT ![index[p]] = str[p]]
        /\ pipe'.flag = pipe.flag
    BY <1>1, <1>4 DEF PipeType, Fill, CopyInto
  <2>3. \A s \in Slots : pipe'.flag[s] = 1 => pipe'.queue[s] \in Lines
    BY <1>2, <2>1, <2>2 DEF RInv, ContentInv
  <2>4. \A q \in Producers : q # p => pc'[q] = pc[q]
    BY <1>1, <1>4 DEF Fill, Threads
  <2>5. \A q \in Producers : q # p /\ pc[q] = "pushing" => index[q] # index[p]
    BY <1>4 DEF RInv, IInv, ProducerInv, Busy, Fill
  <2>6. index' = index /\ str' = str
    BY <1>4 DEF Fill
  <2>7. \A q \in Producers : pc'[q] = "pushing" => pipe'.queue[index'[q]] = str'[q]
    BY <1>1, <1>2, <2>1, <2>2, <2>4, <2>5, <2>6 DEF RInv, ContentInv, Threads
  <2>8. QED
    BY <2>3, <2>7 DEF ContentInv
<1>5. ASSUME NEW p \in Producers, PushItem(p) PROVE ContentInv'
  <2>1. /\ p \in Threads /\ index[p] \in Slots
        /\ pipe.queue[index[p]] \in Lines
    BY <1>1, <1>5 DEF RInv, ContentInv, PushItem, Busy, Threads
  <2>2. /\ pipe'.queue = pipe.queue
        /\ pipe'.flag = [pipe.flag EXCEPT ![index[p]] = 1]
    BY <1>1, <1>5 DEF PipeType, PushItem, push_item
  <2>3. \A q \in Producers : pc'[q] = "pushing" => pc[q] = "pushing"
    BY <1>1, <1>5 DEF PushItem, Threads
  <2>4. index' = index /\ str' = str
    BY <1>5 DEF PushItem
  <2>5. QED
    BY <1>2, <2>1, <2>2, <2>3, <2>4 DEF RInv, ContentInv
<1>6. ASSUME NEW c \in Consumers, PopFront(c) PROVE ContentInv'
  <2>1. pipe'.queue = pipe.queue /\ pipe'.flag = pipe.flag
    BY <1>1, <1>6 DEF PipeType, PopFront, pop_front
  <2>2. \A q \in Producers : pc'[q] = pc[q] /\ index'[q] = index[q]
    BY <1>1, <1>6, ThreadsAssumption DEF PopFront, Threads
  <2>3. str' = str
    BY <1>6 DEF PopFront
  <2>4. QED
    BY <2>1, <2>2, <2>3 DEF RInv, ContentInv
<1>7. ASSUME NEW c \in Consumers, NotifyUsedEnd(c) PROVE ContentInv'
  <2>1. /\ pipe'.queue = pipe.queue
        /\ pipe'.flag = [pipe.flag EXCEPT ![index[c]] = 0]
    BY <1>1, <1>7 DEF PipeType, NotifyUsedEnd, notify_used_end
  <2>2. \A q \in Producers : pc'[q] = pc[q]
    BY <1>1, <1>7, ThreadsAssumption DEF NotifyUsedEnd, Threads
  <2>3. index' = index /\ str' = str
    BY <1>7 DEF NotifyUsedEnd
  <2>4. QED
    BY <1>2, <2>1, <2>2, <2>3 DEF RInv, ContentInv
<1>8. ASSUME NEW c \in Consumers, CondWait(c) \/ SpuriousWakeup(c) PROVE ContentInv'
  BY <1>8 DEF RInv, ContentInv, CondWait, SpuriousWakeup
<1>9. CASE UNCHANGED vars
  BY <1>9 DEF vars, RInv, ContentInv
<1>10. QED
  BY <1>3, <1>4, <1>5, <1>6, <1>7, <1>8, <1>9 DEF Next, Produce, Consume

(* Every step keeps the invariant of the refinement. *)
LEMMA NextRInv == RInv /\ [Next]_vars => RInv'
BY NextIInv, NextContent DEF RInv

-----------------------------------------------------------------------------
(* The state seen through the refinement mapping. *)

(* The choice from a set of one element is that element. *)
LEMMA OnlyOne == \A x : TheOne({x}) = x
BY DEF TheOne

(* A slot's filler is the only one, so the mapping shows it by name. *)
LEMMA FillerIsCell ==
  ASSUME IInv, NEW p \in Producers, Busy(p)
  PROVE  Fillers(index[p]) = {p} /\ Cell[index[p]] = p
<1>1. Fillers(index[p]) = {p}
  BY DEF IInv, TypeOK, ProducerInv, Fillers, Holds, Busy
<1>2. pipe.flag[index[p]] = 0
  BY DEF IInv, ProducerInv
<1>3. index[p] \in Slots
  BY DEF IInv, TypeOK, Threads
<1>4. Cell[index[p]] = TheOne(Fillers(index[p]))
  BY <1>2, <1>3 DEF Cell
<1>5. QED
  BY <1>1, <1>4, OnlyOne

(* The places of the queue are slots, in the window, the first at front. *)
LEMMA PlacesAreSlots ==
  ASSUME TypeOK
  PROVE  /\ pipe.length \in Nat /\ pipe.length <= MaxNum
         /\ \A k \in 1 .. pipe.length :
              SlotAt(k) \in Slots /\ InWindow(SlotAt(k)) /\ (k # 1 => SlotAt(k) # pipe.front)
         /\ pipe.length > 0 => SlotAt(1) = pipe.front
<1>1. /\ pipe.front \in Nat /\ pipe.front < MaxNum /\ MaxNum \in Nat
      /\ pipe.length \in 0 .. MaxNum
  BY MaxNumAssumption DEF TypeOK, PipeType, Slots
<1>2. ASSUME NEW k \in 1 .. pipe.length
      PROVE  /\ SlotAt(k) \in Slots /\ InWindow(SlotAt(k))
             /\ k # 1 => SlotAt(k) # pipe.front
  <2>1. k \in Nat /\ 1 <= k /\ k <= pipe.length
    BY <1>1
  <2>2. CASE pipe.front + k - 1 < MaxNum
    <3>1. SlotAt(k) = pipe.front + k - 1
      BY <2>2 DEF SlotAt
    <3>2. QED
      BY <1>1, <2>1, <2>2, <3>1 DEF Slots, InWindow, Dist
  <2>3. CASE ~ (pipe.front + k - 1 < MaxNum)
    <3>1. SlotAt(k) = pipe.front + k - 1 - MaxNum
      BY <1>1, <2>1, <2>3 DEF SlotAt
    <3>2. QED
      BY <1>1, <2>1, <2>3, <3>1 DEF Slots, InWindow, Dist
  <2>4. QED
    BY <2>2, <2>3
<1>3. pipe.length > 0 => SlotAt(1) = pipe.front
  BY <1>1 DEF SlotAt
<1>4. QED
  BY <1>1, <1>2, <1>3

(* A place is a line or the one producer that is filling it. *)
LEMMA CellOfPlace ==
  ASSUME RInv, NEW s \in Slots, InWindow(s)
  PROVE  \/ pipe.flag[s] = 1 /\ Cell[s] = pipe.queue[s] /\ Cell[s] \in Lines
         \/ \E p \in Producers : Busy(p) /\ index[p] = s /\ Cell[s] = p
<1>1. pipe.flag[s] \in {0, 1}
  BY DEF RInv, IInv, TypeOK, PipeType
<1>2. CASE pipe.flag[s] = 1
  BY <1>2 DEF RInv, ContentInv, Cell
<1>3. CASE pipe.flag[s] = 0
  <2>1. PICK p \in Producers : Busy(p) /\ index[p] = s
    BY <1>3 DEF RInv, IInv, FlagInv
  <2>2. QED
    BY <2>1, FillerIsCell DEF RInv
<1>4. QED
  BY <1>1, <1>2, <1>3

(* A fresh pipe is an empty queue. *)
LEMMA InitRefines == Init => Queue!QInit
<1> SUFFICES ASSUME Init PROVE Queue!QInit
  OBVIOUS
<1>1. Fifo = << >>
  BY DEF Init, NewPipe, Fifo
<1>2. Asked = [p \in Producers |-> NoLine]
  BY DEF Init, Asked, Busy, Threads
<1>3. Hand = [c \in Consumers |-> NoLine]
  BY ThreadsAssumption DEF Init, Hand, Threads
<1>4. QED
  BY <1>1, <1>2, <1>3 DEF Queue!QInit

(* get_free_item() reserves the next place. *)
LEMMA GetFreeItemRefines ==
  ASSUME RInv, NEW p \in Producers, NEW line \in Lines, GetFreeItem(p, line)
  PROVE  Queue!Reserve(p, line)
<1>1. PICK t \in Slots, n \in Nat : t = pipe.tail /\ n = pipe.length /\ n < MaxNum
  BY MaxNumAssumption
  DEF RInv, IInv, TypeOK, PipeType, GetFreeItem, HasFreeItem, full
<1>2. TypeOK /\ p \in Threads /\ pc[p] = "idle"
  BY DEF RInv, IInv, GetFreeItem, Threads
<1>3. /\ pipe'.queue = pipe.queue /\ pipe'.front = pipe.front
      /\ pipe'.flag = pipe.flag /\ pipe'.length = n + 1
      /\ pipe.flag[t] = 0
  BY <1>1, <1>2 DEF GetFreeItem, HasFreeItem, get_free_item, TypeOK, PipeType
<1>4. /\ pc' = [pc EXCEPT ![p] = "filling"]
      /\ index' = [index EXCEPT ![p] = t]
      /\ str' = [str EXCEPT ![p] = line]
  BY <1>1 DEF GetFreeItem
<1>5. /\ pc'[p] = "filling" /\ index'[p] = t
      /\ \A u \in Threads : u # p => pc'[u] = pc[u] /\ index'[u] = index[u]
  BY <1>2, <1>4 DEF TypeOK
<1>6. \A s \in Slots : s # t => Fillers(s)' = Fillers(s)
  BY <1>2, <1>5 DEF Fillers, Holds, Threads
<1>7. ~ InWindow(t)
  <2>1. pipe.front \in Nat /\ pipe.front < MaxNum /\ MaxNum \in Nat
    BY <1>2, MaxNumAssumption DEF TypeOK, PipeType, Slots
  <2>2. QED
    BY <1>1, <2>1 DEF RInv, IInv, TailInv, InWindow, Dist
<1>8. Fillers(t)' = {p}
  <2>1. \A q \in Producers : Busy(q) => index[q] # t
    BY <1>7 DEF RInv, IInv, ProducerInv, InWindow, Dist
  <2>2. ASSUME NEW q \in Producers, q # p PROVE ~ Holds(q, t)'
    <3>1. pc'[q] = pc[q] /\ index'[q] = index[q]
      BY <1>5, <2>2 DEF Threads
    <3>2. QED
      BY <1>2, <2>1, <2>2, <3>1 DEF Holds, Busy, TypeOK
  <2>3. Holds(p, t)'
    BY <1>5 DEF Holds
  <2>4. QED
    BY <2>2, <2>3 DEF Fillers
<1>9. \A k \in 1 .. n : SlotAt(k)' = SlotAt(k) /\ SlotAt(k) \in Slots /\ SlotAt(k) # t
  BY <1>1, <1>2, <1>3, <1>7, PlacesAreSlots DEF SlotAt, InWindow, Dist
<1>10. SlotAt(n + 1)' = t
  <2>1. t = IF pipe.front + n < MaxNum THEN pipe.front + n ELSE pipe.front + n - MaxNum
    BY <1>1 DEF RInv, IInv, TailInv
  <2>2. pipe.front \in Nat /\ MaxNum \in Nat
    BY <1>2, MaxNumAssumption DEF TypeOK, PipeType, Slots
  <2>3. QED
    BY <1>1, <1>3, <2>1, <2>2 DEF SlotAt
<1>11. ASSUME NEW k \in 1 .. n PROVE Cell'[SlotAt(k)'] = Cell[SlotAt(k)]
  <2>1. PICK s \in Slots : s = SlotAt(k) /\ s = SlotAt(k)' /\ s # t
    BY <1>9
  <2>2. Cell'[s] = Cell[s]
    BY <1>3, <1>6, <2>1 DEF Cell
  <2>3. QED
    BY <2>1, <2>2
<1>12. Cell'[SlotAt(n + 1)'] = p
  <2>1. Cell'[t] = TheOne(Fillers(t)')
    BY <1>3 DEF Cell
  <2>2. QED
    BY <1>8, <1>10, <2>1, OnlyOne
<1>13. Len(Fifo) = n /\ Fifo' = Append(Fifo, p)
  <2>1. Fifo = [k \in 1 .. n |-> Cell[SlotAt(k)]]
    BY <1>1 DEF Fifo
  <2>2. Fifo' = [k \in 1 .. n + 1 |-> Cell'[SlotAt(k)']]
    BY <1>3 DEF Fifo
  <2>3. QED
    BY <1>1, <1>11, <1>12, <2>1, <2>2
<1>14. Asked[p] = NoLine /\ Asked' = [Asked EXCEPT ![p] = line]
  BY <1>2, <1>4, <1>5 DEF Asked, Busy, TypeOK, Threads
<1>15. Hand' = Hand
  BY <1>2, <1>3, <1>5, ThreadsAssumption DEF Hand, Threads
<1>16. QED
  BY <1>1, <1>13, <1>14, <1>15 DEF Queue!Reserve

(* strcpy() into a slot that nobody else sees is no step of the queue. *)
LEMMA FillRefines ==
  ASSUME RInv, NEW p \in Producers, Fill(p)
  PROVE  UNCHANGED Queue!qvars
<1>1. TypeOK /\ p \in Threads /\ pc[p] = "filling" /\ index[p] \in Slots
  BY DEF RInv, IInv, TypeOK, Fill, Threads
<1>2. /\ pipe'.queue = [pipe.queue EXCEPT ![index[p]] = str[p]]
      /\ pipe'.flag = pipe.flag /\ pipe'.front = pipe.front
      /\ pipe'.length = pipe.length
      /\ pc' = [pc EXCEPT ![p] = "pushing"] /\ index' = index /\ str' = str
  BY <1>1 DEF TypeOK, PipeType, Fill, CopyInto
<1>3. pipe.flag[index[p]] = 0
  BY <1>1 DEF RInv, IInv, ProducerInv, Busy
<1>4. \A s \in Slots : s # index[p] => pipe'.queue[s] = pipe.queue[s]
  BY <1>1, <1>2 DEF TypeOK, PipeType
<1>5. \A s \in Slots : Fillers(s)' = Fillers(s)
  BY <1>1, <1>2 DEF Fillers, Holds, TypeOK, Threads
<1>6. Cell' = Cell
  BY <1>2, <1>3, <1>4, <1>5 DEF Cell
<1>7. Fifo' = Fifo
  BY <1>2, <1>6 DEF Fifo, SlotAt
<1>8. Asked' = Asked
  BY <1>1, <1>2 DEF Asked, Busy, TypeOK, Threads
<1>9. Hand' = Hand
  <2>1. \A c \in Consumers : pc'[c] = pc[c]
    BY <1>1, <1>2, ThreadsAssumption DEF TypeOK, Threads
  <2>2. \A c \in Consumers : pc[c] = "using" =>
          index[c] \in Slots /\ index[c] # index[p]
    BY <1>1, <1>3 DEF RInv, IInv, ConsumerInv, TypeOK, Threads
  <2>3. QED
    BY <1>2, <1>4, <2>1, <2>2 DEF Hand
<1>10. QED
  BY <1>7, <1>8, <1>9 DEF Queue!qvars

(* push_item() delivers the producer's line to the place it reserved. *)
LEMMA PushItemRefines ==
  ASSUME RInv, NEW p \in Producers, PushItem(p)
  PROVE  Queue!Deliver(p)
<1>1. PICK i \in Slots, n \in Nat : i = index[p] /\ n = pipe.length
  BY DEF RInv, IInv, TypeOK, PipeType, Threads
<1>2. /\ TypeOK /\ p \in Threads /\ pc[p] = "pushing" /\ Busy(p)
      /\ str[p] \in Lines /\ pipe.queue[i] = str[p]
  BY <1>1 DEF RInv, IInv, TypeOK, ContentInv, PushItem, Threads, Busy
<1>3. /\ pipe'.queue = pipe.queue /\ pipe'.front = pipe.front
      /\ pipe'.flag = [pipe.flag EXCEPT ![i] = 1] /\ pipe'.length = n
      /\ pc' = [pc EXCEPT ![p] = "idle"] /\ index' = index /\ str' = str
  BY <1>1, <1>2 DEF TypeOK, PipeType, PushItem, push_item
<1>4. \A s \in Slots : pipe'.flag[s] = IF s = i THEN 1 ELSE pipe.flag[s]
  BY <1>2, <1>3 DEF TypeOK, PipeType
<1>5. \A s \in Slots : s # i => Fillers(s)' = Fillers(s)
  BY <1>1, <1>2, <1>3 DEF Fillers, Holds, TypeOK, Threads
<1>6. Cell'[i] = str[p] /\ \A s \in Slots : s # i => Cell'[s] = Cell[s]
  BY <1>2, <1>3, <1>4, <1>5 DEF Cell
<1>7. Cell[i] = p
  BY <1>1, <1>2, FillerIsCell DEF RInv
<1>8. \A s \in Slots : InWindow(s) /\ s # i => Cell[s] # p
  <2> SUFFICES ASSUME NEW s \in Slots, InWindow(s), s # i, Cell[s] = p PROVE FALSE
    OBVIOUS
  <2>1. p \notin Lines
    BY CellsAssumption
  <2>2. PICK q \in Producers : Busy(q) /\ index[q] = s /\ Cell[s] = q
    BY <2>1, CellOfPlace
  <2>3. QED
    BY <1>1, <2>2
<1>9. \A k \in 1 .. n : /\ SlotAt(k)' = SlotAt(k) /\ SlotAt(k) \in Slots
                        /\ InWindow(SlotAt(k))
  BY <1>1, <1>2, <1>3, PlacesAreSlots DEF SlotAt
<1>10. \A k \in 1 .. n :
         Cell'[SlotAt(k)'] = IF Cell[SlotAt(k)] = p THEN str[p] ELSE Cell[SlotAt(k)]
  BY <1>6, <1>7, <1>8, <1>9
<1>11. Fifo' = [k \in 1 .. Len(Fifo) |-> IF Fifo[k] = p THEN Asked[p] ELSE Fifo[k]]
  <2>1. Fifo = [k \in 1 .. n |-> Cell[SlotAt(k)]] /\ Len(Fifo) = n
    BY <1>1 DEF Fifo
  <2>2. Fifo' = [k \in 1 .. n |-> Cell'[SlotAt(k)']]
    BY <1>3 DEF Fifo
  <2>3. Asked[p] = str[p]
    BY <1>2 DEF Asked
  <2>4. QED
    BY <1>10, <2>1, <2>2, <2>3
<1>12. Asked[p] # NoLine /\ Asked' = [Asked EXCEPT ![p] = NoLine]
  BY <1>2, <1>3, NoLineAssumption DEF Asked, Busy, TypeOK, Threads
<1>13. Hand' = Hand
  <2>1. \A c \in Consumers : pc'[c] = pc[c]
    BY <1>2, <1>3, ThreadsAssumption DEF TypeOK, Threads
  <2>2. QED
    BY <1>3, <2>1 DEF Hand
<1>14. QED
  BY <1>11, <1>12, <1>13 DEF Queue!Deliver

(* wait_pop_front() takes the line at the head. *)
LEMMA PopFrontRefines ==
  ASSUME RInv, NEW c \in Consumers, PopFront(c)
  PROVE  Queue!Take(c)
<1>1. PICK f \in Slots, n \in Nat :
        f = pipe.front /\ n = pipe.length /\ 1 <= n /\ n <= MaxNum
  BY MaxNumAssumption
  DEF RInv, IInv, TypeOK, PipeType, PopFront, FrontReady, empty
<1>2. /\ TypeOK /\ c \in Threads /\ pc[c] = "popping"
      /\ pipe.flag[f] = 1 /\ pipe.queue[f] \in Lines
  BY <1>1 DEF RInv, IInv, ContentInv, PopFront, FrontReady, Threads
<1>3. /\ pipe'.queue = pipe.queue /\ pipe'.flag = pipe.flag
      /\ pipe'.front = NextSlot(f) /\ pipe'.length = n - 1
  BY <1>1, <1>2 DEF TypeOK, PipeType, PopFront, pop_front
<1>4. /\ pc' = [pc EXCEPT ![c] = "using"]
      /\ index' = [index EXCEPT ![c] = f] /\ str' = str
  BY <1>1 DEF PopFront
<1>5. \A p \in Producers : pc'[p] = pc[p] /\ index'[p] = index[p]
  BY <1>2, <1>4, ThreadsAssumption DEF TypeOK, Threads
<1>6. \A s \in Slots : Fillers(s)' = Fillers(s)
  BY <1>5 DEF Fillers, Holds
<1>7. Cell' = Cell
  BY <1>3, <1>6 DEF Cell
<1>8. \A k \in 1 .. n - 1 : SlotAt(k)' = SlotAt(k + 1)
  <2>1. /\ f \in Nat /\ f < MaxNum /\ MaxNum \in Nat
        /\ pipe'.front = IF f + 1 = MaxNum THEN 0 ELSE f + 1
    BY <1>1, <1>3, NextSlotWraps, MaxNumAssumption DEF Slots
  <2>2. SUFFICES ASSUME NEW k \in 1 .. n - 1 PROVE SlotAt(k)' = SlotAt(k + 1)
    OBVIOUS
  <2>3. k \in Nat /\ 1 <= k /\ k <= n - 1
    BY <1>1
  <2>4. SlotAt(k)' = IF pipe'.front + k - 1 < MaxNum THEN pipe'.front + k - 1
                     ELSE pipe'.front + k - 1 - MaxNum
    BY <2>1, <2>3 DEF SlotAt
  <2>5. SlotAt(k + 1) = IF f + (k + 1) - 1 < MaxNum THEN f + (k + 1) - 1
                        ELSE f + (k + 1) - 1 - MaxNum
    BY <1>1, <2>1, <2>3 DEF SlotAt
  <2>6. QED
    BY <1>1, <2>1, <2>3, <2>4, <2>5
<1>9. /\ Fifo # << >> /\ Head(Fifo) = pipe.queue[f] /\ Fifo' = Tail(Fifo)
  <2>1. Fifo = [k \in 1 .. n |-> Cell[SlotAt(k)]] /\ Len(Fifo) = n
    BY <1>1 DEF Fifo
  <2>2. Fifo' = [k \in 1 .. n - 1 |-> Cell[SlotAt(k + 1)]]
    BY <1>3, <1>7, <1>8 DEF Fifo
  <2>3. Fifo[1] = pipe.queue[f]
    BY <1>1, <1>2, <2>1, PlacesAreSlots DEF Cell
  <2>4. QED
    BY <1>1, <2>1, <2>2, <2>3
<1>10. /\ Hand[c] = NoLine
       /\ Hand' = [Hand EXCEPT ![c] = pipe.queue[f]]
  BY <1>2, <1>3, <1>4 DEF Hand, TypeOK, Threads
<1>11. Asked' = Asked
  BY <1>4, <1>5 DEF Asked, Busy
<1>12. QED
  BY <1>2, <1>9, <1>10, <1>11 DEF Queue!Take

(* notify_used_end() releases the line. *)
LEMMA NotifyUsedEndRefines ==
  ASSUME RInv, NEW c \in Consumers, NotifyUsedEnd(c)
  PROVE  Queue!Release(c)
<1>1. PICK i \in Slots, n \in Nat : i = index[c] /\ n = pipe.length
  BY DEF RInv, IInv, TypeOK, PipeType, Threads
<1>2. /\ TypeOK /\ c \in Threads /\ pc[c] = "using"
      /\ ~ InWindow(i) /\ pipe.queue[i] \in Lines
  <2>1. TypeOK /\ c \in Threads /\ pc[c] = "using"
    BY DEF RInv, IInv, NotifyUsedEnd, Threads
  <2>2. ~ InWindow(index[c]) /\ pipe.flag[index[c]] = 1
    BY <2>1 DEF RInv, IInv, ConsumerInv
  <2>3. QED
    BY <1>1, <2>1, <2>2 DEF RInv, ContentInv, InWindow, Dist
<1>3. /\ pipe'.queue = pipe.queue /\ pipe'.front = pipe.front
      /\ pipe'.flag = [pipe.flag EXCEPT ![i] = 0] /\ pipe'.length = n
      /\ pc' = [pc EXCEPT ![c] = "popping"] /\ index' = index /\ str' = str
  BY <1>1, <1>2 DEF TypeOK, PipeType, NotifyUsedEnd, notify_used_end
<1>4. \A p \in Producers : pc'[p] = pc[p]
  BY <1>2, <1>3, ThreadsAssumption DEF TypeOK, Threads
<1>5. \A s \in Slots : Fillers(s)' = Fillers(s)
  BY <1>3, <1>4 DEF Fillers, Holds
<1>6. \A s \in Slots : s # i => Cell'[s] = Cell[s]
  BY <1>2, <1>3, <1>5 DEF Cell, TypeOK, PipeType
<1>7. \A k \in 1 .. n : SlotAt(k)' = SlotAt(k) /\ SlotAt(k) \in Slots /\ SlotAt(k) # i
  BY <1>1, <1>2, <1>3, PlacesAreSlots DEF SlotAt, InWindow, Dist
<1>8. Fifo' = Fifo
  <2>1. Fifo = [k \in 1 .. n |-> Cell[SlotAt(k)]]
    BY <1>1 DEF Fifo
  <2>2. Fifo' = [k \in 1 .. n |-> Cell'[SlotAt(k)']]
    BY <1>3 DEF Fifo
  <2>3. QED
    BY <1>6, <1>7, <2>1, <2>2
<1>9. Hand[c] # NoLine /\ Hand' = [Hand EXCEPT ![c] = NoLine]
  BY <1>1, <1>2, <1>3, NoLineAssumption DEF Hand, TypeOK, Threads
<1>10. Asked' = Asked
  BY <1>3, <1>4 DEF Asked, Busy
<1>11. QED
  BY <1>8, <1>9, <1>10 DEF Queue!Release

(* Sleeping and waking are no steps of the queue. *)
LEMMA SleepRefines ==
  ASSUME UNCHANGED << pipe, pc, index, str >>
  PROVE  UNCHANGED Queue!qvars
<1>1. \A s \in Slots : Fillers(s)' = Fillers(s)
  BY DEF Fillers, Holds
<1>2. Cell' = Cell
  BY <1>1 DEF Cell
<1>3. Fifo' = Fifo
  BY <1>2 DEF Fifo, SlotAt
<1>4. Asked' = Asked /\ Hand' = Hand
  BY DEF Asked, Hand, Busy
<1>5. QED
  BY <1>3, <1>4 DEF Queue!qvars

(* Every step of the pipe is a step of the queue or none. *)
LEMMA NextRefines == RInv /\ [Next]_vars => [Queue!QNext]_(Queue!qvars)
<1> SUFFICES ASSUME RInv, [Next]_vars PROVE [Queue!QNext]_(Queue!qvars)
  OBVIOUS
<1>1. ASSUME NEW p \in Producers, NEW line \in Lines, GetFreeItem(p, line)
      PROVE  Queue!QNext
  BY <1>1, GetFreeItemRefines DEF Queue!QNext
<1>2. ASSUME NEW p \in Producers, Produce(p)
      PROVE  [Queue!QNext]_(Queue!qvars)
  BY <1>2, FillRefines, PushItemRefines DEF Produce, Queue!QNext
<1>3. ASSUME NEW c \in Consumers, PopFront(c) \/ NotifyUsedEnd(c)
      PROVE  Queue!QNext
  BY <1>3, PopFrontRefines, NotifyUsedEndRefines DEF Queue!QNext
<1>4. ASSUME NEW c \in Consumers, CondWait(c) \/ SpuriousWakeup(c)
      PROVE  UNCHANGED Queue!qvars
  BY <1>4, SleepRefines DEF CondWait, SpuriousWakeup
<1>5. CASE UNCHANGED vars
  BY <1>5, SleepRefines DEF vars
<1>6. QED
  BY <1>1, <1>2, <1>3, <1>4, <1>5 DEF Next, Consume

(* Every behaviour of a SafePipe is one of a first-in first-out queue:     *)
(* lines are delivered once, in the order of get_free_item(), and stay     *)
(* whole while they are read.                                              *)
THEOREM PipeIsQueue == Spec => ImplementsLineQueue
<1>1. Init => RInv
  BY InitRInv
<1>2. RInv /\ [Next]_vars => RInv'
  BY NextRInv
<1>3. Init => Queue!QInit
  BY InitRefines
<1>4. RInv /\ [Next]_vars => [Queue!QNext]_(Queue!qvars)
  BY NextRefines
<1>5. QED
  BY <1>1, <1>2, <1>3, <1>4, PTL DEF Spec, ImplementsLineQueue, Queue!QSpec

=============================================================================
