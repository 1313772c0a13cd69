--------------------------- MODULE SafePipeProofs ---------------------------
(***************************************************************************)
(* Proofs that a SafePipe is free of races and of lost slots and wake-ups  *)
(* for any number of slots, producers and consumers.                       *)
(***************************************************************************)
EXTENDS SafePipe, TLAPS

(* How far a slot is from the front of the queue, going round the ring. *)
Dist(s) == IF s >= pipe.front THEN s - pipe.front ELSE s - pipe.front + MaxNum

InWindow(s) == Dist(s) < pipe.length

(* The queued slots are the ones from front to just before tail. *)
TailInv ==
  pipe.tail = IF pipe.front + pipe.length < MaxNum
              THEN pipe.front + pipe.length
              ELSE pipe.front + pipe.length - MaxNum

(* A slot being filled is queued and not yet ready, and has one filler. *)
ProducerInv ==
  /\ \A p \in Producers : Busy(p) => InWindow(index[p]) /\ pipe.flag[index[p]] = 0
  /\ \A p, q \in Producers :
       Busy(p) /\ Busy(q) /\ index[p] = index[q] => p = q

(* A slot being read has left the queue, is still marked, has one reader. *)
ConsumerInv ==
  /\ \A c \in Consumers :
       pc[c] = "using" => ~ InWindow(index[c]) /\ pipe.flag[index[c]] = 1
  /\ \A c, d \in Consumers :
       pc[c] = "using" /\ pc[d] = "using" /\ index[c] = index[d] => c = d

(* Every mark, and every missing mark in the queue, has a thread behind it. *)
FlagInv ==
  \A s \in Slots :
    /\ pipe.flag[s] = 1 =>
         InWindow(s) \/ \E c \in Consumers : pc[c] = "using" /\ index[c] = s
    /\ InWindow(s) /\ pipe.flag[s] = 0 =>
         \E p \in Producers : Busy(p) /\ index[p] = s

IInv == TypeOK /\ TailInv /\ ProducerInv /\ ConsumerInv /\ FlagInv /\ NoLostWakeup

-----------------------------------------------------------------------------

(* The ring arithmetic of get_free_item() and wait_pop_front(). *)
LEMMA NextSlotWraps ==
  ASSUME NEW s \in Slots
  PROVE  /\ NextSlot(s) \in Slots
         /\ NextSlot(s) = IF s + 1 = MaxNum THEN 0 ELSE s + 1
BY MaxNumAssumption DEF NextSlot, Slots

-----------------------------------------------------------------------------
(* The inductive invariant. *)

(* A fresh pipe is empty and all its slots are free. *)
LEMMA InitIInv == Init => IInv
<1> SUFFICES ASSUME Init PROVE IInv
  OBVIOUS
<1> USE MaxNumAssumption DEF Init, NewPipe
<1>1. TypeOK
  BY ThreadsAssumption DEF TypeOK, PipeType, Slots, Threads, Busy
<1>2. TailInv
  BY DEF TailInv
<1>3. ProducerInv /\ ConsumerInv
  BY ThreadsAssumption DEF ProducerInv, ConsumerInv, Busy, Threads
<1>4. FlagInv
  BY DEF FlagInv, InWindow, Dist, Slots
<1>5. NoLostWakeup
  BY DEF NoLostWakeup, FrontReady, empty
<1>6. QED
  BY <1>1, <1>2, <1>3, <1>4, <1>5 DEF IInv

(* A producer takes the slot behind the queue, and nothing else moves. *)
LEMMA GetFreeItemIInv ==
  ASSUME IInv, NEW p \in Producers, NEW line \in Lines, GetFreeItem(p, line)
  PROVE  IInv'
<1> DEFINE t == pipe.tail
<1>1. TypeOK /\ t \in Slots /\ pipe.front \in Slots /\ pipe.length \in 0 .. MaxNum - 1
  BY MaxNumAssumption DEF IInv, TypeOK, PipeType, GetFreeItem, HasFreeItem, full
<1>2. /\ pipe' \in PipeType
      /\ pipe'.queue = pipe.queue /\ pipe'.front = pipe.front
      /\ pipe'.tail = NextSlot(t) /\ pipe'.length = pipe.length + 1
      /\ pipe'.flag = [pipe.flag EXCEPT ![t] = 0]
  <2>1. NextSlot(t) \in Slots /\ pipe.length + 1 \in 0 .. MaxNum
    BY <1>1, NextSlotWraps, MaxNumAssumption
  <2>2. pipe' = [queue  |-> pipe.queue,
                 flag   |-> [pipe.flag EXCEPT ![t] = 0],
                 front  |-> pipe.front,
                 tail   |-> NextSlot(t),
                 length |-> pipe.length + 1]
    BY <1>1 DEF GetFreeItem, get_free_item, TypeOK, PipeType
  <2>3. QED
    BY <1>1, <2>1, <2>2 DEF TypeOK, PipeType
<1>3. pipe'.flag = pipe.flag
  BY <1>1, <1>2 DEF GetFreeItem, HasFreeItem, TypeOK, PipeType
<1>4. p \in Threads /\ pc[p] = "idle"
  BY DEF Threads, GetFreeItem
<1>5. /\ pc' = [pc EXCEPT ![p] = "filling"]
      /\ index' = [index EXCEPT ![p] = t]
      /\ str' = [str EXCEPT ![p] = line]
      /\ waiting' = waiting
  BY DEF GetFreeItem
<1>6. TypeOK'
  BY <1>1, <1>2, <1>4, <1>5, ThreadsAssumption DEF TypeOK, PipeType, Busy, Threads
<1>7. TailInv'
  <2>1. pipe'.tail = IF t + 1 = MaxNum THEN 0 ELSE t + 1
    BY <1>1, <1>2, NextSlotWraps
  <2>2. t = IF pipe.front + pipe.length < MaxNum
            THEN pipe.front + pipe.length ELSE pipe.front + pipe.length - MaxNum
    BY DEF IInv, TailInv
  <2>3. pipe'.tail = IF pipe.front + (pipe.length + 1) < MaxNum
                     THEN pipe.front + (pipe.length + 1)
                     ELSE pipe.front + (pipe.length + 1) - MaxNum
    BY <1>1, <2>1, <2>2, MaxNumAssumption DEF Slots
  <2>4. QED
    BY <1>2, <2>3 DEF TailInv
<1>8. ~ InWindow(t)
  BY <1>1, MaxNumAssumption DEF IInv, TailInv, Slots, InWindow, Dist
<1>9. \A s \in Slots : InWindow(s)' <=> InWindow(s) \/ s = t
  BY <1>1, <1>2, MaxNumAssumption
  DEF IInv, TailInv, TypeOK, PipeType, Slots, InWindow, Dist
<1>10. \A q \in Producers : Busy(q)' <=> Busy(q) \/ q = p
  BY <1>1, <1>4, <1>5 DEF Busy, TypeOK, Threads
<1>11. \A q \in Threads : index[q] \in Slots /\ (q # p => index'[q] = index[q])
  BY <1>1, <1>5 DEF TypeOK
<1>12. index'[p] = t /\ pipe.flag[t] = 0
  BY <1>1, <1>4, <1>5 DEF TypeOK, GetFreeItem, HasFreeItem
<1>13. ProducerInv'
  <2>1. \A q \in Producers : Busy(q)' => InWindow(index[q])' /\ pipe'.flag[index'[q]] = 0
    BY <1>3, <1>9, <1>10, <1>11, <1>12, <1>1 DEF IInv, ProducerInv, Threads, InWindow, Dist
  <2>2. \A q, r \in Producers : Busy(q)' /\ Busy(r)' /\ index'[q] = index'[r] => q = r
    BY <1>8, <1>10, <1>11, <1>12 DEF IInv, ProducerInv, Threads
  <2>3. QED
    BY <2>1, <2>2 DEF ProducerInv
<1>14. \A c \in Consumers : c # p /\ c \in Threads /\ pc'[c] = pc[c] /\ index'[c] = index[c]
  BY <1>1, <1>5, <1>11, ThreadsAssumption DEF Threads, TypeOK
<1>15. ConsumerInv'
  <2>1. ASSUME NEW c \in Consumers, pc[c] = "using"
        PROVE  ~ InWindow(index[c])' /\ pipe'.flag[index'[c]] = 1
    <3>1. index[c] \in Slots /\ pipe.flag[index[c]] = 1 /\ ~ InWindow(index[c])
      BY <1>11, <1>14, <2>1 DEF IInv, ConsumerInv
    <3>2. index[c] # t
      BY <3>1, <1>12
    <3>3. QED
      BY <3>1, <3>2, <1>3, <1>9, <1>14 DEF InWindow, Dist
  <2>2. QED
    BY <1>14, <2>1 DEF IInv, ConsumerInv
<1>16. FlagInv'
  <2>1. ASSUME NEW s \in Slots, pipe'.flag[s] = 1
        PROVE  InWindow(s)' \/ \E c \in Consumers : pc'[c] = "using" /\ index'[c] = s
    BY <1>3, <1>9, <1>14, <2>1 DEF IInv, FlagInv
  <2>2. ASSUME NEW s \in Slots, InWindow(s)', pipe'.flag[s] = 0
        PROVE  \E q \in Producers : Busy(q)' /\ index'[q] = s
    <3>1. CASE s = t
      BY <3>1, <1>10, <1>12
    <3>2. CASE s # t
      <4>1. PICK q \in Producers : Busy(q) /\ index[q] = s
        BY <3>2, <1>3, <1>9, <2>2 DEF IInv, FlagInv
      <4>2. q # p
        BY <4>1, <1>4 DEF Busy
      <4>3. QED
        BY <4>1, <4>2, <1>10, <1>11 DEF Threads
    <3>3. QED
      BY <3>1, <3>2
  <2>3. QED
    BY <2>1, <2>2 DEF FlagInv
<1>17. NoLostWakeup'
  <2>1. pipe.length = 0 => pipe.front = t
    BY <1>1, MaxNumAssumption DEF IInv, TailInv, TypeOK, PipeType, Slots
  <2>2. FrontReady(pipe') => FrontReady(pipe)
    BY <2>1, <1>1, <1>2, <1>3, <1>12 DEF FrontReady, empty
  <2>3. QED
    BY <2>2, <1>5 DEF IInv, NoLostWakeup
<1>18. QED
  BY <1>6, <1>7, <1>13, <1>15, <1>16, <1>17 DEF IInv

(* Filling a slot changes no mark. *)
LEMMA FillIInv ==
  ASSUME IInv, NEW p \in Producers, Fill(p)
  PROVE  IInv'
<1>1. TypeOK /\ p \in Threads /\ pc[p] = "filling" /\ index[p] \in Slots /\ str[p] \in Lines
  BY DEF IInv, TypeOK, Fill, Threads, Busy
<1>2. /\ pipe' = [pipe EXCEPT !.queue[index[p]] = str[p]]
      /\ pc' = [pc EXCEPT ![p] = "pushing"]
      /\ waiting' = waiting /\ index' = index /\ str' = str
  BY DEF Fill, CopyInto
<1>3. /\ pipe' \in PipeType
      /\ pipe'.flag = pipe.flag /\ pipe'.front = pipe.front
      /\ pipe'.tail = pipe.tail /\ pipe'.length = pipe.length
  <2>1. pipe' = [queue  |-> [pipe.queue EXCEPT ![index[p]] = str[p]],
                 flag   |-> pipe.flag,
                 front  |-> pipe.front,
                 tail   |-> pipe.tail,
                 length |-> pipe.length]
    BY <1>1, <1>2 DEF TypeOK, PipeType
  <2>2. QED
    BY <1>1, <2>1 DEF TypeOK, PipeType
<1>4. \A q \in Producers : Busy(q)' <=> Busy(q)
  BY <1>1, <1>2 DEF Busy, TypeOK, Threads
<1>5. \A c \in Consumers : pc'[c] = pc[c]
  BY <1>1, <1>2, ThreadsAssumption DEF TypeOK, Threads
<1>6. TypeOK'
  BY <1>1, <1>2, <1>3, <1>4, ThreadsAssumption DEF TypeOK, Threads
<1>7. \A s \in Slots : InWindow(s)' <=> InWindow(s)
  BY <1>3 DEF InWindow, Dist
<1>8. TailInv' /\ NoLostWakeup'
  BY <1>2, <1>3 DEF IInv, TailInv, NoLostWakeup, FrontReady, empty
<1>9. ProducerInv' /\ ConsumerInv'
  BY <1>1, <1>2, <1>3, <1>4, <1>5
  DEF IInv, ProducerInv, ConsumerInv, InWindow, Dist
<1>10. FlagInv'
  BY <1>2, <1>3, <1>4, <1>5, <1>7 DEF IInv, FlagInv
<1>11. QED
  BY <1>6, <1>8, <1>9, <1>10 DEF IInv

(* The producer's slot is marked, and if anyone sleeps someone is woken. *)
LEMMA PushItemIInv ==
  ASSUME IInv, NEW p \in Producers, PushItem(p)
  PROVE  IInv'
<1> DEFINE i == index[p]
<1>1. TypeOK /\ p \in Threads /\ pc[p] = "pushing" /\ i \in Slots /\ Busy(p)
  BY DEF IInv, TypeOK, PushItem, Threads, Busy
<1>2. /\ pipe' = [pipe EXCEPT !.flag[i] = 1]
      /\ pc' = [pc EXCEPT ![p] = "idle"]
      /\ waiting' \in Signal(waiting) /\ index' = index /\ str' = str
  BY DEF PushItem, push_item
<1>3. /\ pipe' \in PipeType
      /\ pipe'.flag = [pipe.flag EXCEPT ![i] = 1] /\ pipe'.front = pipe.front
      /\ pipe'.tail = pipe.tail /\ pipe'.length = pipe.length
  <2>1. pipe' = [queue  |-> pipe.queue,
                 flag   |-> [pipe.flag EXCEPT ![i] = 1],
                 front  |-> pipe.front,
                 tail   |-> pipe.tail,
                 length |-> pipe.length]
    BY <1>1, <1>2 DEF TypeOK, PipeType
  <2>2. QED
    BY <1>1, <2>1 DEF TypeOK, PipeType
<1>4. \A s \in Slots : pipe'.flag[s] = IF s = i THEN 1 ELSE pipe.flag[s]
  BY <1>1, <1>3 DEF TypeOK, PipeType
<1>5. \A q \in Producers : Busy(q)' <=> Busy(q) /\ q # p
  BY <1>1, <1>2 DEF Busy, TypeOK, Threads
<1>6. \A c \in Consumers : pc'[c] = pc[c]
  BY <1>1, <1>2, ThreadsAssumption DEF TypeOK, Threads
<1>7. \A q \in Threads : index[q] \in Slots
  BY <1>1 DEF TypeOK
<1>8. waiting' \subseteq Consumers /\ waiting' # Consumers
  BY <1>1, <1>2, ThreadsAssumption DEF Signal, TypeOK
<1>9. TypeOK'
  BY <1>1, <1>2, <1>3, <1>5, <1>8, ThreadsAssumption DEF TypeOK, Threads
<1>10. \A s \in Slots : InWindow(s)' <=> InWindow(s)
  BY <1>3 DEF InWindow, Dist
<1>11. TailInv' /\ NoLostWakeup'
  BY <1>3, <1>8 DEF IInv, TailInv, NoLostWakeup
<1>12. ProducerInv'
  BY <1>1, <1>2, <1>4, <1>5, <1>7, <1>10 DEF IInv, ProducerInv, Threads, InWindow, Dist
<1>13. ConsumerInv'
  BY <1>2, <1>4, <1>6, <1>7, <1>10 DEF IInv, ConsumerInv, Threads, InWindow, Dist
<1>14. InWindow(i)
  BY <1>1 DEF IInv, ProducerInv
<1>15. FlagInv'
  BY <1>2, <1>4, <1>5, <1>6, <1>10, <1>14 DEF IInv, FlagInv
<1>16. QED
  BY <1>9, <1>11, <1>12, <1>13, <1>15 DEF IInv

(* A consumer goes to sleep only when the front slot is not ready. *)
LEMMA CondWaitIInv ==
  ASSUME IInv, NEW c \in Consumers, CondWait(c)
  PROVE  IInv'
<1>1. UNCHANGED << pipe, pc, index, str >>
  BY DEF CondWait
<1>2. TypeOK'
  BY <1>1 DEF IInv, TypeOK, CondWait, Busy
<1>3. NoLostWakeup'
  BY <1>1 DEF NoLostWakeup, CondWait
<1>4. TailInv' /\ ProducerInv' /\ ConsumerInv' /\ FlagInv'
  BY <1>1 DEF IInv, TailInv, ProducerInv, ConsumerInv, FlagInv, Busy, InWindow, Dist
<1>5. QED
  BY <1>2, <1>3, <1>4 DEF IInv

(* One sleeper less cannot leave a ready slot to nobody. *)
LEMMA SpuriousWakeupIInv ==
  ASSUME IInv, NEW c \in Consumers, SpuriousWakeup(c)
  PROVE  IInv'
<1>1. UNCHANGED << pipe, pc, index, str >>
  BY DEF SpuriousWakeup
<1>2. TypeOK'
  BY <1>1 DEF IInv, TypeOK, SpuriousWakeup, Busy
<1>3. NoLostWakeup'
  BY <1>1 DEF NoLostWakeup, SpuriousWakeup
<1>4. TailInv' /\ ProducerInv' /\ ConsumerInv' /\ FlagInv'
  BY <1>1 DEF IInv, TailInv, ProducerInv, ConsumerInv, FlagInv, Busy, InWindow, Dist
<1>5. QED
  BY <1>2, <1>3, <1>4 DEF IInv

(* The front slot leaves the queue and goes, marked, to the consumer. *)
LEMMA PopFrontIInv ==
  ASSUME IInv, NEW c \in Consumers, PopFront(c)
  PROVE  IInv'
<1> DEFINE f == pipe.front
<1>1. /\ TypeOK /\ f \in Slots /\ pipe.tail \in Slots
      /\ pipe.length \in 1 .. MaxNum /\ pipe.flag[f] = 1
  BY MaxNumAssumption DEF IInv, TypeOK, PipeType, PopFront, FrontReady, empty
<1>2. c \in Threads /\ pc[c] = "popping" /\ c \notin waiting
  BY DEF Threads, PopFront
<1>3. /\ pipe' \in PipeType
      /\ pipe'.flag = pipe.flag /\ pipe'.front = NextSlot(f)
      /\ pipe'.tail = pipe.tail /\ pipe'.length = pipe.length - 1
  <2>1. NextSlot(f) \in Slots /\ pipe.length - 1 \in 0 .. MaxNum
    BY <1>1, NextSlotWraps, MaxNumAssumption
  <2>2. pipe' = [queue  |-> pipe.queue,
                 flag   |-> pipe.flag,
                 front  |-> NextSlot(f),
                 tail   |-> pipe.tail,
                 length |-> pipe.length - 1]
    BY <1>1 DEF PopFront, pop_front, TypeOK, PipeType
  <2>3. QED
    BY <1>1, <2>1, <2>2 DEF TypeOK, PipeType
<1>4. pipe'.front = IF f + 1 = MaxNum THEN 0 ELSE f + 1
  BY <1>1, <1>3, NextSlotWraps
<1>5. /\ pc' = [pc EXCEPT ![c] = "using"]
      /\ index' = [index EXCEPT ![c] = f]
      /\ waiting' = waiting /\ str' = str
  BY DEF PopFront
<1>6. \A p \in Producers : p # c /\ pc'[p] = pc[p] /\ index'[p] = index[p]
  BY <1>1, <1>2, <1>5, ThreadsAssumption DEF TypeOK, Threads
<1>7. \A d \in Consumers : pc'[d] = "using" <=> pc[d] = "using" \/ d = c
  BY <1>1, <1>2, <1>5 DEF TypeOK, Threads
<1>8. \A u \in Threads : index[u] \in Slots /\ (u # c => index'[u] = index[u])
  BY <1>1, <1>5 DEF TypeOK
<1>9. index'[c] = f
  BY <1>1, <1>2, <1>5 DEF TypeOK
<1>10. TypeOK'
  BY <1>1, <1>2, <1>3, <1>5, <1>6, ThreadsAssumption DEF TypeOK, Threads, Busy
<1>11. TailInv'
  <2>1. pipe.tail = IF f + pipe.length < MaxNum
                    THEN f + pipe.length ELSE f + pipe.length - MaxNum
    BY DEF IInv, TailInv
  <2>2. pipe.tail = IF pipe'.front + (pipe.length - 1) < MaxNum
                    THEN pipe'.front + (pipe.length - 1)
                    ELSE pipe'.front + (pipe.length - 1) - MaxNum
    BY <1>1, <1>4, <2>1, MaxNumAssumption DEF Slots
  <2>3. QED
    BY <1>3, <2>2 DEF TailInv
<1>12. InWindow(f)
  BY <1>1 DEF InWindow, Dist, Slots
<1>13. \A s \in Slots : InWindow(s)' <=> InWindow(s) /\ s # f
  BY <1>1, <1>3, <1>4, MaxNumAssumption DEF Slots, InWindow, Dist
<1>14. ProducerInv'
  <2>1. ASSUME NEW p \in Producers, Busy(p)'
        PROVE  InWindow(index[p])' /\ pipe'.flag[index'[p]] = 0
    <3>1. Busy(p) /\ index[p] \in Slots /\ index'[p] = index[p]
      BY <1>6, <1>8, <2>1 DEF Busy, Threads
    <3>2. InWindow(index[p]) /\ pipe.flag[index[p]] = 0 /\ index[p] # f
      BY <1>1, <3>1 DEF IInv, ProducerInv
    <3>3. QED
      BY <1>3, <1>13, <3>1, <3>2 DEF InWindow, Dist
  <2>2. QED
    BY <1>6, <2>1 DEF IInv, ProducerInv, Busy
<1>15. ConsumerInv'
  <2>1. ASSUME NEW d \in Consumers, pc'[d] = "using"
        PROVE  ~ InWindow(index[d])' /\ pipe'.flag[index'[d]] = 1
    <3>1. CASE d = c
      BY <1>1, <1>3, <1>9, <1>13, <3>1 DEF InWindow, Dist
    <3>2. CASE d # c
      <4>1. index'[d] = index[d] /\ index[d] \in Slots /\ pc[d] = "using"
        BY <1>7, <1>8, <2>1, <3>2 DEF Threads
      <4>2. ~ InWindow(index[d]) /\ pipe.flag[index[d]] = 1
        BY <4>1 DEF IInv, ConsumerInv
      <4>3. QED
        BY <1>3, <1>13, <4>1, <4>2 DEF InWindow, Dist
    <3>3. QED
      BY <3>1, <3>2
  <2>2. \A d \in Consumers : pc[d] = "using" => index[d] # f
    BY <1>12 DEF IInv, ConsumerInv
  <2>3. QED
    BY <1>7, <1>8, <1>9, <2>1, <2>2 DEF IInv, ConsumerInv, Threads
<1>16. FlagInv'
  <2>1. ASSUME NEW s \in Slots, pipe'.flag[s] = 1
        PROVE  InWindow(s)' \/ \E d \in Consumers : pc'[d] = "using" /\ index'[d] = s
    <3>1. CASE s = f
      BY <1>7, <1>9, <3>1
    <3>2. CASE s # f /\ InWindow(s)
      BY <1>13, <3>2
    <3>3. CASE ~ InWindow(s)
      <4>1. PICK d \in Consumers : pc[d] = "using" /\ index[d] = s
        BY <1>3, <2>1, <3>3 DEF IInv, FlagInv
      <4>2. d # c
        BY <1>2, <4>1
      <4>3. QED
        BY <1>7, <1>8, <4>1, <4>2 DEF Threads
    <3>4. QED
      BY <3>1, <3>2, <3>3
  <2>2. ASSUME NEW s \in Slots, InWindow(s)', pipe'.flag[s] = 0
        PROVE  \E p \in Producers : Busy(p)' /\ index'[p] = s
    BY <1>3, <1>6, <1>13, <2>2 DEF IInv, FlagInv, Busy
  <2>3. QED
    BY <2>1, <2>2 DEF FlagInv
<1>17. NoLostWakeup'
  BY <1>2, <1>5 DEF NoLostWakeup
<1>18. QED
  BY <1>10, <1>11, <1>14, <1>15, <1>16, <1>17 DEF IInv

(* The consumer's slot, no longer queued, loses its mark. *)
LEMMA NotifyUsedEndIInv ==
  ASSUME IInv, NEW c \in Consumers, NotifyUsedEnd(c)
  PROVE  IInv'
<1> DEFINE i == index[c]
<1>1. TypeOK /\ c \in Threads /\ pc[c] = "using" /\ i \in Slots
  BY DEF IInv, TypeOK, NotifyUsedEnd, Threads
<1>2. /\ pc' = [pc EXCEPT ![c] = "popping"]
      /\ waiting' = waiting /\ index' = index /\ str' = str
  BY DEF NotifyUsedEnd
<1>3. /\ pipe' \in PipeType
      /\ pipe'.flag = [pipe.flag EXCEPT ![i] = 0] /\ pipe'.front = pipe.front
      /\ pipe'.tail = pipe.tail /\ pipe'.length = pipe.length
  <2>1. pipe' = [queue  |-> pipe.queue,
                 flag   |-> [pipe.flag EXCEPT ![i] = 0],
                 front  |-> pipe.front,
                 tail   |-> pipe.tail,
                 length |-> pipe.length]
    BY <1>1 DEF NotifyUsedEnd, notify_used_end, TypeOK, PipeType
  <2>2. QED
    BY <1>1, <2>1 DEF TypeOK, PipeType
<1>4. \A s \in Slots : pipe'.flag[s] = IF s = i THEN 0 ELSE pipe.flag[s]
  BY <1>1, <1>3 DEF TypeOK, PipeType
<1>5. \A p \in Producers : p # c /\ pc'[p] = pc[p]
  BY <1>1, <1>2, ThreadsAssumption DEF TypeOK, Threads
<1>6. \A d \in Consumers : pc'[d] = "using" <=> pc[d] = "using" /\ d # c
  BY <1>1, <1>2 DEF TypeOK, Threads
<1>7. \A u \in Threads : index[u] \in Slots
  BY <1>1 DEF TypeOK
<1>8. ~ InWindow(i)
  BY <1>1 DEF IInv, ConsumerInv
<1>9. \A s \in Slots : InWindow(s)' <=> InWindow(s)
  BY <1>3 DEF InWindow, Dist
<1>10. TypeOK'
  BY <1>1, <1>2, <1>3, <1>5, ThreadsAssumption DEF TypeOK, Threads, Busy
<1>11. TailInv'
  BY <1>3 DEF IInv, TailInv
<1>12. ProducerInv'
  BY <1>2, <1>4, <1>5, <1>7, <1>9
  DEF IInv, ProducerInv, Busy, Threads, InWindow, Dist
<1>13. ConsumerInv'
  BY <1>1, <1>2, <1>4, <1>6, <1>7, <1>9
  DEF IInv, ConsumerInv, Threads, InWindow, Dist
<1>14. FlagInv'
  BY <1>2, <1>4, <1>5, <1>6, <1>8, <1>9 DEF IInv, FlagInv, Busy
<1>15. NoLostWakeup'
  <2>1. pipe'.front \in Slots /\ pipe'.front = pipe.front
    BY <1>1, <1>3 DEF TypeOK, PipeType
  <2>2. FrontReady(pipe') => FrontReady(pipe)
    BY <1>3, <1>4, <2>1 DEF FrontReady, empty
  <2>3. QED
    BY <1>2, <2>2 DEF IInv, NoLostWakeup
<1>16. QED
  BY <1>10, <1>11, <1>12, <1>13, <1>14, <1>15 DEF IInv

(* Every step of every thread keeps the inductive invariant. *)
LEMMA NextIInv == IInv /\ [Next]_vars => IInv'
<1> SUFFICES ASSUME IInv, [Next]_vars PROVE IInv'
  OBVIOUS
<1>1. ASSUME NEW p \in Producers, Produce(p) PROVE IInv'
  BY <1>1, FillIInv, PushItemIInv DEF Produce
<1>2. ASSUME NEW p \in Producers, NEW line \in Lines, GetFreeItem(p, line) PROVE IInv'
  BY <1>2, GetFreeItemIInv
<1>3. ASSUME NEW c \in Consumers, Consume(c) PROVE IInv'
  BY <1>3, CondWaitIInv, PopFrontIInv, NotifyUsedEndIInv DEF Consume
<1>4. ASSUME NEW c \in Consumers, SpuriousWakeup(c) PROVE IInv'
  BY <1>4, SpuriousWakeupIInv
<1>5. CASE UNCHANGED vars
  BY <1>5 DEF vars, IInv, TypeOK, TailInv, ProducerInv, ConsumerInv, FlagInv,
              NoLostWakeup, Busy, InWindow, Dist
<1>6. QED
  BY <1>1, <1>2, <1>3, <1>4, <1>5 DEF Next

(* The inductive invariant holds in every reachable state. *)
THEOREM Inductive == Spec => []IInv
<1>1. Init => IInv
  BY InitIInv
<1>2. IInv /\ [Next]_vars => IInv'
  BY NextIInv
<1>3. QED
  BY <1>1, <1>2, PTL DEF Spec

-----------------------------------------------------------------------------
(* What it gives. *)

(* The slots in the window are the slots of the queue. *)
LEMMA WindowIsQueued ==
  ASSUME TypeOK, NEW s \in Slots
  PROVE  s \in Queued <=> InWindow(s)
<1>1. /\ pipe.front \in Nat /\ pipe.front < MaxNum /\ MaxNum \in Nat
      /\ pipe.length \in 0 .. MaxNum /\ s \in Nat /\ s < MaxNum
  BY MaxNumAssumption DEF TypeOK, PipeType, Slots
<1>2. ASSUME s \in Queued PROVE InWindow(s)
  <2>1. PICK k \in 1 .. pipe.length : s = SlotAt(k)
    BY <1>2 DEF Queued
  <2>2. QED
    BY <1>1, <2>1 DEF SlotAt, InWindow, Dist
<1>3. ASSUME InWindow(s) PROVE s \in Queued
  <2>1. Dist(s) + 1 \in 1 .. pipe.length /\ SlotAt(Dist(s) + 1) = s
    BY <1>1, <1>3 DEF SlotAt, InWindow, Dist
  <2>2. QED
    BY <2>1 DEF Queued
<1>4. QED
  BY <1>2, <1>3

(* Every variable keeps its type, whatever the numbers of slots and threads. *)
THEOREM TypeCorrect == Spec => []TypeOK
<1>1. IInv => TypeOK
  BY DEF IInv
<1>2. QED
  BY <1>1, Inductive, PTL

(* The unlocked strcpy() into a slot and write() from a slot never meet. *)
THEOREM SlotsAreExclusive == Spec => []SlotExclusive
<1>1. IInv => SlotExclusive
  <2> SUFFICES ASSUME IInv, NEW s \in Slots, NEW t \in Threads, NEW u \in Threads,
                      Holds(t, s), Holds(u, s)
               PROVE  t = u
    BY DEF SlotExclusive
  <2>1. \A p \in Producers : Holds(p, s) => Busy(p) /\ index[p] = s
    BY DEF IInv, TypeOK, Holds, Busy
  <2>2. \A c \in Consumers : Holds(c, s) => pc[c] = "using" /\ index[c] = s
    BY DEF IInv, TypeOK, Holds
  <2>3. CASE t \in Producers /\ u \in Producers
    BY <2>1, <2>3 DEF IInv, ProducerInv
  <2>4. CASE t \in Consumers /\ u \in Consumers
    BY <2>2, <2>4 DEF IInv, ConsumerInv
  <2>5. ASSUME NEW p \in Producers, NEW c \in Consumers, Holds(p, s), Holds(c, s)
        PROVE  FALSE
    BY <2>1, <2>2, <2>5 DEF IInv, ProducerInv, ConsumerInv
  <2>6. QED
    BY <2>3, <2>4, <2>5 DEF Threads
<1>2. QED
  BY <1>1, Inductive, PTL

(* The ring never comes to a slot that nobody will mark or hand back. *)
THEOREM SlotsAreAccountedFor == Spec => []NoSlotLost
<1>1. IInv => NoSlotLost
  <2> SUFFICES ASSUME IInv, NEW s \in Slots
               PROVE  /\ pipe.flag[s] = 1 =>
                           s \in Queued \/ \E c \in Consumers : Holds(c, s)
                      /\ s \in Queued /\ pipe.flag[s] = 0 =>
                           \E p \in Producers : Holds(p, s)
    BY DEF NoSlotLost
  <2>1. s \in Queued <=> InWindow(s)
    BY WindowIsQueued DEF IInv
  <2>2. QED
    BY <2>1 DEF IInv, FlagInv, Holds, Busy
<1>2. QED
  BY <1>1, Inductive, PTL

(* One pthread_cond_signal() per push_item() is enough, however many       *)
(* consumers wait and in whatever order the slots are pushed.              *)
THEOREM WakeupsAreNotLost == Spec => []NoLostWakeup
<1>1. IInv => NoLostWakeup
  BY DEF IInv
<1>2. QED
  BY <1>1, Inductive, PTL

=============================================================================
