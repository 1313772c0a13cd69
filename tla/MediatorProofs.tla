--------------------------- MODULE MediatorProofs ---------------------------
(***************************************************************************)
(* Proofs about the shuffle for any number of receivers, reducers, keys    *)
(* and values, and for any two hash functions: the lock of push_back_r()   *)
(* keeps table and key list one, the join keeps writers and readers apart, *)
(* and so every reducer gets the pairs of a key one after another.         *)
(***************************************************************************)
EXTENDS Mediator, FiniteSetTheorems, TLAPS

ReceiverStates == {"reading", "locking", "finding", "storing", "listing", "counting",
                   "unlocking", "ended"}
ReducerStates  == {"new", "sorting", "getting", "done"}
Node           == [str : Keys, p : Nat]

(* The threads' states; TypeOK does not say what the domain of rpc is.     *)
ThreadInv ==
  /\ rpc \in [Receivers \cup Reducers -> ReceiverStates \cup ReducerStates]
  /\ pc = "starting" => started < reduce_num

(* The reducers start one after another when every receiver has ended.     *)
PhaseInv ==
  /\ pc = "mapping" => started = 0
  /\ pc # "mapping" => MappersJoined
  /\ \A i \in Reducers : rpc[i] # "new" => i < started

(* Where a receiver holds the mutex of its slot                            *)
HoldingStates == {"finding", "storing", "listing", "counting", "unlocking"}

(* What a receiver in push_back_r() can rely on while it holds the mutex.  *)
LockInv ==
  /\ \A r \in Receivers :
       /\ rpc[r] \in HoldingStates \cup {"locking"} => pushed[r] # << >>
       /\ rpc[r] \in HoldingStates => mutex[slot(r)] = r
       /\ rpc[r] = "storing" => found[r] = hash[slot(r)][sign(r)]
       /\ rpc[r] = "unlocking" => count[r] = task_num[slot(r)]
  /\ \A s \in Reducers : mutex[s] # NoOne =>
       rpc[mutex[s]] \in HoldingStates /\ slot(mutex[s]) = s

(* The nodes of a reducer, with the one that the owner of the mutex is     *)
(* about to put into the key list                                          *)
Listing(s) == mutex[s] # NoOne /\ rpc[mutex[s]] = "listing"
NewNode(r) == [str |-> pair(r).key, p |-> found[r]]
Nodes(s)   == IF Listing(s) THEN Append(key_list[s], NewNode(mutex[s])) ELSE key_list[s]

(* The positions of get_reduce_task_r() are in the lists or one behind.    *)
PositionInv ==
  \A i \in Reducers :
    /\ value_pos[i] >= 1
    /\ key_pos[i] \in DOMAIN key_list[i] \/ key_pos[i] = 1
    /\ rpc[i] \in {"new", "sorting"} => emitted[i] = << >> /\ key_pos[i] = 1

(* What was given out has the keys up to the position, in their order.     *)
EmittedInv ==
  \A i \in Reducers :
    /\ \A j \in DOMAIN emitted[i] : \E n \in DOMAIN key_list[i] :
         n <= key_pos[i] /\ emitted[i][j].key = key_list[i][n].str
    /\ \A j, l \in DOMAIN emitted[i] : \A m, n \in DOMAIN key_list[i] :
         j <= l /\ emitted[i][j].key = key_list[i][m].str
                /\ emitted[i][l].key = key_list[i][n].str => m <= n

(* The table and the nodes of one reducer are views of the same keys, and  *)
(* every node has a value list.                                            *)
Match(nodes, vals, table) ==
  /\ Len(nodes) = Len(vals)
  /\ \A j, k \in DOMAIN nodes : Sign[nodes[j].str] = Sign[nodes[k].str] => j = k
  /\ \A k \in DOMAIN nodes : table[Sign[nodes[k].str]] = nodes[k].p
  /\ \A g \in Signs : table[g] # 0 =>
       \E k \in DOMAIN nodes : nodes[k].p = table[g] /\ Sign[nodes[k].str] = g
  /\ \A k \in DOMAIN nodes : nodes[k].p \in DOMAIN vals

TableInv == \A s \in Reducers : Match(Nodes(s), lists[s], hash[s])

(* EmittedInv of one reducer                                               *)
InOrder(given, nodes, pos) ==
  /\ \A j \in DOMAIN given : \E n \in DOMAIN nodes :
       n <= pos /\ given[j].key = nodes[n].str
  /\ \A j, l \in DOMAIN given : \A m, n \in DOMAIN nodes :
       j <= l /\ given[j].key = nodes[m].str /\ given[l].key = nodes[n].str => m <= n

IInv == TypeOK /\ ThreadInv /\ PhaseInv /\ LockInv /\ TableInv /\ PositionInv /\ EmittedInv

-----------------------------------------------------------------------------
(* Facts about the operators *)

(* The slot and the sign of the pair that a receiver is at.                *)
LEMMA PairType ==
  ASSUME TypeOK, NEW r \in Receivers, pushed[r] # << >>
  PROVE  /\ pair(r) \in [key : Keys, value : Values]
         /\ slot(r) \in Reducers /\ sign(r) \in Signs
<1>1. pushed[r] \in Seq(Pairs)
  BY DEF TypeOK
<1>2. pair(r) \in [key : Keys, value : Values]
  <2>1. pushed[r][Len(pushed[r])] \in Pairs
    BY <1>1
  <2>2. QED
    BY <2>1, PairsAssumption DEF pair, Last
<1>3. QED
  BY <1>2, HashAssumption DEF slot, sign, Signs, Reducers

LEMMA AppendType == ASSUME NEW S, NEW s \in Seq(S), NEW x \in S PROVE Append(s, x) \in Seq(S)
  OBVIOUS

(* Sorting moves the places of a list and keeps its elements.              *)
LEMMA SortedType ==
  ASSUME NEW S, NEW s \in Seq(S), NEW q \in Sorted(s)
  PROVE  q \in Seq(S) /\ Len(q) = Len(s)
<1>1. PICK f \in Bijection(DOMAIN s, DOMAIN s) : q = [k \in DOMAIN s |-> s[f[k]]]
  BY DEF Sorted, Rearranged
<1>2. f \in [DOMAIN s -> DOMAIN s]
  BY <1>1 DEF Bijection, Injection
<1>3. DOMAIN s = 1 .. Len(s) /\ Len(s) \in Nat
  OBVIOUS
<1>4. QED
  BY <1>1, <1>2, <1>3

(* While nobody is at a new node, the key list is all there is.            *)
LEMMA AllListed ==
  ASSUME IInv, NEW s \in Reducers, ~ Listing(s)
  PROVE  /\ Nodes(s) = key_list[s] /\ Match(key_list[s], lists[s], hash[s])
BY DEF IInv, TableInv, Nodes

(* The owner of a mutex is a receiver at this slot.                        *)
LEMMA OwnerFacts ==
  ASSUME IInv, NEW s \in Reducers, mutex[s] # NoOne
  PROVE  /\ mutex[s] \in Receivers /\ rpc[mutex[s]] \in HoldingStates
         /\ slot(mutex[s]) = s /\ pushed[mutex[s]] # << >>
         /\ NewNode(mutex[s]) \in Node /\ Hash[NewNode(mutex[s]).str] = s
<1>1. mutex[s] \in Receivers
  BY DEF IInv, TypeOK
<1>2. rpc[mutex[s]] \in HoldingStates /\ slot(mutex[s]) = s
  BY DEF IInv, LockInv
<1>3. pushed[mutex[s]] # << >>
  BY <1>1, <1>2 DEF IInv, LockInv
<1>4. pair(mutex[s]) \in [key : Keys, value : Values]
  BY <1>1, <1>3, PairType DEF IInv
<1>5. found[mutex[s]] \in Nat
  BY <1>1 DEF IInv, TypeOK
<1>6. NewNode(mutex[s]) \in Node /\ NewNode(mutex[s]).str = pair(mutex[s]).key
  BY <1>4, <1>5 DEF NewNode, Node
<1>7. QED
  BY <1>1, <1>2, <1>3, <1>6 DEF slot

(* The nodes are those of the key list and, at most, one more.             *)
LEMMA NodesType ==
  ASSUME IInv, NEW s \in Reducers
  PROVE  /\ key_list[s] \in Seq(Node) /\ Nodes(s) \in Seq(Node)
         /\ \A k \in DOMAIN key_list[s] : k \in DOMAIN Nodes(s) /\ Nodes(s)[k] = key_list[s][k]
<1>1. key_list[s] \in Seq(Node)
  BY DEF IInv, TypeOK, Node
<1>2. CASE Listing(s)
  <2>1. NewNode(mutex[s]) \in Node
    BY <1>2, OwnerFacts DEF Listing
  <2>2. Nodes(s) = Append(key_list[s], NewNode(mutex[s]))
    BY <1>2 DEF Nodes
  <2>3. QED
    BY <1>1, <2>1, <2>2
<1>3. CASE ~ Listing(s)
  BY <1>1, <1>3 DEF Nodes
<1>4. QED
  BY <1>2, <1>3

(* Every node in the key list has a value list.                            *)
LEMMA ListOfNode ==
  ASSUME IInv, NEW s \in Reducers, NEW k \in DOMAIN key_list[s]
  PROVE  key_list[s][k].p \in DOMAIN lists[s]
BY NodesType DEF IInv, TableInv, Match

(* When the receivers have ended, no one is at a new node.                 *)
LEMMA AllEnded ==
  ASSUME IInv, MappersJoined, NEW s \in Reducers
  PROVE  mutex[s] = NoOne /\ ~ Listing(s)
<1>1. ASSUME mutex[s] # NoOne PROVE FALSE
  BY <1>1, OwnerFacts DEF MappersJoined, HoldingStates
<1>2. QED
  BY <1>1 DEF Listing

(* A reducer that was started finds the receivers ended.                   *)
LEMMA WhileReducing ==
  ASSUME IInv, NEW i \in Reducers, rpc[i] # "new", NEW s \in Reducers
  PROVE  /\ mutex[s] = NoOne /\ Nodes(s) = key_list[s]
         /\ Match(key_list[s], lists[s], hash[s])
<1>1. i < started /\ i \in Nat
  BY ReduceNumAssumption DEF IInv, PhaseInv, Reducers
<1>2. started # 0
  BY <1>1
<1>3. MappersJoined
  BY <1>2 DEF IInv, PhaseInv
<1>4. QED
  BY <1>3, AllEnded, AllListed

(* Nodes depend on the owner of the mutex and its pair.                    *)
LEMMA NodesStay ==
  ASSUME NEW s \in Reducers, key_list'[s] = key_list[s],
         \/ /\ mutex'[s] = mutex[s]
            /\ \A r : r = mutex[s] => /\ rpc'[r] = "listing" <=> rpc[r] = "listing"
                                      /\ rpc[r] = "listing" =>
                                           pushed'[r] = pushed[r] /\ found'[r] = found[r]
         \/ ~ Listing(s) /\ ~ Listing(s)'
  PROVE  Nodes(s)' = Nodes(s)
<1>1. CASE ~ Listing(s) /\ ~ Listing(s)'
  BY <1>1 DEF Nodes
<1>2. CASE mutex'[s] = mutex[s] /\ Listing(s)
  <2>1. PICK r : r = mutex[s]
    OBVIOUS
  <2>2. Listing(s)' /\ pushed'[r] = pushed[r] /\ found'[r] = found[r]
    BY <1>2, <2>1 DEF Listing
  <2>3. NewNode(r)' = NewNode(r)
    BY <2>2 DEF NewNode, pair
  <2>4. Nodes(s) = Append(key_list[s], NewNode(r))
    BY <1>2, <2>1 DEF Nodes
  <2>5. Nodes(s)' = Append(key_list'[s], NewNode(mutex[s])')
    BY <2>2 DEF Nodes
  <2>6. NewNode(mutex[s])' = NewNode(r)'
    BY <1>2, <2>1 DEF NewNode, pair
  <2>7. QED
    BY <2>3, <2>4, <2>5, <2>6
<1>3. CASE mutex'[s] = mutex[s] /\ ~ Listing(s)
  <2>1. ~ Listing(s)'
    BY <1>3 DEF Listing
  <2>2. QED
    BY <1>1, <1>3, <2>1
<1>4. QED
  BY <1>1, <1>2, <1>3

(* Nodes in another order match the same table.                            *)
LEMMA PermutedMatch ==
  ASSUME NEW nodes \in Seq(Node), NEW vals, NEW table, Match(nodes, vals, table),
         NEW q \in Sorted(nodes)
  PROVE  Match(q, vals, table)
<1>1. q \in Seq(Node) /\ Len(q) = Len(nodes)
  BY SortedType
<1>2. DOMAIN q = DOMAIN nodes
  BY <1>1
<1>3. PICK f \in Bijection(DOMAIN nodes, DOMAIN nodes) :
        q = [k \in DOMAIN nodes |-> nodes[f[k]]]
  BY DEF Sorted, Rearranged
<1>4. /\ f \in [DOMAIN nodes -> DOMAIN nodes]
      /\ \A j, k \in DOMAIN nodes : f[j] = f[k] => j = k
      /\ \A j \in DOMAIN nodes : \E k \in DOMAIN nodes : f[k] = j
      /\ \A k \in DOMAIN nodes : q[k] = nodes[f[k]]
  BY <1>3 DEF Bijection, Injection, Surjection, IsInjective
<1>5. \A k \in DOMAIN nodes : f[k] \in DOMAIN nodes
  BY <1>4
<1>6. Len(q) = Len(vals)
  BY <1>1 DEF Match
<1>7. ASSUME NEW j \in DOMAIN q, NEW k \in DOMAIN q, Sign[q[j].str] = Sign[q[k].str]
      PROVE  j = k
  <2>1. Sign[nodes[f[j]].str] = Sign[nodes[f[k]].str]
    BY <1>2, <1>4, <1>7
  <2>2. f[j] \in DOMAIN nodes /\ f[k] \in DOMAIN nodes
    BY <1>2, <1>5
  <2>3. f[j] = f[k]
    BY <2>1, <2>2 DEF Match
  <2>4. QED
    BY <1>2, <1>4, <2>3
<1>8. ASSUME NEW k \in DOMAIN q
      PROVE  table[Sign[q[k].str]] = q[k].p /\ q[k].p \in DOMAIN vals
  BY <1>2, <1>4, <1>5 DEF Match
<1>9. ASSUME NEW g \in Signs, table[g] # 0
      PROVE  \E k \in DOMAIN q : q[k].p = table[g] /\ Sign[q[k].str] = g
  <2>1. PICK j \in DOMAIN nodes : nodes[j].p = table[g] /\ Sign[nodes[j].str] = g
    BY <1>9 DEF Match
  <2>2. PICK k \in DOMAIN nodes : f[k] = j
    BY <1>4
  <2>3. q[k] = nodes[j]
    BY <1>4, <2>2
  <2>4. QED
    BY <1>2, <2>1, <2>3
<1>10. QED
  BY <1>6, <1>7, <1>8, <1>9 DEF Match

-----------------------------------------------------------------------------
(* The initial states *)

LEMMA InitIInv == Init => IInv
<1> SUFFICES ASSUME Init PROVE IInv
  OBVIOUS
<1> USE ReduceNumAssumption, ThreadsAssumption DEF Init
<1>1. \A r \in Receivers : r \notin Reducers
  OBVIOUS
<1>2. TypeOK
  <2>1. started \in 0 .. reduce_num
    OBVIOUS
  <2>2. /\ pushed \in [Receivers -> Seq(Pairs)]
        /\ key_list \in [Reducers -> Seq([str : Keys, p : Nat])]
        /\ lists \in [Reducers -> Seq(Seq(Values) \ {<< >>})]
        /\ emitted \in [Reducers -> Seq([key : Keys, value : Values])]
    OBVIOUS
  <2>3. /\ mutex \in [Reducers -> Receivers \cup {NoOne}]
        /\ hash \in [Reducers -> [Signs -> Nat]]
        /\ task_num \in [Reducers -> Nat]
        /\ found \in [Receivers -> Nat] /\ count \in [Receivers -> Nat]
        /\ key_pos \in [Reducers -> Nat] /\ value_pos \in [Reducers -> Nat]
    OBVIOUS
  <2>4. QED
    BY <1>1, <2>1, <2>2, <2>3 DEF TypeOK
<1>3. ThreadInv /\ PhaseInv /\ LockInv
  BY <1>1 DEF ThreadInv, PhaseInv, LockInv, HoldingStates, ReceiverStates, ReducerStates
<1>4. TableInv
  <2>1. \A s \in Reducers : Nodes(s) = << >> /\ lists[s] = << >> /\ hash[s] = [g \in Signs |-> 0]
    BY DEF Nodes, Listing
  <2>2. Match(<< >>, << >>, [g \in Signs |-> 0])
    BY DEF Match
  <2>3. QED
    BY <2>1, <2>2 DEF TableInv
<1>5. PositionInv /\ EmittedInv
  BY DEF PositionInv, EmittedInv
<1>6. QED
  BY <1>2, <1>3, <1>4, <1>5 DEF IInv

-----------------------------------------------------------------------------
(* A receiver *)

(* While a receiver runs no reducer was started, and it gives nobody a     *)
(* state but itself.                                                       *)
LEMMA ReceiverMoves ==
  ASSUME IInv, NEW r \in Receivers, NEW from \in ReceiverStates \ {"ended"},
         NEW to \in ReceiverStates, Thread(r, from, to), UNCHANGED << pc, started >>
  PROVE  /\ rpc[r] = from /\ rpc'[r] = to
         /\ \A t \in (Receivers \cup Reducers) \ {r} : rpc'[t] = rpc[t]
         /\ \A i \in Reducers : rpc'[i] = rpc[i] /\ rpc[i] = "new"
         /\ pc = "mapping" /\ started = 0
         /\ ThreadInv' /\ PhaseInv'
<1>1. rpc \in [Receivers \cup Reducers -> ReceiverStates \cup ReducerStates]
  BY DEF IInv, ThreadInv
<1>2. rpc[r] = from /\ rpc' = [rpc EXCEPT ![r] = to]
  BY DEF Thread
<1>3. rpc'[r] = to /\ \A t \in (Receivers \cup Reducers) \ {r} : rpc'[t] = rpc[t]
  BY <1>1, <1>2
<1>4. rpc[r] # "ended"
  BY <1>2
<1>5. pc = "mapping" /\ started = 0
  BY <1>4 DEF IInv, PhaseInv, MappersJoined
<1>6. \A i \in Reducers : rpc[i] = "new" /\ rpc'[i] = rpc[i]
  <2>1. \A i \in Reducers : i # r /\ ~ (i < 0)
    BY ThreadsAssumption, ReduceNumAssumption DEF Reducers
  <2>2. QED
    BY <1>3, <1>5, <2>1 DEF IInv, PhaseInv
<1>7. ThreadInv'
  BY <1>1, <1>2, <1>5 DEF ThreadInv
<1>8. PhaseInv'
  BY <1>5, <1>6 DEF PhaseInv
<1>9. QED
  BY <1>2, <1>3, <1>5, <1>6, <1>7, <1>8

(* What is given out is nothing yet, so that storing cannot disturb it.    *)
LEMMA ReceiverKeepsPositions ==
  ASSUME IInv, \A i \in Reducers : rpc[i] = "new",
         UNCHANGED << key_pos, value_pos, emitted >>
  PROVE  PositionInv' /\ EmittedInv'
<1>1. \A i \in Reducers : emitted[i] = << >> /\ key_pos[i] = 1 /\ value_pos[i] >= 1
  BY DEF IInv, PositionInv
<1>2. QED
  BY <1>1 DEF PositionInv, EmittedInv

(* What a step of receiver r leaves to the receivers that hold a mutex     *)
LeftAlone(r) ==
  /\ \A t \in Receivers \ {r} : /\ rpc'[t] = rpc[t] /\ pushed'[t] = pushed[t]
                                /\ found'[t] = found[t] /\ count'[t] = count[t]
  /\ \A s \in Reducers :
       /\ mutex'[s] \in {mutex[s], r, NoOne}
       /\ mutex[s] \notin {r, NoOne} =>
            mutex'[s] = mutex[s] /\ hash'[s] = hash[s] /\ task_num'[s] = task_num[s]

(* What it has to bring about for itself                                   *)
OwnLock(r) ==
  /\ rpc[r] \in HoldingStates \cup {"locking"} => pushed[r] # << >>
  /\ rpc[r] \in HoldingStates => mutex[slot(r)] = r
  /\ rpc[r] = "storing" => found[r] = hash[slot(r)][sign(r)]
  /\ rpc[r] = "unlocking" => count[r] = task_num[slot(r)]
  /\ \A s \in Reducers : mutex[s] = r => rpc[r] \in HoldingStates /\ slot(r) = s

LEMMA LockKept ==
  ASSUME IInv, NEW r \in Receivers, LeftAlone(r), OwnLock(r)'
  PROVE  LockInv'
<1>1. ASSUME NEW t \in Receivers, t # r
      PROVE  /\ rpc'[t] = rpc[t] /\ pushed'[t] = pushed[t] /\ found'[t] = found[t]
             /\ count'[t] = count[t] /\ slot(t)' = slot(t) /\ sign(t)' = sign(t)
  BY <1>1 DEF LeftAlone, slot, sign, pair
<1>2. ASSUME NEW t \in Receivers, t # r, rpc[t] \in HoldingStates
      PROVE  /\ mutex'[slot(t)] = t /\ hash'[slot(t)] = hash[slot(t)]
             /\ task_num'[slot(t)] = task_num[slot(t)]
  <2>1. mutex[slot(t)] = t /\ pushed[t] # << >>
    BY <1>2 DEF IInv, LockInv
  <2>2. slot(t) \in Reducers /\ t # NoOne
    BY <2>1, PairType, NoOneAssumption DEF IInv
  <2>3. QED
    BY <1>2, <2>1, <2>2 DEF LeftAlone
<1>3. ASSUME NEW t \in Receivers
      PROVE  /\ rpc'[t] \in HoldingStates \cup {"locking"} => pushed'[t] # << >>
             /\ rpc'[t] \in HoldingStates => mutex'[slot(t)'] = t
             /\ rpc'[t] = "storing" => found'[t] = hash'[slot(t)'][sign(t)']
             /\ rpc'[t] = "unlocking" => count'[t] = task_num'[slot(t)']
  <2>1. CASE t = r
    BY <2>1 DEF OwnLock
  <2>2. CASE t # r
    BY <1>1, <1>2, <2>2 DEF IInv, LockInv, HoldingStates
  <2>3. QED
    BY <2>1, <2>2
<1>4. ASSUME NEW s \in Reducers, mutex'[s] # NoOne
      PROVE  rpc'[mutex'[s]] \in HoldingStates /\ slot(mutex[s])' = s
  <2>1. CASE mutex'[s] = r
    <3>1. rpc'[r] \in HoldingStates /\ slot(r)' = s
      BY <2>1 DEF OwnLock
    <3>2. slot(mutex[s])' = slot(r)'
      BY <2>1 DEF slot, pair
    <3>3. QED
      BY <2>1, <3>1, <3>2
  <2>2. CASE mutex'[s] # r
    <3>1. mutex'[s] = mutex[s] /\ mutex[s] # NoOne
      BY <1>4, <2>2 DEF LeftAlone
    <3>2. PICK t : t = mutex[s]
      OBVIOUS
    <3>3. t \in Receivers /\ t # r /\ rpc[t] \in HoldingStates /\ slot(t) = s
      BY <2>2, <3>1, <3>2, OwnerFacts
    <3>4. rpc'[t] = rpc[t] /\ slot(t)' = s
      BY <1>1, <3>3
    <3>5. slot(mutex[s])' = slot(t)'
      BY <3>1, <3>2 DEF slot, pair
    <3>6. QED
      BY <3>1, <3>2, <3>3, <3>4, <3>5
  <2>3. QED
    BY <2>1, <2>2
<1>5. QED
  BY <1>3, <1>4 DEF LockInv

(* A receiver that is at no new node keeps the nodes as they are.          *)
LEMMA TableKept ==
  ASSUME IInv, NEW r \in Receivers, LeftAlone(r), rpc[r] # "listing", rpc'[r] # "listing",
         UNCHANGED key_list
  PROVE  \A s \in Reducers : Nodes(s)' = Nodes(s)
<1> SUFFICES ASSUME NEW s \in Reducers PROVE Nodes(s)' = Nodes(s)
  OBVIOUS
<1>1. CASE mutex[s] \in {r, NoOne}
  <2>1. ~ Listing(s)
    BY <1>1 DEF Listing
  <2>2. mutex'[s] \in {r, NoOne}
    BY <1>1 DEF LeftAlone
  <2>3. ~ Listing(s)'
    BY <2>2 DEF Listing
  <2>4. QED
    BY <2>1, <2>3, NodesStay
<1>2. CASE mutex[s] \notin {r, NoOne}
  <2>1. mutex'[s] = mutex[s]
    BY <1>2 DEF LeftAlone
  <2>2. PICK t : t = mutex[s]
    OBVIOUS
  <2>3. t \in Receivers /\ t # r
    BY <1>2, <2>2, OwnerFacts
  <2>4. rpc'[t] = rpc[t] /\ pushed'[t] = pushed[t] /\ found'[t] = found[t]
    BY <2>3 DEF LeftAlone
  <2>5. QED
    BY <2>1, <2>2, <2>4, NodesStay
<1>3. QED
  BY <1>1, <1>2

(* The steps of a receiver that store nothing                              *)
Reads(r) == \/ ReadEof(r) \/ Lock(r) \/ Find(r) \/ CountTask(r) \/ Unlock(r)
            \/ \E kv \in Pairs : ReadPair(r, kv)

LEMMA ReadsMoves ==
  ASSUME IInv, NEW r \in Receivers, Reads(r)
  PROVE  /\ UNCHANGED << pc, started, hash, key_list, lists, key_pos, value_pos, emitted >>
         /\ rpc[r] # "listing" /\ rpc'[r] # "listing"
         /\ \A t \in (Receivers \cup Reducers) \ {r} : rpc'[t] = rpc[t]
         /\ \A i \in Reducers : rpc'[i] = rpc[i] /\ rpc[i] = "new"
         /\ rpc'[r] \in ReceiverStates
         /\ ThreadInv' /\ PhaseInv' /\ PositionInv' /\ EmittedInv'
<1>1. UNCHANGED << pc, started, hash, key_list, lists, key_pos, value_pos, emitted >>
  BY DEF Reads, ReadEof, Lock, Find, CountTask, Unlock, ReadPair, store
<1>2. \E from \in ReceiverStates \ {"ended", "listing"}, to \in ReceiverStates \ {"listing"} :
        Thread(r, from, to)
  BY DEF Reads, ReadEof, Lock, Find, CountTask, Unlock, ReadPair, ReceiverStates
<1>3. PICK from \in ReceiverStates \ {"ended", "listing"}, to \in ReceiverStates \ {"listing"} :
        Thread(r, from, to)
  BY <1>2
<1>4. /\ rpc[r] = from /\ rpc'[r] = to
      /\ \A t \in (Receivers \cup Reducers) \ {r} : rpc'[t] = rpc[t]
      /\ \A i \in Reducers : rpc'[i] = rpc[i] /\ rpc[i] = "new"
      /\ ThreadInv' /\ PhaseInv'
  BY <1>1, <1>3, ReceiverMoves
<1>5. PositionInv' /\ EmittedInv'
  BY <1>1, <1>4, ReceiverKeepsPositions
<1>6. QED
  BY <1>1, <1>3, <1>4, <1>5

(* Who holds a mutex while receiver r takes such a step                    *)
LEMMA ReadsLock ==
  ASSUME IInv, NEW r \in Receivers, Reads(r)
  PROVE  LeftAlone(r) /\ OwnLock(r)'
<1>1. /\ TypeOK /\ rpc \in [Receivers \cup Reducers -> ReceiverStates \cup ReducerStates]
      /\ NoOne \notin Receivers
  BY NoOneAssumption DEF IInv, ThreadInv
<1>2. OwnLock(r)
  BY NoOneAssumption DEF IInv, LockInv, OwnLock
<1>3. \A t \in Receivers \ {r} : rpc'[t] = rpc[t]
  BY ReadsMoves
<1>4. pushed[r] # << >> => slot(r) \in Reducers /\ sign(r) \in Signs
  BY <1>1, PairType
<1>5. CASE ReadEof(r)
  <2>1. /\ rpc[r] = "reading" /\ rpc'[r] = "ended"
        /\ UNCHANGED << pushed, found, count, mutex, hash, task_num >>
    BY <1>1, <1>5 DEF ReadEof, Thread, store
  <2>2. slot(r)' = slot(r) /\ sign(r)' = sign(r)
    BY <2>1 DEF slot, sign, pair
  <2>3. QED
    BY <1>2, <1>3, <2>1, <2>2 DEF LeftAlone, OwnLock, HoldingStates
<1>6. CASE \E kv \in Pairs : ReadPair(r, kv)
  <2>1. PICK kv \in Pairs : ReadPair(r, kv)
    BY <1>6
  <2>2. /\ rpc[r] = "reading" /\ rpc'[r] = "locking" /\ pushed'[r] = Append(pushed[r], kv)
        /\ \A t \in Receivers \ {r} : pushed'[t] = pushed[t]
        /\ UNCHANGED << found, count, mutex, hash, task_num >>
    BY <1>1, <2>1 DEF ReadPair, Thread, store, TypeOK
  <2>3. pushed'[r] # << >>
    <3>1. pushed[r] \in Seq(Pairs)
      BY <1>1 DEF TypeOK
    <3>2. QED
      BY <2>2, <3>1
  <2>4. QED
    BY <1>2, <1>3, <2>2, <2>3 DEF LeftAlone, OwnLock, HoldingStates
<1>7. CASE Lock(r)
  <2>1. /\ rpc[r] = "locking" /\ rpc'[r] = "finding" /\ mutex[slot(r)] = NoOne
        /\ mutex' = [mutex EXCEPT ![slot(r)] = r]
        /\ UNCHANGED << pushed, found, count, hash, task_num >>
    BY <1>1, <1>7 DEF Lock, Free, Thread
  <2>2. pushed[r] # << >> /\ slot(r) \in Reducers
    BY <1>2, <1>4, <2>1 DEF OwnLock
  <2>3. /\ mutex'[slot(r)] = r
        /\ \A s \in Reducers \ {slot(r)} : mutex'[s] = mutex[s]
    BY <1>1, <2>1, <2>2 DEF TypeOK
  <2>4. slot(r)' = slot(r) /\ sign(r)' = sign(r)
    BY <2>1 DEF slot, sign, pair
  <2>5. \A s \in Reducers : mutex[s] # r
    BY <1>2, <2>1 DEF OwnLock, HoldingStates
  <2>6. LeftAlone(r)
    BY <1>3, <2>1, <2>3 DEF LeftAlone
  <2>7. OwnLock(r)'
    BY <2>1, <2>2, <2>3, <2>4, <2>5 DEF OwnLock, HoldingStates
  <2>8. QED
    BY <2>6, <2>7
<1>8. CASE Find(r)
  <2>1. /\ rpc[r] = "finding" /\ rpc'[r] = "storing"
        /\ found' = [found EXCEPT ![r] = hash[slot(r)][sign(r)]]
        /\ UNCHANGED << pushed, count, mutex, hash, task_num >>
    BY <1>1, <1>8 DEF Find, Thread, store
  <2>2. /\ found'[r] = hash[slot(r)][sign(r)]
        /\ \A t \in Receivers \ {r} : found'[t] = found[t]
    BY <1>1, <2>1 DEF TypeOK
  <2>3. slot(r)' = slot(r) /\ sign(r)' = sign(r)
    BY <2>1 DEF slot, sign, pair
  <2>4. LeftAlone(r)
    BY <1>3, <2>1, <2>2 DEF LeftAlone
  <2>5. OwnLock(r)'
    BY <1>2, <2>1, <2>2, <2>3 DEF OwnLock, HoldingStates
  <2>6. QED
    BY <2>4, <2>5
<1>9. CASE CountTask(r)
  <2>1. /\ rpc[r] = "counting" /\ rpc'[r] = "unlocking"
        /\ count' = [count EXCEPT ![r] = task_num[slot(r)]]
        /\ UNCHANGED << pushed, found, mutex, hash, task_num >>
    BY <1>1, <1>9 DEF CountTask, Thread, store
  <2>2. /\ count'[r] = task_num[slot(r)]
        /\ \A t \in Receivers \ {r} : count'[t] = count[t]
    BY <1>1, <2>1 DEF TypeOK
  <2>3. slot(r)' = slot(r) /\ sign(r)' = sign(r)
    BY <2>1 DEF slot, sign, pair
  <2>4. LeftAlone(r)
    BY <1>3, <2>1, <2>2 DEF LeftAlone
  <2>5. OwnLock(r)'
    BY <1>2, <2>1, <2>2, <2>3 DEF OwnLock, HoldingStates
  <2>6. QED
    BY <2>4, <2>5
<1>10. CASE Unlock(r)
  <2>1. /\ rpc[r] = "unlocking" /\ rpc'[r] = "reading"
        /\ task_num' = [task_num EXCEPT ![slot(r)] = count[r] + 1]
        /\ count' = [count EXCEPT ![r] = 0]
        /\ mutex' = [mutex EXCEPT ![slot(r)] = NoOne]
        /\ UNCHANGED << pushed, found, hash >>
    BY <1>1, <1>10 DEF Unlock, Thread
  <2>2. mutex[slot(r)] = r /\ slot(r) \in Reducers
    BY <1>2, <1>4, <2>1 DEF OwnLock, HoldingStates
  <2>3. /\ mutex'[slot(r)] = NoOne
        /\ \A s \in Reducers \ {slot(r)} : mutex'[s] = mutex[s] /\ task_num'[s] = task_num[s]
        /\ \A t \in Receivers \ {r} : count'[t] = count[t]
    BY <1>1, <2>1, <2>2 DEF TypeOK
  <2>4. \A s \in Reducers : mutex'[s] # r
    BY <1>1, <1>2, <2>3 DEF OwnLock
  <2>5. LeftAlone(r)
    BY <1>3, <2>1, <2>2, <2>3 DEF LeftAlone
  <2>6. OwnLock(r)'
    BY <2>1, <2>4 DEF OwnLock, HoldingStates
  <2>7. QED
    BY <2>5, <2>6
<1>11. QED
  BY <1>5, <1>6, <1>7, <1>8, <1>9, <1>10 DEF Reads

LEMMA ReadsType ==
  ASSUME IInv, NEW r \in Receivers, Reads(r)
  PROVE  /\ pushed' \in [Receivers -> Seq(Pairs)]
         /\ found' \in [Receivers -> Nat] /\ count' \in [Receivers -> Nat]
         /\ mutex' \in [Reducers -> Receivers \cup {NoOne}]
         /\ task_num' \in [Reducers -> Nat]
<1>1. TypeOK
  BY DEF IInv
<1>2. rpc[r] \in HoldingStates => slot(r) \in Reducers /\ sign(r) \in Signs
  BY <1>1, PairType DEF IInv, LockInv
<1>3. CASE ReadEof(r)
  BY <1>1, <1>3 DEF ReadEof, store, TypeOK
<1>4. CASE \E kv \in Pairs : ReadPair(r, kv)
  BY <1>1, <1>4 DEF ReadPair, store, TypeOK
<1>5. CASE Lock(r)
  BY <1>1, <1>5 DEF Lock, TypeOK
<1>6. CASE Find(r)
  <2>1. hash[slot(r)][sign(r)] \in Nat
    BY <1>1, <1>2, <1>6 DEF Find, Thread, HoldingStates, TypeOK
  <2>2. QED
    BY <1>1, <1>6, <2>1 DEF Find, store, TypeOK
<1>7. CASE CountTask(r)
  <2>1. task_num[slot(r)] \in Nat
    BY <1>1, <1>2, <1>7 DEF CountTask, Thread, HoldingStates, TypeOK
  <2>2. QED
    BY <1>1, <1>7, <2>1 DEF CountTask, store, TypeOK
<1>8. CASE Unlock(r)
  <2>1. count[r] + 1 \in Nat
    BY <1>1 DEF TypeOK
  <2>2. QED
    BY <1>1, <1>8, <2>1 DEF Unlock, TypeOK
<1>9. QED
  BY <1>3, <1>4, <1>5, <1>6, <1>7, <1>8 DEF Reads

LEMMA ReadsNodes ==
  ASSUME IInv, NEW r \in Receivers, Reads(r)
  PROVE  \A s \in Reducers : Nodes(s)' = Nodes(s)
BY ReadsMoves, ReadsLock, TableKept

LEMMA ReceiverReads == ASSUME IInv, NEW r \in Receivers, Reads(r) PROVE IInv'
<1>1. /\ UNCHANGED << pc, started, hash, key_list, lists, key_pos, value_pos, emitted >>
      /\ rpc[r] # "listing" /\ rpc'[r] # "listing"
      /\ \A t \in (Receivers \cup Reducers) \ {r} : rpc'[t] = rpc[t]
      /\ \A i \in Reducers : rpc'[i] = rpc[i]
      /\ rpc'[r] \in ReceiverStates
      /\ ThreadInv' /\ PhaseInv' /\ PositionInv' /\ EmittedInv'
  BY ReadsMoves
<1>2. LockInv'
  BY ReadsLock, LockKept
<1>3. \A s \in Reducers : Nodes(s)' = Nodes(s)
  BY ReadsNodes
<1>4. TableInv'
  BY <1>1, <1>3 DEF IInv, TableInv
<1>5. TypeOK'
  BY <1>1, ReadsType, ThreadsAssumption DEF IInv, TypeOK, ReceiverStates
<1>6. QED
  BY <1>1, <1>2, <1>4, <1>5 DEF IInv

(* A receiver that holds a mutex does not touch the nodes of another slot. *)
LEMMA OtherNodes ==
  ASSUME IInv, NEW r \in Receivers, rpc[r] \in HoldingStates,
         \A t \in Receivers \ {r} : rpc'[t] = rpc[t] /\ pushed'[t] = pushed[t] /\ found'[t] = found[t],
         mutex' = mutex, NEW s \in Reducers, s # slot(r), key_list'[s] = key_list[s]
  PROVE  Nodes(s)' = Nodes(s)
<1>1. CASE mutex[s] = NoOne
  <2>1. ~ Listing(s) /\ ~ Listing(s)'
    BY <1>1 DEF Listing
  <2>2. QED
    BY <2>1, NodesStay
<1>2. CASE mutex[s] # NoOne
  <2>1. PICK t : t = mutex[s]
    OBVIOUS
  <2>2. t \in Receivers /\ slot(t) = s
    BY <1>2, <2>1, OwnerFacts
  <2>3. t # r
    BY <2>2
  <2>4. rpc'[t] = rpc[t] /\ pushed'[t] = pushed[t] /\ found'[t] = found[t]
    BY <2>2, <2>3
  <2>5. QED
    BY <2>1, <2>4, NodesStay
<1>3. QED
  BY <1>1, <1>2

(* What the steps of push_back_r() that store something have in common:    *)
(* the mutex keeps every other receiver out of this slot.                  *)
LEMMA ReceiverStores ==
  ASSUME IInv, NEW r \in Receivers, NEW from \in {"storing", "listing"},
         NEW to \in {"listing", "counting"}, Thread(r, from, to),
         UNCHANGED << pc, started, pushed, count, mutex, task_num, key_pos, value_pos, emitted >>,
         found' \in [Receivers -> Nat], \A t \in Receivers \ {r} : found'[t] = found[t],
         hash' \in [Reducers -> [Signs -> Nat]],
         key_list' \in [Reducers -> Seq(Node)],
         lists' \in [Reducers -> Seq(Seq(Values) \ {<< >>})],
         \A s \in Reducers \ {slot(r)} : /\ hash'[s] = hash[s] /\ lists'[s] = lists[s]
                                         /\ key_list'[s] = key_list[s],
         NEW o, o = slot(r), Match(Nodes(o)', lists'[o], hash'[o])
  PROVE  IInv'
<1>1. /\ rpc[r] = from /\ rpc'[r] = to
      /\ \A t \in (Receivers \cup Reducers) \ {r} : rpc'[t] = rpc[t]
      /\ \A i \in Reducers : rpc'[i] = rpc[i] /\ rpc[i] = "new"
      /\ ThreadInv' /\ PhaseInv'
  BY ReceiverMoves DEF ReceiverStates
<1>2. PositionInv' /\ EmittedInv'
  BY <1>1, ReceiverKeepsPositions
<1>3. TypeOK'
  BY <1>1, ThreadsAssumption DEF IInv, TypeOK, Node
<1>4. slot(r)' = slot(r) /\ sign(r)' = sign(r)
  BY DEF slot, sign, pair
<1>5. rpc[r] \in HoldingStates
  BY <1>1 DEF HoldingStates
<1>6. pushed[r] # << >> /\ mutex[slot(r)] = r /\ slot(r) \in Reducers /\ r # NoOne
      /\ \A s \in Reducers : mutex[s] = r => slot(r) = s
  <2>1. pushed[r] # << >> /\ mutex[slot(r)] = r /\ r # NoOne
    BY <1>5, NoOneAssumption DEF IInv, LockInv
  <2>2. ASSUME NEW s \in Reducers, mutex[s] = r PROVE slot(r) = s
    <3>1. mutex[s] # NoOne
      BY <2>1, <2>2
    <3>2. slot(mutex[s]) = s
      BY <3>1 DEF IInv, LockInv
    <3>3. QED
      BY <2>2, <3>2
  <2>3. slot(r) \in Reducers
    BY <2>1, PairType DEF IInv
  <2>4. QED
    BY <2>1, <2>2, <2>3
<1>7. LeftAlone(r)
  BY <1>1, <1>6 DEF LeftAlone
<1>8. OwnLock(r)'
  <2>1. rpc'[r] \in HoldingStates /\ rpc'[r] \notin {"storing", "unlocking"}
    BY <1>1 DEF HoldingStates
  <2>2. QED
    BY <1>4, <1>6, <2>1 DEF OwnLock
<1>9. LockInv'
  BY <1>7, <1>8, LockKept
<1>10. ASSUME NEW s \in Reducers, s # slot(r) PROVE Nodes(s)' = Nodes(s)
  <2>1. key_list'[s] = key_list[s] /\ mutex' = mutex
    BY <1>10
  <2>2. \A t \in Receivers \ {r} : /\ rpc'[t] = rpc[t] /\ pushed'[t] = pushed[t]
                                     /\ found'[t] = found[t]
    BY <1>1
  <2>3. QED
    BY <1>5, <1>10, <2>1, <2>2, OtherNodes
<1>11. TableInv'
  <2>1. ASSUME NEW s \in Reducers PROVE Match(Nodes(s)', lists'[s], hash'[s])
    <3>1. CASE s = o
      BY <3>1
    <3>2. CASE s # o
      BY <1>10, <3>2 DEF IInv, TableInv
    <3>3. QED
      BY <3>1, <3>2
  <2>2. QED
    BY <2>1 DEF TableInv
<1>12. QED
  BY <1>1, <1>2, <1>3, <1>9, <1>11 DEF IInv

(* A new key makes one more node, which the owner of the mutex is at.      *)
LEMMA StoreNewNodes ==
  ASSUME IInv, NEW r \in Receivers, StoreNew(r), NEW s \in Reducers, s = slot(r),
         NEW p, p = Len(lists[s]) + 1, NEW n, n = [str |-> pair(r).key, p |-> p]
  PROVE  /\ Nodes(s) = key_list[s] /\ Nodes(s)' = Append(key_list[s], n)
         /\ \A t \in Reducers \ {s} : Nodes(t)' = Nodes(t)
<1>1. /\ rpc[r] = "storing" /\ rpc'[r] = "listing" /\ mutex[s] = r /\ r # NoOne
      /\ \A t \in Receivers \ {r} : rpc'[t] = rpc[t]
  BY NoOneAssumption DEF StoreNew, Thread, IInv, ThreadInv, LockInv, HoldingStates
<1>2. found' = [found EXCEPT ![r] = p] /\ UNCHANGED << pushed, key_list, mutex >>
  BY DEF StoreNew
<1>3. found'[r] = p /\ \A t \in Receivers \ {r} : found'[t] = found[t]
  BY <1>2 DEF IInv, TypeOK
<1>4. ~ Listing(s) /\ Listing(s)'
  BY <1>1, <1>2 DEF Listing
<1>5. NewNode(mutex[s])' = NewNode(r)'
  BY <1>1, <1>2 DEF NewNode, pair
<1>6. NewNode(r)' = n
  BY <1>2, <1>3 DEF NewNode, pair
<1>7. Nodes(s) = key_list[s] /\ Nodes(s)' = Append(key_list[s], n)
  BY <1>2, <1>4, <1>5, <1>6 DEF Nodes
<1>8. \A t \in Reducers \ {s} : Nodes(t)' = Nodes(t)
  BY <1>1, <1>2, <1>3, OtherNodes DEF HoldingStates
<1>9. QED
  BY <1>7, <1>8

(* As the lookup still holds, no node has the sign of a new key.           *)
LEMMA StoreNewIInv == ASSUME IInv, NEW r \in Receivers, StoreNew(r) PROVE IInv'
<1>0. PICK s : s = slot(r)
  OBVIOUS
<1> DEFINE g == sign(r)
           p == Len(lists[s]) + 1
           n == [str |-> pair(r).key, p |-> p]
<1>1. /\ rpc[r] = "storing" /\ rpc'[r] = "listing" /\ pushed[r] # << >> /\ hash[s][g] = 0
      /\ mutex[s] = r /\ r # NoOne
  BY <1>0, NoOneAssumption DEF StoreNew, Thread, IInv, ThreadInv, LockInv, HoldingStates
<1>2. pair(r) \in [key : Keys, value : Values] /\ s \in Reducers /\ g \in Signs
  BY <1>0, <1>1, PairType DEF IInv
<1>3. g = Sign[n.str]
  BY DEF sign
<1>4. /\ hash \in [Reducers -> [Signs -> Nat]]
      /\ key_list \in [Reducers -> Seq(Node)]
      /\ lists \in [Reducers -> Seq(Seq(Values) \ {<< >>})]
      /\ found \in [Receivers -> Nat]
  BY DEF IInv, TypeOK, Node
<1>5. /\ lists' = [lists EXCEPT ![s] = Append(@, << pair(r).value >>)]
      /\ hash'  = [hash EXCEPT ![s][g] = p]
      /\ found' = [found EXCEPT ![r] = p]
      /\ UNCHANGED << pushed, key_list, mutex >>
  BY <1>0 DEF StoreNew
<1>6. p \in Nat /\ p # 0 /\ n \in Node /\ << pair(r).value >> \in Seq(Values) \ {<< >>}
  BY <1>2, <1>4 DEF Node
<1>7. Nodes(s) = key_list[s] /\ Nodes(s)' = Append(key_list[s], n)
  BY <1>0, <1>2, StoreNewNodes
<1>8. Match(key_list[s], lists[s], hash[s])
  BY <1>2, <1>7 DEF IInv, TableInv
<1> HIDE DEF g, p, n
<1>9. /\ \A t \in Reducers \ {s} : lists'[t] = lists[t] /\ hash'[t] = hash[t]
      /\ lists'[s] = Append(lists[s], << pair(r).value >>)
      /\ hash'[s][g] = p
      /\ \A h \in Signs \ {g} : hash'[s][h] = hash[s][h]
      /\ \A t \in Receivers \ {r} : found'[t] = found[t]
  BY <1>2, <1>4, <1>5
<1>10. /\ hash' \in [Reducers -> [Signs -> Nat]]
       /\ lists' \in [Reducers -> Seq(Seq(Values) \ {<< >>})]
       /\ found' \in [Receivers -> Nat] /\ key_list' \in [Reducers -> Seq(Node)]
  BY <1>2, <1>4, <1>5, <1>6
<1>11. PICK q : q = Nodes(s)'
  OBVIOUS
<1>12. Len(key_list[s]) = Len(lists[s]) /\ p = Len(key_list[s]) + 1
  BY <1>8 DEF Match, p
<1>13. /\ DOMAIN q = DOMAIN key_list[s] \cup {p} /\ p \notin DOMAIN key_list[s]
       /\ q[p] = n /\ \A k \in DOMAIN key_list[s] : q[k] = key_list[s][k]
       /\ Len(q) = p
  <2>1. key_list[s] \in Seq(Node) /\ q = Append(key_list[s], n)
    BY <1>2, <1>4, <1>7, <1>11
  <2>2. QED
    BY <1>6, <1>12, <2>1
<1>14. DOMAIN lists'[s] = DOMAIN lists[s] \cup {p} /\ Len(lists'[s]) = p
  BY <1>2, <1>4, <1>6, <1>9, <1>12
<1>15. \A k \in DOMAIN key_list[s] :
         /\ key_list[s][k].p \in DOMAIN lists[s] /\ key_list[s][k].p # 0
         /\ hash[s][Sign[key_list[s][k].str]] = key_list[s][k].p
         /\ Sign[key_list[s][k].str] \in Signs
  <2>1. ASSUME NEW k \in DOMAIN key_list[s] PROVE key_list[s][k] \in Node
    BY <1>2, <1>4
  <2>2. ASSUME NEW k \in DOMAIN lists[s] PROVE k # 0
    BY <1>2, <1>4
  <2>3. QED
    BY <1>8, <2>1, <2>2 DEF Match, Signs, Node
<1>16. \A k \in DOMAIN key_list[s] : Sign[key_list[s][k].str] # g
  BY <1>1, <1>15 DEF g
<1>17. n.p = p
  BY DEF n
<1>18. Match(q, lists'[s], hash'[s])
  <2>1. \A j, k \in DOMAIN q : Sign[q[j].str] = Sign[q[k].str] => j = k
    BY <1>3, <1>8, <1>13, <1>16 DEF Match
  <2>2. \A k \in DOMAIN q : hash'[s][Sign[q[k].str]] = q[k].p
    BY <1>3, <1>9, <1>13, <1>15, <1>16, <1>17
  <2>3. \A h \in Signs : hash'[s][h] # 0 =>
          \E k \in DOMAIN q : q[k].p = hash'[s][h] /\ Sign[q[k].str] = h
    <3>1. ASSUME NEW h \in Signs, h # g, hash'[s][h] # 0
          PROVE  \E k \in DOMAIN q : q[k].p = hash'[s][h] /\ Sign[q[k].str] = h
      <4>1. hash'[s][h] = hash[s][h] /\ hash[s][h] # 0
        BY <1>9, <3>1
      <4>2. PICK k \in DOMAIN key_list[s] :
              key_list[s][k].p = hash[s][h] /\ Sign[key_list[s][k].str] = h
        BY <1>8, <3>1, <4>1 DEF Match
      <4>3. k \in DOMAIN q /\ q[k] = key_list[s][k]
        BY <1>13
      <4>4. QED
        BY <4>1, <4>2, <4>3
    <3>2. q[p].p = hash'[s][g] /\ Sign[q[p].str] = g
      BY <1>3, <1>9, <1>13, <1>17
    <3>3. QED
      BY <1>13, <3>1, <3>2
  <2>4. \A k \in DOMAIN q : q[k].p \in DOMAIN lists'[s]
    BY <1>13, <1>14, <1>15, <1>17
  <2>5. Len(q) = Len(lists'[s])
    BY <1>13, <1>14
  <2>6. QED
    BY <2>1, <2>2, <2>3, <2>4, <2>5 DEF Match
<1>19. /\ Thread(r, "storing", "listing")
       /\ UNCHANGED << pc, started, pushed, count, mutex, task_num, key_pos, value_pos, emitted >>
  BY DEF StoreNew
<1>20. \A t \in Reducers \ {slot(r)} : /\ hash'[t] = hash[t] /\ lists'[t] = lists[t]
                                       /\ key_list'[t] = key_list[t]
  BY <1>0, <1>5, <1>9
<1>21. Match(Nodes(s)', lists'[s], hash'[s])
  BY <1>11, <1>18
<1>22. QED
  BY <1>0, <1>9, <1>10, <1>19, <1>20, <1>21, ReceiverStores

(* The node of a new key goes to where it was counted already.             *)
LEMMA ListKeyNodes ==
  ASSUME IInv, NEW r \in Receivers, ListKey(r)
  PROVE  /\ rpc[r] = "listing" /\ rpc'[r] = "counting" /\ slot(r) \in Reducers
         /\ pushed[r] # << >> /\ mutex[slot(r)] = r
         /\ \A s \in Reducers \ {slot(r)} : key_list'[s] = key_list[s]
         /\ key_list' \in [Reducers -> Seq(Node)]
         /\ \A s : s = slot(r) => Nodes(s)' = Nodes(s)
<1>0. PICK s : s = slot(r)
  OBVIOUS
<1>1. /\ rpc[r] = "listing" /\ rpc'[r] = "counting" /\ pushed[r] # << >>
      /\ mutex[s] = r /\ r # NoOne
  BY <1>0, NoOneAssumption DEF ListKey, Thread, IInv, ThreadInv, LockInv, HoldingStates
<1>2. s \in Reducers
  BY <1>0, <1>1, PairType DEF IInv
<1>3. key_list \in [Reducers -> Seq(Node)]
  BY DEF IInv, TypeOK, Node
<1>4. NewNode(r) \in Node
  BY <1>1, <1>2, OwnerFacts
<1>5. key_list' = [key_list EXCEPT ![s] = Append(@, NewNode(r))] /\ UNCHANGED << mutex, pushed >>
  BY <1>0 DEF ListKey, NewNode
<1>6. /\ key_list'[s] = Append(key_list[s], NewNode(r))
      /\ \A t \in Reducers \ {s} : key_list'[t] = key_list[t]
      /\ key_list' \in [Reducers -> Seq(Node)]
  BY <1>2, <1>3, <1>4, <1>5
<1>7. Listing(s) /\ ~ Listing(s)'
  BY <1>1, <1>5 DEF Listing
<1>8. Nodes(s) = Append(key_list[s], NewNode(r)) /\ Nodes(s)' = key_list'[s]
  BY <1>1, <1>7 DEF Nodes
<1>9. QED
  BY <1>0, <1>1, <1>2, <1>6, <1>8

LEMMA ListKeyIInv == ASSUME IInv, NEW r \in Receivers, ListKey(r) PROVE IInv'
<1>0. PICK s : s = slot(r)
  OBVIOUS
<1>1. /\ s \in Reducers /\ Nodes(s)' = Nodes(s) /\ key_list' \in [Reducers -> Seq(Node)]
      /\ \A t \in Reducers \ {slot(r)} : key_list'[t] = key_list[t]
  BY <1>0, ListKeyNodes
<1>2. /\ Thread(r, "listing", "counting")
      /\ UNCHANGED << pc, started, pushed, found, count, mutex, hash, lists, task_num,
                      key_pos, value_pos, emitted >>
  BY DEF ListKey
<1>3. Match(Nodes(s)', lists'[s], hash'[s])
  BY <1>1, <1>2 DEF IInv, TableInv
<1>4. /\ found' \in [Receivers -> Nat] /\ hash' \in [Reducers -> [Signs -> Nat]]
      /\ lists' \in [Reducers -> Seq(Seq(Values) \ {<< >>})]
  BY <1>2 DEF IInv, TypeOK
<1>5. QED
  BY <1>0, <1>1, <1>2, <1>3, <1>4, ReceiverStores

(* A known key has a list.                                                 *)
LEMMA KnownList ==
  ASSUME IInv, NEW r \in Receivers, rpc[r] = "storing", found[r] # 0
  PROVE  /\ pushed[r] # << >> /\ slot(r) \in Reducers
         /\ pair(r) \in [key : Keys, value : Values] /\ sign(r) \in Signs
         /\ mutex[slot(r)] = r /\ r # NoOne
         /\ found[r] = hash[slot(r)][sign(r)] /\ found[r] \in DOMAIN lists[slot(r)]
<1>1. /\ pushed[r] # << >> /\ found[r] = hash[slot(r)][sign(r)] /\ mutex[slot(r)] = r
      /\ r # NoOne
  BY NoOneAssumption DEF IInv, LockInv, HoldingStates
<1>2. pair(r) \in [key : Keys, value : Values] /\ slot(r) \in Reducers /\ sign(r) \in Signs
  BY <1>1, PairType DEF IInv
<1>3. PICK s : s = slot(r)
  OBVIOUS
<1>4. Match(Nodes(s), lists[s], hash[s])
  BY <1>2, <1>3 DEF IInv, TableInv
<1>5. found[r] \in DOMAIN lists[s]
  BY <1>1, <1>2, <1>3, <1>4 DEF Match
<1>6. QED
  BY <1>1, <1>2, <1>3, <1>5

(* A known key changes no node.                                            *)
LEMMA StoreMoreNodes ==
  ASSUME IInv, NEW r \in Receivers, StoreMore(r), NEW s \in Reducers
  PROVE  Nodes(s)' = Nodes(s)
<1>1. /\ rpc[r] = "storing" /\ rpc'[r] = "counting" /\ mutex[slot(r)] = r
      /\ \A t \in Receivers \ {r} : rpc'[t] = rpc[t]
      /\ UNCHANGED << pushed, found, mutex, key_list >>
  BY DEF StoreMore, Thread, IInv, ThreadInv, LockInv, HoldingStates
<1>2. CASE s = slot(r)
  <2>1. ~ Listing(s) /\ ~ Listing(s)'
    BY <1>1, <1>2 DEF Listing
  <2>2. QED
    BY <1>1, <2>1, NodesStay
<1>3. CASE s # slot(r)
  BY <1>1, <1>3, OtherNodes DEF HoldingStates
<1>4. QED
  BY <1>2, <1>3

(* One value list grows.                                                   *)
LEMMA StoreMoreIInv == ASSUME IInv, NEW r \in Receivers, StoreMore(r) PROVE IInv'
<1>0. PICK s : s = slot(r)
  OBVIOUS
<1>1. rpc[r] = "storing" /\ rpc'[r] = "counting" /\ found[r] # 0
  BY DEF StoreMore, Thread, IInv, ThreadInv
<1>2. /\ pair(r) \in [key : Keys, value : Values] /\ s \in Reducers /\ sign(r) \in Signs
      /\ mutex[s] = r /\ found[r] \in DOMAIN lists[s]
  BY <1>0, <1>1, KnownList
<1>3. /\ hash \in [Reducers -> [Signs -> Nat]]
      /\ key_list \in [Reducers -> Seq(Node)]
      /\ lists \in [Reducers -> Seq(Seq(Values) \ {<< >>})]
      /\ found \in [Receivers -> Nat]
  BY DEF IInv, TypeOK, Node
<1>5. lists[s][found[r]] \in Seq(Values)
  BY <1>2, <1>3
<1>6. Append(lists[s][found[r]], pair(r).value) \in Seq(Values) \ {<< >>}
  BY <1>2, <1>5
<1>7. lists' = [lists EXCEPT ![s][found[r]] = Append(@, pair(r).value)]
  BY <1>0 DEF StoreMore
<1>8. [lists[s] EXCEPT ![found[r]] = Append(@, pair(r).value)] \in Seq(Seq(Values) \ {<< >>})
  BY <1>2, <1>3, <1>6
<1>9. lists' \in [Reducers -> Seq(Seq(Values) \ {<< >>})]
  BY <1>2, <1>3, <1>7, <1>8
<1>10. /\ DOMAIN lists'[s] = DOMAIN lists[s] /\ Len(lists'[s]) = Len(lists[s])
       /\ \A t \in Reducers \ {s} : lists'[t] = lists[t]
  <2>1. DOMAIN lists'[s] = DOMAIN lists[s]
    BY <1>2, <1>3, <1>7
  <2>2. lists'[s] \in Seq(Seq(Values) \ {<< >>}) /\ lists[s] \in Seq(Seq(Values) \ {<< >>})
    BY <1>2, <1>3, <1>9
  <2>3. QED
    BY <1>2, <1>3, <1>7, <2>1, <2>2
<1>11. /\ Thread(r, "storing", "counting")
       /\ UNCHANGED << pc, started, pushed, found, count, mutex, task_num, key_pos, value_pos,
                       emitted >>
       /\ UNCHANGED << hash, key_list >>
  BY DEF StoreMore
<1>12. Nodes(s)' = Nodes(s)
  BY <1>2, StoreMoreNodes
<1>13. Match(Nodes(s)', lists'[s], hash'[s])
  BY <1>2, <1>10, <1>11, <1>12 DEF IInv, TableInv, Match
<1>14. QED
  BY <1>0, <1>3, <1>9, <1>10, <1>11, <1>13, ReceiverStores

-----------------------------------------------------------------------------
(* The main thread *)

(* Steps of other threads leave to the receivers what they rely on.        *)
LEMMA LockStays ==
  ASSUME IInv, \A r \in Receivers : rpc'[r] = rpc[r],
         UNCHANGED << pushed, found, count, mutex, hash, task_num >>
  PROVE  LockInv'
<1>1. \A r : slot(r)' = slot(r) /\ sign(r)' = sign(r)
  BY DEF slot, sign, pair
<1>2. ASSUME NEW s \in Reducers, mutex'[s] # NoOne
      PROVE  rpc'[mutex'[s]] \in HoldingStates /\ slot(mutex[s])' = s
  <2>1. PICK r : r = mutex[s]
    OBVIOUS
  <2>2. r \in Receivers /\ rpc[r] \in HoldingStates /\ slot(r) = s
    BY <1>2, <2>1, OwnerFacts
  <2>3. slot(mutex[s])' = slot(r)'
    BY <2>1 DEF slot, pair
  <2>4. QED
    BY <1>1, <2>1, <2>2, <2>3
<1>3. QED
  BY <1>1, <1>2 DEF IInv, LockInv

LEMMA NodesKept ==
  ASSUME IInv, \A r \in Receivers : rpc'[r] = rpc[r], UNCHANGED << pushed, found, mutex, key_list >>,
         NEW s \in Reducers
  PROVE  Nodes(s)' = Nodes(s)
<1>1. CASE mutex[s] = NoOne
  <2>1. ~ Listing(s) /\ ~ Listing(s)'
    BY <1>1 DEF Listing
  <2>2. QED
    BY <2>1, NodesStay
<1>2. CASE mutex[s] # NoOne
  <2>1. PICK r : r = mutex[s]
    OBVIOUS
  <2>2. r \in Receivers
    BY <1>2, <2>1, OwnerFacts
  <2>3. QED
    BY <2>1, <2>2, NodesStay
<1>3. QED
  BY <1>1, <1>2

LEMMA TableStays ==
  ASSUME IInv, \A r \in Receivers : rpc'[r] = rpc[r],
         UNCHANGED << pushed, found, mutex, hash, key_list, lists >>
  PROVE  TableInv'
BY NodesKept DEF IInv, TableInv

LEMMA MainIInv == ASSUME IInv, MainStep \/ StartReducerFails PROVE IInv'
<1>1. UNCHANGED << pushed, found, count, mutex, hash, key_list, lists, task_num,
                   key_pos, value_pos, emitted >>
  BY DEF MainStep, JoinMappers, StartReducer, JoinReducers, StartReducerFails, store
<1>2. EmittedInv'
  BY <1>1 DEF IInv, EmittedInv
<1>3. rpc \in [Receivers \cup Reducers -> ReceiverStates \cup ReducerStates]
      /\ started \in 0 .. reduce_num
  BY DEF IInv, ThreadInv, TypeOK
<1>4. CASE JoinMappers \/ JoinReducers \/ StartReducerFails
  <2>1. /\ rpc' = rpc /\ started' = started /\ MappersJoined' /\ pc' # "mapping"
        /\ pc' \in {"starting", "finished", "exit"}
        /\ pc' = "starting" => started = 0
    BY <1>4 DEF JoinMappers, JoinReducers, StartReducerFails, MappersJoined, IInv, PhaseInv
  <2>2. TypeOK' /\ PositionInv'
    BY <1>1, <2>1 DEF IInv, TypeOK, PositionInv
  <2>3. ThreadInv' /\ PhaseInv'
    BY <2>1, ReduceNumAssumption DEF IInv, ThreadInv, PhaseInv
  <2>4. LockInv' /\ TableInv'
    BY <1>1, <2>1, LockStays, TableStays
  <2>5. QED
    BY <1>2, <2>2, <2>3, <2>4 DEF IInv
<1>5. CASE StartReducer
  <2>1. /\ pc = "starting" /\ started \in Reducers /\ started' = started + 1
        /\ rpc' = [rpc EXCEPT ![started] = "sorting"]
        /\ pc' = IF started + 1 = reduce_num THEN "joining" ELSE "starting"
    BY <1>3, <1>5, ReduceNumAssumption DEF StartReducer, IInv, ThreadInv, Reducers
  <2>2. rpc[started] = "new" /\ \A r \in Receivers : r # started
    <3>1. started \in Nat /\ ~ (started < started)
      BY <2>1, ReduceNumAssumption DEF Reducers
    <3>2. rpc[started] = "new"
      BY <2>1, <3>1 DEF IInv, PhaseInv
    <3>3. Receivers \cap Reducers = {}
      BY ThreadsAssumption
    <3>4. QED
      BY <2>1, <3>2, <3>3
  <2>3. /\ rpc'[started] = "sorting"
        /\ \A t \in Receivers \cup Reducers : t # started => rpc'[t] = rpc[t]
    BY <1>3, <2>1
  <2>4. ThreadInv'
    <3>1. rpc' \in [Receivers \cup Reducers -> ReceiverStates \cup ReducerStates]
      BY <1>3, <2>1 DEF ReducerStates
    <3>2. pc' = "starting" => started' < reduce_num
      BY <1>3, <2>1, ReduceNumAssumption DEF Reducers
    <3>3. QED
      BY <3>1, <3>2 DEF ThreadInv
  <2>5. PhaseInv'
    <3>1. MappersJoined'
      BY <2>1, <2>2, <2>3 DEF IInv, PhaseInv, MappersJoined
    <3>2. \A i \in Reducers : rpc'[i] # "new" => i < started'
      BY <1>3, <2>1, <2>3, ReduceNumAssumption DEF IInv, PhaseInv, Reducers
    <3>3. QED
      BY <2>1, <3>1, <3>2 DEF PhaseInv
  <2>6. LockInv' /\ TableInv'
    BY <1>1, <2>2, <2>3, LockStays, TableStays
  <2>7. PositionInv'
    BY <1>1, <2>1, <2>2, <2>3 DEF IInv, PositionInv
  <2>8. TypeOK'
    <3>1. started' \in 0 .. reduce_num
      BY <1>3, <2>1, ReduceNumAssumption DEF Reducers
    <3>2. QED
      BY <1>1, <2>1, <2>2, <2>3, <3>1 DEF IInv, TypeOK
  <2>9. QED
    BY <1>2, <2>4, <2>5, <2>6, <2>7, <2>8 DEF IInv
<1>6. QED
  BY <1>4, <1>5 DEF MainStep

-----------------------------------------------------------------------------
(* A reducer *)

(* A reducer runs when every receiver has ended, so that it finds no one   *)
(* in push_back_r() and takes nobody by surprise.                          *)
LEMMA ReducerMoves ==
  ASSUME IInv, NEW i \in Reducers, NEW from \in ReducerStates \ {"new"}, NEW to \in ReducerStates,
         rpc[i] = from, rpc' = [rpc EXCEPT ![i] = to], to # "new",
         UNCHANGED << pc, started, pushed, found, count, mutex, hash, task_num >>
  PROVE  /\ started > 0 /\ rpc'[i] = to
         /\ \A j \in Reducers \ {i} : rpc'[j] = rpc[j]
         /\ \A r \in Receivers : rpc'[r] = "ended" /\ rpc[r] = "ended"
         /\ ThreadInv' /\ PhaseInv' /\ LockInv'
<1>1. /\ rpc \in [Receivers \cup Reducers -> ReceiverStates \cup ReducerStates]
      /\ started \in Nat
  BY ReduceNumAssumption DEF IInv, ThreadInv, TypeOK
<1>2. rpc'[i] = to /\ \A t \in (Receivers \cup Reducers) \ {i} : rpc'[t] = rpc[t]
  BY <1>1
<1>3. i < started /\ i \in Nat
  BY ReduceNumAssumption DEF IInv, PhaseInv, Reducers
<1>4. started > 0 /\ pc # "mapping"
  BY <1>1, <1>3 DEF IInv, PhaseInv
<1>5. \A r \in Receivers : rpc'[r] = "ended" /\ rpc[r] = "ended"
  BY <1>2, <1>4, ThreadsAssumption DEF IInv, PhaseInv, MappersJoined
<1>6. ThreadInv'
  BY <1>1 DEF IInv, ThreadInv
<1>7. PhaseInv'
  BY <1>2, <1>3, <1>4, <1>5 DEF IInv, PhaseInv, MappersJoined
<1>8. LockInv'
  BY <1>5, LockStays
<1>9. QED
  BY <1>2, <1>4, <1>5, <1>6, <1>7, <1>8

(* Sorting permutes the nodes of a reducer that has given out nothing.     *)
LEMMA SortKeysIInv == ASSUME IInv, NEW i \in Reducers, SortKeys(i) PROVE IInv'
<1>1. PICK q \in Sorted(key_list[i]) : key_list' = [key_list EXCEPT ![i] = q]
  BY DEF SortKeys
<1>2. /\ rpc[i] = "sorting" /\ rpc' = [rpc EXCEPT ![i] = "getting"]
      /\ UNCHANGED << pc, started, pushed, found, count, mutex, hash, lists, task_num,
                      key_pos, value_pos, emitted >>
  BY DEF SortKeys, Thread
<1>3. /\ rpc'[i] = "getting" /\ \A j \in Reducers \ {i} : rpc'[j] = rpc[j]
      /\ \A r \in Receivers : rpc'[r] = "ended" /\ rpc[r] = "ended"
      /\ ThreadInv' /\ PhaseInv' /\ LockInv'
  BY <1>2, ReducerMoves DEF ReducerStates
<1>4. key_list \in [Reducers -> Seq(Node)] /\ key_list[i] \in Seq(Node)
  BY DEF IInv, TypeOK, Node
<1>5. q \in Seq(Node) /\ Len(q) = Len(key_list[i])
  BY <1>1, <1>4, SortedType
<1>7. key_list'[i] = q /\ \A j \in Reducers \ {i} : key_list'[j] = key_list[j]
  BY <1>1, <1>4
<1>8. key_list' \in [Reducers -> Seq(Node)]
  BY <1>1, <1>4, <1>5
<1>9. DOMAIN q = DOMAIN key_list[i]
  BY <1>4, <1>5
<1>10. ASSUME NEW s \in Reducers PROVE Match(key_list'[s], lists[s], hash[s])
  <2>1. Match(key_list[s], lists[s], hash[s])
    BY <1>2, WhileReducing
  <2>2. CASE s = i
    <3>1. Match(q, lists[i], hash[i])
      BY <1>1, <1>4, <2>1, <2>2, PermutedMatch
    <3>2. QED
      BY <1>7, <2>2, <3>1
  <2>3. CASE s # i
    BY <1>7, <2>1, <2>3
  <2>4. QED
    BY <2>2, <2>3
<1>11. TableInv'
  <2>1. ASSUME NEW s \in Reducers PROVE Nodes(s)' = key_list'[s]
    <3>1. mutex[s] = NoOne
      BY <1>3, AllEnded DEF MappersJoined
    <3>2. QED
      BY <1>2, <3>1 DEF Nodes, Listing
  <2>2. QED
    BY <1>2, <1>10, <2>1 DEF TableInv
<1>12. emitted[i] = << >> /\ key_pos[i] = 1
  BY <1>2 DEF IInv, PositionInv
<1>13. PositionInv'
  BY <1>2, <1>3, <1>7, <1>9, <1>12 DEF IInv, PositionInv
<1>14. EmittedInv'
  BY <1>2, <1>7, <1>12 DEF IInv, EmittedInv
<1>15. TypeOK'
  BY <1>2, <1>3, <1>8 DEF IInv, TypeOK, Node
<1>16. QED
  BY <1>3, <1>11, <1>13, <1>14, <1>15 DEF IInv

(* The next pair has the key at the position, or the next one.             *)
LEMMA GetTaskIInv == ASSUME IInv, NEW i \in Reducers, GetTask(i) PROVE IInv'
<1> DEFINE k == Position(i)[1]
           v == Position(i)[2]
           new == [key |-> key_list[i][k].str, value |-> ValuesAt(i, k)[v]]
<1>1. /\ rpc[i] = "getting" /\ rpc' = [rpc EXCEPT ![i] = "getting"]
      /\ UNCHANGED << pc, started, pushed, found, count, mutex, hash, key_list, lists, task_num >>
      /\ key_list[i] # << >> /\ k <= Len(key_list[i])
      /\ emitted' = [emitted EXCEPT ![i] = Append(@, new)]
      /\ key_pos' = [key_pos EXCEPT ![i] = k]
      /\ value_pos' = [value_pos EXCEPT ![i] = v + 1]
  BY DEF GetTask, Thread, store
<1>2. /\ rpc'[i] = "getting" /\ \A j \in Reducers \ {i} : rpc'[j] = rpc[j]
      /\ \A r \in Receivers : rpc'[r] = "ended" /\ rpc[r] = "ended"
      /\ ThreadInv' /\ PhaseInv' /\ LockInv'
  BY <1>1, ReducerMoves DEF ReducerStates
<1>3. /\ key_list[i] \in Seq(Node)
      /\ lists[i] \in Seq(Seq(Values) \ {<< >>})
      /\ key_pos \in [Reducers -> Nat] /\ value_pos \in [Reducers -> Nat]
      /\ emitted \in [Reducers -> Seq([key : Keys, value : Values])]
      /\ value_pos[i] >= 1
  BY DEF IInv, TypeOK, PositionInv, Node
<1>4. key_pos[i] \in DOMAIN key_list[i]
  BY <1>1, <1>3 DEF IInv, PositionInv
<1>5. \A n \in DOMAIN key_list[i] : ValuesAt(i, n) \in Seq(Values) /\ ValuesAt(i, n) # << >>
                                    /\ key_list[i][n].str \in Keys
  <2>1. ASSUME NEW n \in DOMAIN key_list[i]
        PROVE  key_list[i][n] \in Node /\ key_list[i][n].p \in DOMAIN lists[i]
    BY <1>3, ListOfNode
  <2>2. QED
    BY <1>3, <2>1 DEF ValuesAt, Node
<1>6. /\ k \in DOMAIN key_list[i] /\ k >= key_pos[i]
      /\ v \in DOMAIN ValuesAt(i, k) /\ v \in Nat /\ v >= 1
  <2>1. CASE value_pos[i] <= Len(ValuesAt(i, key_pos[i]))
    <3>1. k = key_pos[i] /\ v = value_pos[i]
      BY <2>1 DEF Position
    <3>2. QED
      BY <1>3, <1>4, <1>5, <2>1, <3>1
  <2>2. CASE ~ (value_pos[i] <= Len(ValuesAt(i, key_pos[i])))
    <3>1. k = key_pos[i] + 1 /\ v = 1
      BY <2>2 DEF Position
    <3>2. k \in DOMAIN key_list[i]
      BY <1>1, <1>3, <1>4, <3>1
    <3>3. QED
      BY <1>3, <1>4, <1>5, <3>1, <3>2
  <2>3. QED
    BY <2>1, <2>2
<1>7. new \in [key : Keys, value : Values]
  BY <1>5, <1>6
<1>8. new.key = key_list[i][k].str
  OBVIOUS
<1> HIDE DEF k, v, new
<1>9. /\ emitted'[i] = Append(emitted[i], new) /\ key_pos'[i] = k /\ value_pos'[i] = v + 1
      /\ \A j \in Reducers \ {i} : /\ emitted'[j] = emitted[j] /\ key_pos'[j] = key_pos[j]
                                   /\ value_pos'[j] = value_pos[j]
  BY <1>1, <1>3
<1>10. /\ emitted' \in [Reducers -> Seq([key : Keys, value : Values])]
       /\ key_pos' \in [Reducers -> Nat] /\ value_pos' \in [Reducers -> Nat]
  <2>1. k \in Nat
    BY <1>3, <1>6
  <2>2. Append(emitted[i], new) \in Seq([key : Keys, value : Values])
    <3>1. emitted[i] \in Seq([key : Keys, value : Values])
      BY <1>3
    <3>2. QED
      BY <1>7, <3>1, AppendType
  <2>3. emitted' \in [Reducers -> Seq([key : Keys, value : Values])]
    BY <1>1, <1>3, <2>2
  <2>4. key_pos' \in [Reducers -> Nat]
    BY <1>1, <1>3, <2>1
  <2>5. value_pos' \in [Reducers -> Nat]
    BY <1>1, <1>3, <1>6
  <2>6. QED
    BY <2>3, <2>4, <2>5
<1>11. TypeOK'
  BY <1>1, <1>2, <1>10 DEF IInv, TypeOK
<1>12. TableInv'
  BY <1>1, <1>2, TableStays
<1>13. PositionInv'
  BY <1>1, <1>2, <1>3, <1>6, <1>9 DEF IInv, PositionInv
<1>14. EmittedInv'
  <2> DEFINE L == Len(emitted[i])
  <2>1. \A m, n \in DOMAIN key_list[i] : key_list[i][m].str = key_list[i][n].str => m = n
    BY <1>1, WhileReducing DEF Match
  <2>2. /\ L \in Nat /\ DOMAIN emitted[i] = 1 .. L /\ DOMAIN emitted'[i] = 1 .. L + 1
        /\ emitted'[i][L + 1] = new
        /\ \A j \in 1 .. L : emitted'[i][j] = emitted[i][j]
    BY <1>3, <1>7, <1>9
  <2>3. k \in Nat /\ key_pos[i] \in Nat /\ \A n \in DOMAIN key_list[i] : n \in Nat
    BY <1>3, <1>6
  <2> HIDE DEF L
  <2>4. ASSUME NEW j \in 1 .. L
        PROVE  \E n \in DOMAIN key_list[i] :
                 n <= key_pos[i] /\ emitted'[i][j].key = key_list[i][n].str
    <3>1. emitted'[i][j] = emitted[i][j] /\ j \in DOMAIN emitted[i]
      BY <2>2
    <3>2. PICK n \in DOMAIN key_list[i] :
            n <= key_pos[i] /\ emitted[i][j].key = key_list[i][n].str
      BY <3>1 DEF IInv, EmittedInv
    <3>3. QED
      BY <3>1, <3>2
  <2>5. ASSUME NEW j \in 1 .. L + 1
        PROVE  \E n \in DOMAIN key_list[i] :
                 n <= k /\ emitted'[i][j].key = key_list[i][n].str
    <3>1. CASE j \in 1 .. L
      BY <1>6, <2>3, <2>4, <3>1
    <3>2. CASE j = L + 1
      BY <1>6, <1>8, <2>2, <2>3, <3>2
    <3>3. QED
      BY <2>2, <3>1, <3>2
  <2>6. ASSUME NEW j \in 1 .. L + 1, NEW l \in 1 .. L + 1,
               NEW m \in DOMAIN key_list[i], NEW n \in DOMAIN key_list[i], j <= l,
               emitted'[i][j].key = key_list[i][m].str, emitted'[i][l].key = key_list[i][n].str
        PROVE  m <= n
    <3>1. CASE l \in 1 .. L
      <4>1. j \in 1 .. L
        BY <2>2, <2>6, <3>1
      <4>2. /\ emitted[i][j].key = key_list[i][m].str /\ emitted[i][l].key = key_list[i][n].str
            /\ j \in DOMAIN emitted[i] /\ l \in DOMAIN emitted[i]
        BY <2>2, <2>6, <3>1, <4>1
      <4>3. QED
        BY <2>6, <4>2 DEF IInv, EmittedInv
    <3>2. CASE l = L + 1
      <4>1. n = k
        BY <1>6, <1>8, <2>1, <2>2, <2>6, <3>2
      <4>2. m <= k
        BY <2>1, <2>5, <2>6
      <4>3. QED
        BY <4>1, <4>2
    <3>3. QED
      BY <2>2, <3>1, <3>2
  <2>7. \A j \in Reducers \ {i} : emitted'[j] = emitted[j] /\ key_pos'[j] = key_pos[j]
                                  /\ key_list'[j] = key_list[j]
    BY <1>1, <1>9
  <2>8. key_list'[i] = key_list[i] /\ key_pos'[i] = k
    BY <1>1, <1>9
  <2>9. InOrder(emitted'[i], key_list[i], k)
    BY <2>2, <2>5, <2>6 DEF InOrder
  <2>10. ASSUME NEW s \in Reducers PROVE InOrder(emitted'[s], key_list'[s], key_pos'[s])
    <3>1. CASE s = i
      BY <2>8, <2>9, <3>1
    <3>2. CASE s # i
      <4>1. InOrder(emitted[s], key_list[s], key_pos[s])
        BY DEF IInv, EmittedInv, InOrder
      <4>2. QED
        BY <2>7, <3>2, <4>1
    <3>3. QED
      BY <3>1, <3>2
  <2>11. QED
    BY <2>10 DEF EmittedInv, InOrder
<1>15. QED
  BY <1>2, <1>11, <1>12, <1>13, <1>14 DEF IInv

LEMMA ReducerIInv == ASSUME IInv, NEW i \in Reducers, Reduce(i) PROVE IInv'
<1>1. CASE SkipSort(i) \/ NoMoreTasks(i)
  <2>1. /\ UNCHANGED << pc, started, pushed, found, count, mutex, hash, key_list, lists, task_num,
                        key_pos, value_pos, emitted >>
        /\ \E from \in {"sorting", "getting"}, to \in {"getting", "done"} :
             rpc[i] = from /\ rpc' = [rpc EXCEPT ![i] = to]
    BY <1>1 DEF SkipSort, NoMoreTasks, Thread, store
  <2>2. PICK to \in {"getting", "done"} : rpc' = [rpc EXCEPT ![i] = to]
    BY <2>1
  <2>3. /\ rpc'[i] = to /\ \A j \in Reducers \ {i} : rpc'[j] = rpc[j]
        /\ \A r \in Receivers : rpc'[r] = "ended" /\ rpc[r] = "ended"
        /\ ThreadInv' /\ PhaseInv' /\ LockInv'
    BY <2>1, <2>2, ReducerMoves DEF ReducerStates
  <2>4. TypeOK'
    BY <2>1, <2>3 DEF IInv, TypeOK
  <2>5. TableInv'
    BY <2>1, <2>3, TableStays
  <2>6. EmittedInv'
    BY <2>1 DEF IInv, EmittedInv
  <2>7. PositionInv'
    BY <2>1, <2>3 DEF IInv, PositionInv
  <2>8. QED
    BY <2>3, <2>4, <2>5, <2>6, <2>7 DEF IInv
<1>2. CASE ReadNoKey(i)
  <2>1. /\ rpc[i] = "getting" /\ pc' = "crashed"
        /\ UNCHANGED << rpc, started, pushed, found, count, mutex, hash, key_list, lists, task_num,
                        key_pos, value_pos, emitted >>
    BY <1>2 DEF ReadNoKey, store
  <2>2. MappersJoined
    <3>1. i \in Nat
      BY ReduceNumAssumption DEF Reducers
    <3>2. i < started
      BY <2>1 DEF IInv, PhaseInv
    <3>3. started # 0
      BY <3>1, <3>2
    <3>4. QED
      BY <3>3 DEF IInv, PhaseInv
  <2>3. ThreadInv' /\ PhaseInv' /\ LockInv'
    <3>1. ThreadInv' /\ PhaseInv'
      BY <2>1, <2>2 DEF IInv, ThreadInv, PhaseInv, MappersJoined
    <3>2. QED
      BY <2>1, <3>1, LockStays
  <2>4. TypeOK'
    BY <2>1 DEF IInv, TypeOK
  <2>5. TableInv'
    BY <2>1, TableStays
  <2>6. PositionInv'
    BY <2>1 DEF IInv, PositionInv
  <2>7. EmittedInv'
    BY <2>1 DEF IInv, EmittedInv
  <2>8. QED
    BY <2>3, <2>4, <2>5, <2>6, <2>7 DEF IInv
<1>3. QED
  BY <1>1, <1>2, SortKeysIInv, GetTaskIInv DEF Reduce

-----------------------------------------------------------------------------

(* Every step preserves the invariant.                                     *)
LEMMA NextIInv == IInv /\ [Next]_vars => IInv'
<1> SUFFICES ASSUME IInv, [Next]_vars PROVE IInv'
  OBVIOUS
<1>1. CASE UNCHANGED vars
  <2>1. UNCHANGED << pc, rpc, started, pushed, found, count, mutex, hash, key_list, lists, task_num,
                     key_pos, value_pos, emitted >>
    BY <1>1 DEF vars, store
  <2>2. TypeOK'
    BY <2>1 DEF IInv, TypeOK
  <2>3. ThreadInv' /\ PhaseInv'
    BY <2>1 DEF IInv, ThreadInv, PhaseInv, MappersJoined
  <2>4. PositionInv' /\ EmittedInv'
    BY <2>1 DEF IInv, PositionInv, EmittedInv
  <2>5. LockInv' /\ TableInv'
    BY <2>1, LockStays, TableStays
  <2>6. QED
    BY <2>2, <2>3, <2>4, <2>5 DEF IInv
<1>2. CASE MainStep \/ StartReducerFails
  BY <1>2, MainIInv
<1>3. CASE Terminated
  BY <1>1, <1>3 DEF Terminated
<1>4. ASSUME NEW r \in Receivers, Receive(r) PROVE IInv'
  BY <1>4, ReceiverReads, StoreNewIInv, ListKeyIInv, StoreMoreIInv DEF Receive, Reads
<1>5. ASSUME NEW i \in Reducers, Reduce(i) PROVE IInv'
  BY <1>5, ReducerIInv
<1>6. QED
  BY <1>1, <1>2, <1>3, <1>4, <1>5 DEF Next

LEMMA InvariantHolds == Spec => []IInv
BY InitIInv, NextIInv, PTL DEF Spec

(* The state of the shuffle and of the threads that use it stays           *)
(* well-typed: no list is empty, and a mutex has an owner or is free.      *)
THEOREM TypeCorrect == Spec => []TypeOK
<1>1. IInv => TypeOK
  BY DEF IInv
<1>2. QED
  BY <1>1, InvariantHolds, PTL

(* push_back_r() keeps _hash and _key_list two views of the same keys,     *)
(* however many receivers store at the same time: they differ only while   *)
(* a receiver that holds the mutex is between the two insertions.          *)
THEOREM TableAndKeyListAgree == Spec => []TableMatchesKeyList
<1>1. IInv => TableMatchesKeyList
  <2> SUFFICES ASSUME IInv, NEW s \in Reducers,
                      \A r \in Receivers : rpc[r] = "listing" => slot(r) # s
               PROVE  Match(key_list[s], lists[s], hash[s])
    BY DEF TableMatchesKeyList, Match
  <2>1. ~ Listing(s)
    BY OwnerFacts DEF Listing
  <2>2. QED
    BY <2>1, AllListed
<1>2. QED
  BY <1>1, InvariantHolds, PTL

(* A reducer gets the pairs of a key one after another, sorted or not: the *)
(* keys it is given are in the order of its nodes, and no two nodes have   *)
(* the same key.                                                           *)
THEOREM PairsOfAKeyComeTogether == Spec => []KeysAreContiguous
<1>1. IInv => KeysAreContiguous
  <2> SUFFICES ASSUME IInv, NEW i \in Reducers,
                      NEW j \in DOMAIN emitted[i], NEW l \in DOMAIN emitted[i],
                      emitted[i][j].key = emitted[i][l].key, NEW k \in j .. l
               PROVE  emitted[i][k].key = emitted[i][j].key
    BY DEF KeysAreContiguous
  <2>1. /\ emitted[i] \in Seq([key : Keys, value : Values])
        /\ key_list[i] \in Seq(Node)
    BY DEF IInv, TypeOK, Node
  <2>2. k \in DOMAIN emitted[i] /\ j <= k /\ k <= l
    BY <2>1
  <2>3. PICK m \in DOMAIN key_list[i] : emitted[i][j].key = key_list[i][m].str
    BY DEF IInv, EmittedInv
  <2>4. PICK n \in DOMAIN key_list[i] : emitted[i][k].key = key_list[i][n].str
    BY <2>2 DEF IInv, EmittedInv
  <2>5. m <= n /\ n <= m
    BY <2>2, <2>3, <2>4 DEF IInv, EmittedInv
  <2>6. m = n
    BY <2>1, <2>5
  <2>7. QED
    BY <2>3, <2>4, <2>6
<1>2. QED
  BY <1>1, InvariantHolds, PTL

(* Once a reducer was started nothing is stored any more, so that sort_r() *)
(* and get_reduce_task_r() need no lock.                                   *)
THEOREM NoWriterMeetsAReader == Spec => NothingStoredWhileReducing
<1>1. IInv /\ [Next]_vars => [started > 0 => UNCHANGED << hash, lists, task_num >>]_vars
  <2> SUFFICES ASSUME IInv, Next, started > 0 PROVE UNCHANGED << hash, lists, task_num >>
    BY DEF vars
  <2>1. \A r \in Receivers : rpc[r] = "ended"
    BY DEF IInv, PhaseInv, MappersJoined
  <2>2. ASSUME NEW r \in Receivers, Receive(r) PROVE FALSE
    BY <2>1, <2>2 DEF Receive, ReadEof, Lock, Find, StoreNew, ListKey, StoreMore, CountTask,
                     Unlock, ReadPair, Thread
  <2>3. CASE MainStep \/ StartReducerFails \/ Terminated
    BY <2>3 DEF MainStep, JoinMappers, StartReducer, JoinReducers, StartReducerFails,
                Terminated, vars, store
  <2>4. ASSUME NEW i \in Reducers, Reduce(i) PROVE UNCHANGED << hash, lists, task_num >>
    BY <2>4 DEF Reduce, SortKeys, SkipSort, GetTask, NoMoreTasks, ReadNoKey, store
  <2>5. QED
    BY <2>2, <2>3, <2>4 DEF Next
<1>2. QED
  BY <1>1, InvariantHolds, PTL DEF Spec, NothingStoredWhileReducing

-----------------------------------------------------------------------------
(* Nothing is lost, doubled or reordered.  A second invariant, on top of   *)
(* the first, says where each pair that was pushed is in the lists, and    *)
(* where each pair that was given out comes from.                          *)

(* How many pairs of a receiver are in the lists: all but the one it is at *)
(* until it has stored it.                                                 *)
Stored(r) == IF rpc[r] \in {"locking", "finding", "storing"} THEN Len(pushed[r]) - 1
             ELSE Len(pushed[r])

SlotOf(r, k) == Hash[pushed[r][k].key]

(* A table gives each sign a list of its own, to nodes of this slot.       *)
NodeInv ==
  \A s \in Reducers :
    /\ \A g, h \in Signs : hash[s][g] = hash[s][h] /\ hash[s][g] # 0 => g = h
    /\ \A k \in DOMAIN Nodes(s) : Hash[Nodes(s)[k].str] = s

(* The value that is stored and not yet counted                            *)
UncountedStates == {"listing", "counting", "unlocking"}

Uncounted(s) == \E r \in Receivers : rpc[r] \in UncountedStates /\ slot(r) = s

TaskInv ==
  \A s \in Reducers :
    /\ IsFiniteSet(StoredValues(s))
    /\ Cardinality(StoredValues(s)) = task_num[s] + (IF Uncounted(s) THEN 1 ELSE 0)

(* at[r][k] is where the k-th pair of receiver r is: in the list of its    *)
(* sign, with its value,                                                   *)
Placed(at) ==
  \A r \in Receivers : \A k \in DOMAIN at[r] : \A s \in Reducers : SlotOf(r, k) = s =>
    /\ at[r][k] \in StoredValues(s)
    /\ at[r][k][1] = hash[s][Sign[pushed[r][k].key]]
    /\ lists[s][at[r][k][1]][at[r][k][2]] = pushed[r][k].value

(* alone,                                                                  *)
Alone(at) ==
  \A q, r \in Receivers : \A j \in DOMAIN at[q], k \in DOMAIN at[r] :
    SlotOf(q, j) = SlotOf(r, k) /\ at[q][j] = at[r][k] => q = r /\ j = k

(* behind the earlier ones;                                                *)
Behind(at) ==
  \A r \in Receivers : \A j, k \in DOMAIN at[r] :
    j < k /\ SlotOf(r, j) = SlotOf(r, k) /\ at[r][j][1] = at[r][k][1]
      => at[r][j][2] < at[r][k][2]

(* and there is nothing else in the lists.                                 *)
NoneElse(at) ==
  \A s \in Reducers : \A a \in StoredValues(s) :
    \E r \in Receivers : \E k \in DOMAIN at[r] : SlotOf(r, k) = s /\ at[r][k] = a

StoredAt(at) ==
  /\ at \in [Receivers -> Seq(Nat \X Nat)]
  /\ \A r \in Receivers : Len(at[r]) = Stored(r)
  /\ Placed(at) /\ Alone(at) /\ Behind(at) /\ NoneElse(at)

StoredInv == \E at : StoredAt(at)

(* The places of some value lists                                          *)
LEMMA PlacesOfLists ==
  ASSUME NEW vals \in Seq(Seq(Values) \ {<< >>}), NEW S,
         S = UNION { {p} \X DOMAIN vals[p] : p \in DOMAIN vals }
  PROVE  /\ S \subseteq Nat \X Nat
         /\ \A p, l : << p, l >> \in S <=> p \in DOMAIN vals /\ l \in DOMAIN vals[p]
         /\ \A a \in S : a = << a[1], a[2] >> /\ a[1] \in DOMAIN vals /\ a[2] \in DOMAIN vals[a[1]]
<1>1. \A p, l : << p, l >> \in S <=> p \in DOMAIN vals /\ l \in DOMAIN vals[p]
  OBVIOUS
<1>2. ASSUME NEW a \in S
      PROVE  a \in Nat \X Nat /\ a = << a[1], a[2] >>
             /\ a[1] \in DOMAIN vals /\ a[2] \in DOMAIN vals[a[1]]
  <2>1. PICK p \in DOMAIN vals : a \in {p} \X DOMAIN vals[p]
    OBVIOUS
  <2>2. p \in Nat /\ vals[p] \in Seq(Values)
    OBVIOUS
  <2>3. \A l \in DOMAIN vals[p] : l \in Nat
    BY <2>2
  <2>4. QED
    BY <2>1, <2>2, <2>3
<1>3. QED
  BY <1>1, <1>2

LEMMA StoredTypes ==
  ASSUME TypeOK, NEW s \in Reducers
  PROVE  /\ StoredValues(s) \subseteq Nat \X Nat
         /\ \A p, l : << p, l >> \in StoredValues(s) <=>
                        p \in DOMAIN lists[s] /\ l \in DOMAIN lists[s][p]
         /\ \A a \in StoredValues(s) : /\ a = << a[1], a[2] >> /\ a[1] \in DOMAIN lists[s]
                                        /\ a[2] \in DOMAIN lists[s][a[1]]
<1>1. lists[s] \in Seq(Seq(Values) \ {<< >>})
  BY DEF TypeOK
<1>2. QED
  BY <1>1, PlacesOfLists DEF StoredValues

(* A step that stores nothing leaves every pair where it is.               *)
LEMMA StoredStays ==
  ASSUME StoredInv, UNCHANGED << hash, lists >>,
         \A r \in Receivers :
           /\ Stored(r)' = Stored(r)
           /\ \A k \in 1 .. Stored(r) : pushed'[r][k] = pushed[r][k]
  PROVE  StoredInv'
<1>1. PICK at : StoredAt(at)
  BY DEF StoredInv
<1>2. \A s \in Reducers : StoredValues(s)' = StoredValues(s)
  BY DEF StoredValues
<1>3. ASSUME NEW r \in Receivers, NEW k \in DOMAIN at[r]
      PROVE  pushed'[r][k] = pushed[r][k] /\ SlotOf(r, k)' = SlotOf(r, k)
  <2>1. k \in 1 .. Stored(r)
    BY <1>1 DEF StoredAt
  <2>2. QED
    BY <2>1 DEF SlotOf
<1>4. StoredAt(at)'
  BY <1>1, <1>2, <1>3 DEF StoredAt, Placed, Alone, Behind, NoneElse
<1>5. QED
  BY <1>4 DEF StoredInv

(* Receiver r puts its pair, for reducer s, at place l of list p: a place  *)
(* that was not used, behind the other values of the list.                 *)
PutsAt(r, s, p, l) ==
  /\ StoredValues(s)' = StoredValues(s) \cup {<< p, l >>} /\ << p, l >> \notin StoredValues(s)
  /\ \A t \in Reducers \ {s} : StoredValues(t)' = StoredValues(t)
  /\ \A t \in Reducers : \A a \in StoredValues(t) :
       lists'[t][a[1]][a[2]] = lists[t][a[1]][a[2]]
  /\ \A t \in Reducers : \A g \in Signs : hash[t][g] # 0 => hash'[t][g] = hash[t][g]
  /\ hash'[s][sign(r)] = p /\ lists'[s][p][l] = pair(r).value
  /\ \A a \in StoredValues(s) : a[1] = p => a[2] < l

LEMMA PairsAt ==
  ASSUME IInv, NEW at, StoredAt(at), NEW q \in Receivers, NEW k \in DOMAIN at[q]
  PROVE  /\ k \in 1 .. Stored(q) /\ Stored(q) \in Nat
         /\ pushed[q][k].key \in Keys /\ SlotOf(q, k) \in Reducers
         /\ Sign[pushed[q][k].key] \in Signs
<1>1. pushed[q] \in Seq(Pairs)
  BY DEF IInv, TypeOK
<1>2. k \in 1 .. Stored(q) /\ Stored(q) \in Nat
  BY DEF StoredAt
<1>3. k \in 1 .. Len(pushed[q])
  BY <1>1, <1>2 DEF Stored
<1>4. pushed[q][k] \in Pairs
  BY <1>1, <1>3
<1>5. QED
  BY <1>2, <1>4, PairsAssumption, HashAssumption DEF SlotOf, Signs, Reducers

(* A receiver stores its pair at a place that was not used, behind the     *)
(* other values of the same list.                                          *)
LEMMA ValueStored ==
  ASSUME IInv, StoredInv, NEW r \in Receivers, NEW to \in UncountedStates,
         Thread(r, "storing", to), pushed' = pushed, NEW s, s = slot(r), NEW p \in Nat, NEW l \in Nat,
         PutsAt(r, s, p, l)
  PROVE  StoredInv'
<1>1. /\ rpc[r] = "storing" /\ rpc'[r] \in UncountedStates /\ pushed[r] # << >>
      /\ \A t \in Receivers \ {r} : rpc'[t] = rpc[t]
  BY DEF Thread, IInv, LockInv, ThreadInv, HoldingStates
<1>2. /\ \A q \in Receivers : pushed[q] \in Seq(Pairs)
      /\ s \in Reducers
      /\ \A t \in Reducers : /\ StoredValues(t) \subseteq Nat \X Nat
                             /\ \A a \in StoredValues(t) : a[1] # 0
  <2>1. TypeOK
    BY DEF IInv
  <2>2. \A t \in Reducers : lists[t] \in Seq(Seq(Values) \ {<< >>})
    BY <2>1 DEF TypeOK
  <2>3. \A t \in Reducers : 0 \notin DOMAIN lists[t]
    BY <2>2
  <2>4. \A t \in Reducers : \A a \in StoredValues(t) : a[1] \in DOMAIN lists[t]
    BY DEF StoredValues
  <2>5. \A t \in Reducers : \A a \in StoredValues(t) : a[1] # 0
    BY <2>3, <2>4
  <2>6. s \in Reducers
    BY <1>1, <2>1, PairType
  <2>7. \A t \in Reducers : StoredValues(t) \subseteq Nat \X Nat
    BY <2>1, StoredTypes
  <2>8. \A q \in Receivers : pushed[q] \in Seq(Pairs)
    BY <2>1 DEF TypeOK
  <2>9. QED
    BY <2>5, <2>6, <2>7, <2>8
<1> DEFINE K == Len(pushed[r])
<1>3. PICK at : StoredAt(at)
  BY DEF StoredInv
<1>4. /\ at \in [Receivers -> Seq(Nat \X Nat)]
      /\ \A q \in Receivers : Len(at[q]) = Stored(q) /\ DOMAIN at[q] = 1 .. Len(at[q])
  BY <1>3 DEF StoredAt
<1>5. /\ K \in Nat \ {0} /\ Len(at[r]) = K - 1 /\ Stored(r)' = K
      /\ pushed[r][K] = pair(r)
      /\ \A q \in Receivers \ {r} : Stored(q)' = Stored(q)
  BY <1>1, <1>2, <1>4 DEF Stored, UncountedStates, pair, Last
<1>6. /\ SlotOf(r, K) = s /\ Sign[pushed[r][K].key] = sign(r)
      /\ \A q, k : SlotOf(q, k)' = SlotOf(q, k)
  BY <1>5 DEF SlotOf, slot, sign
<1> HIDE DEF K
<1> DEFINE new == [at EXCEPT ![r] = Append(@, << p, l >>)]
<1>7. /\ new \in [Receivers -> Seq(Nat \X Nat)]
      /\ \A q \in Receivers \ {r} : new[q] = at[q]
      /\ new[r] = Append(at[r], << p, l >>)
  BY <1>4
<1>8. /\ Len(new[r]) = K /\ DOMAIN new[r] = 1 .. K /\ new[r][K] = << p, l >>
      /\ DOMAIN at[r] = 1 .. K - 1
      /\ \A k \in 1 .. K - 1 : new[r][k] = at[r][k]
  <2>1. at[r] \in Seq(Nat \X Nat) /\ << p, l >> \in Nat \X Nat
    BY <1>4
  <2>2. QED
    BY <1>4, <1>5, <1>7, <2>1
<1> HIDE DEF new
<1>9. \A q \in Receivers : \A k \in DOMAIN new[q] :
        \/ q = r /\ k = K /\ new[q][k] = << p, l >>
        \/ k \in DOMAIN at[q] /\ new[q][k] = at[q][k] /\ ~ (q = r /\ k = K)
  <2>1. \A k \in 1 .. K : k = K \/ (k \in 1 .. K - 1 /\ k # K)
    BY <1>5
  <2>2. QED
    BY <1>7, <1>8, <2>1
<1>10. \A q \in Receivers : \A k \in DOMAIN at[q] :
         k \in DOMAIN new[q] /\ new[q][k] = at[q][k]
  <2>1. \A k \in 1 .. K - 1 : k \in 1 .. K
    BY <1>5
  <2>2. QED
    BY <1>7, <1>8, <2>1
<1>11. ASSUME NEW q \in Receivers, NEW k \in DOMAIN new[q], NEW t \in Reducers,
              SlotOf(q, k) = t
       PROVE  /\ new[q][k] \in StoredValues(t)'
              /\ new[q][k][1] = hash'[t][Sign[pushed[q][k].key]]
              /\ lists'[t][new[q][k][1]][new[q][k][2]] = pushed[q][k].value
  <2>1. CASE q = r /\ k = K /\ new[q][k] = << p, l >>
    BY <1>5, <1>6, <1>11, <2>1 DEF PutsAt
  <2>2. CASE k \in DOMAIN at[q] /\ new[q][k] = at[q][k]
    <3>1. /\ at[q][k] \in StoredValues(t)
          /\ at[q][k][1] = hash[t][Sign[pushed[q][k].key]]
          /\ lists[t][at[q][k][1]][at[q][k][2]] = pushed[q][k].value
      BY <1>3, <1>11, <2>2 DEF StoredAt, Placed
    <3>2. at[q][k] \in StoredValues(t)'
      BY <3>1 DEF PutsAt
    <3>3. at[q][k][1] # 0
      BY <1>2, <3>1
    <3>4. Sign[pushed[q][k].key] \in Signs
      BY <1>3, <2>2, PairsAt
    <3>5. hash'[t][Sign[pushed[q][k].key]] = hash[t][Sign[pushed[q][k].key]]
      BY <3>1, <3>3, <3>4 DEF PutsAt
    <3>6. lists'[t][at[q][k][1]][at[q][k][2]] = lists[t][at[q][k][1]][at[q][k][2]]
      BY <3>1 DEF PutsAt
    <3>7. QED
      BY <2>2, <3>1, <3>2, <3>5, <3>6
  <2>3. QED
    BY <1>9, <2>1, <2>2
<1>12. ASSUME NEW q \in Receivers, NEW k \in DOMAIN at[q], SlotOf(q, k) = s
       PROVE  at[q][k] \in StoredValues(s) /\ at[q][k] # << p, l >>
  BY <1>2, <1>3, <1>12 DEF StoredAt, Placed, PutsAt
<1>13. ASSUME NEW q \in Receivers, NEW t \in Receivers,
              NEW j \in DOMAIN new[q], NEW k \in DOMAIN new[t],
              SlotOf(q, j) = SlotOf(t, k), new[q][j] = new[t][k]
       PROVE  q = t /\ j = k
  <2>1. CASE j \in DOMAIN at[q] /\ k \in DOMAIN at[t] /\ new[q][j] = at[q][j]
             /\ new[t][k] = at[t][k]
    <3>1. SlotOf(q, j) = SlotOf(t, k) /\ at[q][j] = at[t][k]
      BY <1>13, <2>1
    <3>2. Alone(at)
      BY <1>3 DEF StoredAt
    <3>3. QED
      BY <2>1, <3>1, <3>2 DEF Alone
  <2>2. QED
    BY <1>6, <1>9, <1>12, <1>13, <2>1
<1>14. ASSUME NEW t \in Reducers, NEW a \in StoredValues(t)'
       PROVE  \E q \in Receivers : \E k \in DOMAIN new[q] : SlotOf(q, k) = t /\ new[q][k] = a
  <2>1. CASE a \in StoredValues(t)
    <3>1. PICK q \in Receivers : \E k \in DOMAIN at[q] : SlotOf(q, k) = t /\ at[q][k] = a
      BY <1>3, <2>1 DEF StoredAt, NoneElse
    <3>2. PICK k \in DOMAIN at[q] : SlotOf(q, k) = t /\ at[q][k] = a
      BY <3>1
    <3>3. QED
      BY <1>10, <3>2
  <2>2. CASE t = s /\ a = << p, l >>
    <3>1. K \in DOMAIN new[r]
      BY <1>5, <1>8
    <3>2. QED
      BY <1>6, <1>8, <2>2, <3>1
  <2>3. QED
    BY <1>14, <2>1, <2>2 DEF PutsAt
<1>15. ASSUME NEW q \in Receivers, NEW j \in DOMAIN new[q], NEW k \in DOMAIN new[q],
              j < k, SlotOf(q, j) = SlotOf(q, k), new[q][j][1] = new[q][k][1]
       PROVE  new[q][j][2] < new[q][k][2]
  <2>1. CASE k \in DOMAIN at[q] /\ j \in DOMAIN at[q]
    BY <1>3, <1>10, <1>15, <2>1 DEF StoredAt, Behind
  <2>2. CASE q = r /\ k = K /\ j \in DOMAIN at[q]
    BY <1>6, <1>8, <1>10, <1>12, <1>15, <2>2 DEF PutsAt
  <2>3. CASE q = r /\ j = K
    BY <1>5, <1>8, <1>15, <2>3
  <2>4. QED
    BY <1>9, <2>1, <2>2, <2>3
<1>16. \A q \in Receivers : Len(new[q]) = Stored(q)'
  BY <1>4, <1>5, <1>7, <1>8
<1>17. Placed(new)'
  BY <1>6, <1>11 DEF Placed
<1>18. Alone(new)' /\ Behind(new)'
  BY <1>6, <1>13, <1>15 DEF Alone, Behind
<1>19. NoneElse(new)'
  BY <1>6, <1>14 DEF NoneElse
<1>20. StoredAt(new)'
  BY <1>7, <1>16, <1>17, <1>18, <1>19 DEF StoredAt
<1>21. QED
  BY <1>20 DEF StoredInv

(* One more value makes one more place, wherever the lists put it.         *)
Grows(s, p, l) ==
  /\ lists'[s] \in Seq(Seq(Values) \ {<< >>})
  /\ p \notin DOMAIN lists[s] \/ l \notin DOMAIN lists[s][p]
  /\ \A q, m : q \in DOMAIN lists'[s] /\ m \in DOMAIN lists'[s][q] <=>
               \/ q \in DOMAIN lists[s] /\ m \in DOMAIN lists[s][q]
               \/ q = p /\ m = l

LEMMA OneMorePlace ==
  ASSUME TypeOK, NEW s \in Reducers, NEW p, NEW l, Grows(s, p, l)
  PROVE  /\ StoredValues(s)' = StoredValues(s) \cup {<< p, l >>}
         /\ << p, l >> \notin StoredValues(s)
<1>1. \A q, m : << q, m >> \in StoredValues(s) <=> q \in DOMAIN lists[s] /\ m \in DOMAIN lists[s][q]
  BY StoredTypes
<1>2. \A a \in StoredValues(s) : a = << a[1], a[2] >>
  BY StoredTypes
<1>3. /\ \A q, m : << q, m >> \in StoredValues(s)' <=>
                    q \in DOMAIN lists'[s] /\ m \in DOMAIN lists'[s][q]
      /\ \A a \in StoredValues(s)' : a = << a[1], a[2] >>
  BY PlacesOfLists DEF StoredValues, Grows
<1>4. \A q, m : << q, m >> \in StoredValues(s)' <=>
                << q, m >> \in StoredValues(s) \cup {<< p, l >>}
  BY <1>1, <1>3 DEF Grows
<1>5. \A a \in StoredValues(s) \cup {<< p, l >>} : a = << a[1], a[2] >>
  BY <1>2
<1>6. \A a : a \in StoredValues(s)' <=> a \in StoredValues(s) \cup {<< p, l >>}
  BY <1>3, <1>4, <1>5
<1>7. QED
  BY <1>1, <1>6 DEF Grows

(* The first value of a new list, whose sign had none                      *)
LEMMA StoreNewPuts ==
  ASSUME IInv, NodeInv, NEW r \in Receivers, StoreNew(r)
  PROVE  /\ \E s : s = slot(r) /\ \E p, l \in Nat : PutsAt(r, s, p, l)
         /\ NodeInv'
<1>0. PICK s : s = slot(r)
  OBVIOUS
<1> DEFINE g == sign(r)
           p == Len(lists[s]) + 1
           n == [str |-> pair(r).key, p |-> p]
<1>1. rpc[r] = "storing" /\ pushed[r] # << >> /\ hash[s][g] = 0
  BY <1>0 DEF StoreNew, Thread, IInv, LockInv, HoldingStates
<1>2. pair(r) \in [key : Keys, value : Values] /\ s \in Reducers /\ g \in Signs
  BY <1>0, <1>1, PairType DEF IInv
<1>3. /\ hash \in [Reducers -> [Signs -> Nat]]
      /\ key_list \in [Reducers -> Seq(Node)]
      /\ lists \in [Reducers -> Seq(Seq(Values) \ {<< >>})]
  BY DEF IInv, TypeOK, Node
<1>4. /\ lists' = [lists EXCEPT ![s] = Append(@, << pair(r).value >>)]
      /\ hash'  = [hash EXCEPT ![s][g] = p]
  BY <1>0 DEF StoreNew
<1>5. p \in Nat /\ p # 0 /\ n \in Node /\ << pair(r).value >> \in Seq(Values) \ {<< >>}
      /\ Hash[n.str] = s
  BY <1>0, <1>2, <1>3 DEF Node, slot
<1>6. /\ Nodes(s) = key_list[s] /\ Nodes(s)' = Append(key_list[s], n)
      /\ \A t \in Reducers \ {s} : Nodes(t)' = Nodes(t)
  BY <1>0, <1>2, StoreNewNodes
<1> HIDE DEF g, p, n
<1>7. /\ \A t \in Reducers \ {s} : lists'[t] = lists[t] /\ hash'[t] = hash[t]
      /\ lists'[s] = Append(lists[s], << pair(r).value >>)
      /\ hash'[s][g] = p
      /\ \A h \in Signs \ {g} : hash'[s][h] = hash[s][h]
  BY <1>2, <1>3, <1>4
<1>8. /\ lists'[s] \in Seq(Seq(Values) \ {<< >>})
      /\ DOMAIN lists'[s] = DOMAIN lists[s] \cup {p} /\ p \notin DOMAIN lists[s]
      /\ lists'[s][p] = << pair(r).value >>
      /\ \A q \in DOMAIN lists[s] : lists'[s][q] = lists[s][q]
  <2>1. lists[s] \in Seq(Seq(Values) \ {<< >>}) /\ p = Len(lists[s]) + 1
    BY <1>2, <1>3 DEF p
  <2>2. QED
    BY <1>5, <1>7, <2>1
<1>9. StoredValues(s)' = StoredValues(s) \cup {<< p, 1 >>} /\ << p, 1 >> \notin StoredValues(s)
  <2>1. DOMAIN lists'[s][p] = {1}
    BY <1>8
  <2>2. TypeOK
    BY DEF IInv
  <2>3. Grows(s, p, 1)
    BY <1>8, <2>1 DEF Grows
  <2>4. QED
    BY <1>2, <2>2, <2>3, OneMorePlace
<1>10. \A t \in Reducers : \A a \in StoredValues(t) :
        a[1] \in DOMAIN lists[t] /\ lists'[t][a[1]][a[2]] = lists[t][a[1]][a[2]]
  <2>1. TypeOK
    BY DEF IInv
  <2>2. \A t \in Reducers : \A a \in StoredValues(t) : a[1] \in DOMAIN lists[t]
    BY <2>1, StoredTypes
  <2>3. ASSUME NEW t \in Reducers, NEW q \in DOMAIN lists[t] PROVE lists'[t][q] = lists[t][q]
    BY <1>7, <1>8
  <2>4. QED
    BY <2>2, <2>3
<1>11. PutsAt(r, s, p, 1)
  <2>1. \A t \in Reducers \ {s} : StoredValues(t)' = StoredValues(t)
    BY <1>7 DEF StoredValues
  <2>2. \A t \in Reducers : \A h \in Signs : hash[t][h] # 0 => hash'[t][h] = hash[t][h]
    BY <1>1, <1>7 DEF g
  <2>3. \A a \in StoredValues(s) : a[1] # p
    BY <1>2, <1>8, <1>10
  <2>4. lists'[s][p][1] = pair(r).value
    BY <1>8
  <2>5. hash'[s][sign(r)] = p
    BY <1>7 DEF g
  <2>6. QED
    BY <1>9, <1>10, <2>1, <2>2, <2>3, <2>4, <2>5 DEF PutsAt
<1>12. \A h \in Signs : hash[s][h] # p
  <2>1. ASSUME NEW h \in Signs, hash[s][h] = p PROVE FALSE
    <3>1. Match(Nodes(s), lists[s], hash[s])
      BY <1>2 DEF IInv, TableInv
    <3>2. p \in DOMAIN lists[s]
      BY <1>5, <2>1, <3>1 DEF Match
    <3>3. QED
      BY <1>8, <3>2
  <2>2. QED
    BY <2>1
<1>13. NodeInv'
  <2>1. \A t \in Reducers : \A h, i \in Signs :
          hash'[t][h] = hash'[t][i] /\ hash'[t][h] # 0 => h = i
    BY <1>2, <1>7, <1>12 DEF NodeInv
  <2>2. PICK q : q = Nodes(s)'
    OBVIOUS
  <2>3. \A k \in DOMAIN q : Hash[q[k].str] = s
    <3>1. key_list[s] \in Seq(Node) /\ q = Append(key_list[s], n)
      BY <1>2, <1>3, <1>6, <2>2
    <3>2. \A k \in DOMAIN q : \/ k \in DOMAIN key_list[s] /\ q[k] = key_list[s][k]
                             \/ q[k] = n
      BY <1>5, <3>1
    <3>3. \A k \in DOMAIN key_list[s] : Hash[key_list[s][k].str] = s
      BY <1>2, <1>6 DEF NodeInv
    <3>4. QED
      BY <1>5, <3>2, <3>3
  <2>4. \A t \in Reducers : \A k \in DOMAIN Nodes(t)' : Hash[Nodes(t)'[k].str] = t
    <3>1. ASSUME NEW t \in Reducers, t # s
          PROVE  \A k \in DOMAIN Nodes(t)' : Hash[Nodes(t)'[k].str] = t
      BY <1>6, <3>1 DEF NodeInv
    <3>2. QED
      BY <2>2, <2>3, <3>1
  <2>5. QED
    BY <2>1, <2>4 DEF NodeInv
<1>14. QED
  BY <1>0, <1>5, <1>11, <1>13

LEMMA AppendPlaces ==
  ASSUME NEW S, NEW q \in Seq(S), NEW x \in S
  PROVE  /\ DOMAIN Append(q, x) = DOMAIN q \cup {Len(q) + 1}
         /\ \A m \in DOMAIN q : m < Len(q) + 1 /\ Append(q, x)[m] = q[m]
         /\ Append(q, x)[Len(q) + 1] = x
  OBVIOUS

(* One more value at the end of a list                                     *)
LEMMA StoreMorePuts ==
  ASSUME IInv, NodeInv, NEW r \in Receivers, StoreMore(r)
  PROVE  /\ \E s : s = slot(r) /\ \E p, l \in Nat : PutsAt(r, s, p, l)
         /\ NodeInv'
<1>0. PICK s : s = slot(r)
  OBVIOUS
<1> DEFINE p == found[r]
           l == Len(lists[s][p]) + 1
<1>1. rpc[r] = "storing" /\ pushed[r] # << >> /\ p = hash[s][sign(r)] /\ p # 0
  BY <1>0 DEF StoreMore, Thread, IInv, LockInv, HoldingStates
<1>2. pair(r) \in [key : Keys, value : Values] /\ s \in Reducers /\ sign(r) \in Signs
  BY <1>0, <1>1, PairType DEF IInv
<1>3. lists \in [Reducers -> Seq(Seq(Values) \ {<< >>})]
  BY DEF IInv, TypeOK
<1>4. p \in DOMAIN lists[s]
  BY <1>0, <1>1, KnownList
<1>5. /\ lists' = [lists EXCEPT ![s][p] = Append(@, pair(r).value)]
      /\ UNCHANGED << hash, key_list >>
  BY <1>0 DEF StoreMore
<1>6. lists[s][p] \in Seq(Values) /\ l \in Nat /\ p \in Nat
  BY <1>2, <1>3, <1>4
<1> HIDE DEF p
<1>7. /\ \A t \in Reducers \ {s} : lists'[t] = lists[t]
      /\ lists'[s] = [lists[s] EXCEPT ![p] = Append(@, pair(r).value)]
  BY <1>2, <1>3, <1>5
<1>8. /\ lists'[s] \in Seq(Seq(Values) \ {<< >>})
      /\ DOMAIN lists'[s] = DOMAIN lists[s]
      /\ lists'[s][p] = Append(lists[s][p], pair(r).value)
      /\ \A q \in DOMAIN lists[s] : q # p => lists'[s][q] = lists[s][q]
  <2>1. Append(lists[s][p], pair(r).value) \in Seq(Values) \ {<< >>}
    <3>1. pair(r).value \in Values
      BY <1>2
    <3>2. QED
      BY <1>6, <3>1
  <2>2. lists[s] \in Seq(Seq(Values) \ {<< >>})
    BY <1>2, <1>3
  <2>3. QED
    BY <1>4, <1>7, <2>1, <2>2
<1>9. /\ DOMAIN lists'[s][p] = DOMAIN lists[s][p] \cup {l}
      /\ \A m \in DOMAIN lists[s][p] : m < l /\ lists'[s][p][m] = lists[s][p][m]
      /\ lists'[s][p][l] = pair(r).value
  <2>1. pair(r).value \in Values
    BY <1>2
  <2>2. lists[s][p] \in Seq(Values)
    BY <1>6
  <2>3. LET q == Append(lists[s][p], pair(r).value)
        IN  /\ DOMAIN q = DOMAIN lists[s][p] \cup {l}
            /\ \A m \in DOMAIN lists[s][p] : m < l /\ q[m] = lists[s][p][m]
            /\ q[l] = pair(r).value
    BY <2>1, <2>2, AppendPlaces
  <2>4. lists'[s][p] = Append(lists[s][p], pair(r).value)
    BY <1>8
  <2>5. QED
    BY <2>3, <2>4
<1> HIDE DEF l
<1>10. l \notin DOMAIN lists[s][p]
  <2>1. ~ (l < l)
    BY <1>6
  <2>2. QED
    BY <1>9, <2>1
<1>11. StoredValues(s)' = StoredValues(s) \cup {<< p, l >>} /\ << p, l >> \notin StoredValues(s)
  <2>1. TypeOK
    BY DEF IInv
  <2>2. Grows(s, p, l)
    BY <1>4, <1>8, <1>9, <1>10 DEF Grows
  <2>3. QED
    BY <1>2, <2>1, <2>2, OneMorePlace
<1>12. \A t \in Reducers : \A a \in StoredValues(t) :
         lists'[t][a[1]][a[2]] = lists[t][a[1]][a[2]]
  <2>1. TypeOK
    BY DEF IInv
  <2>2. \A t \in Reducers : \A a \in StoredValues(t) :
          a[1] \in DOMAIN lists[t] /\ a[2] \in DOMAIN lists[t][a[1]]
    BY <2>1, StoredTypes
  <2>3. ASSUME NEW t \in Reducers, NEW q \in DOMAIN lists[t], NEW m \in DOMAIN lists[t][q]
        PROVE  lists'[t][q][m] = lists[t][q][m]
    BY <1>7, <1>8, <1>9
  <2>4. QED
    BY <2>2, <2>3
<1>13. PutsAt(r, s, p, l)
  <2>1. \A t \in Reducers \ {s} : StoredValues(t)' = StoredValues(t)
    BY <1>7 DEF StoredValues
  <2>2. \A a \in StoredValues(s) : a[1] = p => a[2] < l
    <3>1. TypeOK
      BY DEF IInv
    <3>2. \A a \in StoredValues(s) : a[2] \in DOMAIN lists[s][a[1]]
      BY <1>2, <3>1, StoredTypes
    <3>3. QED
      BY <1>9, <3>2
  <2>3. QED
    BY <1>1, <1>5, <1>9, <1>11, <1>12, <2>1, <2>2 DEF PutsAt
<1>14. NodeInv'
  <2>1. \A t \in Reducers : Nodes(t)' = Nodes(t)
    BY StoreMoreNodes
  <2>2. QED
    BY <1>5, <2>1 DEF NodeInv
<1>15. QED
  BY <1>0, <1>6, <1>13, <1>14

SInv == NodeInv /\ TaskInv /\ StoredInv

(* A step that neither stores nor counts a value, whoever takes it         *)
LEMMA NothingStored ==
  ASSUME IInv, SInv, UNCHANGED << hash, lists, task_num >>, NodeInv',
         \A q \in Receivers :
           /\ Stored(q)' = Stored(q)
           /\ \A k \in 1 .. Stored(q) : pushed'[q][k] = pushed[q][k]
           /\ rpc'[q] \in UncountedStates <=> rpc[q] \in UncountedStates
           /\ rpc[q] \in UncountedStates => pushed'[q] = pushed[q]
  PROVE  SInv'
<1>1. StoredInv'
  BY StoredStays DEF SInv
<1>2. \A s \in Reducers : StoredValues(s)' = StoredValues(s)
  BY DEF StoredValues
<1>3. \A q \in Receivers : rpc[q] \in UncountedStates => slot(q)' = slot(q)
  BY DEF slot, pair
<1>4. \A s \in Reducers : Uncounted(s)' <=> Uncounted(s)
  BY <1>3 DEF Uncounted
<1>5. TaskInv'
  BY <1>2, <1>4 DEF SInv, TaskInv
<1>6. QED
  BY <1>1, <1>5 DEF SInv

(* A value is stored while the mutex keeps others from being in between.   *)
LEMMA StoreSInv == ASSUME IInv, SInv, NEW r \in Receivers, StoreNew(r) \/ StoreMore(r) PROVE SInv'
<1>1. /\ \E to \in UncountedStates : Thread(r, "storing", to)
      /\ pushed' = pushed /\ task_num' = task_num /\ NodeInv'
      /\ \E s : s = slot(r) /\ \E p, l \in Nat : PutsAt(r, s, p, l)
  BY StoreNewPuts, StoreMorePuts DEF SInv, StoreNew, StoreMore, UncountedStates
<1>2. PICK s : s = slot(r) /\ \E p, l \in Nat : PutsAt(r, s, p, l)
  BY <1>1
<1>3. PICK p \in Nat, l \in Nat : PutsAt(r, s, p, l)
  BY <1>2
<1>4. StoredInv'
  <2>1. PICK to \in UncountedStates : Thread(r, "storing", to)
    BY <1>1
  <2>2. QED
    BY <1>1, <1>2, <1>3, <2>1, ValueStored DEF SInv
<1>5. /\ rpc[r] = "storing" /\ rpc'[r] \in UncountedStates /\ pushed[r] # << >>
      /\ \A t \in Receivers \ {r} : rpc'[t] = rpc[t]
      /\ mutex[s] = r
  BY <1>1, <1>2 DEF Thread, IInv, LockInv, ThreadInv, HoldingStates
<1>6. \A q : slot(q)' = slot(q)
  BY <1>1 DEF slot, pair
<1>7. s \in Reducers
  BY <1>2, <1>5, PairType DEF IInv
<1>8. ~ Uncounted(s)
  BY <1>2, <1>5 DEF Uncounted, UncountedStates, IInv, LockInv, HoldingStates
<1>9. Uncounted(s)'
  BY <1>2, <1>5, <1>6 DEF Uncounted
<1>10. \A t \in Reducers \ {s} : Uncounted(t)' <=> Uncounted(t)
  BY <1>2, <1>5, <1>6 DEF Uncounted, UncountedStates
<1>11. TaskInv'
  <2>1. task_num[s] \in Nat
    BY <1>7 DEF IInv, TypeOK
  <2>2. IsFiniteSet(StoredValues(s)) /\ Cardinality(StoredValues(s)) = task_num[s]
    BY <1>7, <1>8, <2>1 DEF SInv, TaskInv
  <2>3. StoredValues(s)' = StoredValues(s) \cup {<< p, l >>} /\ << p, l >> \notin StoredValues(s)
    BY <1>3 DEF PutsAt
  <2>4. IsFiniteSet(StoredValues(s)') /\ Cardinality(StoredValues(s)') = task_num[s] + 1
    BY <2>2, <2>3, FS_AddElement
  <2>5. \A t \in Reducers \ {s} : StoredValues(t)' = StoredValues(t)
    BY <1>3 DEF PutsAt
  <2>6. ASSUME NEW t \in Reducers
        PROVE  /\ IsFiniteSet(StoredValues(t)')
               /\ Cardinality(StoredValues(t)') = task_num'[t] + (IF Uncounted(t)' THEN 1 ELSE 0)
    <3>1. CASE t = s
      BY <1>1, <1>9, <2>4, <3>1
    <3>2. CASE t # s
      BY <1>1, <1>10, <2>5, <3>2 DEF SInv, TaskInv
    <3>3. QED
      BY <3>1, <3>2
  <2>7. QED
    BY <2>6 DEF TaskInv
<1>12. QED
  BY <1>1, <1>4, <1>11 DEF SInv

(* ++task_num, still under the mutex                                       *)
LEMMA UnlockSInv == ASSUME IInv, SInv, NEW r \in Receivers, Unlock(r) PROVE SInv'
<1>1. PICK s : s = slot(r)
  OBVIOUS
<1>2. /\ rpc[r] = "unlocking" /\ rpc'[r] = "reading" /\ pushed[r] # << >>
      /\ \A t \in Receivers \ {r} : rpc'[t] = rpc[t]
      /\ mutex[s] = r /\ count[r] = task_num[s]
      /\ task_num' = [task_num EXCEPT ![s] = count[r] + 1]
      /\ UNCHANGED << pushed, hash, lists, key_list >>
  BY <1>1 DEF Unlock, Thread, IInv, LockInv, ThreadInv, HoldingStates
<1>3. s \in Reducers
  BY <1>1, <1>2, PairType DEF IInv
<1>4. \A q : slot(q)' = slot(q)
  BY <1>2 DEF slot, pair
<1>5. Uncounted(s) /\ ~ Uncounted(s)'
  BY <1>1, <1>2, <1>4 DEF Uncounted, UncountedStates, IInv, LockInv, HoldingStates
<1>6. \A t \in Reducers \ {s} : Uncounted(t)' <=> Uncounted(t)
  BY <1>1, <1>2, <1>4 DEF Uncounted, UncountedStates
<1>7. /\ task_num'[s] = task_num[s] + 1 /\ task_num[s] \in Nat
      /\ \A t \in Reducers \ {s} : task_num'[t] = task_num[t]
  BY <1>2, <1>3 DEF IInv, TypeOK
<1>8. \A t \in Reducers : StoredValues(t)' = StoredValues(t)
  BY <1>2 DEF StoredValues
<1>9. TaskInv'
  <2>1. ASSUME NEW t \in Reducers
        PROVE  /\ IsFiniteSet(StoredValues(t))
               /\ Cardinality(StoredValues(t)) = task_num'[t] + (IF Uncounted(t)' THEN 1 ELSE 0)
    BY <1>3, <1>5, <1>6, <1>7 DEF SInv, TaskInv
  <2>2. QED
    BY <1>8, <2>1 DEF TaskInv
<1>10. NodeInv'
  <2>1. \A t \in Reducers : Nodes(t)' = Nodes(t)
    BY ReadsNodes DEF Reads
  <2>2. QED
    BY <1>2, <2>1 DEF SInv, NodeInv
<1>11. \A q \in Receivers : Stored(q)' = Stored(q)
  BY <1>2 DEF Stored
<1>12. StoredInv'
  BY <1>2, <1>11, StoredStays DEF SInv
<1>13. QED
  BY <1>9, <1>10, <1>12 DEF SInv

(* The other steps of a receiver                                           *)
LEMMA ReadSInv ==
  ASSUME IInv, SInv, NEW r \in Receivers, Reads(r), ~ Unlock(r)
  PROVE  SInv'
<1>1. UNCHANGED << hash, lists, key_list, task_num >>
  BY DEF Reads, ReadEof, Lock, Find, CountTask, ReadPair, store
<1>2. NodeInv'
  <2>1. \A s \in Reducers : Nodes(s)' = Nodes(s)
    BY ReadsNodes
  <2>2. QED
    BY <1>1, <2>1 DEF SInv, NodeInv
<1>3. rpc \in [Receivers \cup Reducers -> ReceiverStates \cup ReducerStates]
      /\ pushed \in [Receivers -> Seq(Pairs)]
  BY DEF IInv, ThreadInv, TypeOK
<1>4. ASSUME NEW q \in Receivers, q # r
      PROVE  rpc'[q] = rpc[q] /\ pushed'[q] = pushed[q]
  BY <1>3, <1>4 DEF Reads, ReadEof, Lock, Find, CountTask, ReadPair, Thread
<1>5. /\ Stored(r)' = Stored(r)
      /\ \A k \in 1 .. Stored(r) : pushed'[r][k] = pushed[r][k]
      /\ rpc'[r] \in UncountedStates <=> rpc[r] \in UncountedStates
      /\ rpc[r] \in UncountedStates => pushed'[r] = pushed[r]
  <2>1. CASE ReadEof(r) \/ Lock(r) \/ Find(r) \/ CountTask(r)
    <3>1. /\ pushed' = pushed
          /\ rpc'[r] \in UncountedStates <=> rpc[r] \in UncountedStates
          /\ rpc[r] \in {"locking", "finding", "storing"} <=>
              rpc'[r] \in {"locking", "finding", "storing"}
      BY <1>3, <2>1 DEF ReadEof, Lock, Find, CountTask, Thread, UncountedStates
    <3>2. QED
      BY <3>1 DEF Stored
  <2>2. CASE \E kv \in Pairs : ReadPair(r, kv)
    <3>1. PICK kv \in Pairs : ReadPair(r, kv)
      BY <2>2
    <3>2. rpc[r] = "reading" /\ rpc'[r] = "locking" /\ pushed'[r] = Append(pushed[r], kv)
      BY <1>3, <3>1 DEF ReadPair, Thread
    <3>3. pushed[r] \in Seq(Pairs)
      BY <1>3
    <3>4. Len(pushed'[r]) = Len(pushed[r]) + 1 /\ Len(pushed[r]) \in Nat
          /\ \A k \in 1 .. Len(pushed[r]) : pushed'[r][k] = pushed[r][k]
      BY <3>2, <3>3
    <3>5. QED
      BY <3>2, <3>4 DEF Stored, UncountedStates
  <2>3. QED
    BY <2>1, <2>2 DEF Reads
<1>6. \A q \in Receivers : q # r => Stored(q)' = Stored(q)
  BY <1>4 DEF Stored
<1>7. QED
  BY <1>1, <1>2, <1>4, <1>5, <1>6, NothingStored

(* The node of a new key was there already.                                *)
LEMMA ListKeySInv == ASSUME IInv, SInv, NEW r \in Receivers, ListKey(r) PROVE SInv'
<1>1. UNCHANGED << pushed, hash, lists, task_num >>
  BY DEF ListKey
<1>2. /\ rpc[r] = "listing" /\ rpc'[r] = "counting"
      /\ \A q \in Receivers \ {r} : rpc'[q] = rpc[q]
  BY DEF ListKey, Thread, IInv, ThreadInv
<1>3. NodeInv'
  <2>1. ASSUME NEW s \in Reducers PROVE Nodes(s)' = Nodes(s)
    <3>1. CASE s = slot(r)
      BY <3>1, ListKeyNodes
    <3>2. CASE s # slot(r)
      <4>1. key_list'[s] = key_list[s]
        BY <3>2, ListKeyNodes
      <4>2. mutex' = mutex /\ found' = found
        BY DEF ListKey
      <4>3. QED
        BY <1>1, <1>2, <3>2, <4>1, <4>2, OtherNodes DEF HoldingStates
    <3>3. QED
      BY <3>1, <3>2
  <2>2. QED
    BY <1>1, <2>1 DEF SInv, NodeInv
<1>4. ASSUME NEW q \in Receivers
      PROVE  /\ Stored(q)' = Stored(q)
             /\ rpc'[q] \in UncountedStates <=> rpc[q] \in UncountedStates
  BY <1>1, <1>2 DEF Stored, UncountedStates
<1>5. QED
  BY <1>1, <1>3, <1>4, NothingStored

(* Nodes in another order are the same nodes.                              *)
LEMMA SortedNodes ==
  ASSUME NEW i \in Reducers, \A k \in DOMAIN key_list[i] : Hash[key_list[i][k].str] = i,
         NEW q \in Sorted(key_list[i]), NEW k \in DOMAIN q
  PROVE  Hash[q[k].str] = i
<1>1. PICK f \in Bijection(DOMAIN key_list[i], DOMAIN key_list[i]) :
        q = [n \in DOMAIN key_list[i] |-> key_list[i][f[n]]]
  BY DEF Sorted, Rearranged
<1>2. f[k] \in DOMAIN key_list[i] /\ q[k] = key_list[i][f[k]]
  BY <1>1 DEF Bijection, Injection
<1>3. QED
  BY <1>2

(* The main thread and the reducers store nothing.                         *)
LEMMA OthersSInv ==
  ASSUME IInv, SInv, MainStep \/ StartReducerFails \/ (\E i \in Reducers : Reduce(i))
  PROVE  SInv'
<1>1. UNCHANGED << hash, lists, task_num, pushed, found, mutex >>
  BY DEF MainStep, JoinMappers, StartReducer, JoinReducers, StartReducerFails, store,
         Reduce, SortKeys, SkipSort, GetTask, NoMoreTasks, ReadNoKey
<1>2. rpc \in [Receivers \cup Reducers -> ReceiverStates \cup ReducerStates]
      /\ started \in 0 .. reduce_num /\ (pc = "starting" => started < reduce_num)
  BY DEF IInv, ThreadInv, TypeOK
<1>3. ASSUME NEW q \in Receivers PROVE rpc'[q] = rpc[q]
  <2>1. CASE StartReducer
    <3>1. started \in Reducers
      BY <1>2, <2>1, ReduceNumAssumption DEF StartReducer, Reducers
    <3>2. q # started
      BY <3>1, ThreadsAssumption
    <3>3. QED
      BY <1>2, <2>1, <3>2 DEF StartReducer
  <2>2. CASE JoinMappers \/ JoinReducers \/ StartReducerFails
    BY <2>2 DEF JoinMappers, JoinReducers, StartReducerFails
  <2>3. ASSUME NEW i \in Reducers, Reduce(i) PROVE rpc'[q] = rpc[q]
    <3>1. q # i
      BY ThreadsAssumption
    <3>2. QED
      BY <1>2, <2>3, <3>1 DEF Reduce, SortKeys, SkipSort, GetTask, NoMoreTasks, ReadNoKey, Thread
  <2>4. QED
    BY <2>1, <2>2, <2>3 DEF MainStep
<1>4. NodeInv'
  <2>1. CASE key_list' = key_list
    <3>1. \A s \in Reducers : Nodes(s)' = Nodes(s)
      BY <1>1, <1>3, <2>1, NodesKept
    <3>2. QED
      BY <1>1, <3>1 DEF SInv, NodeInv
  <2>2. ASSUME NEW i \in Reducers, SortKeys(i) PROVE NodeInv'
    <3>1. PICK q \in Sorted(key_list[i]) : key_list' = [key_list EXCEPT ![i] = q]
      BY <2>2 DEF SortKeys
    <3>2. key_list'[i] = q /\ \A j \in Reducers \ {i} : key_list'[j] = key_list[j]
      BY <3>1 DEF IInv, TypeOK
    <3>3. rpc[i] = "sorting"
      BY <2>2 DEF SortKeys, Thread
    <3>4. \A s \in Reducers : Nodes(s) = key_list[s] /\ Nodes(s)' = key_list'[s]
      <4>1. ASSUME NEW s \in Reducers PROVE mutex[s] = NoOne
        BY <3>3, WhileReducing
      <4>2. QED
        BY <1>1, <4>1 DEF Nodes, Listing
    <3>5. \A k \in DOMAIN q : Hash[q[k].str] = i
      BY <3>4, SortedNodes DEF SInv, NodeInv
    <3>6. QED
      BY <1>1, <3>2, <3>4, <3>5 DEF SInv, NodeInv
  <2>3. key_list' = key_list \/ \E i \in Reducers : SortKeys(i)
    BY DEF MainStep, JoinMappers, StartReducer, JoinReducers, StartReducerFails, store,
           Reduce, SortKeys, SkipSort, GetTask, NoMoreTasks, ReadNoKey
  <2>4. QED
    BY <2>1, <2>2, <2>3
<1>5. \A q \in Receivers : Stored(q)' = Stored(q)
  BY <1>1, <1>3 DEF Stored
<1>6. QED
  BY <1>1, <1>3, <1>4, <1>5, NothingStored

LEMMA InitSInv == Init => SInv
<1> SUFFICES ASSUME Init PROVE SInv
  OBVIOUS
<1>1. \A s \in Reducers : StoredValues(s) = {}
  BY DEF Init, StoredValues
<1>2. \A r \in Receivers : rpc[r] = "reading" /\ pushed[r] = << >>
  BY DEF Init
<1>3. NodeInv
  <2>1. \A s \in Reducers : Nodes(s) = << >>
    BY DEF Init, Nodes, Listing
  <2>2. QED
    BY <2>1 DEF Init, NodeInv
<1>4. TaskInv
  <2>1. \A s \in Reducers : task_num[s] = 0 /\ ~ Uncounted(s)
    BY <1>2 DEF Init, Uncounted, UncountedStates
  <2>2. QED
    BY <1>1, <2>1, FS_EmptySet DEF TaskInv
<1>5. StoredInv
  <2> DEFINE at == [r \in Receivers |-> << >>]
  <2>1. /\ at \in [Receivers -> Seq(Nat \X Nat)]
        /\ \A r \in Receivers : DOMAIN at[r] = {} /\ Len(at[r]) = 0
    OBVIOUS
  <2>2. \A r \in Receivers : Stored(r) = 0
    BY <1>2 DEF Stored
  <2> HIDE DEF at
  <2>3. StoredAt(at)
    BY <1>1, <2>1, <2>2 DEF StoredAt, Placed, Alone, Behind, NoneElse
  <2>4. QED
    BY <2>3 DEF StoredInv
<1>6. QED
  BY <1>3, <1>4, <1>5 DEF SInv

LEMMA NextSInv == IInv /\ SInv /\ [Next]_vars => SInv'
<1> SUFFICES ASSUME IInv, SInv, [Next]_vars PROVE SInv'
  OBVIOUS
<1>1. CASE UNCHANGED vars
  <2>1. UNCHANGED << rpc, pushed, found, mutex, hash, key_list, lists, task_num >>
    BY <1>1 DEF vars, store
  <2>2. NodeInv'
    <3>1. \A s \in Reducers : Nodes(s)' = Nodes(s)
      BY <2>1, NodesKept
    <3>2. QED
      BY <2>1, <3>1 DEF SInv, NodeInv
  <2>3. \A q \in Receivers : Stored(q)' = Stored(q)
    BY <2>1 DEF Stored
  <2>4. QED
    BY <2>1, <2>2, <2>3, NothingStored
<1>2. CASE MainStep \/ StartReducerFails \/ (\E i \in Reducers : Reduce(i))
  BY <1>2, OthersSInv
<1>3. CASE Terminated
  BY <1>1, <1>3 DEF Terminated
<1>4. ASSUME NEW r \in Receivers, Receive(r) PROVE SInv'
  BY <1>4, StoreSInv, ListKeySInv, UnlockSInv, ReadSInv DEF Receive, Reads
<1>5. QED
  BY <1>1, <1>2, <1>3, <1>4 DEF Next

(* The places a reducer has come past, as node and place in its value list *)
Reached(i, n, l) ==
  /\ n \in DOMAIN key_list[i] /\ l \in DOMAIN ValuesAt(i, n)
  /\ n < key_pos[i] \/ (n = key_pos[i] /\ l < value_pos[i])

(* e[k] is where the k-th pair that reducer i got was: they are the places *)
(* it has come past, in their order.                                       *)
GivenFrom(i, e) ==
  /\ e \in Seq(Nat \X Nat) /\ Len(e) = Len(emitted[i])
  /\ \A k \in DOMAIN e :
       /\ Reached(i, e[k][1], e[k][2])
       /\ emitted[i][k] = [key |-> key_list[i][e[k][1]].str,
                           value |-> ValuesAt(i, e[k][1])[e[k][2]]]
  /\ \A j, k \in DOMAIN e :
       j < k => e[j][1] < e[k][1] \/ (e[j][1] = e[k][1] /\ e[j][2] < e[k][2])
  /\ \A n, l : Reached(i, n, l) => \E k \in DOMAIN e : e[k] = << n, l >>

Given(i) == \E e : GivenFrom(i, e)

GivenInv ==
  \A i \in Reducers :
    /\ Given(i)
    /\ rpc[i] \in {"new", "sorting"} => value_pos[i] = 1
    /\ rpc[i] = "done" => /\ key_list[i] # << >> /\ key_pos[i] = Len(key_list[i])
                          /\ value_pos[i] > Len(ValuesAt(i, key_pos[i]))

(* A reducer whose positions are the first ones has come past nothing.     *)
FirstPlace ==
  \A i \in Reducers : emitted[i] = << >> /\ key_pos[i] = 1 /\ value_pos[i] = 1 => Given(i)

LEMMA NothingGiven == IInv => FirstPlace
<1> SUFFICES ASSUME IInv, NEW i \in Reducers, emitted[i] = << >>, key_pos[i] = 1,
                    value_pos[i] = 1
             PROVE  Given(i)
  BY DEF FirstPlace
<1>1. key_list[i] \in Seq(Node) /\ lists[i] \in Seq(Seq(Values) \ {<< >>})
  BY DEF IInv, TypeOK, Node
<1>2. ASSUME NEW n, NEW l, Reached(i, n, l) PROVE FALSE
  <2>1. n \in DOMAIN key_list[i] /\ l \in DOMAIN ValuesAt(i, n)
    BY <1>2 DEF Reached
  <2>2. n \in Nat /\ n >= 1
    BY <1>1, <2>1
  <2>3. ValuesAt(i, n) \in Seq(Values)
    BY <1>1, <2>1, ListOfNode DEF ValuesAt
  <2>4. l \in Nat /\ l >= 1
    BY <2>1, <2>3
  <2>5. QED
    BY <1>2, <2>2, <2>4 DEF Reached
<1>3. GivenFrom(i, << >>)
  BY <1>2 DEF GivenFrom
<1>4. QED
  BY <1>3 DEF Given

LEMMA NothingGivenNext == IInv' => FirstPlace'
BY NothingGiven, PTL

(* What a reducer got stays where it was while its nodes, its lists and    *)
(* its positions stay.                                                     *)
LEMMA GivenStays ==
  ASSUME NEW i \in Reducers, Given(i), key_list'[i] = key_list[i], lists'[i] = lists[i],
         key_pos'[i] = key_pos[i], value_pos'[i] = value_pos[i], emitted'[i] = emitted[i]
  PROVE  Given(i)'
<1>1. PICK e : GivenFrom(i, e)
  BY DEF Given
<1>2. \A n : ValuesAt(i, n)' = ValuesAt(i, n)
  BY DEF ValuesAt
<1>3. \A n, l : Reached(i, n, l)' <=> Reached(i, n, l)
  BY <1>2 DEF Reached
<1>4. GivenFrom(i, e)'
  BY <1>1, <1>2, <1>3 DEF GivenFrom
<1>5. QED
  BY <1>4 DEF Given

(* What a reducer that is still to run holds is none of a receiver's       *)
(* concern.                                                                *)
LEMMA ReceiverGiven == ASSUME IInv, IInv', GivenInv, NEW r \in Receivers, Receive(r) PROVE GivenInv'
<1>1. /\ UNCHANGED << pc, started, key_pos, value_pos, emitted >>
      /\ \E from \in ReceiverStates \ {"ended"}, to \in ReceiverStates : Thread(r, from, to)
  BY DEF Receive, ReadEof, Lock, Find, StoreNew, ListKey, StoreMore, CountTask, Unlock, ReadPair,
         store, ReceiverStates
<1>2. \A i \in Reducers : rpc'[i] = rpc[i] /\ rpc[i] = "new"
  BY <1>1, ReceiverMoves
<1>3. \A i \in Reducers : rpc'[i] = "new" /\ value_pos'[i] = 1
  BY <1>1, <1>2 DEF GivenInv
<1>4. ASSUME NEW i \in Reducers PROVE Given(i)'
  BY <1>3, NothingGivenNext DEF FirstPlace, IInv, PositionInv
<1>5. QED
  BY <1>3, <1>4 DEF GivenInv

(* The main thread gives out nothing.                                      *)
LEMMA MainGiven ==
  ASSUME IInv, GivenInv, MainStep \/ StartReducerFails
  PROVE  GivenInv'
<1>1. UNCHANGED << key_list, lists, key_pos, value_pos, emitted >>
  BY DEF MainStep, JoinMappers, StartReducer, JoinReducers, StartReducerFails, store
<1>2. \A i \in Reducers : rpc'[i] = rpc[i] \/ (rpc[i] = "new" /\ rpc'[i] = "sorting")
  <2>1. CASE StartReducer
    <3>1. /\ rpc \in [Receivers \cup Reducers -> ReceiverStates \cup ReducerStates]
          /\ \A i \in Reducers : rpc[i] # "new" => i < started
          /\ rpc' = [rpc EXCEPT ![started] = "sorting"] /\ started \in Nat /\ started < reduce_num
      BY <2>1, ReduceNumAssumption DEF IInv, ThreadInv, PhaseInv, StartReducer, TypeOK
    <3>2. started \in Reducers /\ ~ (started < started)
      BY <3>1, ReduceNumAssumption DEF Reducers
    <3>3. QED
      BY <3>1, <3>2
  <2>2. CASE JoinMappers \/ JoinReducers \/ StartReducerFails
    BY <2>2 DEF JoinMappers, JoinReducers, StartReducerFails
  <2>3. QED
    BY <2>1, <2>2 DEF MainStep
<1>3. ASSUME NEW i \in Reducers PROVE Given(i)'
  BY <1>1, GivenStays DEF GivenInv
<1>4. \A i \in Reducers : ValuesAt(i, key_pos[i])' = ValuesAt(i, key_pos[i])
  BY <1>1 DEF ValuesAt
<1>5. QED
  BY <1>1, <1>2, <1>3, <1>4 DEF GivenInv

(* A reducer leaves the others alone.                                      *)
LEMMA OthersGiven ==
  ASSUME IInv, GivenInv, NEW i \in Reducers, Reduce(i),
         Given(i)',
         rpc'[i] \in {"new", "sorting"} => value_pos'[i] = 1,
         rpc'[i] = "done" => /\ key_list'[i] # << >> /\ key_pos'[i] = Len(key_list'[i])
                             /\ value_pos'[i] > Len(ValuesAt(i, key_pos[i])')
  PROVE  GivenInv'
<1>1. ASSUME NEW j \in Reducers, j # i
      PROVE  /\ rpc'[j] = rpc[j] /\ key_list'[j] = key_list[j] /\ lists'[j] = lists[j]
             /\ key_pos'[j] = key_pos[j] /\ value_pos'[j] = value_pos[j]
             /\ emitted'[j] = emitted[j]
  <2>1. /\ rpc \in [Receivers \cup Reducers -> ReceiverStates \cup ReducerStates]
        /\ key_list \in [Reducers -> Seq(Node)]
        /\ key_pos \in [Reducers -> Nat] /\ value_pos \in [Reducers -> Nat]
        /\ emitted \in [Reducers -> Seq([key : Keys, value : Values])]
    BY DEF IInv, ThreadInv, TypeOK, Node
  <2>2. QED
    BY <1>1, <2>1 DEF Reduce, SortKeys, SkipSort, GetTask, NoMoreTasks, ReadNoKey, Thread, store
<1>2. ASSUME NEW j \in Reducers, j # i
      PROVE  /\ Given(j)'
             /\ rpc'[j] \in {"new", "sorting"} => value_pos'[j] = 1
             /\ rpc'[j] = "done" => /\ key_list'[j] # << >> /\ key_pos'[j] = Len(key_list'[j])
                                    /\ value_pos'[j] > Len(ValuesAt(j, key_pos[j])')
  <2>1. Given(j)'
    BY <1>1, <1>2, GivenStays DEF GivenInv
  <2>2. ValuesAt(j, key_pos[j])' = ValuesAt(j, key_pos[j])
    BY <1>1, <1>2 DEF ValuesAt
  <2>3. QED
    BY <1>1, <1>2, <2>1, <2>2 DEF GivenInv
<1>3. QED
  BY <1>2 DEF GivenInv

LEMMA LargerSeq == ASSUME NEW S, NEW T, S \subseteq T, NEW q \in Seq(S) PROVE q \in Seq(T)
  OBVIOUS

(* get_reduce_task_r() goes to the next place, and leaves none out.        *)
LEMMA GetTaskGiven == ASSUME IInv, GivenInv, NEW i \in Reducers, GetTask(i) PROVE GivenInv'
<1> DEFINE new == [key |-> key_list[i][Position(i)[1]].str,
                   value |-> ValuesAt(i, Position(i)[1])[Position(i)[2]]]
<1>1. PICK k, v : Position(i) = << k, v >>
  BY DEF Position
<1>2. /\ rpc[i] = "getting" /\ rpc' = [rpc EXCEPT ![i] = "getting"]
      /\ UNCHANGED << key_list, lists >>
      /\ key_list[i] # << >> /\ k <= Len(key_list[i])
      /\ emitted' = [emitted EXCEPT ![i] = Append(@, new)]
      /\ key_pos' = [key_pos EXCEPT ![i] = k]
      /\ value_pos' = [value_pos EXCEPT ![i] = v + 1]
  BY <1>1 DEF GetTask, Thread, store
<1>3. /\ key_list[i] \in Seq(Node)
      /\ lists[i] \in Seq(Seq(Values) \ {<< >>})
      /\ key_pos \in [Reducers -> Nat] /\ value_pos \in [Reducers -> Nat]
      /\ emitted \in [Reducers -> Seq([key : Keys, value : Values])]
      /\ value_pos[i] >= 1
  BY DEF IInv, TypeOK, PositionInv, Node
<1>4. key_pos[i] \in DOMAIN key_list[i] /\ key_pos[i] \in Nat /\ value_pos[i] \in Nat
      /\ DOMAIN key_list[i] = 1 .. Len(key_list[i]) /\ Len(key_list[i]) \in Nat
  BY <1>2, <1>3 DEF IInv, PositionInv
<1>5. \A n \in DOMAIN key_list[i] : /\ ValuesAt(i, n) \in Seq(Values) /\ ValuesAt(i, n) # << >>
                                    /\ DOMAIN ValuesAt(i, n) = 1 .. Len(ValuesAt(i, n))
                                    /\ Len(ValuesAt(i, n)) \in Nat \ {0}
  <2>1. ASSUME NEW n \in DOMAIN key_list[i] PROVE key_list[i][n].p \in DOMAIN lists[i]
    BY ListOfNode
  <2>2. ASSUME NEW n \in DOMAIN key_list[i]
        PROVE  ValuesAt(i, n) \in Seq(Values) /\ ValuesAt(i, n) # << >>
    BY <1>3, <2>1 DEF ValuesAt
  <2>3. QED
    BY <2>2
<1>6. /\ k \in DOMAIN key_list[i] /\ v \in DOMAIN ValuesAt(i, k) /\ k \in Nat /\ v \in Nat
      /\ \/ k = key_pos[i] /\ v = value_pos[i]
         \/ k = key_pos[i] + 1 /\ v = 1 /\ value_pos[i] > Len(ValuesAt(i, key_pos[i]))
  <2>1. CASE value_pos[i] <= Len(ValuesAt(i, key_pos[i]))
    <3>1. k = key_pos[i] /\ v = value_pos[i]
      BY <1>1, <2>1 DEF Position
    <3>2. QED
      BY <1>3, <1>4, <1>5, <2>1, <3>1
  <2>2. CASE ~ (value_pos[i] <= Len(ValuesAt(i, key_pos[i])))
    <3>1. k = key_pos[i] + 1 /\ v = 1
      BY <1>1, <2>2 DEF Position
    <3>2. k \in DOMAIN key_list[i]
      BY <1>2, <1>4, <3>1
    <3>3. Len(ValuesAt(i, key_pos[i])) \in Nat
      BY <1>4, <1>5
    <3>4. QED
      BY <1>4, <1>5, <2>2, <3>1, <3>2, <3>3
  <2>3. QED
    BY <2>1, <2>2
<1>7. new = [key |-> key_list[i][k].str, value |-> ValuesAt(i, k)[v]]
  BY <1>1
<1> HIDE DEF new
<1>8. \A n : ValuesAt(i, n)' = ValuesAt(i, n)
  BY <1>2 DEF ValuesAt
<1>9. key_pos'[i] = k /\ value_pos'[i] = v + 1 /\ key_list'[i] = key_list[i]
  BY <1>2, <1>3
<1>10. ASSUME NEW n, NEW l
       PROVE  Reached(i, n, l)' <=> Reached(i, n, l) \/ (n = k /\ l = v)
  <2>1. Reached(i, n, l)' <=> /\ n \in DOMAIN key_list[i] /\ l \in DOMAIN ValuesAt(i, n)
                              /\ n < k \/ (n = k /\ l < v + 1)
    BY <1>8, <1>9 DEF Reached
  <2>2. CASE n \in DOMAIN key_list[i] /\ l \in DOMAIN ValuesAt(i, n)
    <3>1. n \in Nat /\ l \in Nat /\ l <= Len(ValuesAt(i, n))
      BY <1>4, <1>5, <2>2
    <3>2. Len(ValuesAt(i, key_pos[i])) \in Nat
      BY <1>4, <1>5
    <3>3. CASE n = key_pos[i]
      <4>1. l <= Len(ValuesAt(i, key_pos[i]))
        BY <3>1, <3>3
      <4>2. QED
        BY <1>4, <1>6, <2>1, <2>2, <3>1, <3>2, <3>3, <4>1 DEF Reached
    <3>4. CASE n # key_pos[i]
      <4>1. l >= 1
        BY <1>5, <2>2
      <4>2. QED
        BY <1>4, <1>6, <2>1, <2>2, <3>1, <3>4, <4>1 DEF Reached
    <3>5. QED
      BY <3>3, <3>4
  <2>3. CASE ~ (n \in DOMAIN key_list[i] /\ l \in DOMAIN ValuesAt(i, n))
    BY <1>6, <2>1, <2>3 DEF Reached
  <2>4. QED
    BY <2>2, <2>3
<1>11. PICK e : GivenFrom(i, e)
  BY DEF GivenInv, Given
<1> DEFINE L == Len(e)
           d == Append(e, << k, v >>)
<1>12. /\ e \in Seq(Nat \X Nat) /\ L \in Nat /\ Len(emitted[i]) = L /\ DOMAIN e = 1 .. L
       /\ << k, v >> \in Nat \X Nat
  BY <1>6, <1>11 DEF GivenFrom
<1>13. /\ d \in Seq(Nat \X Nat) /\ Len(d) = L + 1 /\ DOMAIN d = 1 .. L + 1
       /\ d[L + 1] = << k, v >> /\ \A j \in 1 .. L : d[j] = e[j]
  BY <1>12
<1>14. /\ Len(emitted'[i]) = L + 1 /\ emitted'[i][L + 1] = new
       /\ \A j \in 1 .. L : emitted'[i][j] = emitted[i][j]
  <2>1. emitted'[i] = Append(emitted[i], new)
    BY <1>2, <1>3
  <2>2. \E T : emitted[i] \in Seq(T) /\ new \in T
    <3>1. emitted[i] \in Seq([key : Keys, value : Values] \cup {new})
      <4>1. emitted[i] \in Seq([key : Keys, value : Values])
        BY <1>3
      <4>2. [key : Keys, value : Values] \subseteq [key : Keys, value : Values] \cup {new}
        OBVIOUS
      <4>3. QED
        BY <4>1, <4>2, LargerSeq
    <3>2. QED
      BY <3>1
  <2>3. QED
    BY <1>12, <2>1, <2>2
<1> HIDE DEF d, L
<1>15. ASSUME NEW j \in 1 .. L + 1
       PROVE  /\ Reached(i, d[j][1], d[j][2])'
              /\ emitted'[i][j] = [key |-> key_list'[i][d[j][1]].str,
                                   value |-> ValuesAt(i, d[j][1])'[d[j][2]]]
  <2>1. CASE j \in 1 .. L
    <3>1. /\ Reached(i, e[j][1], e[j][2])
          /\ emitted[i][j] = [key |-> key_list[i][e[j][1]].str,
                              value |-> ValuesAt(i, e[j][1])[e[j][2]]]
      BY <1>11, <1>12, <2>1 DEF GivenFrom
    <3>2. d[j] = e[j] /\ emitted'[i][j] = emitted[i][j]
      BY <1>13, <1>14, <2>1
    <3>3. Reached(i, d[j][1], d[j][2])'
      BY <1>10, <3>1, <3>2
    <3>4. QED
      BY <1>8, <1>9, <3>1, <3>2, <3>3
  <2>2. CASE j = L + 1
    <3>1. d[j][1] = k /\ d[j][2] = v
      BY <1>13, <2>2
    <3>2. Reached(i, k, v)'
      BY <1>10
    <3>3. QED
      BY <1>7, <1>8, <1>9, <1>14, <2>2, <3>1, <3>2
  <2>3. QED
    BY <1>12, <2>1, <2>2
<1>16. ASSUME NEW j \in 1 .. L + 1, NEW m \in 1 .. L + 1, j < m
       PROVE  d[j][1] < d[m][1] \/ (d[j][1] = d[m][1] /\ d[j][2] < d[m][2])
  <2>0. L \in Nat
    BY <1>12
  <2>1. j \in 1 .. L /\ d[j] = e[j]
    <3>1. j \in 1 .. L
      BY <1>16, <2>0
    <3>2. QED
      BY <1>13, <3>1
  <2>2. CASE m \in 1 .. L
    <3>1. d[m] = e[m] /\ j \in DOMAIN e /\ m \in DOMAIN e
      BY <1>12, <1>13, <2>1, <2>2
    <3>2. QED
      BY <1>11, <1>16, <2>1, <3>1 DEF GivenFrom
  <2>3. CASE m = L + 1
    <3>1. Reached(i, e[j][1], e[j][2])
      BY <1>11, <1>12, <2>1 DEF GivenFrom
    <3>2. d[m][1] = k /\ d[m][2] = v
      BY <1>13, <2>3
    <3>3. e[j][1] \in Nat /\ e[j][2] \in Nat
      BY <1>12, <2>1
    <3>4. e[j][1] < key_pos[i] \/ (e[j][1] = key_pos[i] /\ e[j][2] < value_pos[i])
      BY <3>1 DEF Reached
    <3>5. QED
      BY <1>4, <1>6, <2>1, <3>2, <3>3, <3>4
  <2>4. QED
    BY <1>12, <2>2, <2>3
<1>17. ASSUME NEW n, NEW l, Reached(i, n, l)' PROVE \E j \in DOMAIN d : d[j] = << n, l >>
  <2>1. CASE Reached(i, n, l)
    <3>1. PICK j \in DOMAIN e : e[j] = << n, l >>
      BY <1>11, <2>1 DEF GivenFrom
    <3>2. j \in DOMAIN d /\ d[j] = e[j]
      BY <1>12, <1>13, <3>1
    <3>3. QED
      BY <3>1, <3>2
  <2>2. CASE n = k /\ l = v
    <3>1. L + 1 \in DOMAIN d
      BY <1>12, <1>13
    <3>2. QED
      BY <1>13, <2>2, <3>1
  <2>3. QED
    BY <1>10, <1>17, <2>1, <2>2
<1>18. GivenFrom(i, d)'
  BY <1>13, <1>14, <1>15, <1>16, <1>17 DEF GivenFrom
<1>19. rpc'[i] = "getting"
  BY <1>2 DEF IInv, ThreadInv
<1>20. Given(i)'
  BY <1>18 DEF Given
<1>21. Reduce(i)
  BY DEF Reduce
<1>22. QED
  BY <1>19, <1>20, <1>21, OthersGiven

LEMMA ReducerGiven == ASSUME IInv, IInv', GivenInv, NEW i \in Reducers, Reduce(i) PROVE GivenInv'
<1>1. rpc \in [Receivers \cup Reducers -> ReceiverStates \cup ReducerStates]
  BY DEF IInv, ThreadInv
<1>2. CASE GetTask(i)
  BY <1>2, GetTaskGiven
<1>3. CASE SkipSort(i) \/ NoMoreTasks(i) \/ ReadNoKey(i)
  <2>1. UNCHANGED << key_list, lists, key_pos, value_pos, emitted >>
    BY <1>3 DEF SkipSort, NoMoreTasks, ReadNoKey, store
  <2>2. Given(i)'
    BY <2>1, GivenStays DEF GivenInv
  <2>3. ValuesAt(i, key_pos[i])' = ValuesAt(i, key_pos[i])
    BY <2>1 DEF ValuesAt
  <2>4. CASE SkipSort(i) \/ ReadNoKey(i)
    <3>1. rpc'[i] = "getting"
      BY <1>1, <2>4 DEF SkipSort, ReadNoKey, Thread
    <3>2. QED
      BY <2>2, <3>1, OthersGiven
  <2>5. CASE NoMoreTasks(i)
    <3>1. /\ rpc'[i] = "done" /\ key_list[i] # << >> /\ Position(i)[1] > Len(key_list[i])
      BY <1>1, <2>5 DEF NoMoreTasks, Thread
    <3>2. key_list[i] \in Seq(Node) /\ lists[i] \in Seq(Seq(Values) \ {<< >>})
          /\ value_pos[i] \in Nat
      BY DEF IInv, TypeOK, Node
    <3>3. key_pos[i] \in DOMAIN key_list[i]
      BY <3>1, <3>2 DEF IInv, PositionInv
    <3>4. key_pos[i] \in 1 .. Len(key_list[i]) /\ Len(key_list[i]) \in Nat
      BY <3>2, <3>3
    <3>5. ~ (value_pos[i] <= Len(ValuesAt(i, key_pos[i])))
      BY <3>1, <3>4 DEF Position
    <3>6. Position(i)[1] = key_pos[i] + 1
      BY <3>5 DEF Position
    <3>7. key_pos[i] = Len(key_list[i])
      BY <3>1, <3>4, <3>6
    <3>8. ValuesAt(i, key_pos[i]) \in Seq(Values)
      BY <3>2, <3>3, ListOfNode DEF ValuesAt
    <3>9. value_pos[i] > Len(ValuesAt(i, key_pos[i]))
      BY <3>2, <3>5, <3>8
    <3>10. QED
      BY <2>1, <2>2, <2>3, <3>1, <3>7, <3>9, OthersGiven
  <2>6. QED
    BY <1>3, <2>4, <2>5
<1>4. CASE SortKeys(i)
  <2>1. rpc[i] = "sorting" /\ rpc'[i] = "getting"
        /\ UNCHANGED << key_pos, value_pos, emitted, lists >>
    BY <1>1, <1>4 DEF SortKeys, Thread
  <2>2. emitted'[i] = << >> /\ key_pos'[i] = 1 /\ value_pos'[i] = 1
    BY <2>1 DEF IInv, PositionInv, GivenInv
  <2>3. Given(i)'
    BY <2>2, NothingGivenNext DEF FirstPlace
  <2>4. QED
    BY <2>1, <2>3, OthersGiven
<1>5. QED
  BY <1>2, <1>3, <1>4 DEF Reduce

LEMMA InitGiven == Init => GivenInv
<1> SUFFICES ASSUME Init, NEW i \in Reducers
             PROVE  Given(i) /\ rpc[i] = "new" /\ value_pos[i] = 1
  BY DEF GivenInv
<1>1. /\ emitted[i] = << >> /\ key_pos[i] = 1 /\ value_pos[i] = 1
      /\ rpc[i] = "new"
  BY ThreadsAssumption DEF Init
<1>2. IInv
  BY InitIInv
<1>3. QED
  BY <1>1, <1>2, NothingGiven DEF FirstPlace

LEMMA NextGiven == IInv /\ IInv' /\ GivenInv /\ [Next]_vars => GivenInv'
<1> SUFFICES ASSUME IInv, IInv', GivenInv, [Next]_vars PROVE GivenInv'
  OBVIOUS
<1>1. CASE UNCHANGED vars
  <2>1. UNCHANGED << rpc, key_list, lists, key_pos, value_pos, emitted >>
    BY <1>1 DEF vars, store
  <2>2. \A i \in Reducers : ValuesAt(i, key_pos[i])' = ValuesAt(i, key_pos[i])
    BY <2>1 DEF ValuesAt
  <2>3. ASSUME NEW i \in Reducers PROVE Given(i)'
    BY <2>1, GivenStays DEF GivenInv
  <2>4. QED
    BY <2>1, <2>2, <2>3 DEF GivenInv
<1>2. CASE MainStep \/ StartReducerFails
  BY <1>2, MainGiven
<1>3. CASE Terminated
  BY <1>1, <1>3 DEF Terminated
<1>4. ASSUME NEW r \in Receivers, Receive(r) PROVE GivenInv'
  BY <1>4, ReceiverGiven
<1>5. ASSUME NEW i \in Reducers, Reduce(i) PROVE GivenInv'
  BY <1>5, ReducerGiven
<1>6. QED
  BY <1>1, <1>2, <1>3, <1>4, <1>5 DEF Next

LEMMA PlacesHold == Spec => [](IInv /\ SInv /\ GivenInv)
BY InitIInv, InitSInv, InitGiven, NextIInv, NextSInv, NextGiven, PTL DEF Spec

-----------------------------------------------------------------------------
(* What the places say about the pairs *)

(* The places where reducer i has value v for sign g                       *)
Places(i, g, v) == { a \in StoredValues(i) : a[1] = hash[i][g] /\ lists[i][a[1]][a[2]] = v }

LEMMA Injects ==
  ASSUME NEW S, NEW T, IsFiniteSet(T), NEW f \in [S -> T], \A x, y \in S : f[x] = f[y] => x = y
  PROVE  IsFiniteSet(S) /\ Cardinality(S) <= Cardinality(T)
<1>1. f \in Injection(S, T)
  BY DEF Injection, IsInjective
<1>2. QED
  BY <1>1, FS_Injection

LEMMA SentIsFinite ==
  ASSUME IInv, NEW i, NEW g, NEW v
  PROVE  IsFiniteSet(Sent(i, g, v))
<1> DEFINE F == [r \in Receivers |->
                   {r} \X { k \in PairsFor(pushed[r], i, g) : pushed[r][k].value = v }]
           T == { F[r] : r \in Receivers }
<1>1. Sent(i, g, v) = UNION T
  BY DEF Sent
<1>2. F \in Surjection(Receivers, T)
  BY DEF Surjection
<1>3. IsFiniteSet(T)
  BY <1>2, ReceiversAssumption, FS_Surjection
<1>4. ASSUME NEW r \in Receivers PROVE IsFiniteSet(F[r])
  <2>1. pushed[r] \in Seq(Pairs)
    BY DEF IInv, TypeOK
  <2>2. Len(pushed[r]) \in Nat /\ DOMAIN pushed[r] = 1 .. Len(pushed[r])
    BY <2>1
  <2>3. IsFiniteSet(DOMAIN pushed[r])
    BY <2>2, FS_Interval
  <2>4. { k \in PairsFor(pushed[r], i, g) : pushed[r][k].value = v } \in SUBSET DOMAIN pushed[r]
    BY DEF PairsFor
  <2>5. IsFiniteSet({ k \in PairsFor(pushed[r], i, g) : pushed[r][k].value = v })
    BY <2>3, <2>4, FS_Subset
  <2>6. QED
    BY <2>5, FS_Singleton, FS_Product
<1>5. \A S \in T : IsFiniteSet(S)
  BY <1>4
<1>6. QED
  BY <1>1, <1>3, <1>5, FS_UNION

LEMMA PlacesAreFinite ==
  ASSUME SInv, NEW i \in Reducers, NEW g, NEW v
  PROVE  IsFiniteSet(Places(i, g, v))
<1>1. IsFiniteSet(StoredValues(i)) /\ Places(i, g, v) \in SUBSET StoredValues(i)
  BY DEF SInv, TaskInv, Places
<1>2. QED
  BY <1>1, FS_Subset

LEMMA GotIsFinite ==
  ASSUME IInv, NEW i \in Reducers, NEW g, NEW v
  PROVE  IsFiniteSet(Got(i, g, v))
<1>1. emitted[i] \in Seq([key : Keys, value : Values])
  BY DEF IInv, TypeOK
<1>2. Len(emitted[i]) \in Nat /\ DOMAIN emitted[i] = 1 .. Len(emitted[i])
  BY <1>1
<1>3. IsFiniteSet(DOMAIN emitted[i])
  <2>1. IsFiniteSet(1 .. Len(emitted[i]))
    BY <1>2, FS_Interval
  <2>2. QED
    BY <1>2, <2>1
<1>4. Got(i, g, v) \in SUBSET DOMAIN emitted[i]
  BY DEF Got, PairsFor
<1>5. QED
  BY <1>3, <1>4, FS_Subset

(* A node has the list of its sign, and no two nodes have the same.        *)
LEMMA NodeOfList ==
  ASSUME IInv, SInv, NEW i \in Reducers
  PROVE  /\ \A n \in DOMAIN key_list[i] :
              /\ key_list[i][n].p = hash[i][Sign[key_list[i][n].str]]
              /\ key_list[i][n].p \in DOMAIN lists[i] /\ key_list[i][n].p # 0
              /\ Sign[key_list[i][n].str] \in Signs /\ Hash[key_list[i][n].str] = i
         /\ \A m, n \in DOMAIN key_list[i] : key_list[i][m].p = key_list[i][n].p => m = n
<1>1. key_list[i] \in Seq(Node) /\ lists[i] \in Seq(Seq(Values) \ {<< >>})
  BY DEF IInv, TypeOK, Node
<1>2. ASSUME NEW n \in DOMAIN key_list[i]
      PROVE  /\ key_list[i][n].p = hash[i][Sign[key_list[i][n].str]]
             /\ key_list[i][n].p \in DOMAIN lists[i] /\ key_list[i][n].p # 0
             /\ Sign[key_list[i][n].str] \in Signs /\ Hash[key_list[i][n].str] = i
  <2>1. key_list[i][n].str \in Keys
    <3>1. key_list[i][n] \in Node
      BY <1>1
    <3>2. QED
      BY <3>1 DEF Node
  <2>2. key_list[i][n].p \in DOMAIN lists[i] /\ 0 \notin DOMAIN lists[i]
    BY <1>1, ListOfNode
  <2>3. QED
    BY <2>1, <2>2, NodesType DEF Signs, IInv, TableInv, Match, SInv, NodeInv
<1>3. ASSUME NEW m \in DOMAIN key_list[i], NEW n \in DOMAIN key_list[i],
             key_list[i][m].p = key_list[i][n].p
      PROVE  m = n
  <2>1. Sign[key_list[i][m].str] = Sign[key_list[i][n].str]
    BY <1>2, <1>3 DEF SInv, NodeInv
  <2>2. QED
    BY <2>1, NodesType DEF IInv, TableInv, Match
<1>4. QED
  BY <1>2, <1>3

(* Every pair that a reducer got is at a place of its own.                 *)
LEMMA GotAtPlaces ==
  ASSUME IInv, SInv, GivenInv, NEW i \in Reducers, NEW g \in Signs, NEW v
  PROVE  Cardinality(Got(i, g, v)) <= Cardinality(Places(i, g, v))
<1>1. PICK e : GivenFrom(i, e)
  BY DEF GivenInv, Given
<1>2. e \in Seq(Nat \X Nat) /\ DOMAIN e = DOMAIN emitted[i]
      /\ \A k \in DOMAIN e : k \in Nat /\ e[k] \in Nat \X Nat
  <2>1. e \in Seq(Nat \X Nat) /\ Len(e) = Len(emitted[i])
    BY <1>1 DEF GivenFrom
  <2>2. emitted[i] \in Seq([key : Keys, value : Values])
    BY DEF IInv, TypeOK
  <2>3. QED
    BY <2>1, <2>2
<1> DEFINE f == [k \in Got(i, g, v) |-> << key_list[i][e[k][1]].p, e[k][2] >>]
<1>3. ASSUME NEW k \in Got(i, g, v)
      PROVE  k \in DOMAIN e /\ e[k][1] \in DOMAIN key_list[i] /\ f[k] \in Places(i, g, v)
  <2>1. k \in DOMAIN e /\ Sign[emitted[i][k].key] = g /\ emitted[i][k].value = v
    BY <1>2 DEF Got, PairsFor
  <2>2. PICK n, l : e[k] = << n, l >>
    BY <1>2, <2>1
  <2>3. /\ n \in DOMAIN key_list[i] /\ l \in DOMAIN ValuesAt(i, n)
        /\ emitted[i][k] = [key |-> key_list[i][n].str, value |-> ValuesAt(i, n)[l]]
    BY <1>1, <2>1, <2>2 DEF GivenFrom, Reached
  <2>4. key_list[i][n].p = hash[i][g] /\ key_list[i][n].p \in DOMAIN lists[i]
    BY <2>1, <2>3, NodeOfList
  <2>5. << key_list[i][n].p, l >> \in StoredValues(i)
    BY <2>3, <2>4, StoredTypes DEF ValuesAt, IInv
  <2>6. << key_list[i][n].p, l >> \in Places(i, g, v)
    BY <2>1, <2>3, <2>4, <2>5 DEF Places, ValuesAt
  <2>7. QED
    BY <2>1, <2>2, <2>3, <2>6
<1>4. ASSUME NEW j \in Got(i, g, v), NEW k \in Got(i, g, v), f[j] = f[k] PROVE j = k
  <2>1. e[j][1] = e[k][1] /\ e[j][2] = e[k][2]
    BY <1>3, <1>4, NodeOfList
  <2>2. j \in Nat /\ k \in Nat /\ j \in DOMAIN e /\ k \in DOMAIN e
        /\ e[j][1] \in Nat /\ e[j][2] \in Nat
    BY <1>2, <1>3
  <2>3. \A l, m \in DOMAIN e :
          l < m => e[l][1] < e[m][1] \/ (e[l][1] = e[m][1] /\ e[l][2] < e[m][2])
    BY <1>1 DEF GivenFrom
  <2>4. ~ (j < k) /\ ~ (k < j)
    BY <2>1, <2>2, <2>3
  <2>5. QED
    BY <2>2, <2>4
<1>5. f \in [Got(i, g, v) -> Places(i, g, v)]
  BY <1>3
<1> HIDE DEF f
<1>6. QED
  BY <1>4, <1>5, PlacesAreFinite, Injects

(* What is at a place was pushed by somebody.                              *)
LEMMA PlacesWereSent ==
  ASSUME IInv, SInv, NEW i \in Reducers, NEW g \in Signs, NEW v
  PROVE  Cardinality(Places(i, g, v)) <= Cardinality(Sent(i, g, v))
<1>1. PICK at : StoredAt(at)
  BY DEF SInv, StoredInv
<1>2. ASSUME NEW a \in Places(i, g, v)
      PROVE  \E x \in Sent(i, g, v) : at[x[1]][x[2]] = a
  <2>1. a \in StoredValues(i) /\ a[1] = hash[i][g] /\ lists[i][a[1]][a[2]] = v
    BY DEF Places
  <2>2. PICK r \in Receivers : \E k \in DOMAIN at[r] : SlotOf(r, k) = i /\ at[r][k] = a
    BY <1>1, <2>1 DEF StoredAt, NoneElse
  <2>3. PICK k \in DOMAIN at[r] : SlotOf(r, k) = i /\ at[r][k] = a
    BY <2>2
  <2>4. a[1] = hash[i][Sign[pushed[r][k].key]] /\ pushed[r][k].value = v
    BY <1>1, <2>1, <2>3 DEF StoredAt, Placed
  <2>5. Sign[pushed[r][k].key] \in Signs /\ k \in 1 .. Stored(r) /\ Stored(r) \in Nat
    BY <1>1, PairsAt
  <2>6. a[1] # 0
    <3>1. a[1] \in DOMAIN lists[i] /\ lists[i] \in Seq(Seq(Values) \ {<< >>})
      BY <2>1, StoredTypes DEF IInv, TypeOK
    <3>2. QED
      BY <3>1
  <2>7. Sign[pushed[r][k].key] = g
    BY <2>1, <2>4, <2>5, <2>6 DEF SInv, NodeInv
  <2>8. k \in DOMAIN pushed[r]
    <3>1. pushed[r] \in Seq(Pairs)
      BY DEF IInv, TypeOK
    <3>2. QED
      BY <2>5, <3>1 DEF Stored
  <2>9. << r, k >> \in Sent(i, g, v)
    BY <2>3, <2>4, <2>7, <2>8 DEF Sent, PairsFor, SlotOf
  <2>10. QED
    BY <2>3, <2>9
<1> DEFINE f == [a \in Places(i, g, v) |-> CHOOSE x \in Sent(i, g, v) : at[x[1]][x[2]] = a]
<1>3. \A a \in Places(i, g, v) : f[a] \in Sent(i, g, v) /\ at[f[a][1]][f[a][2]] = a
  BY <1>2
<1>4. f \in [Places(i, g, v) -> Sent(i, g, v)]
  BY <1>2
<1> HIDE DEF f
<1>5. \A a, b \in Places(i, g, v) : f[a] = f[b] => a = b
  BY <1>3
<1>6. QED
  BY <1>4, <1>5, SentIsFinite, Injects

(* A reducer that is done runs behind the receivers.                       *)
LEMMA ReceiversEnded ==
  ASSUME IInv, NEW i \in Reducers, rpc[i] = "done"
  PROVE  \A r \in Receivers : Stored(r) = Len(pushed[r])
<1>1. i < started /\ i \in Nat
  BY ReduceNumAssumption DEF IInv, PhaseInv, Reducers
<1>2. started # 0
  BY <1>1
<1>3. \A r \in Receivers : rpc[r] = "ended"
  BY <1>2 DEF IInv, PhaseInv, MappersJoined
<1>4. QED
  BY <1>3 DEF Stored

(* Whatever was pushed is at a place of its own when the receivers ended.  *)
PlacedFor(at, i, g) ==
  \A r \in Receivers : \A k \in PairsFor(pushed[r], i, g) :
    /\ k \in DOMAIN at[r] /\ k \in Nat /\ SlotOf(r, k) = i
    /\ at[r][k] \in StoredValues(i) /\ at[r][k] \in Nat \X Nat
    /\ at[r][k][1] = hash[i][g]
    /\ lists[i][at[r][k][1]][at[r][k][2]] = pushed[r][k].value

LEMMA SentIsPlaced ==
  ASSUME IInv, NEW at, StoredAt(at), NEW i \in Reducers, rpc[i] = "done", NEW g
  PROVE  PlacedFor(at, i, g)
<1> SUFFICES ASSUME NEW r \in Receivers, NEW k \in PairsFor(pushed[r], i, g)
             PROVE  /\ k \in DOMAIN at[r] /\ k \in Nat /\ SlotOf(r, k) = i
                    /\ at[r][k] \in StoredValues(i) /\ at[r][k] \in Nat \X Nat
                    /\ at[r][k][1] = hash[i][g]
                    /\ lists[i][at[r][k][1]][at[r][k][2]] = pushed[r][k].value
  BY DEF PlacedFor
<1>1. k \in DOMAIN pushed[r] /\ Hash[pushed[r][k].key] = i /\ Sign[pushed[r][k].key] = g
  BY DEF PairsFor
<1>2. pushed[r] \in Seq(Pairs) /\ at[r] \in Seq(Nat \X Nat) /\ Len(at[r]) = Len(pushed[r])
  BY ReceiversEnded DEF IInv, TypeOK, StoredAt
<1>3. k \in DOMAIN at[r] /\ k \in Nat /\ at[r][k] \in Nat \X Nat
  BY <1>1, <1>2
<1>4. SlotOf(r, k) = i
  BY <1>1 DEF SlotOf
<1>5. QED
  BY <1>1, <1>3, <1>4 DEF StoredAt, Placed

LEMMA SentAtPlaces ==
  ASSUME IInv, SInv, NEW i \in Reducers, rpc[i] = "done", NEW g \in Signs, NEW v
  PROVE  Cardinality(Sent(i, g, v)) <= Cardinality(Places(i, g, v))
<1>1. PICK at : StoredAt(at)
  BY DEF SInv, StoredInv
<1> DEFINE f == [x \in Sent(i, g, v) |-> at[x[1]][x[2]]]
<1>2. ASSUME NEW x \in Sent(i, g, v)
      PROVE  \E r \in Receivers : \E k \in DOMAIN at[r] :
               x = << r, k >> /\ SlotOf(r, k) = i /\ at[r][k] \in Places(i, g, v)
  <2>1. PICK r \in Receivers :
          x \in {r} \X { k \in PairsFor(pushed[r], i, g) : pushed[r][k].value = v }
    BY DEF Sent
  <2>2. PICK k \in PairsFor(pushed[r], i, g) : x = << r, k >> /\ pushed[r][k].value = v
    BY <2>1
  <2>3. /\ k \in DOMAIN at[r] /\ at[r][k] \in StoredValues(i) /\ SlotOf(r, k) = i
        /\ at[r][k][1] = hash[i][g] /\ lists[i][at[r][k][1]][at[r][k][2]] = v
    <3>1. PlacedFor(at, i, g)
      BY <1>1, SentIsPlaced
    <3>2. QED
      BY <2>2, <3>1 DEF PlacedFor
  <2>4. QED
    BY <2>2, <2>3 DEF Places
<1>3. f \in [Sent(i, g, v) -> Places(i, g, v)]
  BY <1>2
<1>4. ASSUME NEW x \in Sent(i, g, v), NEW y \in Sent(i, g, v), f[x] = f[y] PROVE x = y
  <2>1. PICK q \in Receivers : \E j \in DOMAIN at[q] : x = << q, j >> /\ SlotOf(q, j) = i
    BY <1>2
  <2>2. PICK j \in DOMAIN at[q] : x = << q, j >> /\ SlotOf(q, j) = i
    BY <2>1
  <2>3. PICK r \in Receivers : \E k \in DOMAIN at[r] : y = << r, k >> /\ SlotOf(r, k) = i
    BY <1>2
  <2>4. PICK k \in DOMAIN at[r] : y = << r, k >> /\ SlotOf(r, k) = i
    BY <2>3
  <2>5. at[q][j] = at[r][k]
    BY <1>4, <2>2, <2>4
  <2>6. q = r /\ j = k
    BY <1>1, <2>2, <2>4, <2>5 DEF StoredAt, Alone
  <2>7. QED
    BY <2>2, <2>4, <2>6
<1> HIDE DEF f
<1>5. QED
  BY <1>3, <1>4, PlacesAreFinite, Injects

(* A reducer that is done has come past every place.                       *)
LEMMA PlaceIsGiven ==
  ASSUME IInv, SInv, GivenInv, NEW i \in Reducers, rpc[i] = "done", NEW e, GivenFrom(i, e),
         NEW g \in Signs, NEW a \in StoredValues(i), a[1] = hash[i][g]
  PROVE  \E k \in PairsFor(emitted[i], i, g) :
           /\ k \in DOMAIN e /\ e[k][1] \in DOMAIN key_list[i]
           /\ emitted[i][k].value = lists[i][a[1]][a[2]]
           /\ key_list[i][e[k][1]].p = a[1] /\ e[k][2] = a[2]
<1>1. a[1] \in DOMAIN lists[i] /\ a[2] \in DOMAIN lists[i][a[1]]
  BY StoredTypes DEF IInv
<1>2. /\ key_list[i] \in Seq(Node) /\ lists[i] \in Seq(Seq(Values) \ {<< >>})
      /\ value_pos[i] \in Nat /\ emitted[i] \in Seq([key : Keys, value : Values])
  BY DEF IInv, TypeOK, Node
<1>3. a[1] # 0
  BY <1>1, <1>2
<1>4. PICK n \in DOMAIN key_list[i] : key_list[i][n].p = a[1] /\ Sign[key_list[i][n].str] = g
  BY <1>3, WhileReducing DEF Match
<1>5. a[2] \in DOMAIN ValuesAt(i, n)
  BY <1>1, <1>4 DEF ValuesAt
<1>6. Reached(i, n, a[2])
  <2>1. key_pos[i] = Len(key_list[i]) /\ value_pos[i] > Len(ValuesAt(i, key_pos[i]))
    BY DEF GivenInv
  <2>2. n \in 1 .. Len(key_list[i]) /\ Len(key_list[i]) \in Nat
    BY <1>2
  <2>3. CASE n < key_pos[i]
    BY <1>5, <2>3 DEF Reached
  <2>4. CASE n = key_pos[i]
    <3>1. ValuesAt(i, n) \in Seq(Values)
      BY <1>1, <1>2, <1>4 DEF ValuesAt
    <3>2. a[2] \in 1 .. Len(ValuesAt(i, n)) /\ Len(ValuesAt(i, n)) \in Nat
      BY <1>5, <3>1
    <3>3. a[2] < value_pos[i]
      BY <1>2, <2>1, <2>4, <3>2
    <3>4. QED
      BY <1>5, <2>4, <3>3 DEF Reached
  <2>5. QED
    BY <2>1, <2>2, <2>3, <2>4
<1>7. PICK k \in DOMAIN e : e[k] = << n, a[2] >>
  BY <1>6 DEF GivenFrom
<1>8. emitted[i][k] = [key |-> key_list[i][n].str, value |-> ValuesAt(i, n)[a[2]]]
  <2>1. emitted[i][k] = [key |-> key_list[i][e[k][1]].str,
                         value |-> ValuesAt(i, e[k][1])[e[k][2]]]
    BY DEF GivenFrom
  <2>2. e[k][1] = n /\ e[k][2] = a[2]
    BY <1>7
  <2>3. QED
    BY <2>1, <2>2
<1>9. k \in DOMAIN emitted[i]
  BY <1>2 DEF GivenFrom
<1>10. Hash[emitted[i][k].key] = i /\ Sign[emitted[i][k].key] = g
  BY <1>4, <1>8, NodeOfList
<1>11. k \in PairsFor(emitted[i], i, g)
  BY <1>9, <1>10 DEF PairsFor
<1>12. emitted[i][k].value = lists[i][a[1]][a[2]]
  BY <1>4, <1>8 DEF ValuesAt
<1>13. QED
  BY <1>4, <1>7, <1>11, <1>12

LEMMA PlacesWereGot ==
  ASSUME IInv, SInv, GivenInv, NEW i \in Reducers, rpc[i] = "done", NEW g \in Signs, NEW v
  PROVE  Cardinality(Places(i, g, v)) <= Cardinality(Got(i, g, v))
<1>1. PICK e : GivenFrom(i, e)
  BY DEF GivenInv, Given
<1>2. ASSUME NEW a \in Places(i, g, v)
      PROVE  \E k \in Got(i, g, v) : << key_list[i][e[k][1]].p, e[k][2] >> = a
  <2>1. a \in StoredValues(i) /\ a[1] = hash[i][g] /\ lists[i][a[1]][a[2]] = v
    BY DEF Places
  <2>2. a = << a[1], a[2] >>
    BY <2>1, StoredTypes DEF IInv
  <2>3. PICK k \in PairsFor(emitted[i], i, g) :
          /\ emitted[i][k].value = v
          /\ key_list[i][e[k][1]].p = a[1] /\ e[k][2] = a[2]
    BY <1>1, <2>1, PlaceIsGiven
  <2>4. k \in Got(i, g, v)
    BY <2>3 DEF Got
  <2>5. QED
    BY <2>2, <2>3, <2>4
<1> DEFINE P(k) == << key_list[i][e[k][1]].p, e[k][2] >>
           f == [a \in Places(i, g, v) |-> CHOOSE k \in Got(i, g, v) : P(k) = a]
<1>3. \A a \in Places(i, g, v) : f[a] \in Got(i, g, v) /\ P(f[a]) = a
  BY <1>2
<1> HIDE DEF P, f
<1>4. f \in [Places(i, g, v) -> Got(i, g, v)]
  BY <1>2 DEF f, P
<1>5. \A a, b \in Places(i, g, v) : f[a] = f[b] => a = b
  BY <1>3
<1>6. QED
  BY <1>4, <1>5, GotIsFinite, Injects

(* While nobody is in push_back_r() for a reducer, its task_num is how     *)
(* many values it has, whatever the receivers did before.                  *)
THEOREM TasksAreCounted == Spec => []TaskNumCounts
<1>1. IInv /\ SInv => TaskNumCounts
  <2> SUFFICES ASSUME IInv, SInv, NEW s \in Reducers,
                      \A r \in Receivers : rpc[r] \in {"reading", "ended"} \/ slot(r) # s
               PROVE  task_num[s] = Cardinality(StoredValues(s))
    BY DEF TaskNumCounts
  <2>1. ~ Uncounted(s)
    BY DEF Uncounted, UncountedStates
  <2>2. task_num[s] \in Nat
    BY DEF IInv, TypeOK
  <2>3. QED
    BY <2>1, <2>2 DEF SInv, TaskInv
<1>2. QED
  BY <1>1, PlacesHold, PTL

(* The shuffle loses no pair and doubles none: a reducer gets what was     *)
(* pushed for it, each once, and all of it before it is told that there is *)
(* no more.                                                                *)
THEOREM NoPairIsLost == Spec => []PairsAreConserved
<1>1. IInv /\ SInv /\ GivenInv => PairsAreConserved
  <2> SUFFICES ASSUME IInv, SInv, GivenInv, NEW i \in Reducers, NEW g \in Signs, NEW v \in Values
               PROVE  /\ Cardinality(Got(i, g, v)) <= Cardinality(Sent(i, g, v))
                      /\ rpc[i] = "done" => Cardinality(Got(i, g, v)) = Cardinality(Sent(i, g, v))
    BY DEF PairsAreConserved
  <2>1. /\ Cardinality(Got(i, g, v)) \in Nat /\ Cardinality(Places(i, g, v)) \in Nat
        /\ Cardinality(Sent(i, g, v)) \in Nat
    BY GotIsFinite, PlacesAreFinite, SentIsFinite, FS_CardinalityType
  <2>2. /\ Cardinality(Got(i, g, v)) <= Cardinality(Places(i, g, v))
        /\ Cardinality(Places(i, g, v)) <= Cardinality(Sent(i, g, v))
    BY GotAtPlaces, PlacesWereSent
  <2>3. ASSUME rpc[i] = "done"
        PROVE  /\ Cardinality(Sent(i, g, v)) <= Cardinality(Places(i, g, v))
               /\ Cardinality(Places(i, g, v)) <= Cardinality(Got(i, g, v))
    BY <2>3, SentAtPlaces, PlacesWereGot
  <2>4. QED
    BY <2>1, <2>2, <2>3
<1>2. QED
  BY <1>1, PlacesHold, PTL

(* The values that one mapper printed for one key come to the reducer in   *)
(* their order: they lie in the list of the key in that order, and         *)
(* get_reduce_task_r() walks the list from its head.                       *)
THEOREM ValuesStayInOrder == Spec => []ValuesKeepTheirOrder
<1>1. IInv /\ SInv /\ GivenInv => ValuesKeepTheirOrder
  <2> SUFFICES ASSUME IInv, SInv, GivenInv, NEW r \in Receivers, NEW i \in Reducers,
                      NEW g \in Signs, NEW sent, sent = PairsFor(pushed[r], i, g),
                      rpc[i] = "done"
               PROVE  \E f \in [sent -> PairsFor(emitted[i], i, g)] :
                        /\ \A j, k \in sent : j < k => f[j] < f[k]
                        /\ \A k \in sent : emitted[i][f[k]].value = pushed[r][k].value
    BY DEF ValuesKeepTheirOrder
  <2>1. PICK at : StoredAt(at)
    BY DEF SInv, StoredInv
  <2>2. PlacedFor(at, i, g)
    BY <2>1, SentIsPlaced
  <2>3. PICK e : GivenFrom(i, e)
    BY DEF GivenInv, Given
  <2> DEFINE From(m, k) == /\ m \in DOMAIN e /\ e[m][1] \in DOMAIN key_list[i]
                           /\ emitted[i][m].value = pushed[r][k].value
                           /\ key_list[i][e[m][1]].p = hash[i][g] /\ e[m][2] = at[r][k][2]
             f == [k \in sent |-> CHOOSE m \in PairsFor(emitted[i], i, g) : From(m, k)]
  <2>4. ASSUME NEW k \in sent PROVE \E m \in PairsFor(emitted[i], i, g) : From(m, k)
    <3>1. /\ at[r][k] \in StoredValues(i) /\ at[r][k][1] = hash[i][g]
          /\ lists[i][at[r][k][1]][at[r][k][2]] = pushed[r][k].value
      BY <2>2 DEF PlacedFor
    <3>2. PICK a : a = at[r][k]
      OBVIOUS
    <3>3. a \in StoredValues(i) /\ a[1] = hash[i][g]
      BY <3>1, <3>2
    <3>4. \E m \in PairsFor(emitted[i], i, g) :
            /\ m \in DOMAIN e /\ e[m][1] \in DOMAIN key_list[i]
            /\ emitted[i][m].value = lists[i][a[1]][a[2]]
            /\ key_list[i][e[m][1]].p = a[1] /\ e[m][2] = a[2]
      BY <2>3, <3>3, PlaceIsGiven
    <3>5. QED
      BY <3>1, <3>2, <3>4
  <2>5. \A k \in sent : f[k] \in PairsFor(emitted[i], i, g) /\ From(f[k], k)
    BY <2>4
  <2>6. f \in [sent -> PairsFor(emitted[i], i, g)]
    BY <2>4
  <2> HIDE DEF f
  <2>7. ASSUME NEW j \in sent, NEW k \in sent, j < k PROVE f[j] < f[k]
    <3>1. /\ f[j] \in DOMAIN e /\ f[k] \in DOMAIN e
          /\ e[f[j]][1] = e[f[k]][1] /\ e[f[j]][2] = at[r][j][2] /\ e[f[k]][2] = at[r][k][2]
      BY <2>5, NodeOfList
    <3>2. /\ at[r][j] \in Nat \X Nat /\ at[r][k] \in Nat \X Nat
          /\ at[r][j][2] < at[r][k][2]
      <4>1. /\ j \in DOMAIN at[r] /\ k \in DOMAIN at[r] /\ SlotOf(r, j) = SlotOf(r, k)
            /\ at[r][j][1] = at[r][k][1]
            /\ at[r][j] \in Nat \X Nat /\ at[r][k] \in Nat \X Nat
        BY <2>2 DEF PlacedFor
      <4>2. QED
        BY <2>1, <2>7, <4>1 DEF StoredAt, Behind
    <3>3. f[j] \in Nat /\ f[k] \in Nat /\ e[f[j]][1] \in Nat /\ e[f[k]][1] \in Nat
      <4>1. e \in Seq(Nat \X Nat)
        BY <2>3 DEF GivenFrom
      <4>2. QED
        BY <3>1, <4>1
    <3>4. at[r][j][2] \in Nat /\ at[r][k][2] \in Nat
      BY <3>2
    <3>5. ~ (f[k] < f[j]) /\ f[j] # f[k]
      <4>1. ASSUME f[k] < f[j] PROVE FALSE
        <5>1. e[f[k]][1] < e[f[j]][1] \/ (e[f[k]][1] = e[f[j]][1] /\ e[f[k]][2] < e[f[j]][2])
          BY <2>3, <3>1, <4>1 DEF GivenFrom
        <5>2. QED
          BY <3>1, <3>2, <3>3, <3>4, <5>1
      <4>2. f[j] # f[k]
        BY <3>1, <3>2, <3>4
      <4>3. QED
        BY <4>1, <4>2
    <3>6. QED
      BY <3>3, <3>5
  <2>8. \A k \in sent : emitted[i][f[k]].value = pushed[r][k].value
    BY <2>5
  <2>9. QED
    BY <2>6, <2>7, <2>8
<1>2. QED
  BY <1>1, PlacesHold, PTL

=============================================================================
