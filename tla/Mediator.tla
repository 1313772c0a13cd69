------------------------------ MODULE Mediator ------------------------------
(***************************************************************************)
(* The shuffle, class Mediator, with the threads that call it: one         *)
(* receiver thread per mapper (map_recieve()), which stores the pairs its  *)
(* child printed, and, when all mappers have been joined, one thread per   *)
(* reducer (Reduce::Run()), which sorts its key list and takes the pairs   *)
(* out again one by one.                                                   *)
(***************************************************************************)
EXTENDS Integers, FiniteSets, Sequences, SequencesExt

CONSTANTS
  reduce_num,     (* how many reducers                                     *)
  Receivers,      (* the receiver threads                                  *)
  Keys,           (* keys, as numbers in the order of strcmp()             *)
  Values,
  Pairs,          (* bound: the pairs that the mappers may print           *)
  Hash,           (* BKDRHash(key) % _reduce_num, for every key            *)
  Sign,           (* MurmurHash64B(key); two keys may share a sign         *)
  NoOne,          (* the owner of a free mutex                             *)
  MaxPrinted      (* bound: lines the mappers print, all together          *)

ASSUME ReduceNumAssumption == reduce_num \in Nat \ {0}
ASSUME KeysAssumption      == Keys \subseteq Nat
ASSUME PairsAssumption     == Pairs \subseteq [key : Keys, value : Values]
ASSUME HashAssumption      == Hash \in [Keys -> 0 .. reduce_num - 1]
ASSUME SignAssumption      == DOMAIN Sign = Keys
ASSUME ReceiversAssumption == IsFiniteSet(Receivers)
ASSUME NoOneAssumption     == NoOne \notin Receivers

Reducers == 0 .. reduce_num - 1

ASSUME ThreadsAssumption   == Receivers \cap Reducers = {}

Signs == { Sign[k] : k \in Keys }

VARIABLES
  pc,           (* where the main thread is                                *)
  rpc,          (* where each receiver and reducer thread is               *)
  started,      (* reducer threads started so far                          *)
  pushed,       (* the pairs each receiver has passed to push_back_r(),    *)
                (* the one it is at last                                   *)
  found,        (* the value list each receiver is at: the one that find() *)
                (* returned, 0 for none, and then the new one              *)
  count,        (* the task_num that each receiver's ++ has read           *)
  mutex,        (* _reducer_infos[].mutex: the receiver that holds it      *)
  hash,         (* _hash[]: from signs to value lists, or to 0 for none    *)
  key_list,     (* _key_list[]: the nodes, a key and its value list        *)
  lists,        (* the value lists of each reducer, as they were created   *)
  task_num,     (* _reducer_infos[].task_num                               *)
  key_pos, value_pos,   (* _reducer_infos[].key_pos and .value_pos         *)
  emitted       (* what each reducer got from get_reduce_task_r()          *)

store == << mutex, hash, key_list, lists, task_num >>
vars  == << pc, rpc, started, pushed, found, count, store, key_pos, value_pos, emitted >>

Init ==
  /\ pc        = "mapping"
  /\ rpc       = [t \in Receivers \cup Reducers |->
                    IF t \in Receivers THEN "reading" ELSE "new"]
  /\ started   = 0
  /\ pushed    = [r \in Receivers |-> << >>]
  /\ found     = [r \in Receivers |-> 0]
  /\ count     = [r \in Receivers |-> 0]
  /\ mutex     = [s \in Reducers |-> NoOne]
  /\ hash      = [s \in Reducers |-> [g \in Signs |-> 0]]
  /\ key_list  = [s \in Reducers |-> << >>]
  /\ lists     = [s \in Reducers |-> << >>]
  /\ task_num  = [s \in Reducers |-> 0]
  /\ key_pos   = [s \in Reducers |-> 1]
  /\ value_pos = [s \in Reducers |-> 1]
  /\ emitted   = [s \in Reducers |-> << >>]

(* No thread outlives the process. *)
Alive == pc \notin {"exit", "crashed"}

Thread(t, from, to) == /\ Alive
                       /\ rpc[t] = from
                       /\ rpc' = [rpc EXCEPT ![t] = to]

-----------------------------------------------------------------------------
(* A receiver: map_recieve() and push_back_r() *)

Printed == SumFunction([r \in Receivers |-> Len(pushed[r])])

(* fgets() and split_key_value().  A line without a splitter leaves key    *)
(* and value as they are, uninitialised: any pair may come of it.          *)
ReadPair(r, kv) ==
  /\ Thread(r, "reading", "locking")
  /\ Printed < MaxPrinted
  /\ pushed' = [pushed EXCEPT ![r] = Append(@, kv)]
  /\ UNCHANGED << pc, started, found, count, store, key_pos, value_pos, emitted >>

(* fgets() returns NULL. *)
ReadEof(r) ==
  /\ Thread(r, "reading", "ended")
  /\ UNCHANGED << pc, started, pushed, found, count, store, key_pos, value_pos, emitted >>

pair(r)  == Last(pushed[r])
slot(r)  == Hash[pair(r).key]
sign(r)  == Sign[pair(r).key]

(* Mutant: push_back_r() takes no lock. *)
AlwaysFree(s) == TRUE

Free(s) == mutex[s] = NoOne

Lock(r) ==
  /\ Thread(r, "locking", "finding")
  /\ Free(slot(r))
  /\ mutex' = [mutex EXCEPT ![slot(r)] = r]
  /\ UNCHANGED << pc, started, pushed, found, count, hash, key_list, lists, task_num,
                  key_pos, value_pos, emitted >>

(* _hash[slot].find(sign) *)
Find(r) ==
  /\ Thread(r, "finding", "storing")
  /\ found' = [found EXCEPT ![r] = hash[slot(r)][sign(r)]]
  /\ UNCHANGED << pc, started, pushed, count, store, key_pos, value_pos, emitted >>

(* Mutant: the value list of a new key starts empty. *)
StoreNewEmpty(r) ==
  LET s == slot(r)
      p == Len(lists[s]) + 1
  IN  /\ Thread(r, "storing", "listing")
      /\ found[r] = 0
      /\ lists' = [lists EXCEPT ![s] = Append(@, << >>)]
      /\ hash'  = [hash EXCEPT ![s][sign(r)] = p]
      /\ found' = [found EXCEPT ![r] = p]
      /\ UNCHANGED << pc, started, pushed, count, mutex, key_list, task_num,
                      key_pos, value_pos, emitted >>

(* Not found: a new value list, which goes into _hash *)
StoreNew(r) ==
  LET s == slot(r)
      p == Len(lists[s]) + 1
  IN  /\ Thread(r, "storing", "listing")
      /\ found[r] = 0
      /\ lists' = [lists EXCEPT ![s] = Append(@, << pair(r).value >>)]
      /\ hash'  = [hash EXCEPT ![s][sign(r)] = p]
      /\ found' = [found EXCEPT ![r] = p]
      /\ UNCHANGED << pc, started, pushed, count, mutex, key_list, task_num,
                      key_pos, value_pos, emitted >>

(* and then, in a node with its key, into _key_list *)
ListKey(r) ==
  /\ Thread(r, "listing", "counting")
  /\ key_list' = [key_list EXCEPT ![slot(r)] =
                    Append(@, [str |-> pair(r).key, p |-> found[r]])]
  /\ UNCHANGED << pc, started, pushed, found, count, mutex, hash, lists, task_num,
                  key_pos, value_pos, emitted >>

(* Mutant: the value goes to the head of the list. *)
StoreMoreFirst(r) ==
  /\ Thread(r, "storing", "counting")
  /\ found[r] # 0
  /\ lists' = [lists EXCEPT ![slot(r)][found[r]] = << pair(r).value >> \o @]
  /\ UNCHANGED << pc, started, pushed, found, count, mutex, hash, key_list, task_num,
                  key_pos, value_pos, emitted >>

(* Mutant: the branch for a known key returns with the mutex locked. *)
StoreMoreReturns(r) ==
  /\ Thread(r, "storing", "reading")
  /\ found[r] # 0
  /\ lists' = [lists EXCEPT ![slot(r)][found[r]] = Append(@, pair(r).value)]
  /\ UNCHANGED << pc, started, pushed, found, count, mutex, hash, key_list, task_num,
                  key_pos, value_pos, emitted >>

(* Found: the value goes to the end of the list *)
StoreMore(r) ==
  /\ Thread(r, "storing", "counting")
  /\ found[r] # 0
  /\ lists' = [lists EXCEPT ![slot(r)][found[r]] = Append(@, pair(r).value)]
  /\ UNCHANGED << pc, started, pushed, found, count, mutex, hash, key_list, task_num,
                  key_pos, value_pos, emitted >>

(* Mutant: the mutex is unlocked before ++task_num. *)
CountTaskUnlocked(r) ==
  /\ Thread(r, "counting", "unlocking")
  /\ count' = [count EXCEPT ![r] = task_num[slot(r)]]
  /\ mutex' = [mutex EXCEPT ![slot(r)] = NoOne]
  /\ UNCHANGED << pc, started, pushed, found, hash, key_list, lists, task_num,
                  key_pos, value_pos, emitted >>

(* ++task_num reads the number, *)
CountTask(r) ==
  /\ Thread(r, "counting", "unlocking")
  /\ count' = [count EXCEPT ![r] = task_num[slot(r)]]
  /\ UNCHANGED << pc, started, pushed, found, store, key_pos, value_pos, emitted >>

(* and writes it back before pthread_mutex_unlock().  What it read is of   *)
(* no use any more and forgotten.                                          *)
Unlock(r) ==
  /\ Thread(r, "unlocking", "reading")
  /\ task_num' = [task_num EXCEPT ![slot(r)] = count[r] + 1]
  /\ count'    = [count EXCEPT ![r] = 0]
  /\ mutex'    = [mutex EXCEPT ![slot(r)] = NoOne]
  /\ UNCHANGED << pc, started, pushed, found, hash, key_list, lists,
                  key_pos, value_pos, emitted >>

Receive(r) == \/ ReadEof(r) \/ Lock(r) \/ Find(r) \/ StoreNew(r) \/ ListKey(r)
              \/ StoreMore(r) \/ CountTask(r) \/ Unlock(r)
              \/ \E kv \in Pairs : ReadPair(r, kv)

-----------------------------------------------------------------------------
(* The main thread: JobTracker::run() after the map phase *)

(* Mutant: the reducers do not wait for the receivers. *)
NotJoined == TRUE

(* Join() on every mapper, each of which joins its receiver *)
MappersJoined == \A r \in Receivers : rpc[r] = "ended"

JoinMappers ==
  /\ pc = "mapping"
  /\ MappersJoined
  /\ pc' = "starting"
  /\ UNCHANGED << rpc, started, pushed, found, count, store, key_pos, value_pos, emitted >>

(* _reduces[i]->Start() *)
StartReducer ==
  /\ pc = "starting"
  /\ rpc' = [rpc EXCEPT ![started] = "sorting"]
  /\ started' = started + 1
  /\ pc' = IF started + 1 = reduce_num THEN "joining" ELSE "starting"
  /\ UNCHANGED << pushed, found, count, store, key_pos, value_pos, emitted >>

(* Start() fails, run() returns -1 and main() ends the process. *)
StartReducerFails ==
  /\ pc = "starting"
  /\ pc' = "exit"
  /\ UNCHANGED << rpc, started, pushed, found, count, store, key_pos, value_pos, emitted >>

JoinReducers ==
  /\ pc = "joining"
  /\ \A i \in Reducers : rpc[i] = "done"
  /\ pc' = "finished"
  /\ UNCHANGED << rpc, started, pushed, found, count, store, key_pos, value_pos, emitted >>

MainStep == JoinMappers \/ StartReducer \/ JoinReducers

-----------------------------------------------------------------------------
(* A reducer: Reduce::Run(), sort_r() and get_reduce_task_r() *)

(* i > n - 1 for a size_t n: zero wraps to the largest value there is. *)
BeyondLast(i, n) == n # 0 /\ i > n - 1

(* `_key_list->size()` is the size of the first key list, whatever index.  *)
OutOfBoundary(i) == BeyondLast(i, Len(key_list[0]))

(* strcmp() > 0 *)
cmp(node1, node2) == node1.str > node2.str

(* The lists that std::sort() may make of s.  Nodes that cmp() does not    *)
(* tell apart may come in any order.                                       *)
Rearranged(s) == { [k \in DOMAIN s |-> s[f[k]]] : f \in Bijection(DOMAIN s, DOMAIN s) }

Sorted(s) == { q \in Rearranged(s) : \A j, k \in DOMAIN q : j < k => ~ cmp(q[k], q[j]) }

SortKeys(i) ==
  /\ Thread(i, "sorting", "getting")
  /\ ~ OutOfBoundary(i)
  /\ \E q \in Sorted(key_list[i]) : key_list' = [key_list EXCEPT ![i] = q]
  /\ UNCHANGED << pc, started, pushed, found, count, mutex, hash, lists, task_num,
                  key_pos, value_pos, emitted >>

(* sort_r() returns -1, which Run() does not look at. *)
SkipSort(i) ==
  /\ Thread(i, "sorting", "getting")
  /\ OutOfBoundary(i)
  /\ UNCHANGED << pc, started, pushed, found, count, store, key_pos, value_pos, emitted >>

ValuesAt(i, k) == lists[i][key_list[i][k].p]

(* The loop of get_reduce_task_r(): on to the next key when the values of  *)
(* this one are used up.  Positions count from 1 here.                     *)
Position(i) ==
  IF value_pos[i] <= Len(ValuesAt(i, key_pos[i]))
  THEN << key_pos[i], value_pos[i] >>
  ELSE << key_pos[i] + 1, 1 >>

GetTask(i) ==
  LET k == Position(i)[1]
      v == Position(i)[2]
  IN  /\ Thread(i, "getting", "getting")
      /\ key_list[i] # << >>
      /\ k <= Len(key_list[i])
      /\ emitted' = [emitted EXCEPT ![i] =
                       Append(@, [key |-> key_list[i][k].str, value |-> ValuesAt(i, k)[v]])]
      /\ key_pos'   = [key_pos EXCEPT ![i] = k]
      /\ value_pos' = [value_pos EXCEPT ![i] = v + 1]
      /\ UNCHANGED << pc, started, pushed, found, count, store >>

(* get_reduce_task_r() returns 1. *)
NoMoreTasks(i) ==
  /\ Thread(i, "getting", "done")
  /\ key_list[i] # << >>
  /\ Position(i)[1] > Len(key_list[i])
  /\ UNCHANGED << pc, started, pushed, found, count, store, key_pos, value_pos, emitted >>

(* The size of the key list is 0, the bound wraps, and the first element   *)
(* of an empty vector is read: a null pointer, which ends the process.     *)
ReadNoKey(i) ==
  /\ Alive
  /\ rpc[i] = "getting"
  /\ key_list[i] = << >>
  /\ pc' = "crashed"
  /\ UNCHANGED << rpc, started, pushed, found, count, store, key_pos, value_pos, emitted >>

Reduce(i) == \/ SortKeys(i) \/ SkipSort(i) \/ GetTask(i) \/ NoMoreTasks(i)
             \/ ReadNoKey(i)

-----------------------------------------------------------------------------

Terminated == pc \in {"finished", "exit", "crashed"} /\ UNCHANGED vars

Next ==
  \/ MainStep \/ StartReducerFails \/ Terminated
  \/ \E r \in Receivers : Receive(r)
  \/ \E i \in Reducers : Reduce(i)

(* Every thread that can go on is scheduled. *)
Spec == /\ Init /\ [][Next]_vars
        /\ WF_vars(MainStep)
        /\ \A r \in Receivers : WF_vars(Receive(r))
        /\ \A i \in Reducers : WF_vars(Reduce(i))

-----------------------------------------------------------------------------
(* Properties *)

(* The shuffle and its threads keep their types: no value list is empty,   *)
(* and every mutex is free or held by a receiver.                          *)
TypeOK ==
  /\ pc \in {"mapping", "starting", "joining", "finished", "exit", "crashed"}
  /\ \A r \in Receivers :
       rpc[r] \in {"reading", "locking", "finding", "storing", "listing", "counting",
                   "unlocking", "ended"}
  /\ \A i \in Reducers : rpc[i] \in {"new", "sorting", "getting", "done"}
  /\ started \in 0 .. reduce_num
  /\ pushed \in [Receivers -> Seq(Pairs)]
  /\ found \in [Receivers -> Nat] /\ count \in [Receivers -> Nat]
  /\ mutex \in [Reducers -> Receivers \cup {NoOne}]
  /\ hash \in [Reducers -> [Signs -> Nat]]
  /\ key_list \in [Reducers -> Seq([str : Keys, p : Nat])]
  /\ lists \in [Reducers -> Seq(Seq(Values) \ {<< >>})]
  /\ task_num \in [Reducers -> Nat]
  /\ key_pos \in [Reducers -> Nat] /\ value_pos \in [Reducers -> Nat]
  /\ emitted \in [Reducers -> Seq([key : Keys, value : Values])]

(* The table and the key list are two views of the same keys: one node for *)
(* a sign, with the value list that the table gives for it, and every list *)
(* in just one node.  They are filled in two steps after a lookup, between *)
(* which they differ, and sorting moves the nodes.                         *)
TableMatchesKeyList ==
  \A s \in Reducers : (\A r \in Receivers : rpc[r] = "listing" => slot(r) # s) =>
    /\ Len(key_list[s]) = Len(lists[s])
    /\ \A j, k \in DOMAIN key_list[s] :
         Sign[key_list[s][j].str] = Sign[key_list[s][k].str] => j = k
    /\ \A k \in DOMAIN key_list[s] :
         hash[s][Sign[key_list[s][k].str]] = key_list[s][k].p
    /\ \A g \in Signs : hash[s][g] # 0 =>
         \E k \in DOMAIN key_list[s] :
           key_list[s][k].p = hash[s][g] /\ Sign[key_list[s][k].str] = g

(* The values a reducer has: in which list, and at which place of it.       *)
StoredValues(s) == UNION { {p} \X DOMAIN lists[s][p] : p \in DOMAIN lists[s] }

(* While nobody is in push_back_r(), task_num counts the stored values. *)
TaskNumCounts ==
  \A s \in Reducers :
    (\A r \in Receivers : rpc[r] \in {"reading", "ended"} \/ slot(r) # s)
      => task_num[s] = Cardinality(StoredValues(s))

(* Where sequence q has pairs for reducer i with sign g.                   *)
PairsFor(q, i, g) == { k \in DOMAIN q : Hash[q[k].key] = i /\ Sign[q[k].key] = g }

(* The pairs that were pushed, and those a reducer got, with value v       *)
Sent(i, g, v) ==
  UNION { {r} \X { k \in PairsFor(pushed[r], i, g) : pushed[r][k].value = v } : r \in Receivers }

Got(i, g, v) == { k \in PairsFor(emitted[i], i, g) : emitted[i][k].value = v }

(* The shuffle delivers every pair once, to the reducer of its key: a      *)
(* reducer never gets more than was pushed, and has got all of it when     *)
(* get_reduce_task_r() says that there is no more.                         *)
PairsAreConserved ==
  \A i \in Reducers, g \in Signs, v \in Values :
    /\ Cardinality(Got(i, g, v)) <= Cardinality(Sent(i, g, v))
    /\ rpc[i] = "done" => Cardinality(Got(i, g, v)) = Cardinality(Sent(i, g, v))

(* What reducer.py relies on: the pairs of a key come one after another,   *)
(* with no pair of another key between them, whether sorted or not.        *)
KeysAreContiguous ==
  \A i \in Reducers : \A j, l \in DOMAIN emitted[i] :
    emitted[i][j].key = emitted[i][l].key =>
      \A k \in j .. l : emitted[i][k].key = emitted[i][j].key

(* The values that one mapper printed for one key reach the reducer in the *)
(* order they were printed, between the values of the other mappers.       *)
ValuesKeepTheirOrder ==
  \A r \in Receivers, i \in Reducers, g \in Signs :
    LET sent == PairsFor(pushed[r], i, g)
    IN  rpc[i] = "done" =>
          \E f \in [sent -> PairsFor(emitted[i], i, g)] :
            /\ \A j, k \in sent : j < k => f[j] < f[k]
            /\ \A k \in sent : emitted[i][f[k]].value = pushed[r][k].value

(* sort_r() and get_reduce_task_r() take no lock: nothing is stored any    *)
(* more once the first reducer runs.                                       *)
NothingStoredWhileReducing ==
  [][started > 0 => UNCHANGED << hash, lists, task_num >>]_vars

(* The job comes to an end: no receiver waits for a mutex for ever. *)
JobEnds == <> (pc \in {"finished", "exit", "crashed"})

(* "sort reducer's input pipe in memory" (Reduce.cpp:45): what a reducer   *)
(* takes its pairs from is in the order of cmp().                          *)
ReducersInputIsSorted ==
  \A i \in Reducers : rpc[i] \in {"getting", "done"} =>
    \A j, k \in DOMAIN key_list[i] : j < k => cmp(key_list[i][j], key_list[i][k])

(* "all task complete" (PipePool.cpp:108): a reducer with no pairs left,   *)
(* or none at all, is told so.                                             *)
EmptyReducerIsTold == pc # "crashed"

=============================================================================
