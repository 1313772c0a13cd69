# ParallelMRS in TLA+

ParallelMRS runs a MapReduce job on one machine in the manner of Hadoop
streaming: the mappers and reducers are arbitrary programs (`map_bin`,
`reduce_bin`) that read lines and print lines, and the framework deals the input
to them, shuffles what the mappers print and collects what the reducers print.
It does so with one thread per pipe end and with mutexes, a condition variable,
`fork()`, anonymous pipes and a shared descriptor table. This directory holds
specifications of these parts, TLC configurations that check them on small
instances, and TLAPS proofs for every size.

All references are to files under `src/`; headers are in `src/inclucde/`, sources
in `src/src/`.

## 1. Inventory

| Component | State | Operations | Talks to | Hard behaviour |
|---|---|---|---|---|
| `SafePipe` | ring of line buffers, a flag per slot, front, tail, length, mutex, condition variable | `get_free_item`, `push_item`, `wait_pop_front`, `notify_used_end` | main thread (producer), mapper thread (consumer) | slots are filled and read outside the mutex; slots become ready out of order; lost wake-ups |
| `JobTracker` (main thread) | the input stream, the line buffer, the round, the workers | `init`, `run`, `dispatch_mapper`, the destructor | `SafePipe`, `ThreadBase` | polling on full rings, end markers in the data stream, stream errors, early returns that leave threads running |
| `Map` (mapper thread, receiver thread) | slot in hand, child pid, pipe ends | `Run`, `map_recieve` | `SafePipe`, child, `Mediator`, `IpcMgr` | full pipes in both directions, early returns, a child that dies |
| `Mediator` | per reducer: hash table from key signs to value lists, list of key nodes, positions, mutex | `push_back_r`, `sort_r`, `get_reduce_task_r` | receivers (writers), reducer threads (readers) | concurrent lookup and insertion, unlocked reading, index bounds |
| `Reduce` (reducer thread, receiver thread) | child pid, pipe ends | `Run`, `reduce_recieve` | `Mediator`, child, `DumpBuff`, `IpcMgr` | as `Map`; a descriptor is closed twice |
| `IpcMgr` | for each mapper and reducer two pipes and which ends the parent closed | `init`, `redirect_child_io`, `close_useless_in_child`, `close_useless_in_parent_r`, `get_pipe` | `Map`, `Reduce`, children | every child inherits all ends open at its `fork()`; who holds which end decides who sees an end of file |
| `DumpBuff` | buffer of lines, file name | `append`, `dump` | `reduce_recieve`, file system | full buffer, file that does not open, order of lines |
| `PipePool` | the rings, the shuffle, the output buffers | `init`, `get_reduce_task_r` | all of the above | meaning of the result codes |
| `ThreadBase` | thread id | `Start`, `Join` | `JobTracker` | a thread that does not start |
| `Global.h` | none | `add_newline`, `split_key_value`, `BKDRHash`, `MurmurHash64B` | `JobTracker`, `Mediator` | buffer boundaries, lines without a splitter, colliding signs |
| `Config` | key/value map; while parsing, the stream and one line read ahead | `operator>>`, `operator<<`, `Read`, `Add`, `Remove` | `main()` | reading ahead, values of several lines, the end of the stream, missing and empty values |
| `main()` | the settings | `main` | `Config`, `JobTracker` | ignores what `init()` and `run()` return |
| `mapper.py`, `reducer.py` | the word being counted | the loops | their pipes | `reducer.py` needs equal keys together |
| `Timer`, `Makefile` | | | | |

Control flow. `main()` creates a `JobTracker`; `init()` creates the rings, the
shuffle, the buffers and *all* pipes. `run()` starts one thread per mapper. Each
forks its child, starts a receiver thread that reads what the child prints, and
moves lines from its ring to the child. The main thread meanwhile reads the file
and deals line after line to the rings in turn, then an end marker to each, and
joins the mapper threads, each of which has joined its receiver. The receivers
store the pairs in the `Mediator`. Then the same with reducers: each sorts its
key list, forks its child, writes the pairs to it and has a receiver append what
the child prints to `part-N`.

What makes each part correct:

* `SafePipe`: a slot is in one thread's hands at a time; it is a first-in
  first-out queue; no slot and no wake-up is lost.
* `JobTracker`/`Map`: each child is written its share of the input, each line once
  and in order; nothing follows an end marker; the phase ends.
* `Mediator`: table and key list agree; every pair reaches the reducer of its key
  once; equal keys come together; readers and writers never overlap.
* `IpcMgr`: an end of file means the same on both ends of a pipe; no thread and no
  child waits for ever.
* `DumpBuff`/`Reduce`: what a reducer's child printed is in its file, once.
* `Config`: what is read is what the text of the file says; what is saved can be read.
* the whole job: when nothing is lost the part files hold each key of the input once, with its count; no
  thread uses memory that is gone; the process ends, and does not crash without a cause
  that can be named.

`PROJECT.json` lists what can go wrong in each, line by line, under `hazards`.

## 2. Modules

| Module | Models | How state and actions correspond |
|---|---|---|
| `SafePipeOps` | the data of a `SafePipe` | a record for the ring; one operator per method, named after it; the critical sections are atomic |
| `SafePipe` | any number of producers and consumers on one ring | `GetFreeItem`, `Fill` (the unlocked `strcpy`), `PushItem`; `CondWait`, `PopFront`, use of the slot, `NotifyUsedEnd`; `waiting` is the wait set of the condition variable, with spurious wake-ups |
| `LineQueue` | what a `SafePipe` promises | an abstract bounded queue with reserved places; no slots, flags or wake-ups |
| `MapFeed` | the main thread and the mapper threads, one ring per mapper | uses the operators of `SafePipeOps`; the stream with eofbit and failbit, the buffer `str`, `round`; each step of `dispatch_mapper()` and of the loop of `Map::Run()` is an action |
| `Mediator` | receivers, the shuffle, the reducer threads | the accesses of `push_back_r()` that the mutex protects are actions of their own (the lookup, the table, the key list, reading and writing `task_num`), so that the mutex matters to its last line; `sort_r()` and `get_reduce_task_r()` as in the code, with their bounds in unsigned arithmetic |
| `IpcMgr` | parent, receivers and children with the ends of all pipes | `held[e]` is the set of processes that have end `e` open; `fork()` copies the parent's; end of file is "no writer left", SIGPIPE is "no reader left" |
| `ReduceOutput` | reducer threads, receivers, `DumpBuff`s, the descriptor table, the files | `table[f]` is what descriptor `f` stands for; `open()` takes the lowest free one |
| `Config` | the configuration file | a text is a sequence of pieces (words, spaces, newlines, delimiter, comment mark); the locals of `operator>>` and the state of its stream are variables; each branch of its two loops is an action |
| `MapReduce` | what a whole job promises | words are counted, then written; no threads, pipes or buffers |
| `ParallelMRS` | the composition: `main()`, `JobTracker`, mappers and reducers with children and receivers, shuffle, output buffers, files | see below |
| `*Proofs`, `SafePipeRefinement` | | theorems, section 4 |
| `MC*` | | the instances that TLC checks |

`MapFeed` covers the path from the file to `write()`, `IpcMgr` from `write()`
through the child to the receiver, `Mediator` from the receiver of a mapper to the
reducer thread, `IpcMgr` again through the reducer's child, and `ReduceOutput` from
there to the file. Where one module takes over from another it is told only what
the other one guarantees: `IpcMgr` counts lines and does not look at them,
`Mediator` lets the receivers get any pairs in any number.

`ParallelMRS` joins them. It has all control that decides the fate of a job, from
`main()`'s call of `init()` to `delete tracker`, with each early return, and what crosses
from one component to the next is data: lines, words, pairs, counts. Inside it each
component is what its own module shows it to be:

* a `SafePipe` is a bounded queue (`PipeIsQueue`), so that getting, filling and pushing
  a slot is one step, and so is reading and handing it back;
* `push_back_r()` is atomic and loses nothing (`TableMatchesKeyList`, `PairsAreConserved`).
  It finds a key by its sign (`Stored`), so that words of one sign and one reducer are counted
  together, under the word that came first;
* a child sees the end of its input when its worker has closed it, and a receiver the
  end of the output when the child is gone (`EofMeansInputIsComplete`,
  `EofMeansChildIsGone`). System pipes take any number of lines; that full ones block nobody
  for ever is shown in `IpcMgr`;
* the second `close()` of `Reduce::Run()` is left out, which is right only as long as it cannot hit
  another reducer's file: `SecondCloseAssumption` bounds the reducers by `2 * map_num + 1`, up to which
  `StreamIsOpen` is proved in `ReduceOutput` for any number of mappers that gave up.

What can fail there fails here as well:

* `fork()` returns -1 and `Run()` goes on as if it were the parent (`Fork`): the receiver meets the end of file
  at once, `write()` raises SIGPIPE, and `waitpid(-1)` takes any child (`Wait`);
* a child may die at any time (`ChildDies`). A `write()` to a child that is gone either kills the process (`WriteKills`) or,
  as another child may have inherited a read end of the pipe, goes to nobody (`CanWrite`);
* `fdopen()` or `pthread_create()` fails, and the worker ends with its child's input open (`GiveUp`);
* each `dump()` may find that the file cannot be opened (`Dump`); the buffer then stays full and drops lines (`DropLine`)
  up to the last `dump()`, which may fail too;
* `init()`, the input file and the start of a thread fail, each with what `main()` makes of it.

The children are the repository's `mapper.py` and `reducer.py`. The refinement mapping
to `MapReduce`: the *key* of a word is the reducer it is hashed to and its sign; a key is *counted* when
`push_back_r()` has stored a word of it, *written* when it is in a part file; the phase is "reduce" from the join of the
last mapper on, "done" when `run()` has returned 0, "stopped" when the process crashed or ended otherwise;
`lost` is that a worker gave up, has no child or has a dead one, that a line was dropped, or that a receiver ended with lines
it could not write. Everything else is a stutter: dealing, feeding, sorting, printing and buffering. `MapReduce` keeps old results
because `dump()` opens its file for appending; that `DumpBuff::init()` ends with the comment "clear files in output path"
(DumpBuff.cpp:47), which no code follows, is named in section 3 and not blessed by the refinement.

Abstractions worth knowing:

* In `Config` a value is compared with the text by its words; how much space is between
  them is not. `>>` to an int is a function on the words of the instance, and an empty
  value, which leaves the int uninitialised, yields any number of `Junk`.
* `operator<<` writes the keys in the order of `std::map`; `Written` takes them in any
  fixed order, on which nothing depends as keys are distinct.
* In `ParallelMRS` `init()` fails before there are workers, and as a whole; all counts
  are of values that are 1, which is what `mapper.py` prints. A child that dies has flushed what it printed, at
  the end of a line. `CanWrite` allows a line into the void whenever any child is alive, which is more than the descriptors would.
* `std::sort()` may leave equal keys in any order: `Sorted` is the set of all lists it
  may produce.

* A line is a model value with a mark that tells whether `add_newline()` was applied
  to it. That is all that sets a line which reads `%[EOF]%` apart from `END_PIPE`.
  Of lengths the model knows: empty, fits, does not fit.
* Keys are numbers in the order of `strcmp()`; both hash functions are arbitrary
  functions, and the checked instance has two keys with the same sign, in `Mediator` and in `ParallelMRS`. A line
  without a splitter leaves `key` and `value` uninitialised; as any pair may come of
  it, the model's receivers may read any pair.
* The descriptors that the map phase leaves free are interchangeable, so
  `ReduceOutput` counts them (`LowFds`) instead of numbering them: four for each mapper, two for one
  whose `Run()` returned early (`LeftOpen`).
* `IpcMgr` leaves the dispatching of the main thread to `MapFeed`: a mapper that
  gave up early leaves a ring that nobody empties, and the main thread then polls for
  ever when it is full (`MapPhaseEnds` excludes this case, and says so).
* A stream that flushes in several `write()`s is one `Flush` in `ReduceOutput`.
* `get_reduce_task_r()`'s positions count from 1 instead of from 0.

## 3. Runs

| Run | Instance | Shows |
|---|---|---|
| `safe_pipe` | 2 producers, 2 consumers, 3 slots, 2 lines | the four invariants/action properties of the ring, liveness of a pushed slot, refinement of `LineQueue`. Three slots and four threads let the ring wrap while two slots are being filled and two are being read |
| `map_feed` | 2 mappers, rings of 2, all files of 1 to 4 lines over a text, the text of the end marker, blank and overlong lines | shares, end markers, end of the phase; rings run full and wrap |
| `map_feed_overlong` | the same | *violated*: an overlong line makes the main thread spin (JobTracker.cpp:139) |
| `mediator` | 2 receivers, 2 reducers, 4 keys, 4 pairs | table and key list, count of tasks, conservation, contiguity, order, no writing while reading, end of the job; 326,504 states. Four pairs are the least with which a reducer can be left unsorted and have two different keys and a repeated one |
| `mediator_sort` | the same | *violated*: unsorted reducer (Mediator.cpp:147) |
| `mediator_empty` | the same | *violated*: a reducer without keys crashes the job (Mediator.cpp:170) |
| `ipc` | 2 mappers, 1 reducer, pipes of one line, 2 lines per child | meaning of ends of file, no deadlock, parent and children end. Two mappers are needed for inherited ends, the reducer for ends that stay open through the map phase, one-line pipes to have all of them full |
| `ipc_child_fails` | the same | *violated*: a mapper's child fails, and the next `write()` to it kills the job (Map.cpp:132) |
| `reduce_output` | 1 mapper, 5 reducers, buffers of 2 lines, no mapper that gave up, calls that fail for two of the reducers | files are right and complete up to `LowFds + 1 = 4 * map_num + 1` reducers. One reducer prints one and a half buffers, so that a full and a partial batch occur |
| `config` | all files of up to 3 lines over 10 forms of line (keys with a number, with no value, with several words and a comment, an empty key; text, blank lines, comments), three settings that may be added or removed before saving: a number, a value of two lines whose first has a delimiter, and an empty key and value | `operator>>` against a definition that looks at the whole text at once, the settings of `main()`, saving and reading back, the end of reading. Three lines are enough for a key, a line that continues it and one that ends it, in each order |
| `parallel_mrs` | 0 to 2 mappers and reducers, rings and output buffers of 2 lines, four files: empty; more lines than a ring holds with a repeated word; a word that `mapper.py` skips and two words of one sign; one word only; every failure listed in section 2 | the composition implements `MapReduce`; memory; causes of crashes; end of the job |
| `reduce_output_six` | 1 mapper, 6 reducers | *violated*: the second close hits another reducer's file (Reduce.cpp:107) |

The bounds are `MaxLines` (lines of the file), `MaxPrinted` and `Pairs` (lines the
mappers print), `MaxWritten` (lines to one child), `Prints` (lines a reducer's
child prints), `MayFail` (reducers for which a call may fail), and the sizes of
rings, pipes and buffers; in `config` `MaxFileLines`, `Edits` (settings that may be added
or removed) and `Junk` (numbers an uninitialised int may hold); in `parallel_mrs` the sets
`MapNums`, `ReduceNums` and `Inputs`, and `OldFiles`, one of which is not empty. Zero
mappers and reducers are what a configuration without the keys gives; two reducers
leave one without a word for some files and let `sort_r()` skip one. No symmetry is used, as most runs check liveness.

Each property of a passing run has a mutant in its module, defined just before the
definition that it changes: a dropped flag test, a missing signal, a swapped order, an
end that stays open. `PROJECT.json` names them; each of them violates its property.

Fairness. Threads of the program never block except where the model has a
guard (mutex, condition, full or empty pipe, join, `waitpid`), and the kernel schedules
every thread that can run: weak fairness of each thread's and process's steps.
Nothing is assumed of failures, of spurious wake-ups and, in `SafePipe`, of when a
producer calls `get_free_item()`. In `IpcMgr` a child is assumed to read its input to
the end if it does not die. Steps of the polling loops that change nothing (`Poll`,
`ReadNothing`) are stuttering.

Deadlock is checked in every run; an explicit `Terminated` step marks the states in
which the program has ended.

### Findings

1. An input line of 1024 characters or more stops the job for ever
   (`map_feed_overlong`).
2. Reducers may run on unsorted keys (`mediator_sort`). `KeysAreContiguous` shows
   why `reducer.py` works nevertheless: equal keys come together, sorted or not.
3. A reducer without keys crashes the process (`mediator_empty`).
4. A child that dies early kills the job by SIGPIPE instead of being reported
   (`ipc_child_fails`).
5. Closing a descriptor twice can destroy another reducer's output
   (`reduce_output_six`).

More came up, which the properties exclude or allow by name:

* after a `fork()` that fails, `waitpid(-1)` may wait for a child whose thread gave up and
  left its input open (`JobEnds` of `IpcMgr`);
* a mapper thread that gives up leaves the main thread polling once its ring is full
  (`MapPhaseEnds`, `JobEnds` of `ParallelMRS`);
* `run()` logs "all task complete!" and returns 0 (JobTracker.cpp:182) also when workers gave up and nothing was counted, or
  when lines could not be written or were dropped by a full buffer (`lost` in `MapReduce`): a job of one mapper and one
  reducer that both give up is one;
* the part files are never cleared, whatever DumpBuff.cpp:47 says: a second job with the same output directory leaves a second
  line for a word (`old` in `MapReduce`);
* when a thread cannot be started, the tracker and its workers are deleted while
  other threads still run on them (`MemoryOutlivesThreads`);
* 0 mappers or reducers, and an `init()` that fails, crash the process
  (`CrashesHaveACause`);
* the last line of a configuration file, when it has no newline and continues a
  value, is added twice (`LastLineTwice` in `ContentsAreTheFile`), so that `a=1`, `foo` is read as
  `1`, `foo`, `foo`;
* a key without a value leaves the number uninitialised (`SettingsComeFromTheFile`).

## 4. Proofs

The theorems hold for every value of the constants that the named assumptions of
the modules allow; what those say is given with each module below. Each proof
module defines an inductive invariant `IInv` as a conjunction of named parts, proves
that `Init` establishes it and every action keeps it, and derives the properties that TLC checks.
Where a property says more than `IInv` can carry, further invariants are proved on top of it.

What is counted is counted with `Cardinality`: the places of a word in the queues, the places of
values in the lists, the lines of a file before a position. A step then adds a place, takes one
away or moves one, which lemmas about finite sets and bijections cover (`OneMorePlace`,
`AppendPlaces`, `Pushed`, `Popped`, `SameSize`), where a sum defined by recursion would need an induction over data.

**`SafePipeProofs`**: any number of slots, producers and consumers, any set of lines.
Assumed: `MaxNum` is a positive number, `NoLine` is not a line, producers are neither
consumers nor lines, and there is a consumer. The invariants that TLC checks are not
inductive: `SlotExclusive` says nothing about where the held slots are. `IInv` adds

* `TailInv`: the queue is the window of `length` slots from `front` to `tail`;
* `ProducerInv`: a slot being filled is in the window, is not marked, and has one filler;
* `ConsumerInv`: a slot being read is outside the window, still marked, and has one reader;
* `FlagInv`: every mark, and every missing mark in the window, has a thread behind it;
* `NoLostWakeup` itself.

With these, a producer cannot be given a slot in use, as `get_free_item()` wants it
unmarked and takes it from just outside the window, where an unmarked slot is in
nobody's hands. `_length` alone would not do: a slot leaves the window when it is
popped, before its reader is through. `NoLostWakeup` is kept because a slot that becomes ready at the front does so
by `push_item()` (which wakes someone) or because its predecessor was popped (by a
consumer that is then awake and comes back to look). The theorems `TypeCorrect`,
`SlotsAreExclusive`, `SlotsAreAccountedFor` and `WakeupsAreNotLost` follow from `IInv`.

**`SafePipeRefinement`**: `PipeIsQueue` says that `SafePipe` implements `LineQueue`. A place
of the queue is the line of a marked slot, or the producer that fills an
unmarked one, which by `ProducerInv` and `FlagInv` is exactly one. `ContentInv` adds what
the slots hold. `GetFreeItem` is `Reserve`, `PushItem` is `Deliver`, `PopFront` is `Take`,
`NotifyUsedEnd` is `Release`, and the others stutter.

**`MapFeedProofs`**: any number of mappers, any ring size, any file of any texts. Assumed:
there is a mapper, the ring has a slot, `MaxLines` is positive, and `NoLine` is no line.
`TheMarkerIsLast` (`NothingAfterEnd`) needs to know where the marker is while it travels:

* `WindowInv`: the queue of a ring is the window from `front` to `tail`, and a marked slot holds a line;
* `MarkerInv`: the marker is in a ring only when the main thread has sent it there,
  and then in the last slot before `tail`;
* `MapperInv`: the slot being read is still marked, so nobody overwrites it; a mapper that compares the
  marker has an empty ring, and so has one that left its loop.

A line that reads `%[EOF]%` cannot be taken for the marker, as `add_newline()` came
between; this is what keeps `MarkerInv`.

`ChildrenGetTheirShares` (`ChildGetsItsShare`) needs to know where in the file everybody is. `DInv` adds to `IInv`

* `FileInv`: how many lines that count the main thread has read, blank lines skipped, and what is left of the stream;
* `RoundInv`: `round` follows that number, so line `n` goes to the ring of mapper `n % map_num`;
* `StartedInv`: nothing is dealt before all mappers are started;
* `ShareInv`: for each mapper, the lines written to the child, in its hands and in its ring are
  together the first lines of its share, one behind the other; a slot claimed and not yet filled is the last.

The share of a mapper is the set of those of its lines, in their order, and `Nth` picks a line by how many are before
it; `FileFacts` and `ShareFacts` relate that to what `TLC` evaluates.

**`IpcMgrProofs`**: any number of mappers and reducers, pipes of any capacity, every failure
the model has (`fork()`, `fdopen()`, `pthread_create()`, a child's death). `ReceiversAreRightAboutTheEnd` and
`ChildrenAreRightAboutTheEnd` depend on who holds which end of which pipe:

* `PhaseInv`: no reducer has begun in the map phase;
* `ThreadInv`: the parent keeps the ends for a child until its thread has passed them on,
  and its write end for as long as the thread writes;
* `HeldInv`: the ends that a child holds from `fork()` to its death; from
  `close_useless_in_child()` on they are its own three and no others;
* `CountInv`: what went into a pipe is in it or came out of it.

A receiver at end of file then knows that its child holds no write end, hence is gone; a child at the
end of its input knows that the parent holds none, hence its thread has closed it. An end that
another child inherited can only delay an end of file, never bring it forward. Assumed: mappers are
not reducers, and a pipe takes a line.

**`MediatorProofs`**: any number of receivers, reducers, keys and values, any two hash
functions. Assumed: receivers are not reducers, and keys are numbers (the order of `strcmp()`).

* `LockInv`: who holds which mutex, from the lookup to the write of `task_num`; so what a receiver found, and the
  number it read, is still true when it stores;
* `TableInv`: table and key list are views of the same keys. Between `_hash`'s insertion and `_key_list`'s they are not, so
  it is said of `Nodes`, the key list with the node that the owner of the mutex is about to add; `TableMatchesKeyList` follows
  where nobody is in between;
* `PhaseInv`: reducers run when every receiver has ended, which gives `NothingStoredWhileReducing`;
* `PositionInv`, `EmittedInv`: `get_reduce_task_r()` has given out the keys of
  the nodes up to its position, in the order of the nodes.

As no two nodes have the same key and the order of the nodes does not change any more, the pairs
of a key come together (`KeysAreContiguous`), sorted or not.

The properties about all the pairs rest on two invariants more. Assumed for them: there are finitely many receivers.

* `SInv`: `task_num` is the number of values in the lists, but for the one value whose receiver is between
  storing and counting it (`TaskInv`), which only one can be, as it holds the mutex from the lookup to the increment; and there is a function
  `at` from the pairs of each receiver to places in the lists (`StoredInv`) under which every pair
  is where its sign says (`Placed`), no two have the same place (`Alone`), a later pair of a
  receiver is behind an earlier one in the same list (`Behind`), and each place has a pair (`NoneElse`);
* `GivenInv`: what a reducer got came from the places before its position, each once, in their order.

`TasksAreCounted` follows from the first. Together they give a bijection
between what receivers sent to a reducer and what it got, once it has got everything (`NoPairIsLost`), that keeps the order
of the values of a receiver (`ValuesStayInOrder`).

**`ReduceOutputProofs`**: any buffer size, any number of lines, any failures of `open()`,
and any numbers of mappers and reducers with `FewReducers`, `reduce_num <= LowFds + 1` (`4 * map_num + 1`, less
two for each mapper that gave up), which is a hypothesis of its theorems; without it `reduce_output_six` refutes them. Assumed: numbers and sizes are positive, and the values that
stand for kinds of descriptors are different from the numbers of descriptors and reducers.

* `EndInv`: which ends of its pipes each thread still has open;
* `FileInv` with `StreamIsOpen`: descriptors that stand for files and open streams match one to one;
* `OutsideInv`: no stream has a descriptor that `CloseAgain` closes. When `open()` has to go above the
  descriptors left by the mappers, all the other receivers have theirs open below (a counting argument);
  so none of them has ended, every `pipe_child2parent_r` is still open, and the lowest free number is another one;
* `KeptInv`, `BatchInv`: whole batches are written before the last one, and nothing is
  lost until a `dump()` fails; from then on the buffer stays full until the last `dump()`;
* `Run`, `Batches`, `Complete`: which lines are in the buffer and in the file.

**`ParallelMRSProofs`**: any files and settings, every failure of section 2, and any numbers of mappers and reducers (also none) with
at most `2 * map_num + 1` reducers (`SecondCloseAssumption`); beyond a bound of this kind the second `close()`, which the
composition leaves out, does harm.

* `StartInv`: workers are started in order, and no reducer before the mappers are joined;
* `ReceiverInv`: a worker has its receiver from `fork()` to its join;
* `ReturnInv`: unless a thread could not be started, `run()` returns with every worker joined.

`NoThreadOutlivesItsMemory` (`MemoryOutlivesThreads`) follows, and `TypeCorrect` from `IInv` and `TypeOK` together.

`AJobIsMapReduce` (`ImplementsMapReduce`): the composition implements `MapReduce`, for every
input, any two hash functions and all sizes. Assumed: the words are numbers, `%[EOF]%` is not a line of
the input (it would be dealt as one, see `MapFeed`), and the part files hold results. Beyond `IInv` and `TypeOK`, `RefinementInv` has

* `ControlInv`, `RingInv`, `QueueInv` (together `CInv`): what the value that `run()` is going to return says about who was
  started; where the end markers are; that a child that came to its end, and a receiver, left nothing in the pipes they read;
* `StoreInv`: the shuffle has each sign once, under a word that belongs to its reducer;
* `WordInv`: no word vanishes on the way to the shuffle. How often the words of a key were counted, and their places in
  the rest of the file, in the rings, in the pipes to `mapper.py` and in the pipes from it add up
  to their occurrences in the input. What a dead child or a worker that gave up leaves behind stays in its ring and pipes for ever;
* `RealInv`: all that is under way or stored are words of the file;
* `ReducerInv`: what `get_reduce_task_r()` gave out is what `reducer.py` has counted and what is in the pipe
  to it (`FeedInv`); the keys of a reducer, in their order, are first in its file, then in its buffer, then
  come those that were dropped, then those in the pipe from the child (`OutInv`), but for a buffer's being turned over by `dump()`.

`StoreInv` and `ReducerInv` depend on the phase: no key is added or moved once reducers read. With `RingInv`
and `QueueInv`, when the last mapper is joined and nothing was lost all four places are empty, so `counted = total`
(`JoinMapsRefines`, which is `BeginReduce`); and at the last join of a reducer, by `ReducerInv`, every key is in the
file (`JoinReducesRefines`, which is `Finish`). `PushBack` is `CountWord`, the two actions that
`dump()` a buffer are `WriteSome`, what loses something is `Lose`, a crash is `Stop`, and each other step stutters.

`EveryCrashHasACause` (`CrashesHaveACause`) needs all of it: that a reducer finds a key to read is not the guard of an action but
follows from `AllCounted`, that in the reduce phase without a loss all words are counted, and `WriteKills` is excluded by `QueueInv`: a child
that was not lost ends only when its input was closed.

**`ConfigProofs`**: any text of the file, any delimiter and comment mark, any conversion of words to
numbers. Assumed: pieces of different kinds are different, and the file is a text. The theorems have the
hypothesis `TrimmedEdits`: `Add()` stores what it is given, as its two calls of `trim()` are comments
(Config.h:192), so a key with a space at its end would be stored and, saved and read again, be another key.
`WhatIsSavedReadsBack` needs more of what `Add()` is given (`WritableEdits`): nothing is quoted when it is written, so a
key with a newline, a delimiter or a comment mark, or a value with a comment mark, or with a further line that is
blank or has a delimiter, is saved as something else. Texts read from a file need no hypothesis.

* `TypeCorrect` (`TypeOK`): `IInv` adds that there are finitely many settings, which `operator<<` needs.
* `TheFileIsRead` (`ContentsAreTheFile`): what `operator>>`, which reads one line ahead and goes back and forth
  between its two loops, has stored at the end is what a definition that looks at the whole text says. The
  invariant is `ParserInv`. At each place of the program it has a number `n`, the end of the line up to
  which the stream was consumed (`StreamAt`). At the head of the outer loop (`AtOuter`) `m_Contents` says what the lines up to
  `n` say (`Described`), or those before `n` when the line read ahead has a key; in the inner loop (`AtAhead`) the lines
  from the key line `e` to `n` are the value that is being put together, `line` has their words (`FieldsUpTo`), and
  `m_Contents` says what the lines before `e` say; before the value is stored (`AtStore`) it is complete.
  `getline()` leaves its string alone when it fails at the end of the file: `AtAhead` says that the string is the last line
  then, so the line is added once more, and only then (`LastLineTwice`).
* `TheSettingsAreRead` (`SettingsComeFromTheFile`): even then the value starts with the words of the file (`Told`), so
  the number that `>>` takes from its head is right (`NumberRead`, which needs that values are trimmed).
* `WhatIsSavedReadsBack` (`SavedReadsBack`): settings that `operator<<` wrote are read back as the same map, spaces and
  newlines in values included, in whichever order the keys are written. Two invariants are behind it.
  `WritableInv` says that all that is stored can be written (`Writable`), and that this is so of any file: the key that is being
  read is on one line and has no mark, and `line`, as far as it has been put together, is a value each of whose further
  lines continues it (`Continuable`). It is inductive because the inner loop stops just at lines that are blank or have a
  delimiter, and `trim()` takes only white space away. `BackInv` says how far reading back has come: `contents` has the first
  `i` keys (`Got`), and the stream, together with the line read ahead, the lines of the others (`ReadOn`, `Rest`); in the
  inner loop `line` and the lines of the value still in the stream are the value (`CutAt`). So a line behind a `Continuable`
  value is never taken for a part of it, nor a part for another key (`NextContinues`, `FirstLine`), and `trim()` takes away just
  the spaces that `operator<<` put around the delimiter (`TrimSpace`).

Behind these are lemmas about texts: `NextLine` (what `getline()` reads is the line between two ends), `FieldsConcat`
(texts that are put together at white space keep their words), `FieldsTrim`, `FirstField`, `UpToNext`, `FlattenAppend`. They are
inductions, as `FlattenSeq` and `Fields` are recursive functions. The library's theorems on induction have an
operator as parameter, which the provers cannot instantiate; `LeastNumber`, `Induction` and `SeqInduction` get
the same for sets from the order's being well-founded. A recursive function is shown to be one by
building it up to each length (`OnePartMore`, `OnePieceMore`), and then only its equation is used (`Flattens`, `Collects`).

Only model-checked is liveness under fairness, which TLAPS cannot treat: `PushedSlotComesBack`, `MapPhaseEnds`,
`PipesDrain`, `LoadingEnds`, `ChildrenEnd`, and `JobEnds` of three modules. Every other property of a passing run has
a theorem.

## 5. Not modelled

* `Timer`, progress and trace output: nothing depends on them.
* Memory: allocation failures in the `init()` functions, `new char[strlen(s)]` without room
  for the zero, `add_newline()` behind the end of the buffer. What these do depends
  on the build's memory layout.
* Code that is never called: `IpcMgr::close_pipe_in_parent_r()`, detached threads,
  `set_nonblock()`, `dispatch_reducer()`, `produce()`, `consume()`, the destructors of the
  singletons, `Config`'s setters and `FileExist()`. `Config::ReadFile()` is the constructor again.
* Conversions of settings to strings and bools: they return the value or compare it.
* The arithmetic of `BKDRHash()` and `MurmurHash64B()`: the models let them be any
  function, which is more than any one hash does.
* A negative `map_num` or `reduce_num`: `Read()` would accept it; the models have natural numbers.
* `pipe()` and `pthread_mutex_init()` failing.

## 6. Plan

Done: all modules of section 2 and the proofs of section 4.

Left: the liveness properties for every value of the constants, which needs a prover with fairness; and the two
hazards that depend on the build's memory layout.
