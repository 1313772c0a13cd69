----------------------------- MODULE MapReduce -----------------------------
(***************************************************************************)
(* What a job of ParallelMRS with mapper.py and reducer.py promises,       *)
(* without threads, pipes, children or buffers: every word of the input is *)
(* counted, under a key that words may share; when all are, the counts are *)
(* written, each key's once and under a word of it that is in the input,   *)
(* behind what the part files held before.  A job in which something is    *)
(* lost may count and write less, but still nothing wrong; and a job may   *)
(* stop.                                                                   *)
(***************************************************************************)
EXTENDS Integers, Sequences, FiniteSets, SequencesExt

CONSTANTS Words, Inputs, Keys, Parts

VARIABLES
  input,     (* the lines of the file                                      *)
  key,       (* the key that each word is counted under                    *)
  old,       (* the part files before the job                              *)
  phase,     (* "map", "reduce", "done" or "stopped"                       *)
  lost,      (* whether a worker, a child or a line has been lost          *)
  counted,   (* for each word how often its key has been counted           *)
  files      (* the part files                                             *)

job  == << input, key, old >>
vars == << job, phase, lost, counted, files >>

Results == [word : Words, count : Nat]

Init ==
  /\ input   \in Inputs
  /\ key     \in [Words -> Keys]
  /\ old     \in [Parts -> Seq(Results)]
  /\ phase   = "map"
  /\ lost    = FALSE
  /\ counted = [w \in Words |-> 0]
  /\ files   = old

(* How often the words of a word's key are in the input *)
Alike(w)     == { v \in Words : key[v] = key[w] }
Places(w, l) == {l} \X { k \in DOMAIN input[l] : input[l][k] \in Alike(w) }
Total(w)     == Cardinality(UNION { Places(w, l) : l \in DOMAIN input })

Occurring == { w \in Words : \E l \in DOMAIN input : \E k \in DOMAIN input[l] : input[l][k] = w }

(* What this job wrote to a part *)
New(p) == SubSeq(files[p], Len(old[p]) + 1, Len(files[p]))

IsWritten(w) == \E p \in Parts : \E k \in DOMAIN New(p) : key[New(p)[k].word] = key[w]

Unwritten == { w \in Occurring : counted[w] > 0 /\ ~ IsWritten(w) }

(* One word for each of some keys *)
OnePerKey == { S \in SUBSET Unwritten : \A v, w \in S : key[v] = key[w] => v = w }

CountWord(w) ==
  /\ phase = "map"
  /\ counted[w] < Total(w)
  /\ counted' = [v \in Words |-> IF key[v] = key[w] THEN counted[v] + 1 ELSE counted[v]]
  /\ UNCHANGED << job, phase, lost, files >>

Lose ==
  /\ phase \in {"map", "reduce"}
  /\ lost' = TRUE
  /\ UNCHANGED << job, phase, counted, files >>

BeginReduce ==
  /\ phase = "map"
  /\ lost \/ \A w \in Words : counted[w] = Total(w)
  /\ phase' = "reduce"
  /\ UNCHANGED << job, lost, counted, files >>

(* A batch of results, in any order *)
Write(p, batch) ==
  /\ files' = [files EXCEPT ![p] = @ \o
                 [k \in DOMAIN batch |-> [word |-> batch[k], count |-> counted[batch[k]]]]]
  /\ UNCHANGED << job, phase, lost, counted >>

WriteSome ==
  /\ phase = "reduce"
  /\ \E p \in Parts, S \in OnePerKey : \E batch \in SetToSeqs(S) : Write(p, batch)

Finish ==
  /\ phase = "reduce"
  /\ lost \/ Unwritten = {}
  /\ phase' = "done"
  /\ UNCHANGED << job, lost, counted, files >>

Stop ==
  /\ phase \in {"map", "reduce"}
  /\ phase' = "stopped"
  /\ UNCHANGED << job, lost, counted, files >>

Next ==
  \/ \E w \in Words : CountWord(w)
  \/ Lose \/ BeginReduce \/ WriteSome \/ Finish \/ Stop

Spec == Init /\ [][Next]_vars

=============================================================================
