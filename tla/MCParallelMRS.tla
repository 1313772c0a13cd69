---------------------------- MODULE MCParallelMRS ----------------------------
EXTENDS ParallelMRS

(* An empty file; three lines, more than a pipe holds, with a word in two  *)
(* of them; a word that is skipped and two of one sign; one word only      *)
MCInputs == { << >>,
              << << 1, 2 >>, << 3 >>, << 1 >> >>,
              << << 2, NotAlpha, 1 >>, << 4 >> >>,
              << << 4 >> >> }
MCHash   == [w \in Words |-> w]
MCSign   == [w \in Words |-> IF w = 4 THEN 2 ELSE w]
MCOld    == [r \in Reducers |-> IF r = 0 THEN << [word |-> 1, count |-> 5] >> ELSE << >>]
=============================================================================
