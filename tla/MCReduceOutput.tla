--------------------------- MODULE MCReduceOutput ---------------------------
(* One mapper and five reducers, the most for which CloseAgain is harmless; *)
(* the first reducer prints one full buffer and a half, the others a line.  *)
EXTENDS ReduceOutput

MCPrintsSix == [i \in Reducers |-> IF i = 0 THEN 0 ELSE 1]

MCPrints == [i \in Reducers |-> IF i = 0 THEN 3 ELSE 1]
=============================================================================
