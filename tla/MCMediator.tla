----------------------------- MODULE MCMediator -----------------------------
(* Two mappers' receivers and two reducers.  Key 2 goes to reducer 0 and   *)
(* keys 1, 3 and 5 to reducer 1; keys 1 and 5 have the same sign.  With    *)
(* four pairs reducer 1 can be left unsorted and have a key twice.         *)
EXTENDS Mediator

MCPairs == [key : {1}, value : {"v", "w"}] \cup [key : {2, 3, 5}, value : {"v"}]

MCHash == [k \in Keys |-> k % 2]
MCSign == [k \in Keys |-> k % 4]
=============================================================================
