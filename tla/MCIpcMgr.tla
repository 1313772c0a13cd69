------------------------------ MODULE MCIpcMgr ------------------------------
(* Two mappers and a reducer, pipes of one line, and up to two lines for   *)
(* each child, so that every pipe runs full.                               *)
EXTENDS IpcMgr
=============================================================================
