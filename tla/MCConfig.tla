------------------------------ MODULE MCConfig ------------------------------
EXTENDS Config

CONSTANTS MaxFileLines   (* bound: lines of the file *)

(* A key with a value of each form, text that continues a value, comments  *)
(* and blank lines                                                         *)
FileLineShapes ==
  { << >>, << " " >>,
    << "maps", "=", "2" >>, << " ", "maps", " ", "=" >>,
    << "out", "=", "dir", " ", "2", "#", "maps" >>, << "=", "=", "2" >>,
    << "2" >>, << " ", "dir", " " >>,
    << "#", "maps", "=", "2" >>, << " ", "#", "2" >> }

Joined(lines) == FlattenSeq([i \in DOMAIN lines |->
                   IF i = 1 THEN lines[i] ELSE << Newline >> \o lines[i]])

MCFiles   == { Joined(lines) : lines \in BoundedSeq(FileLineShapes, MaxFileLines) }
MCNumber  == [w \in Words |-> IF w = "2" THEN 2 ELSE 0]
MCKeys    == { << "maps" >> }

(* A value of one line, one of two, and empty texts: all can be read back, *)
(* which not every text can that Add() takes (WritableEdits)               *)
MCEdits   == { [key |-> << "maps" >>, value |-> << "2" >>],
               [key |-> << "out" >>, value |-> << "dir", "=", "nl", " ", "2" >>],
               [key |-> << >>, value |-> << >>] }
=============================================================================
