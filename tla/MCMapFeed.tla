----------------------------- MODULE MCMapFeed -----------------------------
(* Two mappers behind pipes of two slots, and every file of up to four     *)
(* lines: text, the text of the end marker, blank and overlong lines.      *)
EXTENDS MapFeed
=============================================================================
