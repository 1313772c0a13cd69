----------------------------- MODULE MCSafePipe -----------------------------
(* A SafePipe of three slots between two producers and two consumers.        *)
EXTENDS SafePipe
=============================================================================
