------------------------------- MODULE MCGpt -------------------------------
(* Model-checking instances of Gpt: two or three tables, so that the old    *)
(* one, the new one and one left over from earlier can meet on the disk.    *)
EXTENDS Gpt

=============================================================================
