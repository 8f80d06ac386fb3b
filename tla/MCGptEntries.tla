---------------------------- MODULE MCGptEntries ----------------------------
(* Model-checking instances of GptEntries.                                  *)
EXTENDS GptEntries

=============================================================================
