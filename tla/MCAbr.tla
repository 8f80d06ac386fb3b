------------------------------- MODULE MCAbr -------------------------------
(* Model-checking instances of Abr: small bytes, with values above both     *)
(* maxima so that every branch of the normalisation is taken.               *)
EXTENDS Abr

=============================================================================
