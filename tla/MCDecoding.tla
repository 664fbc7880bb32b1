------------------------------ MODULE MCDecoding ------------------------------
(***************************************************************************)
(* Decoding with a stop sequence of two characters, which arrive with two  *)
(* tokens.                                                                 *)
(***************************************************************************)
EXTENDS Decoding

MCStopSequence == <<"stop", "stop">>
===============================================================================
