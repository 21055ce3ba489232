------------------------------ MODULE MCCbcRetry ------------------------------
(* The instance of MCCbcReader, for a caller that goes on after errors. *)
EXTENDS CbcRetry

MCOutLens == {0, 2, 7}
=============================================================================
