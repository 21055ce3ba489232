------------------------------- MODULE CbcRetry -------------------------------
(***************************************************************************)
(* A caller of AesCbcDecryptReader (src/backup/crypto.rs) that does not     *)
(* give up: it calls read() again after an error that is not Interrupted.   *)
(* The reader does not remember having failed.  After a padding error the   *)
(* last block has gone through the cipher already and goes through it again,*)
(* chained to itself.                                                       *)
(***************************************************************************)
EXTENDS CbcReader

VARIABLE misled         \* it went on after a padding error

retryVars == <<vars, misled>>

(* FinalBlock has moved the chain on by the time the error is returned. *)
PaddingError == phase = "failed" /\ chain = lookahead

RetryInit == Init /\ misled = FALSE

TryAgain ==
  /\ phase = "failed"
  /\ phase' = "idle" /\ misled' = (misled \/ PaddingError)
  /\ UNCHANGED <<file, source, reader, call, delivered>>

RetryNext == TryAgain \/ (Next /\ UNCHANGED misled)

RetrySpec == RetryInit /\ [][RetryNext]_retryVars

-----------------------------------------------------------------------------
Wrong == {i \in DOMAIN delivered : delivered[i] = Garbage}

(* Whatever errors it is told of and ignores, a caller never takes anything for
   plaintext that is not, unless it has been told of the padding error: then the
   stream may still end with fewer bytes than a block that mean nothing. *)
GarbageOnlyAfterError ==
  /\ Wrong # {} => misled
  /\ \A i \in Wrong : i + Block > Len(delivered) + 1 /\ i..Len(delivered) \subseteq Wrong
=============================================================================
