----------------------------- MODULE MCManifestDb -----------------------------
(* Small instances of ManifestDb.  The database of a database is
   longer than b's, so that what a leaves behind would show in b's file. *)
EXTENDS ManifestDb

CONSTANTS a, b, c, i1, i2, i3

MCDbLen == [s \in Sessions |-> IF s = a THEN 2 ELSE 1]
MCFaults == {"create", "copy", "connect", "remove", "crash", "take"}
=============================================================================
