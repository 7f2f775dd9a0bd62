--------------------------- MODULE MCRecordLookup ---------------------------
(* Small instances of RecordLookup for TLC. *)
EXTENDS RecordLookup
=============================================================================
