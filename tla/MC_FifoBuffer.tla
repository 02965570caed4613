---------------------------- MODULE MC_FifoBuffer ----------------------------
(* Five cells of two values: enough for a compaction with bytes before,     *)
(* between and after the offsets, and for two partial consumes of one view. *)
EXTENDS FifoBuffer
=============================================================================
