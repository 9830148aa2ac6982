---------------------------- MODULE MCSpikeFile ----------------------------
(* A table with room for three files besides the standard streams.         *)
EXTENDS SpikeFile
=============================================================================
