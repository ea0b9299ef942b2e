------------------------------ MODULE MCCallback ------------------------------
(* Two tasks, one retry each, buffers of one.                              *)
EXTENDS Callback
=============================================================================
