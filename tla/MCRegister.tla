------------------------------ MODULE MCRegister ------------------------------
(* Two handlers, two goroutines calling Start and two calling End.         *)
EXTENDS Register
=============================================================================
