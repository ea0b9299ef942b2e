------------------------------- MODULE MCLogger -------------------------------
(* Two writing goroutines, two writes each; ticks up to 4, a new file     *)
(* every 2 ticks, so the rotate goroutine rotates twice.                  *)
EXTENDS Logger

MCWriters == {"g1", "g2"}

=============================================================================
