------------------------------- MODULE MCQueue -------------------------------
(* Two concurrent writers and one preloaded item.                          *)
EXTENDS Queue

MCInitial == <<"d0">>
=============================================================================
