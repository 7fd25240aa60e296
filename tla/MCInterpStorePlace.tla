------------------------ MODULE MCInterpStorePlace ------------------------
(* Bounded instances of InterpStorePlace for TLC.                          *)
EXTENDS InterpStorePlace
===========================================================================
