--------------------------- MODULE MCAirPlayControl ---------------------------
(* AirPlayControl for TLC: connections are numbers, streams model values.  *)
EXTENDS AirPlayControl, TLC
=============================================================================
