------------------------------- MODULE MCGpsPath -------------------------------
(* The instance of GpsPath for TLC: three baud rates in the code's order, *)
(* of which the second is the one the worker moves the receiver to.         *)
EXTENDS GpsPath

ThreeBauds == <<1, 2, 3>>

=============================================================================
