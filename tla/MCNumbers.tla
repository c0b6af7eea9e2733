------------------------------- MODULE MCNumbers -------------------------------
(* Numbers with the delays around the range that nanosleep takes. *)
EXTENDS Numbers

MCDelays == {-16, -15, 0, 474, 475}
===============================================================================
