------------------------------- MODULE MCSLCan -------------------------------
(* A frame of six characters instead of fourteen: one digit of identifier,  *)
(* one data byte.  Payload digits collide with the identifier and with the  *)
(* length digit on purpose.                                                 *)
EXTENDS SLCan

OneDigitId == <<4>>
ThreeFrames == <<<<4, 1>>, <<1, 4>>, <<1, 1>>>>

=============================================================================
