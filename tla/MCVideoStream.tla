---------------------------- MODULE MCVideoStream ----------------------------
(* Instance of VideoStream for TLC.                                          *)
EXTENDS VideoStream

ThreeSizes == <<3, 2, 1>>

=============================================================================
