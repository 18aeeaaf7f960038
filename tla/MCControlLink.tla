---------------------------- MODULE MCControlLink ----------------------------
(* A stick that knows its rest position and one extreme of each axis: the   *)
(* extreme where the 16 bit range is not symmetric.                         *)
EXTENDS ControlLink

FullDeflection == {-32768}

=============================================================================
