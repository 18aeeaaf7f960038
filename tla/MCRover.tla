------------------------------- MODULE MCRover -------------------------------
(* Instances of Rover for TLC.  Payloads are real big-endian frames.        *)
EXTENDS Rover

\* One frame: only the timing varies.
OneCommand == {<<1, 44, 0, 20>>}                        \* throttle 300, steering 20

\* Both directions, both saturations, and values beyond the 10 bit span.
BothWays == {<<1, 44, 0, 20>>, <<254, 12, 255, 0>>,     \*  300,  20 / -500, -256
             <<127, 255, 127, 255>>, <<128, 0, 128, 0>>} \* 32767       / -32768

=============================================================================
