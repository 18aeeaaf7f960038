------------------------------- MODULE DeadMan -------------------------------
(***************************************************************************)
(* What the rover promises about motion, with the firmware left out: the   *)
(* drives run only while commands keep coming.  A command turns them on; a *)
(* silence of Grace milliseconds permits turning them off; a silence of    *)
(* Limit milliseconds never finds them on.                                 *)
(***************************************************************************)
EXTENDS Integers

CONSTANTS Grace, Limit

VARIABLES on, quiet

dmVars == <<on, quiet>>

DMInit == on = FALSE /\ quiet = Limit

Command == on' = TRUE /\ quiet' = 0

Stop == on /\ quiet >= Grace /\ on' = FALSE /\ UNCHANGED quiet

\* Time may not pass the limit while the drives are on.
Elapse ==
    /\ quiet < Limit
    /\ quiet' = quiet + 1
    /\ on => quiet' < Limit
    /\ UNCHANGED on

DMNext == Command \/ Stop \/ Elapse

DMSpec == DMInit /\ [][DMNext]_dmVars

DMFairSpec == DMSpec /\ WF_dmVars(Elapse) /\ WF_dmVars(Stop)

=============================================================================
