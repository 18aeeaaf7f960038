--------------------------------- MODULE Tap ---------------------------------
(***************************************************************************)
(* The states of a JTAG test access port as libxsvf numbers them           *)
(* (svfload/libxsvf/libxsvf.h), the way libxsvf_tap_walk() goes from one   *)
(* to another (tap.c), what a device does on a rising edge of TCK (IEEE    *)
(* 1149.1), and how papilio-prog goes from one state to another.           *)
(***************************************************************************)
EXTENDS Integers

INIT == 0       \* the host does not know the state
RESET == 1
IDLE == 2
DRSELECT == 3
DRCAPTURE == 4
DRSHIFT == 5
DREXIT1 == 6
DRPAUSE == 7
DREXIT2 == 8
DRUPDATE == 9
IRSELECT == 10
IRCAPTURE == 11
IRSHIFT == 12
IREXIT1 == 13
IRPAUSE == 14
IREXIT2 == 15
IRUPDATE == 16
UNKNOWN == 17   \* the -1 of token2tapstate() as an enum: above every state

DeviceStates == RESET .. IRUPDATE
TapStates == INIT .. IRUPDATE

(***************************************************************************)
(* The walker: from s towards t # s, what TMS it sends and which state it  *)
(* believes to be in after that.                                           *)
(***************************************************************************)

\* The conditions under which a state with a choice is left with TMS = 1.
Turns(s, t) ==
    \/ s = DRSELECT /\ (t >= IRSELECT \/ t = RESET)
    \/ s = IRSELECT /\ t = RESET
    \/ s \in {DRCAPTURE, DREXIT2} /\ t # DRSHIFT
    \/ s \in {IRCAPTURE, IREXIT2} /\ t # IRSHIFT
    \/ s = DREXIT1 /\ t # DRPAUSE
    \/ s = IREXIT1 /\ t # IRPAUSE
    \/ s \in {DRUPDATE, IRUPDATE} /\ t # IDLE

\* (Faulty: the instruction column's pause state is forgotten.)
WalkTmsNoIRPause(s, t) ==
    IF s \in {INIT, IDLE, DRSHIFT, DRPAUSE, IRSHIFT} \/ Turns(s, t) THEN 1 ELSE 0
WalkTms(s, t) ==
    IF s \in {INIT, IDLE, DRSHIFT, DRPAUSE, IRSHIFT, IRPAUSE} \/ Turns(s, t) THEN 1 ELSE 0

WalkNext(s, t) ==
    CASE s = INIT -> RESET
      [] s = RESET -> IDLE
      [] s = IDLE -> DRSELECT
      [] s = DRSELECT -> IF Turns(s, t) THEN IRSELECT ELSE DRCAPTURE
      [] s = DRCAPTURE -> IF Turns(s, t) THEN DREXIT1 ELSE DRSHIFT
      [] s = DRSHIFT -> DREXIT1
      [] s = DREXIT1 -> IF Turns(s, t) THEN DRUPDATE ELSE DRPAUSE
      [] s = DRPAUSE -> DREXIT2
      [] s = DREXIT2 -> IF Turns(s, t) THEN DRUPDATE ELSE DRSHIFT
      [] s \in {DRUPDATE, IRUPDATE} -> IF Turns(s, t) THEN DRSELECT ELSE IDLE
      [] s = IRSELECT -> IF Turns(s, t) THEN RESET ELSE IRCAPTURE
      [] s = IRCAPTURE -> IF Turns(s, t) THEN IREXIT1 ELSE IRSHIFT
      [] s = IRSHIFT -> IREXIT1
      [] s = IREXIT1 -> IF Turns(s, t) THEN IRUPDATE ELSE IRPAUSE
      [] s = IRPAUSE -> IREXIT2
      [] s = IREXIT2 -> IF Turns(s, t) THEN IRUPDATE ELSE IRSHIFT

\* TMS = 1 pulses out of INIT, whatever state the device is in.
ResetPulses == 6

\* The walker gives up in its twelfth round.  (Faulty: never.)
WalkerStuckNever(i) == FALSE
WalkerStuck(i) == i > 10

(***************************************************************************)
(* The device.  The data and instruction columns are alike, seven apart.   *)
(***************************************************************************)
Column(s) == IF s >= IRSELECT THEN IRSELECT - DRSELECT ELSE 0

Device(s, tms) ==
    LET c == Column(s)  r == s - c IN
    IF s = RESET THEN IF tms = 1 THEN RESET ELSE IDLE
    ELSE IF s = IDLE \/ r = DRUPDATE THEN IF tms = 1 THEN DRSELECT ELSE IDLE
    ELSE IF r = DRSELECT /\ tms = 1 THEN IF c = 0 THEN IRSELECT ELSE RESET
    ELSE c + CASE r = DRSELECT -> DRCAPTURE
               [] r \in {DRCAPTURE, DRSHIFT} -> IF tms = 1 THEN DREXIT1 ELSE DRSHIFT
               [] r \in {DREXIT1, DRPAUSE} -> IF tms = 0 THEN DRPAUSE
                                              ELSE IF r = DREXIT1 THEN DRUPDATE ELSE DREXIT2
               [] r = DREXIT2 -> IF tms = 1 THEN DRUPDATE ELSE DRSHIFT

\* The device after n clocks with TMS = 0: two bring it to a state that a third
\* does not leave.
Clocked(n, s) ==
    CASE n = 0 -> s
      [] n = 1 -> Device(s, 0)
      [] OTHER -> Device(Device(s, 0), 0)

(***************************************************************************)
(* The other walker, setTapState() of papilio-prog (iobase.cpp): a step    *)
(* from s towards t # s.  TMS is 0 exactly when a state's first branch is  *)
(* the way.                                                                *)
(***************************************************************************)

Bound(s, t) == t - Column(s)    \* t, as if the column of s were the data column
InColumn(s, t) == Bound(s, t) \in DRCAPTURE .. DRUPDATE

Ahead(s, t) ==
    CASE s = RESET -> TRUE
      [] s - Column(s) = DRSELECT  -> InColumn(s, t)
      [] s - Column(s) = DRCAPTURE -> Bound(s, t) = DRSHIFT
      [] s - Column(s) = DREXIT1   -> Bound(s, t) \in {DRPAUSE, DREXIT2, DRSHIFT}
      [] s - Column(s) = DREXIT2   -> Bound(s, t) \in {DRSHIFT, DREXIT1, DRPAUSE}
      [] s - Column(s) = DRUPDATE  -> t = IDLE
      [] OTHER -> FALSE

HostNext(s, t) ==
    LET c == Column(s)
        choose(yes, no) == IF Ahead(s, t) THEN yes ELSE no
    IN  CASE s = RESET -> IDLE
          [] s = IDLE -> DRSELECT
          [] s = DRSELECT -> choose(DRCAPTURE, IRSELECT)
          [] s = IRSELECT -> choose(IRCAPTURE, RESET)
          [] s - c = DRCAPTURE -> c + choose(DRSHIFT, DREXIT1)
          [] s - c = DRSHIFT -> c + DREXIT1
          [] s - c = DREXIT1 -> c + choose(DRPAUSE, DRUPDATE)
          [] s - c = DRPAUSE -> c + DREXIT2
          [] s - c = DREXIT2 -> c + choose(DRSHIFT, DRUPDATE)
          [] s - c = DRUPDATE -> choose(IDLE, DRSELECT)

==============================================================================
