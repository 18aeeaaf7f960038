-------------------------------- MODULE Rover --------------------------------
(***************************************************************************)
(* The rover's controller sketch, arduino/slcan_controller: one thread     *)
(* that runs loop() for ever over the CAN input, the dead-man timer, the   *)
(* two drivers and the telemetry timer, while millis() advances under it.  *)
(* Every pin write that the hardware can see between two others is a step  *)
(* of its own; a millisecond can pass between any two steps.               *)
(***************************************************************************)
EXTENDS MTimer, IBT2, Int16

CONSTANTS
    OffMs,      \* period of the dead-man timer drivesOff   (200)
    ServoMs,    \* period of the drive update timer servo   (10)
    TsendMs,    \* period of the telemetry timer tsend      (1000)
    LoopMs,     \* the longest time between two drivesOff checks
    Payloads,   \* data bytes of the 4-byte 0x014 frames that may arrive
    Readings    \* values analogRead(SERVO_POSITION) may return

ASSUME TimingAssumption ==
    /\ OffMs \in Nat \ {0} /\ ServoMs \in Nat \ {0} /\ TsendMs \in Nat \ {0}
    /\ LoopMs \in Nat
    /\ OffMs + LoopMs < Wrap

ASSUME DataAssumption ==
    /\ Payloads \subseteq [1 .. 4 -> 0 .. 255]
    /\ Readings \subseteq 0 .. 1023

VARIABLES
    now,        \* millis()
    pc,         \* where the sketch's thread is in loop()
    drivesOff, servo, tsend,    \* _last of the three timers
    ibt2m,      \* motor driver: enable pins, _setpoint, _error, PWM pins
    ibt2s,      \* steering driver: the same with its position feedback
    led,        \* LED_BUILTIN
    telem,      \* fields of the last telemetry frame, or NoTelem
    age,        \* ghost: ms since the last setpoint was accepted
    lag,        \* ghost: ms since the drivesOff timer was last checked
    wait        \* ghost: ms the throttle on the pins has been out of date

timers == <<drivesOff, servo, tsend>>
ghosts == <<age, lag, wait>>
vars == <<now, pc, timers, ibt2m, ibt2s, led, telem, ghosts>>

NoTelem == <<>>

\* A ghost clock stops here: nothing distinguishes longer silences.
AgeCap == OffMs + LoopMs
WaitCap == ServoMs + LoopMs + LoopMs

\* Arguments of the clamp() and trim() calls in setup().
MotorClamp == ClampRange(-511, 511)
ServoClamp == ClampRange(-58, 166)
ServoTrim == 50

Steps == {"input", "drivesOff", "servo", "servoIdle", "servoDriven",
          "motorIdle", "motorDriven", "tsend"}

\* The PWM pins carry the command of the setpoint the driver holds.
Current(m) == m.pins = Pins(Halve(MotorError(m.sp, MotorClamp)))
WaitAfter(m) == IF Current(m) THEN 0 ELSE wait

-----------------------------------------------------------------------------
\* Power-up: the constructors run, setup() sets clamps and trim.
Init ==
    /\ now = 0 /\ pc = "input"
    /\ drivesOff = 0 /\ servo = 0 /\ tsend = 0
    /\ ibt2m = [en |-> FALSE, sp |-> 0, err |-> 0, pins |-> Pins(0)]
    /\ ibt2s = [en |-> FALSE, sp |-> 0, comp |-> 0, pos |-> 0, pins |-> Pins(0)]
    /\ led = "LOW" /\ telem = NoTelem
    /\ age = AgeCap /\ lag = 0 /\ wait = 0

\* can.input() has assembled a 0x014 frame of four data bytes and calls back.
\* A frame of any other length returns at once and changes nothing.
UpdateServoSetpoint(data) ==
    /\ pc = "input"
    /\ ibt2m' = [ibt2m EXCEPT
                    !.sp = StoredSetpoint(Int16(data[1], data[2])), !.en = TRUE]
    /\ ibt2s' = [ibt2s EXCEPT
                    !.sp = StoredSetpoint(Int16(data[3], data[4])), !.en = TRUE]
    /\ drivesOff' = LastReset(now, drivesOff)
    /\ led' = "LOW"
    /\ age' = 0 /\ wait' = WaitAfter(ibt2m')
    /\ UNCHANGED <<now, pc, servo, tsend, telem, lag>>

\* Nothing left in the serial receive buffer: can.input() returns.
InputDone ==
    /\ pc = "input" /\ pc' = "drivesOff"
    /\ UNCHANGED <<now, timers, ibt2m, ibt2s, led, telem, ghosts>>

\* drivesOff.timedout() and what hangs on it.
DisableDrives ==
    /\ ibt2m' = [ibt2m EXCEPT !.en = FALSE]
    /\ ibt2s' = [ibt2s EXCEPT !.en = FALSE]
    /\ led' = "HIGH"

CheckDrivesOff ==
    /\ pc = "drivesOff" /\ pc' = "servo"
    /\ drivesOff' = LastAfter(now, drivesOff, OffMs)
    /\ \/ TimedOut(now, drivesOff, OffMs) /\ DisableDrives
       \/ ~TimedOut(now, drivesOff, OffMs) /\ UNCHANGED <<ibt2m, ibt2s, led>>
    /\ lag' = 0
    /\ UNCHANGED <<now, servo, tsend, telem, age, wait>>

\* servo.timedout(): ibt2s.tick() samples the position and starts driving.
CheckServo ==
    /\ pc = "servo"
    /\ servo' = LastAfter(now, servo, ServoMs)
    /\ \/ /\ TimedOut(now, servo, ServoMs)
          /\ pc' = "servoIdle"
          /\ \E reading \in Readings :
                ibt2s' = [ibt2s EXCEPT
                    !.pos = Position(reading),
                    !.comp = ComputedSetpoint(ibt2s.sp, ServoTrim, ServoClamp)]
       \/ ~TimedOut(now, servo, ServoMs) /\ pc' = "tsend" /\ UNCHANGED ibt2s
    /\ UNCHANGED <<now, drivesOff, tsend, ibt2m, led, telem, ghosts>>

\* The two pin writes of ibt2s.tick(), then those of ibt2m.tick().
DriveServo ==
    LET error == ServoError(ibt2s.comp, ibt2s.pos) IN
    /\ \/ /\ pc = "servoIdle" /\ pc' = "servoDriven"
          /\ ibt2s' = [ibt2s EXCEPT !.pins = IdlePinWritten(@, error)]
       \/ /\ pc = "servoDriven" /\ pc' = "motorIdle"
          /\ ibt2s' = [ibt2s EXCEPT !.pins = DrivenPinWritten(@, error)]
    /\ UNCHANGED <<now, timers, ibt2m, led, telem, ghosts>>

DriveMotor ==
    LET error == MotorError(ibt2m.sp, MotorClamp) IN
    /\ \/ /\ pc = "motorIdle" /\ pc' = "motorDriven"
          /\ ibt2m' = [ibt2m EXCEPT
                !.err = error, !.pins = IdlePinWritten(@, Halve(error))]
       \/ /\ pc = "motorDriven" /\ pc' = "tsend"
          /\ ibt2m' = [ibt2m EXCEPT !.pins = DrivenPinWritten(@, Halve(error))]
    /\ wait' = WaitAfter(ibt2m')
    /\ UNCHANGED <<now, timers, ibt2s, led, telem, age, lag>>

\* tsend.timedout(): the frame is queued, or dropped when the serial transmit
\* buffer has no room for it; loop() returns and is called again.  (Faulty: the
\* error is worked out afresh from the setpoint.)
SnapshotFresh == [sp |-> ibt2m.sp, err |-> MotorError(ibt2m.sp, MotorClamp),
                  comp |-> ibt2s.comp, pos |-> ibt2s.pos]
Snapshot == [sp |-> ibt2m.sp, err |-> ibt2m.err, comp |-> ibt2s.comp, pos |-> ibt2s.pos]

CheckTsend ==
    /\ pc = "tsend" /\ pc' = "input"
    /\ tsend' = LastAfter(now, tsend, TsendMs)
    /\ \/ TimedOut(now, tsend, TsendMs) /\ telem' = Snapshot
       \/ UNCHANGED telem
    /\ UNCHANGED <<now, drivesOff, servo, ibt2m, ibt2s, led, ghosts>>

\* A millisecond passes.  The guard is the real-time assumption on the sketch:
\* nothing in loop() blocks, so drivesOff is checked every LoopMs at least.
Tick ==
    /\ lag < LoopMs
    /\ now' = NextMilli(now)
    /\ lag' = lag + 1
    /\ age' = IF age < AgeCap THEN age + 1 ELSE age
    /\ wait' = IF Current(ibt2m) THEN 0 ELSE IF wait < WaitCap THEN wait + 1 ELSE wait
    /\ UNCHANGED <<pc, timers, ibt2m, ibt2s, led, telem>>

Thread == InputDone \/ CheckDrivesOff \/ CheckServo \/ DriveServo \/ DriveMotor \/ CheckTsend

Next == Tick \/ Thread \/ \E data \in Payloads : UpdateServoSetpoint(data)

Spec == Init /\ [][Next]_vars

\* The thread is never preempted for good and time goes on.
FairSpec == Spec /\ WF_vars(Thread) /\ WF_vars(Tick)

-----------------------------------------------------------------------------
(***************************************************************************)
(* Properties.                                                             *)
(***************************************************************************)

MotorState == [en : BOOLEAN, sp : Setpoints, err : Setpoints, pins : PinValues]
ServoState == [en : BOOLEAN, sp : Setpoints, comp : Setpoints,
               pos : -512 .. 511, pins : PinValues]
TelemState == [sp : Setpoints, err : Setpoints, comp : Setpoints, pos : -512 .. 511]

\* Every variable holds a value the firmware's types and the ghosts allow.
TypeOK ==
    /\ now \in Millis /\ pc \in Steps
    /\ drivesOff \in Millis /\ servo \in Millis /\ tsend \in Millis
    /\ ibt2m \in MotorState /\ ibt2s \in ServoState
    /\ led \in {"LOW", "HIGH"}
    /\ telem \in {NoTelem} \cup TelemState
    /\ age \in 0 .. AgeCap /\ lag \in 0 .. LoopMs /\ wait \in 0 .. WaitCap

\* The dead man's switch: no bridge is enabled once a full timer period and one
\* loop latency have gone by without an accepted setpoint, whatever millis()
\* does in between, its wrap-around included.
DeadManSafe == (ibt2m.en \/ ibt2s.en) => age < AgeCap

\* The switch is not trigger-happy: drives that are on stay on until a whole
\* timer period has passed since the last setpoint, although the timer also
\* runs, and fires, while the drives are off.
NoEarlyStop == [][ibt2m.en /\ ~ibt2m'.en => age >= OffMs]_vars

\* At no instant, not even between the two pin writes of a reversal, do both
\* sides of an H-bridge carry a PWM signal.
NoShootThrough ==
    /\ ibt2m.pins.l = 0 \/ ibt2m.pins.r = 0
    /\ ibt2s.pins.l = 0 \/ ibt2s.pins.r = 0

\* The throttle on the pins, which also goes stale while the drives are off
\* (disable() clears neither the setpoint nor the PWM), is brought up to date
\* within an update period and two loop latencies of a new setpoint: an
\* enabling frame is not followed by motion at an older throttle beyond that.
ThrottleLatency == wait < WaitCap

\* Once the steering has been sampled at or beyond a mechanical limit it is not
\* driven further outward, whatever setpoint arrived.
SteeringInsideLimits ==
    pc \notin {"servoIdle", "servoDriven"} =>
        /\ ibt2s.pos >= ServoClamp.hi => ibt2s.pins.r = 0
        /\ ibt2s.pos <= ServoClamp.lo => ibt2s.pins.l = 0

\* A telemetry frame tells the base station what the pins really carry: its
\* error, computed setpoint and position fields are those of the command that
\* is being driven, even when the setpoint field is already a newer one.
TelemetryHonest ==
    [][telem' # telem =>
        /\ ibt2m.pins = Pins(Halve(telem'.err))
        /\ ibt2s.pins = Pins(ServoError(telem'.comp, telem'.pos))]_vars

\* The sketch implements the abstract dead man's switch.
DM == INSTANCE DeadMan WITH
        Grace <- OffMs, Limit <- AgeCap, on <- ibt2m.en, quiet <- age
ImplementsDeadMan == DM!DMFairSpec

=============================================================================
