----------------------------- MODULE RoverProofs -----------------------------
(***************************************************************************)
(* Machine-checked results about Rover, for every timer period, loop       *)
(* latency, counter width, set of frames and set of ADC readings that the  *)
(* assumptions TimingAssumption and DataAssumption allow.                  *)
(***************************************************************************)
EXTENDS Rover, TLAPS

-----------------------------------------------------------------------------
(***************************************************************************)
(* The timer arithmetic.                                                   *)
(***************************************************************************)

\* A reading is zero milliseconds after itself.
LEMMA ElapsedZero ==
    ASSUME NEW n \in Millis
    PROVE  Elapsed(n, n) = 0
  BY WrapAssumption DEF Elapsed, Millis

\* The distance is always below the width of the counter.
LEMMA ElapsedRange ==
    ASSUME NEW n \in Millis, NEW l \in Millis
    PROVE  Elapsed(n, l) \in 0 .. (Wrap - 1)
  BY WrapAssumption DEF Elapsed, Millis

\* Each millisecond adds exactly one to the distance until a whole turn of the
\* counter has gone by: the step that the unsigned subtraction gets right at
\* the wrap.
LEMMA ElapsedStep ==
    ASSUME NEW n \in Millis, NEW l \in Millis, Elapsed(n, l) + 1 < Wrap
    PROVE  Elapsed(NextMilli(n), l) = Elapsed(n, l) + 1
  BY WrapAssumption DEF Elapsed, NextMilli, Millis

LEMMA NextMilliType ==
    ASSUME NEW n \in Millis
    PROVE  NextMilli(n) \in Millis
  BY WrapAssumption DEF NextMilli, Millis

LEMMA LastAfterType ==
    ASSUME NEW n \in Millis, NEW l \in Millis, NEW ms
    PROVE  LastAfter(n, l, ms) \in Millis
  BY DEF LastAfter

-----------------------------------------------------------------------------
(***************************************************************************)
(* The drive arithmetic.                                                   *)
(***************************************************************************)

\* Whatever sixteen bits arrive, the stored setpoint fits the 10 bit span.
LEMMA StoredSetpointType ==
    ASSUME NEW sp \in Int
    PROVE  StoredSetpoint(sp) \in Setpoints
  BY DEF StoredSetpoint, Setpoints, Saturate

LEMMA Int16Type ==
    ASSUME NEW hi \in 0 .. 255, NEW lo \in 0 .. 255
    PROVE  Int16(hi, lo) \in Int
  BY DEF Int16

LEMMA MotorClampValue == MotorClamp = [lo |-> -511, hi |-> 511]
  BY DEF MotorClamp, ClampRange, Saturate

LEMMA ServoClampValue == ServoClamp = [lo |-> -58, hi |-> 166]
  BY DEF ServoClamp, ClampRange, Saturate

LEMMA MotorErrorType ==
    ASSUME NEW sp \in Setpoints
    PROVE  MotorError(sp, MotorClamp) \in -511 .. 511
  BY MotorClampValue DEF MotorError, Saturate, Setpoints

LEMMA ComputedType ==
    ASSUME NEW sp \in Setpoints
    PROVE  ComputedSetpoint(sp, ServoTrim, ServoClamp) \in -58 .. 166
  BY ServoClampValue DEF ComputedSetpoint, Saturate, Setpoints, ServoTrim

LEMMA PositionType ==
    ASSUME NEW reading \in 0 .. 1023
    PROVE  Position(reading) \in -512 .. 511
  BY DEF Position

LEMMA ServoErrorType ==
    ASSUME NEW comp \in Int, NEW pos \in Int
    PROVE  ServoError(comp, pos) \in Int
  BY DEF ServoError

LEMMA HalveType ==
    ASSUME NEW e \in Int
    PROVE  Halve(e) \in Int
  BY DEF Halve

\* A duty cycle fits analogWrite's eight bits for every error.
LEMMA DutyType ==
    ASSUME NEW e \in Int
    PROVE  Duty(e) \in 0 .. 255
  BY DEF Duty, Saturate

LEMMA PinWritesType ==
    ASSUME NEW pins \in PinValues, NEW e \in Int
    PROVE  /\ IdlePinWritten(pins, e) \in PinValues
           /\ DrivenPinWritten(pins, e) \in PinValues
  BY DutyType DEF PinValues, IdlePinWritten, DrivenPinWritten

LEMMA PinsType ==
    ASSUME NEW e \in Int
    PROVE  Pins(e) \in PinValues
  BY DutyType DEF PinValues, Pins

-----------------------------------------------------------------------------
(***************************************************************************)
(* Types.                                                                  *)
(***************************************************************************)

LEMMA AgeCapType == AgeCap \in Nat /\ WaitCap \in Nat
  BY TimingAssumption DEF AgeCap, WaitCap

LEMMA WaitAfterType ==
    ASSUME wait \in 0 .. WaitCap, NEW m
    PROVE  WaitAfter(m) \in 0 .. WaitCap
  BY AgeCapType DEF WaitAfter

\* The members of the two drivers, and how a type-correct driver is updated.
LEMMA MotorFields ==
    ASSUME NEW m \in MotorState
    PROVE  m.en \in BOOLEAN /\ m.sp \in Setpoints /\ m.err \in Setpoints /\ m.pins \in PinValues
  BY DEF MotorState

LEMMA ServoFields ==
    ASSUME NEW s \in ServoState
    PROVE  /\ s.en \in BOOLEAN /\ s.sp \in Setpoints /\ s.comp \in Setpoints
           /\ s.pos \in -512 .. 511 /\ s.pins \in PinValues
  BY DEF ServoState

LEMMA MotorEnable ==
    ASSUME NEW m \in MotorState, NEW sp \in Setpoints
    PROVE  [m EXCEPT !.sp = sp, !.en = TRUE] \in MotorState
  BY DEF MotorState

LEMMA MotorDisable ==
    ASSUME NEW m \in MotorState
    PROVE  [m EXCEPT !.en = FALSE] \in MotorState
  BY DEF MotorState

LEMMA MotorDriving ==
    ASSUME NEW m \in MotorState, NEW err \in Setpoints, NEW pins \in PinValues
    PROVE  [m EXCEPT !.err = err, !.pins = pins] \in MotorState
  BY DEF MotorState

LEMMA MotorDriven ==
    ASSUME NEW m \in MotorState, NEW pins \in PinValues
    PROVE  [m EXCEPT !.pins = pins] \in MotorState
  BY DEF MotorState

LEMMA ServoEnable ==
    ASSUME NEW s \in ServoState, NEW sp \in Setpoints
    PROVE  [s EXCEPT !.sp = sp, !.en = TRUE] \in ServoState
  BY DEF ServoState

LEMMA ServoDisable ==
    ASSUME NEW s \in ServoState
    PROVE  [s EXCEPT !.en = FALSE] \in ServoState
  BY DEF ServoState

LEMMA ServoSampled ==
    ASSUME NEW s \in ServoState, NEW pos \in -512 .. 511, NEW comp \in Setpoints
    PROVE  [s EXCEPT !.pos = pos, !.comp = comp] \in ServoState
  BY DEF ServoState

LEMMA ServoDriven ==
    ASSUME NEW s \in ServoState, NEW pins \in PinValues
    PROVE  [s EXCEPT !.pins = pins] \in ServoState
  BY DEF ServoState

LEMMA TypeInit == Init => TypeOK
<1> SUFFICES ASSUME Init PROVE TypeOK
  OBVIOUS
<1>1. Pins(0) \in PinValues
  BY PinsType
<1>2. 0 \in Setpoints /\ 0 \in -512 .. 511 /\ 0 \in Millis
  BY WrapAssumption DEF Setpoints, Millis
<1>3. ibt2m \in MotorState
  BY <1>1, <1>2 DEF Init, MotorState
<1>4. ibt2s \in ServoState
  BY <1>1, <1>2 DEF Init, ServoState
<1>5. age \in 0 .. AgeCap /\ lag \in 0 .. LoopMs /\ wait \in 0 .. WaitCap
  BY AgeCapType, TimingAssumption DEF Init
<1> QED
  BY <1>2, <1>3, <1>4, <1>5 DEF Init, TypeOK, Steps

LEMMA TypeStep == TypeOK /\ [Next]_vars => TypeOK'
<1> SUFFICES ASSUME TypeOK, [Next]_vars PROVE TypeOK'
  OBVIOUS
<1>m. ibt2m \in MotorState /\ ibt2m.sp \in Setpoints /\ ibt2m.err \in Setpoints /\ ibt2m.pins \in PinValues
  BY MotorFields DEF TypeOK
<1>s. /\ ibt2s \in ServoState /\ ibt2s.sp \in Setpoints /\ ibt2s.comp \in Setpoints
      /\ ibt2s.pos \in -512 .. 511 /\ ibt2s.pins \in PinValues
  BY ServoFields DEF TypeOK
<1>c. now \in Millis /\ drivesOff \in Millis /\ servo \in Millis /\ tsend \in Millis
  BY DEF TypeOK
<1>g. age \in 0 .. AgeCap /\ lag \in 0 .. LoopMs /\ wait \in 0 .. WaitCap
  BY DEF TypeOK
<1>1. ASSUME NEW data \in Payloads, UpdateServoSetpoint(data) PROVE TypeOK'
  <2>1. data[1] \in 0 .. 255 /\ data[2] \in 0 .. 255 /\ data[3] \in 0 .. 255 /\ data[4] \in 0 .. 255
    BY DataAssumption
  <2>2. StoredSetpoint(Int16(data[1], data[2])) \in Setpoints
    BY <2>1, Int16Type, StoredSetpointType
  <2>3. StoredSetpoint(Int16(data[3], data[4])) \in Setpoints
    BY <2>1, Int16Type, StoredSetpointType
  <2>4. ibt2m' \in MotorState
    <3>1. ibt2m' = [ibt2m EXCEPT !.sp = StoredSetpoint(Int16(data[1], data[2])), !.en = TRUE]
      BY <1>1 DEF UpdateServoSetpoint
    <3> QED
      BY <3>1, <2>2, <1>m, MotorEnable
  <2>5. ibt2s' \in ServoState
    <3>1. ibt2s' = [ibt2s EXCEPT !.sp = StoredSetpoint(Int16(data[3], data[4])), !.en = TRUE]
      BY <1>1 DEF UpdateServoSetpoint
    <3> QED
      BY <3>1, <2>3, <1>s, ServoEnable
  <2>6. age' \in 0 .. AgeCap /\ wait' \in 0 .. WaitCap
    BY <1>1, <1>g, AgeCapType, WaitAfterType DEF UpdateServoSetpoint
  <2>7. drivesOff' \in Millis
    BY <1>1, <1>c DEF UpdateServoSetpoint, LastReset
  <2> QED
    BY <1>1, <2>4, <2>5, <2>6, <2>7 DEF UpdateServoSetpoint, TypeOK
<1>2. CASE InputDone
  BY <1>2 DEF InputDone, timers, ghosts, Steps, TypeOK
<1>3. CASE CheckDrivesOff
  <2>1. drivesOff' \in Millis
    BY <1>3, <1>c, LastAfterType DEF CheckDrivesOff
  <2>2. ibt2m' \in MotorState
    BY <1>3, <1>m, MotorDisable DEF CheckDrivesOff, DisableDrives
  <2>3. ibt2s' \in ServoState
    BY <1>3, <1>s, ServoDisable DEF CheckDrivesOff, DisableDrives
  <2>4. led' \in {"LOW", "HIGH"}
    BY <1>3 DEF CheckDrivesOff, DisableDrives, TypeOK
  <2>5. lag' \in 0 .. LoopMs
    BY <1>3, TimingAssumption DEF CheckDrivesOff
  <2> QED
    BY <1>3, <2>1, <2>2, <2>3, <2>4, <2>5 DEF CheckDrivesOff, Steps, TypeOK
<1>4. CASE CheckServo
  <2>1. servo' \in Millis
    BY <1>4, <1>c, LastAfterType DEF CheckServo
  <2>2. ComputedSetpoint(ibt2s.sp, ServoTrim, ServoClamp) \in Setpoints
    <3>1. ComputedSetpoint(ibt2s.sp, ServoTrim, ServoClamp) \in -58 .. 166
      BY <1>s, ComputedType
    <3> QED
      BY <3>1 DEF Setpoints
  <2>3. ibt2s' \in ServoState
    <3>1. ASSUME NEW reading \in Readings,
                 ibt2s' = [ibt2s EXCEPT
                    !.pos = Position(reading),
                    !.comp = ComputedSetpoint(ibt2s.sp, ServoTrim, ServoClamp)]
          PROVE  ibt2s' \in ServoState
      <4>1. Position(reading) \in -512 .. 511
        <5>1. reading \in 0 .. 1023
          BY DataAssumption
        <5> QED
          BY <5>1, PositionType
      <4> QED
        BY <3>1, <4>1, <2>2, <1>s, ServoSampled
    <3> QED
      BY <1>4, <3>1, <1>s DEF CheckServo
  <2>4. pc' \in Steps
    BY <1>4 DEF CheckServo, Steps
  <2> QED
    BY <1>4, <2>1, <2>3, <2>4 DEF CheckServo, ghosts, TypeOK
<1>5. CASE DriveServo
  <2> DEFINE error == ServoError(ibt2s.comp, ibt2s.pos)
  <2>1. error \in Int
    <3>1. ibt2s.comp \in Int /\ ibt2s.pos \in Int
      <4>1. ibt2s.comp \in Setpoints /\ ibt2s.pos \in -512 .. 511
        BY <1>s
      <4>2. Setpoints \subseteq Int /\ (-512 .. 511) \subseteq Int
        BY DEF Setpoints
      <4> QED
        BY <4>1, <4>2, Zenon
    <3> QED
      BY <3>1, ServoErrorType
  <2>2. IdlePinWritten(ibt2s.pins, error) \in PinValues /\ DrivenPinWritten(ibt2s.pins, error) \in PinValues
    BY <2>1, <1>s, PinWritesType
  <2>3. \/ ibt2s' = [ibt2s EXCEPT !.pins = IdlePinWritten(ibt2s.pins, error)]
        \/ ibt2s' = [ibt2s EXCEPT !.pins = DrivenPinWritten(ibt2s.pins, error)]
    BY <1>5 DEF DriveServo
  <2> HIDE DEF error
  <2>4. ibt2s' \in ServoState
    BY <2>2, <2>3, <1>s, ServoDriven
  <2> QED
    BY <1>5, <2>4 DEF DriveServo, Steps, timers, ghosts, TypeOK
<1>6. CASE DriveMotor
  <2> DEFINE error == MotorError(ibt2m.sp, MotorClamp)
  <2>1. error \in Setpoints /\ Halve(error) \in Int
    <3>1. error \in -511 .. 511
      BY <1>m, MotorErrorType
    <3> HIDE DEF error
    <3>2. error \in Int /\ error \in Setpoints
      BY <3>1 DEF Setpoints
    <3> QED
      BY <3>2, HalveType
  <2>2. IdlePinWritten(ibt2m.pins, Halve(error)) \in PinValues
    BY <2>1, <1>m, PinWritesType
  <2>3. DrivenPinWritten(ibt2m.pins, Halve(error)) \in PinValues
    BY <2>1, <1>m, PinWritesType
  <2>4. \/ ibt2m' = [ibt2m EXCEPT !.err = error, !.pins = IdlePinWritten(ibt2m.pins, Halve(error))]
        \/ ibt2m' = [ibt2m EXCEPT !.pins = DrivenPinWritten(ibt2m.pins, Halve(error))]
    BY <1>6 DEF DriveMotor
  <2> HIDE DEF error
  <2>5. ibt2m' \in MotorState
    BY <2>1, <2>2, <2>3, <2>4, <1>m, MotorDriving, MotorDriven
  <2>6. wait' \in 0 .. WaitCap
    BY <1>6, <1>g, WaitAfterType DEF DriveMotor
  <2> QED
    BY <1>6, <2>5, <2>6 DEF DriveMotor, Steps, timers, TypeOK
<1>7. CASE CheckTsend
  <2>1. tsend' \in Millis
    BY <1>7, <1>c, LastAfterType DEF CheckTsend
  <2>2. Snapshot \in TelemState
    BY <1>m, <1>s DEF Snapshot, TelemState
  <2> QED
    BY <1>7, <2>1, <2>2 DEF CheckTsend, Steps, ghosts, TypeOK
<1>8. CASE Tick
  <2>1. now' \in Millis
    BY <1>8, <1>c, NextMilliType DEF Tick
  <2>2. age' \in 0 .. AgeCap /\ lag' \in 0 .. LoopMs /\ wait' \in 0 .. WaitCap
    BY <1>8, <1>g, AgeCapType, TimingAssumption DEF Tick
  <2> QED
    BY <1>8, <2>1, <2>2 DEF Tick, timers, TypeOK
<1>9. CASE UNCHANGED vars
  BY <1>9 DEF vars, timers, ghosts, TypeOK
<1> QED
  BY <1>1, <1>2, <1>3, <1>4, <1>5, <1>6, <1>7, <1>8, <1>9 DEF Next, Thread

\* The firmware's variables stay within their types in every reachable state:
\* no setpoint, error or position leaves the 10 bit span and no duty cycle the
\* eight bits of analogWrite, whatever frames and readings arrive.
THEOREM TypeCorrect == Spec => []TypeOK
  BY TypeInit, TypeStep, PTL DEF Spec

-----------------------------------------------------------------------------
(***************************************************************************)
(* The dead man's switch.  DeadManSafe alone is not inductive: the timer   *)
(* counts from its own _last, modulo Wrap, while age counts for ever.  What *)
(* ties them is that they agree for as long as the drives are on, and that *)
(* at the last check, lag milliseconds ago, the period was not yet over.   *)
(***************************************************************************)

\* The two ends of the argument: TimerIsAge is what makes the wrapped timer
\* mean real silence, NotYetFired what bounds that silence.
TimerIsAge == age = Elapsed(now, drivesOff)
NotYetFired == age < OffMs + lag

DeadManInv ==
    /\ TypeOK
    /\ ibt2m.en = ibt2s.en
    /\ ibt2m.en => TimerIsAge /\ NotYetFired

LEMMA DeadManInit == Init => DeadManInv
  BY TypeInit DEF Init, DeadManInv

LEMMA DeadManBound == DeadManInv => DeadManSafe
  BY TimingAssumption
  DEF DeadManInv, DeadManSafe, NotYetFired, AgeCap, TypeOK

LEMMA DeadManStep == DeadManInv /\ [Next]_vars => DeadManInv'
<1> SUFFICES ASSUME DeadManInv, [Next]_vars
             PROVE  /\ (ibt2m.en = ibt2s.en)'
                    /\ (ibt2m.en => TimerIsAge /\ NotYetFired)'
  BY TypeStep DEF DeadManInv
<1>0. TypeOK /\ TypeOK'
  BY TypeStep DEF DeadManInv
<1>1. ASSUME NEW data \in Payloads, UpdateServoSetpoint(data)
      PROVE  /\ (ibt2m.en = ibt2s.en)'
             /\ (ibt2m.en => TimerIsAge /\ NotYetFired)'
  <2>1. ibt2m'.en = TRUE /\ ibt2s'.en = TRUE
    BY <1>0, <1>1 DEF UpdateServoSetpoint, TypeOK, MotorState, ServoState
  <2>2. now' = now /\ drivesOff' = now /\ age' = 0 /\ lag' = lag
    BY <1>1 DEF UpdateServoSetpoint, LastReset
  <2>3. TimerIsAge'
    BY <1>0, <2>2, ElapsedZero DEF TimerIsAge, TypeOK
  <2>4. NotYetFired'
    BY <1>0, <2>2, TimingAssumption DEF NotYetFired, TypeOK
  <2> QED
    BY <2>1, <2>3, <2>4
<1>2. ASSUME UNCHANGED <<now, drivesOff, age, lag>>,
             ibt2m'.en = ibt2m.en, ibt2s'.en = ibt2s.en
      PROVE  /\ (ibt2m.en = ibt2s.en)'
             /\ (ibt2m.en => TimerIsAge /\ NotYetFired)'
  BY <1>2 DEF DeadManInv, TimerIsAge, NotYetFired
<1>3. CASE CheckDrivesOff
  <2>1. CASE TimedOut(now, drivesOff, OffMs)
    <3>1. ibt2m'.en = FALSE /\ ibt2s'.en = FALSE
      BY <1>0, <1>3, <2>1 DEF CheckDrivesOff, DisableDrives, TypeOK, MotorState, ServoState
    <3> QED
      BY <3>1
  <2>2. CASE ~TimedOut(now, drivesOff, OffMs)
    <3>1. UNCHANGED <<ibt2m, ibt2s, now, age, drivesOff>> /\ lag' = 0
      BY <1>3, <2>2 DEF CheckDrivesOff, LastAfter
    <3>2. ASSUME ibt2m.en
          PROVE  age < OffMs
      BY <1>0, <2>2, <3>2, TimingAssumption, ElapsedRange
      DEF DeadManInv, TimerIsAge, TimedOut, TypeOK
    <3> QED
      BY <3>1, <3>2, TimingAssumption DEF DeadManInv, TimerIsAge, NotYetFired
  <2> QED
    BY <2>1, <2>2
<1>4. CASE Tick
  <2>1. UNCHANGED <<ibt2m, ibt2s, drivesOff>> /\ now' = NextMilli(now) /\ lag' = lag + 1 /\ lag < LoopMs
    BY <1>4 DEF Tick, timers
  <2>2. ASSUME ibt2m.en
        PROVE  TimerIsAge' /\ NotYetFired'
    <3>1. age = Elapsed(now, drivesOff) /\ age < OffMs + lag
      BY <2>2 DEF DeadManInv, TimerIsAge, NotYetFired
    <3>2. age \in Nat /\ lag \in Nat /\ age < AgeCap /\ age + 1 < Wrap
      <4>1. age \in Nat /\ lag \in Nat
        BY <1>0, AgeCapType, TimingAssumption DEF TypeOK
      <4>2. OffMs \in Nat /\ LoopMs \in Nat /\ Wrap \in Nat /\ OffMs + LoopMs < Wrap
        BY TimingAssumption, WrapAssumption
      <4>3. age < OffMs + lag /\ lag < LoopMs
        BY <2>1, <3>1
      <4> QED
        BY <4>1, <4>2, <4>3 DEF AgeCap
    <3>3. age' = age + 1
      BY <1>4, <3>2 DEF Tick
    <3>4. Elapsed(NextMilli(now), drivesOff) = age + 1
      BY <1>0, <3>1, <3>2, ElapsedStep DEF TypeOK
    <3> QED
      BY <2>1, <3>1, <3>2, <3>3, <3>4, TimingAssumption DEF TimerIsAge, NotYetFired
  <2> QED
    BY <2>1, <2>2 DEF DeadManInv
<1>5. CASE InputDone
  BY <1>2, <1>5 DEF InputDone, timers, ghosts
<1>6. CASE CheckServo
  <2>1. ibt2s'.en = ibt2s.en
    BY <1>0, <1>6 DEF CheckServo, TypeOK, ServoState
  <2> QED
    BY <1>2, <1>6, <2>1 DEF CheckServo, ghosts
<1>7. CASE DriveServo
  <2>1. ibt2s'.en = ibt2s.en
    BY <1>0, <1>7 DEF DriveServo, TypeOK, ServoState
  <2> QED
    BY <1>2, <1>7, <2>1 DEF DriveServo, timers, ghosts
<1>8. CASE DriveMotor
  <2>1. ibt2m'.en = ibt2m.en
    BY <1>0, <1>8 DEF DriveMotor, TypeOK, MotorState
  <2> QED
    BY <1>2, <1>8, <2>1 DEF DriveMotor, timers
<1>9. CASE CheckTsend
  BY <1>2, <1>9 DEF CheckTsend, ghosts
<1>10. CASE UNCHANGED vars
  BY <1>2, <1>10 DEF vars, timers, ghosts
<1> QED
  BY <1>1, <1>3, <1>4, <1>5, <1>6, <1>7, <1>8, <1>9, <1>10 DEF Next, Thread

\* The firmware's safety function: in every execution, whatever frames arrive
\* and however often millis() has wrapped, no H-bridge is enabled OffMs + LoopMs
\* milliseconds after the last accepted setpoint.
THEOREM DeadManAlways == Spec => []DeadManSafe
  BY DeadManInit, DeadManStep, DeadManBound, PTL DEF Spec

-----------------------------------------------------------------------------
(***************************************************************************)
(* The step that switches the drives off, and the refinement of DeadMan.   *)
(***************************************************************************)

\* Only the dead-man check can take a motor that is on and turn it off, and it
\* does so after a whole period of silence.
LEMMA StopIsLate ==
    ASSUME DeadManInv, [Next]_vars, ibt2m.en, ~ibt2m'.en
    PROVE  /\ age >= OffMs
           /\ age' = age
<1>0. ibt2m \in MotorState /\ ibt2m.en = TRUE /\ TypeOK /\ age = Elapsed(now, drivesOff)
  BY DEF DeadManInv, TypeOK, MotorState, TimerIsAge
<1>1. ASSUME NEW data \in Payloads, UpdateServoSetpoint(data) PROVE FALSE
  BY <1>0, <1>1 DEF UpdateServoSetpoint, MotorState
<1>2. CASE CheckDrivesOff
  <2>1. TimedOut(now, drivesOff, OffMs)
    BY <1>0, <1>2 DEF CheckDrivesOff
  <2> QED
    BY <1>0, <1>2, <2>1 DEF CheckDrivesOff, TimedOut
<1>3. CASE DriveMotor
  BY <1>0, <1>3 DEF DriveMotor, MotorState
<1>4. ASSUME UNCHANGED ibt2m PROVE FALSE
  BY <1>4
<1>5. InputDone \/ CheckServo \/ DriveServo \/ CheckTsend \/ Tick \/ UNCHANGED vars => UNCHANGED ibt2m
  BY DEF InputDone, CheckServo, DriveServo, CheckTsend, Tick, vars
<1> QED
  BY <1>1, <1>2, <1>3, <1>4, <1>5 DEF Next, Thread

\* The drives are never switched off early, in any execution.
THEOREM NoEarlyStopAlways == Spec => NoEarlyStop
<1>1. DeadManInv /\ [Next]_vars => [ibt2m.en /\ ~ibt2m'.en => age >= OffMs]_vars
  BY StopIsLate
<1> QED
  BY <1>1, DeadManInit, DeadManStep, PTL DEF Spec, NoEarlyStop

\* Every step of the sketch is a step of the abstract switch or changes neither
\* of its variables.
LEMMA DeadManRefinedStep ==
    ASSUME DeadManInv, DeadManInv', [Next]_vars
    PROVE  [DM!DMNext]_(DM!dmVars)
<1>0. TypeOK /\ TypeOK' /\ ibt2m.en \in BOOLEAN /\ ibt2m'.en \in BOOLEAN
  BY DEF DeadManInv, TypeOK, MotorState
<1>1. ASSUME NEW data \in Payloads, UpdateServoSetpoint(data) PROVE DM!Command
  <2>1. ibt2m'.en = TRUE /\ age' = 0
    BY <1>0, <1>1 DEF UpdateServoSetpoint, TypeOK, MotorState
  <2> QED
    BY <2>1 DEF DM!Command
<1>2. CASE ibt2m.en /\ ~ibt2m'.en
  BY <1>0, <1>2, StopIsLate DEF DM!Stop, DM!DMNext
<1>3. CASE Tick
  <2>1. ibt2m' = ibt2m
    BY <1>3 DEF Tick
  <2>2. age \in 0 .. AgeCap
    BY <1>0 DEF TypeOK
  <2>3. CASE age < AgeCap
    <3>1. age' = age + 1
      BY <1>3, <2>3 DEF Tick
    <3>2. ibt2m.en => age' < AgeCap
      <4>1. DeadManSafe'
        BY DeadManBound, PTL
      <4> QED
        BY <1>0, <2>1, <4>1 DEF DeadManSafe
    <3> QED
      BY <2>1, <2>3, <3>1, <3>2 DEF DM!Elapse, DM!DMNext
  <2>4. CASE ~(age < AgeCap)
    BY <1>3, <2>1, <2>4 DEF Tick, DM!dmVars
  <2> QED
    BY <2>3, <2>4
<1>4. ASSUME UNCHANGED age, ~ibt2m.en => ~ibt2m'.en, ~(ibt2m.en /\ ~ibt2m'.en)
      PROVE  UNCHANGED DM!dmVars
  BY <1>0, <1>4 DEF DM!dmVars
<1>5. InputDone \/ CheckServo \/ DriveServo \/ CheckTsend \/ UNCHANGED vars
        => UNCHANGED age /\ UNCHANGED ibt2m
  BY DEF InputDone, CheckServo, DriveServo, CheckTsend, vars, ghosts
<1>6. CASE CheckDrivesOff
  <2>1. UNCHANGED age
    BY <1>6 DEF CheckDrivesOff
  <2>2. ~ibt2m.en => ~ibt2m'.en
    BY <1>0, <1>6 DEF CheckDrivesOff, DisableDrives, TypeOK, MotorState
  <2> QED
    BY <1>2, <1>4, <2>1, <2>2 DEF DM!DMNext
<1>7. CASE DriveMotor
  <2>1. UNCHANGED age
    BY <1>7 DEF DriveMotor
  <2>2. ibt2m'.en = ibt2m.en
    BY <1>0, <1>7 DEF DriveMotor, TypeOK, MotorState
  <2> QED
    BY <1>4, <2>1, <2>2
<1> QED
  BY <1>1, <1>3, <1>4, <1>5, <1>6, <1>7 DEF Next, Thread, DM!DMNext

\* The sketch implements the safety part of the abstract dead man's switch.
THEOREM Refinement == Spec => DM!DMSpec
<1>1. Init => DM!DMInit
  BY DEF Init, DM!DMInit
<1>2. DeadManInv /\ DeadManInv' /\ [Next]_vars => [DM!DMNext]_(DM!dmVars)
  BY DeadManRefinedStep
<1> QED
  BY <1>1, <1>2, DeadManInit, DeadManStep, PTL DEF Spec, DM!DMSpec

-----------------------------------------------------------------------------
(***************************************************************************)
(* The H-bridges.  Between the two writes of drive() the idle pin of the   *)
(* command being driven is already low: without that, the second write     *)
(* could meet a live opposite pin.                                         *)
(***************************************************************************)

IdleLow(pins, error) == IF error < 0 THEN pins.r = 0 ELSE pins.l = 0

BridgeInv ==
    /\ TypeOK
    /\ NoShootThrough
    /\ pc = "servoDriven" => IdleLow(ibt2s.pins, ServoError(ibt2s.comp, ibt2s.pos))
    /\ pc = "motorDriven" => IdleLow(ibt2m.pins, Halve(MotorError(ibt2m.sp, MotorClamp)))

\* The first write of drive() cannot create a shoot-through and leaves the idle
\* pin low; the second, from there, cannot create one either.
LEMMA IdleWriteSafe ==
    ASSUME NEW pins \in PinValues, NEW error \in Int, pins.l = 0 \/ pins.r = 0
    PROVE  LET after == IdlePinWritten(pins, error) IN
           (after.l = 0 \/ after.r = 0) /\ IdleLow(after, error)
  BY DEF PinValues, IdlePinWritten, IdleLow

LEMMA DrivenWriteSafe ==
    ASSUME NEW pins \in PinValues, NEW error \in Int, IdleLow(pins, error)
    PROVE  LET after == DrivenPinWritten(pins, error) IN after.l = 0 \/ after.r = 0
  BY DEF PinValues, DrivenPinWritten, IdleLow

LEMMA BridgeStep == BridgeInv /\ [Next]_vars => BridgeInv'
<1> SUFFICES ASSUME BridgeInv, [Next]_vars PROVE BridgeInv'
  OBVIOUS
<1>0. TypeOK /\ TypeOK' /\ NoShootThrough
  BY TypeStep DEF BridgeInv
<1>m. /\ ibt2m \in MotorState /\ ibt2m.pins \in PinValues /\ ibt2m.sp \in Setpoints
      /\ Halve(MotorError(ibt2m.sp, MotorClamp)) \in Int
  <2>1. ibt2m \in MotorState /\ ibt2m.pins \in PinValues /\ ibt2m.sp \in Setpoints
    BY <1>0, MotorFields DEF TypeOK
  <2>2. MotorError(ibt2m.sp, MotorClamp) \in -511 .. 511
    BY <2>1, MotorErrorType
  <2>3. MotorError(ibt2m.sp, MotorClamp) \in Int
    BY <2>2
  <2> QED
    BY <2>1, <2>3, HalveType
<1>s. /\ ibt2s \in ServoState /\ ibt2s.pins \in PinValues
      /\ ServoError(ibt2s.comp, ibt2s.pos) \in Int
  <2>1. /\ ibt2s \in ServoState /\ ibt2s.pins \in PinValues
        /\ ibt2s.comp \in Setpoints /\ ibt2s.pos \in -512 .. 511
    BY <1>0, ServoFields DEF TypeOK
  <2>2. Setpoints \subseteq Int /\ (-512 .. 511) \subseteq Int
    BY DEF Setpoints
  <2>3. ibt2s.comp \in Int /\ ibt2s.pos \in Int
    BY <2>1, <2>2, Zenon
  <2> QED
    BY <2>1, <2>3, ServoErrorType
<1>1. ASSUME pc' \notin {"servoDriven", "motorDriven"}, ibt2m'.pins = ibt2m.pins,
             ibt2s'.pins = ibt2s.pins
      PROVE  BridgeInv'
  BY <1>0, <1>1 DEF BridgeInv, NoShootThrough
<1>2. ASSUME NEW data \in Payloads, UpdateServoSetpoint(data) PROVE BridgeInv'
  <2>1. ibt2m'.pins = ibt2m.pins /\ ibt2s'.pins = ibt2s.pins
    BY <1>m, <1>s, <1>2 DEF UpdateServoSetpoint, MotorState, ServoState
  <2> QED
    BY <1>1, <1>2, <2>1 DEF UpdateServoSetpoint
<1>3. CASE InputDone
  BY <1>1, <1>3 DEF InputDone
<1>4. CASE CheckDrivesOff
  <2>1. ibt2m'.pins = ibt2m.pins /\ ibt2s'.pins = ibt2s.pins
    BY <1>m, <1>s, <1>4 DEF CheckDrivesOff, DisableDrives, MotorState, ServoState
  <2> QED
    BY <1>1, <1>4, <2>1 DEF CheckDrivesOff
<1>5. CASE CheckServo
  <2>1. ibt2m'.pins = ibt2m.pins /\ ibt2s'.pins = ibt2s.pins
    BY <1>s, <1>5 DEF CheckServo, ServoState
  <2> QED
    BY <1>1, <1>5, <2>1 DEF CheckServo
<1>6. CASE DriveServo
  <2> DEFINE error == ServoError(ibt2s.comp, ibt2s.pos)
  <2>0. ibt2m' = ibt2m
    BY <1>6 DEF DriveServo
  <2>1. CASE pc = "servoIdle"
    <3>1. ibt2s' = [ibt2s EXCEPT !.pins = IdlePinWritten(ibt2s.pins, error)] /\ pc' = "servoDriven"
      BY <1>6, <2>1 DEF DriveServo
    <3>2. ibt2s'.pins = IdlePinWritten(ibt2s.pins, error) /\ ibt2s'.comp = ibt2s.comp /\ ibt2s'.pos = ibt2s.pos
      BY <3>1, <1>s DEF ServoState
    <3>3. /\ ibt2s'.pins.l = 0 \/ ibt2s'.pins.r = 0
          /\ IdleLow(ibt2s'.pins, error)
      BY <3>2, <1>0, <1>s, IdleWriteSafe DEF NoShootThrough
    <3> QED
      BY <1>0, <2>0, <3>1, <3>2, <3>3 DEF BridgeInv, NoShootThrough
  <2>2. CASE pc = "servoDriven"
    <3>1. ibt2s' = [ibt2s EXCEPT !.pins = DrivenPinWritten(ibt2s.pins, error)] /\ pc' = "motorIdle"
      BY <1>6, <2>2 DEF DriveServo
    <3>2. ibt2s'.pins = DrivenPinWritten(ibt2s.pins, error)
      BY <3>1, <1>s DEF ServoState
    <3>3. ibt2s'.pins.l = 0 \/ ibt2s'.pins.r = 0
      BY <2>2, <3>2, <1>s, DrivenWriteSafe DEF BridgeInv
    <3> QED
      BY <1>0, <2>0, <3>1, <3>3 DEF BridgeInv, NoShootThrough
  <2> QED
    BY <1>6, <2>1, <2>2 DEF DriveServo
<1>7. CASE DriveMotor
  <2> DEFINE error == MotorError(ibt2m.sp, MotorClamp)
  <2>0. ibt2s' = ibt2s
    BY <1>7 DEF DriveMotor
  <2>1. CASE pc = "motorIdle"
    <3>1. /\ ibt2m' = [ibt2m EXCEPT !.err = error, !.pins = IdlePinWritten(ibt2m.pins, Halve(error))]
          /\ pc' = "motorDriven"
      BY <1>7, <2>1 DEF DriveMotor
    <3>2. ibt2m'.pins = IdlePinWritten(ibt2m.pins, Halve(error)) /\ ibt2m'.sp = ibt2m.sp
      BY <3>1, <1>m DEF MotorState
    <3>3. /\ ibt2m'.pins.l = 0 \/ ibt2m'.pins.r = 0
          /\ IdleLow(ibt2m'.pins, Halve(error))
      BY <3>2, <1>0, <1>m, IdleWriteSafe DEF NoShootThrough
    <3> QED
      BY <1>0, <2>0, <3>1, <3>2, <3>3 DEF BridgeInv, NoShootThrough
  <2>2. CASE pc = "motorDriven"
    <3>1. ibt2m' = [ibt2m EXCEPT !.pins = DrivenPinWritten(ibt2m.pins, Halve(error))] /\ pc' = "tsend"
      BY <1>7, <2>2 DEF DriveMotor
    <3>2. ibt2m'.pins = DrivenPinWritten(ibt2m.pins, Halve(error))
      BY <3>1, <1>m DEF MotorState
    <3>3. ibt2m'.pins.l = 0 \/ ibt2m'.pins.r = 0
      BY <2>2, <3>2, <1>m, DrivenWriteSafe DEF BridgeInv
    <3> QED
      BY <1>0, <2>0, <3>1, <3>3 DEF BridgeInv, NoShootThrough
  <2> QED
    BY <1>7, <2>1, <2>2 DEF DriveMotor
<1>8. CASE CheckTsend
  BY <1>1, <1>8 DEF CheckTsend
<1>9. ASSUME UNCHANGED <<pc, ibt2m, ibt2s>> PROVE BridgeInv'
  BY <1>0, <1>9 DEF BridgeInv, NoShootThrough
<1>10. Tick \/ UNCHANGED vars => UNCHANGED <<pc, ibt2m, ibt2s>>
  BY DEF Tick, vars
<1> QED
  BY <1>2, <1>3, <1>4, <1>5, <1>6, <1>7, <1>8, <1>9, <1>10 DEF Next, Thread

\* No H-bridge ever has both sides driven, whatever setpoints and positions the
\* drive steps meet.
THEOREM NoShootThroughAlways == Spec => []NoShootThrough
<1>1. Init => BridgeInv
  BY TypeInit DEF Init, BridgeInv, NoShootThrough, Pins
<1>2. BridgeInv => NoShootThrough
  BY DEF BridgeInv
<1> QED
  BY <1>1, <1>2, BridgeStep, PTL DEF Spec

-----------------------------------------------------------------------------
(***************************************************************************)
(* What the pins carry.  Outside the two writes of a drive() they are the  *)
(* command of the driver's own fields, those the telemetry reads, and the  *)
(* steering's computed setpoint lies inside the mechanical limits.         *)
(***************************************************************************)

CarryInv ==
    /\ BridgeInv
    /\ ibt2s.comp \in -58 .. 166
    /\ pc \notin {"servoIdle", "servoDriven"} =>
           ibt2s.pins = Pins(ServoError(ibt2s.comp, ibt2s.pos))
    /\ pc = "motorDriven" => ibt2m.err = MotorError(ibt2m.sp, MotorClamp)
    /\ pc # "motorDriven" => ibt2m.pins = Pins(Halve(ibt2m.err))

\* Both writes of a drive() make the pins what drive() is to put out.
LEMMA DrivenWriteCarries ==
    ASSUME NEW pins \in PinValues, NEW error \in Int, IdleLow(pins, error)
    PROVE  DrivenPinWritten(pins, error) = Pins(error)
  BY DutyType DEF PinValues, DrivenPinWritten, Pins, IdleLow

\* A position at or beyond a limit is not driven further outward.
LEMMA InsideLimits ==
    ASSUME NEW comp \in -58 .. 166, NEW pos \in -512 .. 511
    PROVE  /\ pos >= 166 => Pins(ServoError(comp, pos)).r = 0
           /\ pos <= -58 => Pins(ServoError(comp, pos)).l = 0
  BY DEF Pins, ServoError, Duty, Saturate

LEMMA CarryStep == CarryInv /\ [Next]_vars => CarryInv'
<1> SUFFICES ASSUME CarryInv, [Next]_vars
             PROVE  /\ (ibt2s.comp \in -58 .. 166)'
                    /\ (pc \notin {"servoIdle", "servoDriven"} =>
                            ibt2s.pins = Pins(ServoError(ibt2s.comp, ibt2s.pos)))'
                    /\ (pc = "motorDriven" => ibt2m.err = MotorError(ibt2m.sp, MotorClamp))'
                    /\ (pc # "motorDriven" => ibt2m.pins = Pins(Halve(ibt2m.err)))'
  BY BridgeStep DEF CarryInv
<1>0. TypeOK /\ BridgeInv /\ ibt2m \in MotorState /\ ibt2s \in ServoState
  BY DEF CarryInv, BridgeInv, TypeOK
<1>m. /\ ibt2m.pins \in PinValues /\ ibt2m.sp \in Setpoints
      /\ MotorError(ibt2m.sp, MotorClamp) \in Int
      /\ Halve(MotorError(ibt2m.sp, MotorClamp)) \in Int
  <2>1. ibt2m.pins \in PinValues /\ ibt2m.sp \in Setpoints
    BY <1>0, MotorFields
  <2>2. MotorError(ibt2m.sp, MotorClamp) \in -511 .. 511
    BY <2>1, MotorErrorType
  <2>3. MotorError(ibt2m.sp, MotorClamp) \in Int
    BY <2>2
  <2> QED
    BY <2>1, <2>3, HalveType
<1>s. /\ ibt2s.pins \in PinValues /\ ibt2s.sp \in Setpoints
      /\ ServoError(ibt2s.comp, ibt2s.pos) \in Int
  <2>1. ibt2s.pins \in PinValues /\ ibt2s.pos \in -512 .. 511 /\ ibt2s.sp \in Setpoints
    BY <1>0, ServoFields
  <2>2. ibt2s.comp \in Int /\ ibt2s.pos \in Int
    BY <2>1 DEF CarryInv
  <2> QED
    BY <2>1, <2>2, ServoErrorType
<1>1. ASSUME pc \notin {"servoIdle", "servoDriven", "motorDriven"} /\ pc' # "motorDriven",
             ibt2m'.pins = ibt2m.pins, ibt2m'.err = ibt2m.err,
             ibt2s'.pins = ibt2s.pins, ibt2s'.comp = ibt2s.comp, ibt2s'.pos = ibt2s.pos
      PROVE  /\ (ibt2s.comp \in -58 .. 166)'
             /\ (pc \notin {"servoIdle", "servoDriven"} =>
                     ibt2s.pins = Pins(ServoError(ibt2s.comp, ibt2s.pos)))'
             /\ (pc = "motorDriven" => ibt2m.err = MotorError(ibt2m.sp, MotorClamp))'
             /\ (pc # "motorDriven" => ibt2m.pins = Pins(Halve(ibt2m.err)))'
  BY <1>1 DEF CarryInv
<1>2. ASSUME NEW data \in Payloads, UpdateServoSetpoint(data)
      PROVE  /\ pc \notin {"servoIdle", "servoDriven", "motorDriven"} /\ pc' # "motorDriven"
             /\ ibt2m'.pins = ibt2m.pins /\ ibt2m'.err = ibt2m.err
             /\ ibt2s'.pins = ibt2s.pins /\ ibt2s'.comp = ibt2s.comp /\ ibt2s'.pos = ibt2s.pos
  BY <1>0, <1>2 DEF UpdateServoSetpoint, MotorState, ServoState
<1>3. CASE CheckDrivesOff
  <2>1. /\ pc \notin {"servoIdle", "servoDriven", "motorDriven"} /\ pc' # "motorDriven"
        /\ ibt2m'.pins = ibt2m.pins /\ ibt2m'.err = ibt2m.err
        /\ ibt2s'.pins = ibt2s.pins /\ ibt2s'.comp = ibt2s.comp /\ ibt2s'.pos = ibt2s.pos
    BY <1>0, <1>3 DEF CheckDrivesOff, DisableDrives, MotorState, ServoState
  <2> QED
    BY <1>1, <2>1
<1>4. CASE CheckServo
  <2>1. /\ pc = "servo" /\ ibt2m' = ibt2m /\ pc' # "motorDriven"
    BY <1>4 DEF CheckServo
  <2>2. CASE pc' = "servoIdle"
    <3>1. PICK reading \in Readings :
             ibt2s' = [ibt2s EXCEPT !.pos = Position(reading),
                                    !.comp = ComputedSetpoint(ibt2s.sp, ServoTrim, ServoClamp)]
      BY <1>4, <2>2 DEF CheckServo
    <3>2. ibt2s'.comp = ComputedSetpoint(ibt2s.sp, ServoTrim, ServoClamp)
      BY <1>0, <3>1 DEF ServoState
    <3>3. ibt2s'.comp \in -58 .. 166
      BY <1>s, <3>2, ComputedType
    <3> QED
      BY <2>1, <2>2, <3>3 DEF CarryInv
  <2>3. CASE pc' # "servoIdle"
    <3>1. ibt2s' = ibt2s
      BY <1>4, <2>3 DEF CheckServo
    <3> QED
      BY <1>1, <2>1, <3>1
  <2> QED
    BY <2>2, <2>3
<1>5. CASE DriveServo
  <2> DEFINE error == ServoError(ibt2s.comp, ibt2s.pos)
  <2>0. ibt2m' = ibt2m /\ pc # "motorDriven" /\ pc' # "motorDriven"
    BY <1>5 DEF DriveServo
  <2>1. CASE pc = "servoIdle"
    <3>1. ibt2s' = [ibt2s EXCEPT !.pins = IdlePinWritten(ibt2s.pins, error)] /\ pc' = "servoDriven"
      BY <1>5, <2>1 DEF DriveServo
    <3>2. ibt2s'.comp = ibt2s.comp
      BY <1>0, <3>1 DEF ServoState
    <3> QED
      BY <2>0, <3>1, <3>2 DEF CarryInv
  <2>2. CASE pc = "servoDriven"
    <3>1. ibt2s' = [ibt2s EXCEPT !.pins = DrivenPinWritten(ibt2s.pins, error)]
      BY <1>5, <2>2 DEF DriveServo
    <3>2. /\ ibt2s'.pins = DrivenPinWritten(ibt2s.pins, error)
          /\ ibt2s'.comp = ibt2s.comp /\ ibt2s'.pos = ibt2s.pos
      BY <1>0, <3>1 DEF ServoState
    <3>3. ibt2s'.pins = Pins(error)
      BY <1>0, <1>s, <2>2, <3>2, DrivenWriteCarries DEF BridgeInv
    <3> QED
      BY <2>0, <3>2, <3>3 DEF CarryInv
  <2> QED
    BY <1>5, <2>1, <2>2 DEF DriveServo
<1>6. CASE DriveMotor
  <2> DEFINE error == MotorError(ibt2m.sp, MotorClamp)
  <2>0. ibt2s' = ibt2s /\ pc \notin {"servoIdle", "servoDriven"}
    BY <1>6 DEF DriveMotor
  <2>1. CASE pc = "motorIdle"
    <3>1. /\ ibt2m' = [ibt2m EXCEPT !.err = error, !.pins = IdlePinWritten(ibt2m.pins, Halve(error))]
          /\ pc' = "motorDriven"
      BY <1>6, <2>1 DEF DriveMotor
    <3>2. ibt2m'.err = error /\ ibt2m'.sp = ibt2m.sp
      BY <1>0, <3>1 DEF MotorState
    <3> QED
      BY <2>0, <3>1, <3>2 DEF CarryInv
  <2>2. CASE pc = "motorDriven"
    <3>1. ibt2m' = [ibt2m EXCEPT !.pins = DrivenPinWritten(ibt2m.pins, Halve(error))] /\ pc' = "tsend"
      BY <1>6, <2>2 DEF DriveMotor
    <3>2. ibt2m'.pins = DrivenPinWritten(ibt2m.pins, Halve(error)) /\ ibt2m'.err = ibt2m.err
      BY <1>0, <3>1 DEF MotorState
    <3>3. ibt2m'.pins = Pins(Halve(error)) /\ ibt2m.err = error
      BY <1>0, <1>m, <2>2, <3>2, DrivenWriteCarries DEF BridgeInv, CarryInv
    <3> QED
      BY <2>0, <3>1, <3>2, <3>3 DEF CarryInv
  <2> QED
    BY <1>6, <2>1, <2>2 DEF DriveMotor
<1>7. CASE InputDone \/ CheckTsend
  <2>1. /\ pc \notin {"servoIdle", "servoDriven", "motorDriven"} /\ pc' # "motorDriven"
        /\ UNCHANGED <<ibt2m, ibt2s>>
    BY <1>7 DEF InputDone, CheckTsend
  <2> QED
    BY <1>1, <2>1
<1>8. CASE Tick \/ UNCHANGED vars
  <2>1. UNCHANGED <<pc, ibt2m, ibt2s>>
    BY <1>8 DEF Tick, vars
  <2> QED
    BY <2>1 DEF CarryInv
<1> QED
  BY <1>1, <1>2, <1>3, <1>4, <1>5, <1>6, <1>7, <1>8 DEF Next, Thread

LEMMA CarryAlways == Spec => []CarryInv
<1>1. Init => CarryInv
  <2> SUFFICES ASSUME Init PROVE CarryInv
    OBVIOUS
  <2>1. BridgeInv
    BY TypeInit DEF Init, BridgeInv, NoShootThrough, Pins
  <2> QED
    BY <2>1 DEF Init, CarryInv, ServoError, Halve
<1> QED
  BY <1>1, CarryStep, PTL DEF Spec

\* Whatever setpoints arrive, a steering that was sampled at a limit is not
\* driven beyond it.
THEOREM SteeringInsideLimitsAlways == Spec => []SteeringInsideLimits
<1>1. CarryInv => SteeringInsideLimits
  <2> SUFFICES ASSUME CarryInv, pc \notin {"servoIdle", "servoDriven"}
               PROVE  /\ ibt2s.pos >= ServoClamp.hi => ibt2s.pins.r = 0
                      /\ ibt2s.pos <= ServoClamp.lo => ibt2s.pins.l = 0
    BY DEF SteeringInsideLimits
  <2>1. ibt2s.pos \in -512 .. 511
    BY ServoFields DEF CarryInv, BridgeInv, TypeOK
  <2>2. ibt2s.comp \in -58 .. 166 /\ ibt2s.pins = Pins(ServoError(ibt2s.comp, ibt2s.pos))
    BY DEF CarryInv
  <2>3. ServoClamp.hi = 166 /\ ServoClamp.lo = -58
    BY ServoClampValue
  <2>4. /\ ibt2s.pos >= 166 => Pins(ServoError(ibt2s.comp, ibt2s.pos)).r = 0
        /\ ibt2s.pos <= -58 => Pins(ServoError(ibt2s.comp, ibt2s.pos)).l = 0
    BY <2>1, <2>2, InsideLimits
  <2>5. (ibt2s.pos >= 166 => ibt2s.pins.r = 0) /\ (ibt2s.pos <= -58 => ibt2s.pins.l = 0)
    BY <2>2, <2>4, Zenon
  <2> QED
    BY <2>3, <2>5
<1> QED
  BY <1>1, CarryAlways, PTL

\* What a telemetry frame says is what the pins carry when it is sent.
THEOREM TelemetryHonestAlways == Spec => TelemetryHonest
<1>1. CarryInv /\ [Next]_vars =>
        [telem' # telem =>
            /\ ibt2m.pins = Pins(Halve(telem'.err))
            /\ ibt2s.pins = Pins(ServoError(telem'.comp, telem'.pos))]_vars
  <2> SUFFICES ASSUME CarryInv, [Next]_vars, telem' # telem
               PROVE  /\ ibt2m.pins = Pins(Halve(telem'.err))
                      /\ ibt2s.pins = Pins(ServoError(telem'.comp, telem'.pos))
    OBVIOUS
  <2>1. pc = "tsend" /\ telem' = Snapshot
    BY DEF Next, Thread, UpdateServoSetpoint, InputDone, CheckDrivesOff, CheckServo,
           DriveServo, DriveMotor, CheckTsend, Tick, vars
  <2>2. telem'.err = ibt2m.err /\ telem'.comp = ibt2s.comp /\ telem'.pos = ibt2s.pos
    BY <2>1 DEF Snapshot
  <2> QED
    BY <2>1, <2>2 DEF CarryInv
<1> QED
  BY <1>1, CarryAlways, PTL DEF Spec, TelemetryHonest

-----------------------------------------------------------------------------
(***************************************************************************)
(* How long a new throttle waits.  The update timer is looked at once in a *)
(* loop, so when it is due it may be a loop late, and the pins follow      *)
(* within the same loop; until then the throttle has waited no longer than *)
(* the timer has run, unless millis() came round meanwhile.                *)
(***************************************************************************)

Driving == {"servoIdle", "servoDriven", "motorIdle", "motorDriven"}

Overdue == IF pc = "servo" THEN LoopMs ELSE 0

LatencyInv ==
    /\ pc \notin Driving => /\ wait <= Elapsed(now, servo)
                            /\ Elapsed(now, servo) < ServoMs + lag + Overdue
    /\ pc \in Driving => /\ wait < ServoMs + LoopMs + lag
                         /\ Elapsed(now, servo) <= lag

LEMMA LatencyTypes ==
    ASSUME TypeOK
    PROVE  /\ wait \in Nat /\ lag \in Nat /\ lag <= LoopMs /\ LoopMs \in Nat
           /\ ServoMs \in Nat /\ ServoMs > 0 /\ Wrap \in Nat /\ WaitCap = ServoMs + LoopMs + LoopMs
           /\ Elapsed(now, servo) \in Nat
           /\ Overdue \in Nat /\ Overdue <= LoopMs
<1>1. Elapsed(now, servo) \in Nat
  <2>1. Elapsed(now, servo) \in 0 .. (Wrap - 1)
    BY ElapsedRange DEF TypeOK
  <2> QED
    BY <2>1, WrapAssumption
<1>2. lag \in 0 .. LoopMs /\ wait \in 0 .. WaitCap
  BY DEF TypeOK
<1> QED
  BY <1>1, <1>2, TimingAssumption, WrapAssumption DEF WaitCap, Overdue

\* Steps in which neither clock nor timer moves and no drive begins or ends.
LEMMA LatencyStays ==
    ASSUME TypeOK, LatencyInv, UNCHANGED <<now, servo, lag>>, wait' \in Nat, wait' <= wait,
           pc \in Driving <=> pc' \in Driving, pc # "servo", pc' # "servo"
    PROVE  LatencyInv'
<1>1. CASE pc \in Driving
  BY <1>1, LatencyTypes DEF LatencyInv
<1>2. CASE pc \notin Driving
  <2>1. Elapsed(now, servo)' = Elapsed(now, servo)
    OBVIOUS
  <2>2. wait <= Elapsed(now, servo) /\ Elapsed(now, servo) < ServoMs + lag
    BY <1>2, LatencyTypes DEF LatencyInv, Overdue
  <2>3. wait' <= Elapsed(now, servo)
    BY <2>2, LatencyTypes
  <2> QED
    BY <1>2, <2>1, <2>2, <2>3, LatencyTypes DEF LatencyInv, Overdue
<1> QED
  BY <1>1, <1>2

LEMMA LatencyTick ==
    ASSUME WaitCap <= Wrap, TypeOK, LatencyInv, Tick
    PROVE  LatencyInv'
<1> DEFINE e == Elapsed(now, servo)
<1>1. /\ wait \in Nat /\ lag \in Nat /\ lag <= LoopMs /\ LoopMs \in Nat
      /\ ServoMs \in Nat /\ ServoMs > 0 /\ Wrap \in Nat /\ WaitCap = ServoMs + LoopMs + LoopMs
      /\ e \in Nat /\ Overdue \in Nat /\ Overdue <= LoopMs
  BY LatencyTypes
<1>2. /\ lag < LoopMs /\ lag' = lag + 1 /\ pc' = pc /\ servo' = servo /\ now' = NextMilli(now)
      /\ wait' \in {0, wait, wait + 1}
  BY DEF Tick, timers
<1>3. e + 1 < Wrap
  <2>1. CASE pc \in Driving
    BY <1>1, <1>2, <2>1 DEF LatencyInv
  <2>2. CASE pc \notin Driving
    BY <1>1, <1>2, <2>2 DEF LatencyInv
  <2> QED
    BY <2>1, <2>2
<1>4. Elapsed(now', servo') = e + 1
  <2>1. now \in Millis /\ servo \in Millis
    BY DEF TypeOK
  <2> QED
    BY <1>2, <1>3, <2>1, ElapsedStep
<1> HIDE DEF e
<1>5. CASE pc \in Driving
  <2>1. wait < ServoMs + LoopMs + lag /\ e <= lag
    BY <1>5 DEF LatencyInv, e
  <2>2. wait' < ServoMs + LoopMs + lag' /\ e + 1 <= lag'
    BY <1>1, <1>2, <2>1
  <2> QED
    BY <1>2, <1>4, <1>5, <2>2 DEF LatencyInv
<1>6. CASE pc \notin Driving
  <2>1. wait <= e /\ e < ServoMs + lag + Overdue
    BY <1>6 DEF LatencyInv, e
  <2>2. wait' <= e + 1 /\ e + 1 < ServoMs + lag' + Overdue
    BY <1>1, <1>2, <2>1
  <2>3. Overdue' = Overdue
    BY <1>2 DEF Overdue
  <2> QED
    BY <1>2, <1>4, <1>6, <2>2, <2>3 DEF LatencyInv
<1> QED
  BY <1>5, <1>6

LEMMA LatencyStep ==
    ASSUME WaitCap <= Wrap, CarryInv, LatencyInv, [Next]_vars
    PROVE  LatencyInv'
<1>0. TypeOK
  BY DEF CarryInv, BridgeInv
<1>t. /\ wait \in Nat /\ lag \in Nat /\ lag <= LoopMs /\ LoopMs \in Nat
      /\ ServoMs \in Nat /\ ServoMs > 0 /\ Elapsed(now, servo) \in Nat
  BY <1>0, LatencyTypes
<1>1. ASSUME NEW data \in Payloads, UpdateServoSetpoint(data) PROVE LatencyInv'
  <2>1. /\ UNCHANGED <<now, servo, lag, pc>> /\ pc = "input" /\ wait' \in {0, wait}
    BY <1>1 DEF UpdateServoSetpoint, WaitAfter
  <2> QED
    BY <1>0, <1>t, <2>1, LatencyStays
<1>2. CASE InputDone \/ CheckTsend
  <2>1. /\ UNCHANGED <<now, servo, lag, wait>>
        /\ pc \in {"input", "tsend"} /\ pc' \in {"drivesOff", "input"}
    BY <1>2 DEF InputDone, CheckTsend, timers, ghosts
  <2> QED
    BY <1>0, <1>t, <2>1, LatencyStays DEF Driving
<1>3. CASE DriveServo
  <2>1. UNCHANGED <<now, servo, lag, wait>> /\ pc \in Driving /\ pc' \in Driving
    BY <1>3 DEF DriveServo, timers, ghosts, Driving
  <2>2. pc # "servo" /\ pc' # "servo"
    BY <2>1 DEF Driving
  <2> QED
    BY <1>0, <1>t, <2>1, <2>2, LatencyStays
<1>4. CASE CheckDrivesOff
  <2>1. UNCHANGED <<now, servo, wait>> /\ lag' = 0 /\ pc = "drivesOff" /\ pc' = "servo"
    BY <1>4 DEF CheckDrivesOff
  <2>2. wait <= Elapsed(now, servo) /\ Elapsed(now, servo) < ServoMs + lag
    BY <1>t, <2>1 DEF LatencyInv, Driving, Overdue
  <2>3. Elapsed(now', servo') = Elapsed(now, servo)
    BY <2>1
  <2> QED
    BY <1>t, <2>1, <2>2, <2>3 DEF LatencyInv, Driving, Overdue
<1>5. CASE CheckServo
  <2>1. /\ UNCHANGED <<now, lag, wait>> /\ pc = "servo"
        /\ wait <= Elapsed(now, servo) /\ Elapsed(now, servo) < ServoMs + lag + LoopMs
    BY <1>5 DEF CheckServo, ghosts, LatencyInv, Driving, Overdue
  <2>2. CASE TimedOut(now, servo, ServoMs)
    <3>1. servo' = now /\ pc' \in Driving
      BY <1>5, <2>2 DEF CheckServo, LastAfter, Driving
    <3>2. Elapsed(now', servo') = 0
      BY <1>0, <2>1, <3>1, ElapsedZero DEF TypeOK
    <3> QED
      BY <1>t, <2>1, <3>1, <3>2 DEF LatencyInv
  <2>3. CASE ~TimedOut(now, servo, ServoMs)
    <3>1. servo' = servo /\ pc' = "tsend"
      BY <1>5, <2>3 DEF CheckServo, LastAfter
    <3>2. Elapsed(now, servo) < ServoMs
      BY <1>t, <2>3 DEF TimedOut
    <3>3. Elapsed(now', servo') = Elapsed(now, servo)
      BY <2>1, <3>1
    <3> QED
      BY <1>t, <2>1, <3>1, <3>2, <3>3 DEF LatencyInv, Driving, Overdue
  <2> QED
    BY <2>2, <2>3
<1>6. CASE DriveMotor
  <2>1. UNCHANGED <<now, servo, lag>>
    BY <1>6 DEF DriveMotor, timers
  <2>2. CASE pc = "motorIdle"
    <3>1. pc' = "motorDriven" /\ wait' \in {0, wait}
      BY <1>6, <2>2 DEF DriveMotor, WaitAfter
    <3> QED
      BY <1>0, <1>t, <2>1, <2>2, <3>1, LatencyStays DEF Driving
  <2>3. CASE pc = "motorDriven"
    <3>1. Current(ibt2m')
      <4> DEFINE error == MotorError(ibt2m.sp, MotorClamp)
      <4>1. ibt2m \in MotorState /\ ibt2m.pins \in PinValues /\ ibt2m.sp \in Setpoints
        BY <1>0, MotorFields DEF TypeOK
      <4>2. Halve(error) \in Int
        <5>1. error \in -511 .. 511
          BY <4>1, MotorErrorType
        <5>2. error \in Int
          BY <5>1
        <5> QED
          BY <5>2, HalveType
      <4>3. ibt2m' = [ibt2m EXCEPT !.pins = DrivenPinWritten(ibt2m.pins, Halve(error))]
        BY <1>6, <2>3 DEF DriveMotor
      <4>4. ibt2m'.pins = DrivenPinWritten(ibt2m.pins, Halve(error)) /\ ibt2m'.sp = ibt2m.sp
        BY <4>1, <4>3 DEF MotorState
      <4>5. DrivenPinWritten(ibt2m.pins, Halve(error)) = Pins(Halve(error))
        BY <2>3, <4>1, <4>2, DrivenWriteCarries DEF CarryInv, BridgeInv
      <4> QED
        BY <4>4, <4>5 DEF Current
    <3>2. wait' = 0 /\ pc' = "tsend"
      BY <1>6, <2>3, <3>1 DEF DriveMotor, WaitAfter
    <3>3. Elapsed(now, servo) <= lag /\ Elapsed(now', servo') = Elapsed(now, servo)
      BY <2>1, <2>3 DEF LatencyInv, Driving
    <3> QED
      BY <1>t, <2>1, <3>2, <3>3 DEF LatencyInv, Driving, Overdue
  <2> QED
    BY <1>6, <2>2, <2>3 DEF DriveMotor
<1>7. CASE Tick
  BY <1>0, <1>7, LatencyTick
<1>8. CASE UNCHANGED vars
  <2>1. UNCHANGED <<now, servo, lag, wait, pc>>
    BY <1>8 DEF vars, timers, ghosts
  <2> QED
    BY <2>1 DEF LatencyInv, Overdue
<1> QED
  BY <1>1, <1>2, <1>3, <1>4, <1>5, <1>6, <1>7, <1>8 DEF Next, Thread

\* A new throttle is on the pins within an update period and two loops, for every
\* period and loop time that a turn of millis() exceeds.
THEOREM ThrottleLatencyAlways ==
    ASSUME WaitCap <= Wrap
    PROVE  Spec => []ThrottleLatency
<1>1. Init => LatencyInv
  <2> SUFFICES ASSUME Init PROVE LatencyInv
    OBVIOUS
  <2>1. Elapsed(now, servo) = 0
    BY ElapsedZero, TypeInit DEF Init, TypeOK
  <2> QED
    BY <2>1, TimingAssumption DEF Init, LatencyInv, Driving, Overdue
<1>2. CarryInv /\ LatencyInv /\ [Next]_vars => LatencyInv'
  BY LatencyStep
<1>3. CarryInv /\ LatencyInv => ThrottleLatency
  <2> SUFFICES ASSUME CarryInv, LatencyInv PROVE ThrottleLatency
    OBVIOUS
  <2>1. TypeOK
    BY DEF CarryInv, BridgeInv
  <2> QED
    BY <2>1, LatencyTypes DEF LatencyInv, ThrottleLatency
<1> QED
  BY <1>1, <1>2, <1>3, CarryAlways, PTL DEF Spec

=============================================================================
