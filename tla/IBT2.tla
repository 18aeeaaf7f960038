-------------------------------- MODULE IBT2 --------------------------------
(***************************************************************************)
(* Arithmetic and pin values of the two IBT2 H-bridge drivers,             *)
(* arduino/slcan_controller/IBT2Motor.cpp and IBT2Servo.cpp.  No state:    *)
(* the controller module holds the objects' members and calls these.       *)
(***************************************************************************)
EXTENDS Integers

\* "if (x < lo) x = lo; if (x > hi) x = hi;"
Saturate(x, lo, hi) == IF x < lo THEN lo ELSE IF x > hi THEN hi ELSE x

\* clamp(): the range is forced to contain 0 and to fit the 10 bit span.
ClampRange(l, h) == [lo |-> Saturate(l, -512, 0), hi |-> Saturate(h, 0, 511)]

\* update(): a setpoint is saturated to the 10 bit span when it is stored.
Setpoints == -512 .. 511
StoredSetpoint(sp) == Saturate(sp, -512, 511)

\* Integer division by two as C does it, toward zero.
Halve(e) == IF e < 0 THEN -((-e) \div 2) ELSE e \div 2

\* IBT2Motor::tick(): _error, with the sketch's invert argument of 1.
MotorError(sp, range) == Saturate(-sp, range.lo, range.hi)

\* IBT2Servo::tick(): _position from the ADC reading (invert is 1 as well),
\* _computed_setpoint, and _error, P_GAIN being 4.
Position(reading) == -(reading - 511)
TrimAfterClamp(sp, trim, range) == Saturate(sp, range.lo, range.hi) + trim  \* faulty
ComputedSetpoint(sp, trim, range) == Saturate(sp + trim, range.lo, range.hi)
ServoError(computed, position) == (computed - position) * 4

\* drive(): the duty cycle of the driven pin, and the pair of pins once both
\* writes are done.  A negative error drives the left pin (CCW), any other
\* error the right one.
Duty(error) == Saturate(IF error < 0 THEN -error ELSE error, 0, 255)
Pins(error) == IF error < 0 THEN [l |-> Duty(error), r |-> 0]
                            ELSE [l |-> 0, r |-> Duty(error)]

\* drive() writes the idle pin first and the driven pin second.  (Faulty: the
\* idle pin is left as it was.)
IdlePinKept(pins, error) == pins
IdlePinWritten(pins, error) ==
    IF error < 0 THEN [pins EXCEPT !.r = 0] ELSE [pins EXCEPT !.l = 0]
DrivenPinWritten(pins, error) ==
    IF error < 0 THEN [pins EXCEPT !.l = Duty(error)]
                 ELSE [pins EXCEPT !.r = Duty(error)]

PinValues == [l : 0 .. 255, r : 0 .. 255]

=============================================================================
