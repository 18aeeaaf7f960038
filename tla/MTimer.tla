------------------------------- MODULE MTimer -------------------------------
(***************************************************************************)
(* The free-running millisecond timer of the rover firmware                *)
(* (arduino/slcan_controller/MTimer.cpp).  A timer object is its _last     *)
(* reading of millis(); millis() is an unsigned counter that wraps at Wrap *)
(* (2^32 on the board).  The subtraction in timedout() is unsigned, so it  *)
(* is written here as what it computes: the distance from _last forward to *)
(* now around the counter's circle.                                        *)
(***************************************************************************)
EXTENDS Integers

CONSTANT Wrap          \* number of values of millis(), 2^32 in the firmware

ASSUME WrapAssumption == Wrap \in Nat \ {0}

\* Readings millis() can return.
Millis == 0 .. (Wrap - 1)

\* millis() one millisecond later.
NextMilli(now) == IF now = Wrap - 1 THEN 0 ELSE now + 1

\* (unsigned)(now - last)
Elapsed(now, last) ==
    IF last <= now THEN now - last ELSE (now + Wrap) - last

\* The test in MTimer::timedout().  (Faulty: comparing against a deadline that
\* may lie beyond the counter's range; firing a millisecond late.)
TimedOutAtDeadline(now, last, ms) == now >= last + ms
TimedOutLate(now, last, ms) == Elapsed(now, last) > ms
TimedOut(now, last, ms) == Elapsed(now, last) >= ms

\* _last after MTimer::timedout(): a timer that fires restarts at the reading
\* it fired at, any other call leaves it alone.  (Faulty: every call restarts it.)
LastAlwaysMoved(now, last, ms) == now
LastAfter(now, last, ms) == IF TimedOut(now, last, ms) THEN now ELSE last

\* _last after MTimer::reset().  (Faulty: the call is missing.)
LastNotReset(now, last) == last
LastReset(now, last) == now

=============================================================================
