-------------------------------- MODULE SLCan --------------------------------
(***************************************************************************)
(* Reception of CAN-over-serial frames by the rover,                       *)
(* arduino/slcan_controller/SLCan.cpp: the UART interrupt puts characters  *)
(* into the serial receive ring and drops them when it is full; input()    *)
(* drains the ring into _rxbuf, one character per pass of its loop, and    *)
(* handle() parses _rxbuf at every carriage return.                        *)
(*                                                                         *)
(* A character is the letter t, CR or a hexadecimal digit.  The base       *)
(* station sends control frames only; frame k is                           *)
(*        t  Id  length  Payloads[k]  CR .                                 *)
(* _rxbuf and the ring hold positions on the wire rather than characters,  *)
(* so that it can be said where the bytes of an accepted frame came from.  *)
(***************************************************************************)
EXTENDS Integers, Sequences, FiniteSets

CONSTANTS
    Id,         \* the CAN identifier of CanRxTab, a sequence of digits ("014")
    CmdLen,     \* data bytes UpdateServoSetpoint insists on (4)
    Payloads,   \* per frame sent, its 2 * CmdLen data digits
    Mtu,        \* SLC_MTU (33): the longest frame fits in _rxbuf
    Ring        \* capacity of the serial receive ring

\* Characters: the hexadecimal digits by value, and two that are none.
Digit == 0 .. 15
T == 16
CR == 17

Overhead == Len(Id) + 3                 \* 't', identifier, length digit, CR
FrameLen == Overhead + 2 * CmdLen
Frames == DOMAIN Payloads

ASSUME SLCanAssumption ==
    /\ Id \in Seq(Digit) /\ Id # <<>>
    /\ CmdLen \in 1 .. 8 /\ Mtu \in Nat /\ FrameLen <= Mtu /\ Ring \in Nat \ {0}
    /\ Payloads \in Seq([1 .. 2 * CmdLen -> Digit])

\* What the base station puts on the wire, character by character.
Positions == 1 .. FrameLen * Len(Payloads)
FrameOf(p) == ((p - 1) \div FrameLen) + 1
IndexIn(p) == (p - 1) % FrameLen
Span(k) == [i \in 1 .. FrameLen |-> (k - 1) * FrameLen + i]
Char(p) ==
    LET i == IndexIn(p) IN
    CASE i = 0                      -> T
      [] i \in 1 .. Len(Id)         -> Id[i]
      [] i = Len(Id) + 1            -> CmdLen
      [] i = FrameLen - 1           -> CR
      [] OTHER                      -> Payloads[FrameOf(p)][i - Len(Id) - 1]

VARIABLES
    wire,       \* characters that have arrived at the UART so far
    ring,       \* the serial receive ring
    rxbuf,      \* _rxbuf[0 .. _rptr)
    calls,      \* ghost: source positions of the frames acted on
    got         \* ghost: positions that entered the ring

canvars == <<wire, ring, rxbuf, calls, got>>

CanInit == wire = 0 /\ ring = <<>> /\ rxbuf = <<>> /\ calls = <<>> /\ got = {}

-----------------------------------------------------------------------------
\* The receive interrupt of the serial port.
Arrive ==
    /\ wire + 1 \in Positions /\ Len(ring) < Ring
    /\ wire' = wire + 1
    /\ ring' = Append(ring, wire')
    /\ got' = got \cup {wire'}
    /\ UNCHANGED <<rxbuf, calls>>

Overrun ==
    /\ wire + 1 \in Positions /\ Len(ring) = Ring
    /\ wire' = wire + 1
    /\ UNCHANGED <<ring, rxbuf, calls, got>>

\* hex_to_dec(): anything that is no digit counts as zero.
HexToDec(c) == IF c \in Digit THEN c ELSE 0

\* The tests of handle() before it calls back, on a line including its CR.
\* (Faulty: accepting a line that is longer than its length digit says.)
Matches(line) ==
    /\ Len(line) >= Overhead
    /\ Char(line[1]) = T
    /\ \A i \in DOMAIN Id : Char(line[1 + i]) = Id[i]
LengthDigit(line) == HexToDec(Char(line[Len(Id) + 2]))
AcceptedUnchecked(line) == Matches(line) /\ Len(line) - Overhead >= 2 * LengthDigit(line)
Accepted(line) == Matches(line) /\ 2 * LengthDigit(line) = Len(line) - Overhead

\* handle(): UpdateServoSetpoint ignores frames of another data length.
Handle(line) ==
    calls' = IF Accepted(line) /\ LengthDigit(line) = CmdLen
             THEN Append(calls, line) ELSE calls

\* A full _rxbuf starts over before the next character is stored.
Room(kept) == IF Len(kept) >= Mtu THEN <<>> ELSE kept

\* _rptr after a line has been handled.  (Faulty: only accepted lines leave.)
AfterLineKept(line) == IF Accepted(line) THEN <<>> ELSE line
AfterLine(line) == <<>>

\* One pass of the while loop in input().
Input ==
    /\ ring # <<>>
    /\ ring' = Tail(ring)
    /\ LET line == Append(Room(rxbuf), Head(ring)) IN
       \/ Char(Head(ring)) = CR /\ Handle(line) /\ rxbuf' = AfterLine(line)
       \/ Char(Head(ring)) # CR /\ rxbuf' = line /\ UNCHANGED calls
    /\ UNCHANGED <<wire, got>>

\* The base station has nothing more to send and the rover nothing to read.
Quiet == wire + 1 \notin Positions /\ ring = <<>> /\ UNCHANGED canvars

CanNext == Arrive \/ Overrun \/ Input \/ Quiet

CanSpec == CanInit /\ [][CanNext]_canvars

-----------------------------------------------------------------------------
(***************************************************************************)
(* Properties.                                                             *)
(***************************************************************************)

\* The characters lost on the way to the line end at p, since the line end
\* received before it.
LostBefore(p) ==
    LET ends == {q \in got : q < p /\ Char(q) = CR} IN
    Cardinality({q \in 1 .. p : (\A e \in ends : e < q) /\ q \notin got})

\* A setpoint the rover acts on was sent as one frame: the remains of several
\* frames pass for one only when at least as many characters as a frame has
\* were lost between two received line ends, wherever they were lost and even
\* when _rxbuf, which no line overruns, has been restarted in the middle of one.
NoSplice ==
    Len(rxbuf) <= Mtu /\ \A c \in DOMAIN calls :
        \/ \E k \in Frames : calls[c] = Span(k)
        \/ LostBefore(calls[c][Len(calls[c])]) >= FrameLen

\* Losses do not outlive the line they happened in: a frame that arrived whole
\* after a received line end has been acted on once its CR has been read,
\* however much was lost before.
EndRead(k) == k * FrameLen \in got /\ \A i \in DOMAIN ring : ring[i] > k * FrameLen
IntactFramesHandled ==
    \A k \in Frames :
        /\ \A i \in 1 .. FrameLen : Span(k)[i] \in got
        /\ k = 1 \/ (k - 1) * FrameLen \in got
        /\ EndRead(k)
        => \E c \in DOMAIN calls : calls[c] = Span(k)

=============================================================================
