----------------------------- MODULE ControlLink -----------------------------
(***************************************************************************)
(* The control link from the operator's stick to the rover's drives: the   *)
(* joystick client (controlstream/joystick-input.c) sends the setpoints in *)
(* a datagram every Period; the bridge (controlstream/rover-stick-ctl.c)   *)
(* turns each datagram into a CAN frame; the rover, here its abstract dead *)
(* man's switch DeadMan, drives while frames keep coming.  Datagrams are   *)
(* delayed, reordered, duplicated and lost; either program may stop and be *)
(* started again.                                                          *)
(***************************************************************************)
EXTENDS Int16, Sequences

CONSTANTS
    Period,     \* interval of the client's timer (100 ms)
    Delay,      \* longest time a datagram that arrives is under way
    Grace,      \* silence after which the rover may stop its drives (200 ms)
    Limit,      \* silence after which it has stopped them
    AxisValues, \* stick deflections SDL may report
    MaxMoves    \* bound on the events of the stick per millisecond

ASSUME LinkAssumption ==
    /\ Period \in Nat \ {0} /\ Delay \in Nat /\ Grace \in Nat /\ Limit \in Nat
    /\ Period + Delay < Grace /\ Grace < Limit
    /\ AxisValues \subseteq Int16s /\ MaxMoves \in Nat

VARIABLES
    running,    \* the client runs
    due,        \* ms until the client's timer fires
    events,     \* SDL's event queue
    stick,      \* <<throttle_position, steering_position>>
    moves,      \* stick events in this millisecond
    air,        \* datagrams under way
    bridge,     \* the bridge runs
    buf,        \* the bridge's receive buffer
    sp,         \* the rover's setpoints
    on, quiet,  \* the rover's dead man's switch
    clientDown, bridgeDown,     \* ghosts: ms since either program last ran
    lost,       \* ghost: a datagram was lost since the last one got through
    smooth      \* ghost: since then nothing was lost and both programs ran

client == <<running, due, events, stick, moves>>
rover == <<sp, on, quiet>>
downs == <<clientDown, bridgeDown>>
vars == <<client, air, bridge, buf, rover, downs, lost, smooth>>

DM == INSTANCE DeadMan

Tick == [type |-> "SDL_USEREVENT"]
QuitEvent == [type |-> "SDL_QUIT"]
Axis(a, v) == [type |-> "SDL_JOYAXISMOTION", axis |-> a, value |-> v]

\* Ghost clocks stop here.
DownCap == Delay + Limit

Init ==
    /\ running = FALSE /\ due = Period /\ events = <<>> /\ stick = <<0, 0>> /\ moves = 0
    /\ air = {} /\ bridge = FALSE /\ buf = <<0, 0, 0, 0>>
    /\ sp = <<0, 0>> /\ DM!DMInit
    /\ clientDown = DownCap /\ bridgeDown = DownCap /\ lost = FALSE /\ smooth = FALSE

-----------------------------------------------------------------------------
(***************************************************************************)
(* The joystick client.                                                    *)
(***************************************************************************)

\* Integer division as C does it, toward zero.
Quotient(a, b) == IF a < 0 THEN -((-a) \div b) ELSE a \div b

\* The two scalings of a deflection.
Throttle(v) == LET t == -Quotient(v, 64) IN IF t > 511 THEN 511 ELSE t
Steering(v) ==
    LET s == Quotient(v, 64) IN Quotient(IF s < -511 THEN -511 ELSE s, 3)

\* send_socketcan(): the datagram.  (Faulty: the setpoints change places.)
FrameSwapped(pos) == <<HighByte(pos[2]), LowByte(pos[2]), HighByte(pos[1]), LowByte(pos[1])>>
Frame(pos) == <<HighByte(pos[1]), LowByte(pos[1]), HighByte(pos[2]), LowByte(pos[2])>>

ClientUnchanged == UNCHANGED <<bridge, buf, rover, downs, lost>>

ClientStarts ==
    /\ ~running /\ running' = TRUE
    /\ due' = Period /\ events' = <<>> /\ stick' = <<0, 0>> /\ moves' = 0
    /\ clientDown' = 0
    /\ UNCHANGED <<air, bridge, buf, rover, bridgeDown, lost, smooth>>

\* SDL or the user makes an event; the stick, a few per millisecond.
StickEvent(a, v) ==
    /\ running /\ moves < MaxMoves
    /\ moves' = moves + 1 /\ events' = Append(events, Axis(a, v))
    /\ ClientUnchanged /\ UNCHANGED <<running, due, stick, air, smooth>>

CloseWindow ==
    /\ running /\ moves < MaxMoves
    /\ moves' = moves + 1 /\ events' = Append(events, QuitEvent)
    /\ ClientUnchanged /\ UNCHANGED <<running, due, stick, air, smooth>>

\* tick_cb() on SDL's timer thread; what it returns is the next interval.
\* (Faulty: it returns nothing to wait for, which cancels the timer.)
NextIntervalNone == -1
NextInterval == Period
TickCb ==
    /\ running /\ due = 0
    /\ events' = Append(events, Tick) /\ due' = NextInterval
    /\ ClientUnchanged /\ UNCHANGED <<running, stick, moves, air, smooth>>

\* One event out of the queue in main(): a tick sends what the variables hold,
\* axis 1 sets the throttle, axis 2 the steering, others nothing.
HandleEvent ==
    /\ running /\ events # <<>>
    /\ LET e == Head(events) IN
       \/ /\ e = Tick
          /\ air' = air \cup {[data |-> Frame(stick), age |-> 0]}
          /\ UNCHANGED <<running, stick, smooth>>
       \/ /\ e = QuitEvent
          /\ running' = FALSE /\ smooth' = FALSE /\ UNCHANGED <<air, stick>>
       \/ /\ e \notin {Tick, QuitEvent}
          /\ stick' = CASE e.axis = 1 -> <<Throttle(e.value), stick[2]>>
                        [] e.axis = 2 -> <<stick[1], Steering(e.value)>>
                        [] OTHER      -> stick
          /\ UNCHANGED <<running, air, smooth>>
    /\ events' = IF running' THEN Tail(events) ELSE <<>>
    /\ ClientUnchanged /\ UNCHANGED <<due, moves>>

-----------------------------------------------------------------------------
(***************************************************************************)
(* The bridge and the network.                                             *)
(***************************************************************************)

\* The guard before a received buffer is used.  (Faulty: an interrupted receive
\* forwards the buffer as the last datagram left it.)
ForwardableAlways(n) == TRUE
Forwardable(n) == n >= 4

\* send_socketcan() of the bridge: the payload of the CAN frame.
CanFrame(throttle, steering) ==
    <<HighByte(throttle), LowByte(throttle), HighByte(steering), LowByte(steering)>>

\* The bridge unpacks the setpoints, packs them into a CAN frame, and the rover
\* unpacks them again.  What write() returns is not looked at: a full transmit
\* queue loses the frame.
Forward(data) ==
    LET throttle == Int16(data[1], data[2])  steering == Int16(data[3], data[4])
        frame == CanFrame(throttle, steering)
    IN \/ /\ sp' = <<Int16(frame[1], frame[2]), Int16(frame[3], frame[4])>>
          /\ DM!Command
          /\ lost' = FALSE /\ smooth' = running
       \/ lost' = TRUE /\ smooth' = FALSE /\ UNCHANGED rover

\* What main() does when recvfrom() returned n.
Incoming(n) ==
    \/ Forwardable(n) /\ Forward(buf')
    \/ ~Forwardable(n) /\ UNCHANGED <<rover, lost, smooth>>

\* A datagram arrives; a copy of it may stay under way.
Receive(d) ==
    /\ bridge /\ d \in air
    /\ air' \in {air, air \ {d}}
    /\ buf' = d.data /\ Incoming(Len(buf'))
    /\ UNCHANGED <<client, bridge, downs>>

\* recvfrom() is interrupted by a signal.
Interrupted ==
    /\ bridge
    /\ buf' = buf /\ Incoming(-1)
    /\ UNCHANGED <<client, air, bridge, downs>>

Lose(d) ==
    /\ d \in air /\ air' = air \ {d}
    /\ lost' = TRUE /\ smooth' = FALSE
    /\ UNCHANGED <<client, bridge, buf, rover, downs>>

\* Any other error of recvfrom() ends the bridge.
BridgeExits ==
    /\ bridge /\ bridge' = FALSE /\ smooth' = FALSE
    /\ UNCHANGED <<client, air, buf, rover, downs, lost>>

BridgeStarts ==
    /\ ~bridge /\ bridge' = TRUE /\ buf' = <<0, 0, 0, 0>> /\ bridgeDown' = 0
    /\ UNCHANGED <<client, air, rover, clientDown, lost, smooth>>

-----------------------------------------------------------------------------
RoverStops == DM!Stop /\ UNCHANGED <<client, air, bridge, buf, sp, downs, lost, smooth>>

Older(clock, cap) == IF clock < cap THEN clock + 1 ELSE clock

\* A millisecond passes.  The client handles what is in its queue and its timer
\* when they are due, and a datagram under way for Delay arrives or is lost.
Millisecond ==
    /\ running => due # 0 /\ events = <<>>
    /\ \A d \in air : d.age < Delay
    /\ DM!Elapse \/ (quiet = Limit /\ UNCHANGED <<on, quiet>>)
    /\ due' = IF running /\ due > 0 THEN due - 1 ELSE due
    /\ moves' = 0
    /\ air' = {[d EXCEPT !.age = @ + 1] : d \in air}
    /\ clientDown' = IF running THEN 0 ELSE Older(clientDown, DownCap)
    /\ bridgeDown' = IF bridge THEN 0 ELSE Older(bridgeDown, DownCap)
    /\ UNCHANGED <<running, events, stick, bridge, buf, sp, lost, smooth>>

Network == \E d \in air : Receive(d) \/ Lose(d)

Next ==
    \/ ClientStarts \/ CloseWindow \/ TickCb \/ HandleEvent
    \/ \E a \in 0 .. 2, v \in AxisValues : StickEvent(a, v)
    \/ Network \/ Interrupted \/ BridgeExits \/ BridgeStarts
    \/ RoverStops \/ Millisecond

Spec == Init /\ [][Next]_vars

\* Both programs, the network, the rover and time keep going.
FairSpec ==
    /\ Spec /\ WF_vars(TickCb) /\ WF_vars(HandleEvent)
    /\ WF_vars(Network) /\ WF_vars(RoverStops) /\ WF_vars(Millisecond)

-----------------------------------------------------------------------------
(***************************************************************************)
(* Properties.                                                             *)
(***************************************************************************)

\* Whoever stops, the operator's client or the bridge on the rover, and
\* whatever is still under way or duplicated then: the drives go off in time.
\* Nothing else than the rover's own timer ends motion, no stop is ever sent.
CutStops ==
    /\ clientDown = DownCap => ~on
    /\ bridgeDown >= Limit => ~on

\* The drives do not cut out under an operator whose datagrams get through:
\* they stop only if one was lost or a program was down since the last setpoint.
\* (A single lost datagram is enough: two periods are the rover's limit.)
NoStopWithoutLoss == [][on /\ ~on' => ~smooth]_vars

\* Reordered and duplicated datagrams do no lasting harm: when the stick rests,
\* the setpoint the rover holds becomes and stays that of the stick.
Deflections == AxisValues \cup {0}
Converges ==
    \A t \in {Throttle(v) : v \in Deflections}, s \in {Steering(v) : v \in Deflections} :
        <>[](running /\ stick = <<t, s>>) /\ []<>(quiet = 0) /\ []<>(quiet > 0)
        => <>[](sp = <<t, s>>)

=============================================================================
