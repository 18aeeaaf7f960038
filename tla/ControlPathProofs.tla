------------------------- MODULE ControlPathProofs -------------------------
(***************************************************************************)
(* The path of the operator's commands, for every value of the constants:  *)
(* ControlLink from the stick to the rover's dead man's switch, and SLCan, *)
(* the reception of the CAN frames the setpoints arrive in.                *)
(*                                                                         *)
(* ControlLink.  CutStops and NoStopWithoutLoss for every period, delay,   *)
(* limit and set of stick deflections.  The invariant of CutStops says how *)
(* silent the rover has been in terms of how long a program is down:       *)
(* nothing but a datagram ends the silence, and a datagram under way is at *)
(* least as old as its sender is gone.                                     *)
(*                                                                         *)
(* SLCan.  For every identifier, data length, sequence of frames, ring and *)
(* buffer that a frame fits in, and losses anywhere: what is acted on was  *)
(* sent as a frame unless a frame's worth was lost, and a frame that       *)
(* arrives whole is acted on.  Both follow from what _rxbuf holds:         *)
(* positions of the wire in order, all that was read since some moment, no *)
(* line end among them (BufferOK), and right after a line end what has     *)
(* come of the frame (WholeOK).  A line as long as a frame that begins     *)
(* with a t and ends with a CR is then a frame or stretched over two, and  *)
(* lacks half of them (FrameOrTwo, GapCount).                              *)
(***************************************************************************)
EXTENDS ControlLink, SLCan, FiniteSetTheorems, SequenceTheorems, TLAPS

ClockType ==
    /\ quiet \in 0 .. Limit
    /\ clientDown \in 0 .. DownCap /\ bridgeDown \in 0 .. DownCap
    /\ running \in BOOLEAN /\ bridge \in BOOLEAN /\ on \in BOOLEAN

\* Datagrams are records, and none is under way for longer than Delay.
Datagram(d) == d = [data |-> d.data, age |-> d.age] /\ d.age \in 0 .. Delay
AirType == \A d \in air : Datagram(d)

\* The clock of a program that runs stands at zero.
UpIsZero == (running => clientDown = 0) /\ (bridge => bridgeDown = 0)

OnIsRecent == on => quiet < Limit

\* What a client that is gone has left under way.
LeftOvers == ~running => \A d \in air : d.age >= clientDown

\* The silence of the rover when a program is down.
ClientSilence == ~running => quiet + Delay >= clientDown \/ quiet = Limit
BridgeSilence == ~bridge => quiet >= bridgeDown \/ quiet = Limit

CutInv ==
    /\ ClockType /\ AirType /\ UpIsZero /\ OnIsRecent
    /\ LeftOvers /\ ClientSilence /\ BridgeSilence

-----------------------------------------------------------------------------
LEMMA LimitIsPositive == Limit \in Nat /\ Limit > 0 /\ Delay \in Nat /\ DownCap = Delay + Limit
  BY LinkAssumption DEF LinkAssumption, DownCap

\* The switch's own steps keep on and quiet in step.
LEMMA CommandStep ==
    ASSUME DM!Command
    PROVE  quiet' = 0 /\ on' = TRUE
  BY DEF DM!Command

LEMMA ElapseStep ==
    ASSUME ClockType, OnIsRecent, DM!Elapse \/ (quiet = Limit /\ UNCHANGED <<on, quiet>>)
    PROVE  /\ quiet' \in 0 .. Limit /\ on' = on
           /\ on' => quiet' < Limit
           /\ quiet' = quiet + 1 \/ (quiet' = quiet /\ quiet = Limit)
  BY LimitIsPositive DEF ClockType, OnIsRecent, DM!Elapse

\* A datagram that is received restarts the silence; while the client is down it
\* cannot have been gone for more than Delay.
LEMMA ForwardStep ==
    ASSUME NEW data, Forward(data)
    PROVE  (quiet' = 0 /\ on' = TRUE) \/ UNCHANGED <<on, quiet>>
  BY CommandStep DEF Forward, rover

LEMMA IncomingStep ==
    ASSUME NEW n, Incoming(n)
    PROVE  (quiet' = 0 /\ on' = TRUE) \/ UNCHANGED <<on, quiet>>
  BY ForwardStep DEF Incoming, rover

LEMMA OlderStep ==
    ASSUME NEW cap \in Nat, NEW clock \in 0 .. cap
    PROVE  Older(clock, cap) \in 0 .. cap /\ Older(clock, cap) <= clock + 1
  BY DEF Older

-----------------------------------------------------------------------------
LEMMA CutInit == Init => CutInv
<1> SUFFICES ASSUME Init PROVE CutInv
  OBVIOUS
<1>1. /\ ~running /\ ~bridge /\ air = {} /\ ~on /\ quiet = Limit
      /\ clientDown = DownCap /\ bridgeDown = DownCap
      /\ running \in BOOLEAN /\ bridge \in BOOLEAN /\ on \in BOOLEAN
  BY DEF Init, DM!DMInit
<1>2. ClockType
  BY <1>1, LimitIsPositive DEF ClockType
<1> QED
  BY <1>1, <1>2 DEF CutInv, AirType, UpIsZero, OnIsRecent, LeftOvers, ClientSilence, BridgeSilence

\* Steps that leave the clocks alone and put nothing under way.
LEMMA CutStutter ==
    ASSUME CutInv, air' \subseteq air, running' = running, bridge' = bridge,
           UNCHANGED <<on, quiet, downs>>
    PROVE  CutInv'
  BY DEF CutInv, ClockType, AirType, Datagram, UpIsZero, OnIsRecent,
     LeftOvers, ClientSilence, BridgeSilence, downs

LEMMA CutStep == CutInv /\ [Next]_vars => CutInv'
<1> SUFFICES ASSUME CutInv, [Next]_vars PROVE CutInv'
  OBVIOUS
<1> USE LimitIsPositive
<1>1. CASE ClientStarts
  BY <1>1 DEF ClientStarts, rover, CutInv, ClockType, AirType, Datagram, UpIsZero, OnIsRecent,
     LeftOvers, ClientSilence, BridgeSilence
<1>2. CASE CloseWindow \/ (\E a \in 0 .. 2, v \in AxisValues : StickEvent(a, v)) \/ TickCb
  <2>1. UNCHANGED <<air, running, bridge, on, quiet, downs>>
    BY <1>2 DEF CloseWindow, StickEvent, TickCb, ClientUnchanged, rover
  <2> QED
    BY <2>1, CutStutter
<1>3. CASE HandleEvent
  <2>1. UNCHANGED <<bridge, on, quiet, clientDown, bridgeDown>> /\ running
    BY <1>3 DEF HandleEvent, ClientUnchanged, rover, downs
  <2>2. CASE air' = air \cup {[data |-> Frame(stick), age |-> 0]} /\ running' = running
    <3>1. AirType'
      BY <2>2 DEF CutInv, AirType, Datagram
    <3> QED
      BY <2>1, <2>2, <3>1 DEF CutInv, ClockType, UpIsZero, OnIsRecent,
         LeftOvers, ClientSilence, BridgeSilence
  <2>3. CASE air' = air /\ running' \in BOOLEAN
    BY <2>1, <2>3 DEF CutInv, ClockType, AirType, Datagram, UpIsZero, OnIsRecent,
       LeftOvers, ClientSilence, BridgeSilence
  <2>4. \/ air' = air \cup {[data |-> Frame(stick), age |-> 0]} /\ running' = running
        \/ air' = air /\ running' \in BOOLEAN
    BY <1>3, <2>1 DEF HandleEvent
  <2> QED
    BY <2>2, <2>3, <2>4
<1>4. ASSUME NEW d \in air, Receive(d) PROVE CutInv'
  <2>1. /\ air' \subseteq air /\ bridge
        /\ UNCHANGED <<running, bridge, clientDown, bridgeDown>>
    BY <1>4 DEF Receive, client, downs
  <2>2. (quiet' = 0 /\ on' = TRUE) \/ UNCHANGED <<on, quiet>>
    BY <1>4, IncomingStep DEF Receive
  <2>3. CASE quiet' = 0 /\ on' = TRUE
    <3>1. ~running => clientDown <= Delay
      BY DEF CutInv, ClockType, AirType, Datagram, LeftOvers
    <3> QED
      BY <2>1, <2>3, <3>1 DEF CutInv, ClockType, AirType, Datagram, UpIsZero, OnIsRecent,
         LeftOvers, ClientSilence, BridgeSilence
  <2>4. CASE UNCHANGED <<on, quiet>>
    BY <2>1, <2>4, CutStutter DEF downs
  <2> QED
    BY <2>2, <2>3, <2>4
<1>5. ASSUME NEW d \in air, Lose(d) PROVE CutInv'
  <2>1. air' \subseteq air /\ UNCHANGED <<running, bridge, on, quiet, downs>>
    BY <1>5 DEF Lose, client, rover
  <2> QED
    BY <2>1, CutStutter
<1>6. CASE Interrupted
  <2>1. ~Forwardable(-1)
    BY DEF Forwardable
  <2>2. UNCHANGED <<air, running, bridge, on, quiet, downs>>
    BY <1>6, <2>1 DEF Interrupted, Incoming, client, rover
  <2> QED
    BY <2>2, CutStutter
<1>7. CASE BridgeExits
  <2>1. /\ bridge /\ ~bridge' /\ bridge' \in BOOLEAN
        /\ UNCHANGED <<air, running, on, quiet, clientDown, bridgeDown>>
    BY <1>7 DEF BridgeExits, client, rover, downs
  <2>2. ClockType' /\ BridgeSilence'
    BY <2>1 DEF CutInv, ClockType, UpIsZero, BridgeSilence
  <2> QED
    BY <2>1, <2>2 DEF CutInv, AirType, Datagram, UpIsZero, OnIsRecent, LeftOvers, ClientSilence
<1>8. CASE BridgeStarts
  BY <1>8 DEF BridgeStarts, client, rover, CutInv, ClockType, AirType, Datagram,
     UpIsZero, OnIsRecent, LeftOvers, ClientSilence, BridgeSilence
<1>9. CASE RoverStops
  BY <1>9 DEF RoverStops, DM!Stop, client, downs, CutInv, ClockType, AirType, Datagram,
     UpIsZero, OnIsRecent, LeftOvers, ClientSilence, BridgeSilence
<1>10. CASE Millisecond
  <2>1. /\ quiet' \in 0 .. Limit /\ on' = on
        /\ on' => quiet' < Limit
        /\ quiet' = quiet + 1 \/ (quiet' = quiet /\ quiet = Limit)
    BY <1>10, ElapseStep DEF Millisecond, CutInv
  <2>2. /\ UNCHANGED <<running, bridge>>
        /\ clientDown' = IF running THEN 0 ELSE Older(clientDown, DownCap)
        /\ bridgeDown' = IF bridge THEN 0 ELSE Older(bridgeDown, DownCap)
    BY <1>10 DEF Millisecond
  <2>3. /\ clientDown' \in 0 .. DownCap /\ bridgeDown' \in 0 .. DownCap
        /\ clientDown' <= clientDown + 1 /\ bridgeDown' <= bridgeDown + 1
    <3>1. DownCap \in Nat
      OBVIOUS
    <3>2. clientDown \in 0 .. DownCap /\ bridgeDown \in 0 .. DownCap
      BY DEF CutInv, ClockType
    <3>3. /\ Older(clientDown, DownCap) \in 0 .. DownCap
          /\ Older(clientDown, DownCap) <= clientDown + 1
          /\ Older(bridgeDown, DownCap) \in 0 .. DownCap
          /\ Older(bridgeDown, DownCap) <= bridgeDown + 1
      BY <3>1, <3>2, OlderStep
    <3> QED
      BY <2>2, <3>1, <3>2, <3>3
  <2>4. \A e \in air' : \E d \in air : e = [data |-> d.data, age |-> d.age + 1] /\ d.age < Delay
    BY <1>10 DEF Millisecond, CutInv, AirType, Datagram
  <2>5. AirType'
    BY <2>4 DEF CutInv, AirType, Datagram
  <2>6. LeftOvers'
    BY <2>2, <2>3, <2>4 DEF CutInv, ClockType, LeftOvers, AirType, Datagram
  <2>7. ClockType' /\ UpIsZero' /\ OnIsRecent'
    BY <2>1, <2>2, <2>3 DEF CutInv, ClockType, UpIsZero, OnIsRecent
  <2>8. ClientSilence' /\ BridgeSilence'
    BY <2>1, <2>2, <2>3 DEF CutInv, ClockType, ClientSilence, BridgeSilence
  <2> QED
    BY <2>5, <2>6, <2>7, <2>8 DEF CutInv
<1>11. CASE UNCHANGED vars
  <2>1. UNCHANGED <<air, running, bridge, on, quiet, downs>>
    BY <1>11 DEF vars, client, rover
  <2> QED
    BY <2>1, CutStutter
<1> QED
  BY <1>1, <1>2, <1>3, <1>4, <1>5, <1>6, <1>7, <1>8, <1>9, <1>10, <1>11 DEF Next, Network

LEMMA CutEnough == CutInv => CutStops
  BY LimitIsPositive DEF CutInv, ClockType, UpIsZero, OnIsRecent, ClientSilence, BridgeSilence, CutStops

\* The drives go off within the rover's limit of the bridge stopping, and within
\* the network's delay more of the client stopping, whatever is under way.
THEOREM CutStopsAlways == Spec => []CutStops
<1>1. Init => CutInv
  BY CutInit
<1>2. CutInv /\ [Next]_vars => CutInv'
  BY CutStep
<1>3. CutInv => CutStops
  BY CutEnough
<1> QED
  BY <1>1, <1>2, <1>3, PTL DEF Spec

-----------------------------------------------------------------------------
(***************************************************************************)
(* NoStopWithoutLoss.  While all goes smoothly the next setpoint is already *)
(* under way: the timer is going to make it, its tick is in the queue, or   *)
(* its datagram is in the air, and in each of these places it is early      *)
(* enough for a silence of at most Period + Delay.                          *)
(***************************************************************************)
Event == {Tick, QuitEvent} \cup {Axis(a, v) : a \in 0 .. 2, v \in AxisValues}

QueueType == events \in Seq(Event) /\ due \in 0 .. Period
WholeDatagrams == \A d \in air : Len(d.data) = 4

InTimer == quiet + due <= Period
InQueue == quiet <= Period /\ \E i \in 1 .. Len(events) : events[i] = Tick
InAir == \E d \in air : quiet <= Period + d.age

NextIsComing == smooth => running /\ bridge /\ (InTimer \/ InQueue \/ InAir)

SmoothInv == QueueType /\ WholeDatagrams /\ NextIsComing

LEMMA EventTypes ==
    /\ Tick \in Event /\ QuitEvent \in Event
    /\ \A a \in 0 .. 2, v \in AxisValues : Axis(a, v) \in Event
  BY DEF Event

LEMMA LinkTimes == Period \in Nat /\ Delay \in Nat /\ Grace \in Nat /\ Period + Delay < Grace
  BY LinkAssumption DEF LinkAssumption

LEMMA SmoothInit == Init => SmoothInv
<1> SUFFICES ASSUME Init PROVE SmoothInv
  OBVIOUS
<1>1. events = <<>> /\ due = Period /\ air = {} /\ smooth = FALSE
  BY DEF Init
<1> QED
  BY <1>1, LinkTimes DEF SmoothInv, QueueType, WholeDatagrams, NextIsComing

\* The switch is only told to stop after Grace, and no setpoint takes that long.
LEMMA SmoothIsFed ==
    ASSUME CutInv, SmoothInv, smooth
    PROVE  quiet < Grace
<1>1. \A d \in air : d.age \in 0 .. Delay
  BY DEF CutInv, AirType, Datagram
<1> QED
  BY <1>1, LinkTimes DEF CutInv, ClockType, SmoothInv, QueueType, NextIsComing, InTimer, InQueue, InAir

LEMMA SmoothForward ==
    ASSUME NEW data, Forward(data)
    PROVE  (quiet' = 0 /\ smooth' = running) \/ smooth' = FALSE
  BY CommandStep DEF Forward

\* Steps that touch neither the client's queue and timer nor the datagrams.
LEMMA SmoothStutter ==
    ASSUME SmoothInv, UNCHANGED <<events, due, air, running, bridge, quiet>>, smooth' => smooth
    PROVE  SmoothInv'
  BY DEF SmoothInv, QueueType, WholeDatagrams, NextIsComing, InTimer, InQueue, InAir

\* What joins the queue joins it at its end.
LEMMA QueueStep ==
    ASSUME QueueType, NEW e \in Event, events' = Append(events, e)
    PROVE  /\ events' \in Seq(Event)
           /\ (\E i \in 1 .. Len(events) : events[i] = Tick) => \E i \in 1 .. Len(events') : events'[i] = Tick
           /\ e = Tick => \E i \in 1 .. Len(events') : events'[i] = Tick
<1>1. /\ events' \in Seq(Event) /\ Len(events') = Len(events) + 1 /\ Len(events) \in Nat
      /\ events'[Len(events) + 1] = e
      /\ \A i \in 1 .. Len(events) : events'[i] = events[i]
  BY DEF QueueType
<1>2. Len(events) + 1 \in 1 .. Len(events') /\ \A i \in 1 .. Len(events) : i \in 1 .. Len(events')
  BY <1>1
<1> QED
  BY <1>1, <1>2

\* And what leaves it leaves the rest in order.
LEMMA HeadStep ==
    ASSUME QueueType, events # <<>>
    PROVE  /\ Tail(events) \in Seq(Event)
           /\ \A i \in 1 .. Len(events) : events[i] = Tick =>
                  Head(events) = Tick \/ \E k \in 1 .. Len(Tail(events)) : Tail(events)[k] = Tick
<1>1. /\ Tail(events) \in Seq(Event) /\ Len(Tail(events)) = Len(events) - 1
      /\ \A k \in 1 .. Len(events) - 1 : Tail(events)[k] = events[k + 1]
      /\ Head(events) = events[1] /\ Len(events) \in Nat
  BY DEF QueueType
<1>2. ASSUME NEW i \in 1 .. Len(events), events[i] = Tick, i # 1
      PROVE  i - 1 \in 1 .. Len(Tail(events)) /\ Tail(events)[i - 1] = Tick
  BY <1>1, <1>2
<1> QED
  BY <1>1, <1>2

LEMMA SmoothStep == CutInv /\ SmoothInv /\ [Next]_vars => SmoothInv'
<1> SUFFICES ASSUME CutInv, SmoothInv, [Next]_vars PROVE SmoothInv'
  OBVIOUS
<1> USE LinkTimes
<1>0. QueueType /\ quiet \in Nat
  BY LimitIsPositive DEF SmoothInv, CutInv, ClockType
<1>1. CASE ClientStarts
  <2>1. /\ ~running /\ due' = Period /\ events' = <<>> /\ air' = air /\ smooth' = smooth
    BY <1>1 DEF ClientStarts
  <2> QED
    BY <2>1 DEF SmoothInv, QueueType, WholeDatagrams, NextIsComing
<1>2. ASSUME NEW e \in Event, events' = Append(events, e),
             UNCHANGED <<due, air, running, bridge, quiet, smooth>>
      PROVE  SmoothInv'
  <2>1. QueueType' /\ (InQueue => InQueue') /\ (InTimer => InTimer') /\ (InAir => InAir')
    BY <1>0, <1>2, QueueStep DEF QueueType, InQueue, InTimer, InAir
  <2> QED
    BY <1>2, <2>1 DEF SmoothInv, WholeDatagrams, NextIsComing
<1>3. CASE CloseWindow \/ (\E a \in 0 .. 2, v \in AxisValues : StickEvent(a, v))
  <2>1. /\ UNCHANGED <<due, air, running, bridge, quiet, smooth>>
        /\ \E e \in Event : events' = Append(events, e)
    BY <1>3, EventTypes DEF CloseWindow, StickEvent, ClientUnchanged, rover
  <2> QED
    BY <1>2, <2>1
<1>4. CASE TickCb
  <2>1. /\ due = 0 /\ due' = Period /\ events' = Append(events, Tick)
        /\ UNCHANGED <<air, running, bridge, quiet, smooth>>
    BY <1>4 DEF TickCb, NextInterval, ClientUnchanged, rover
  <2>2. /\ QueueType' /\ \E i \in 1 .. Len(events') : events'[i] = Tick
    BY <1>0, <2>1, QueueStep, EventTypes DEF QueueType
  <2>3. (InTimer \/ InQueue => InQueue') /\ (InAir => InAir')
    BY <1>0, <2>1, <2>2 DEF InTimer, InQueue, InAir
  <2> QED
    BY <2>1, <2>2, <2>3 DEF SmoothInv, WholeDatagrams, NextIsComing
<1>5. CASE HandleEvent
  <2>1. /\ running /\ events # <<>> /\ events' = IF running' THEN Tail(events) ELSE <<>>
        /\ UNCHANGED <<due, bridge, quiet>>
    BY <1>5 DEF HandleEvent, ClientUnchanged, rover
  <2>2. Tail(events) \in Seq(Event) /\ <<>> \in Seq(Event)
    BY <1>0, <2>1, HeadStep
  <2>3. QueueType'
    BY <2>1, <2>2, <1>0 DEF QueueType
  <2>4. CASE /\ Head(events) = Tick /\ air' = air \cup {[data |-> Frame(stick), age |-> 0]}
             /\ UNCHANGED <<running, smooth>>
    <3>1. WholeDatagrams'
      BY <2>4 DEF SmoothInv, WholeDatagrams, Frame
    <3>2. InTimer => InTimer'
      BY <2>1 DEF InTimer
    <3>3. InQueue => InAir'
      <4>1. PICK d \in air' : d = [data |-> Frame(stick), age |-> 0]
        BY <2>4
      <4>2. d.age = 0
        BY <4>1
      <4> QED
        BY <1>0, <2>1, <4>2 DEF InQueue, InAir
    <3>4. InAir => InAir'
      BY <2>1, <2>4 DEF InAir
    <3> QED
      BY <2>1, <2>3, <2>4, <3>1, <3>2, <3>3, <3>4 DEF SmoothInv, NextIsComing
  <2>5. CASE Head(events) # Tick /\ UNCHANGED <<running, air, smooth>>
    <3>1. InQueue => InQueue'
      BY <1>0, <2>1, <2>5, HeadStep DEF InQueue
    <3>2. (InTimer => InTimer') /\ (InAir => InAir')
      BY <2>1, <2>5 DEF InTimer, InAir
    <3> QED
      BY <2>1, <2>3, <2>5, <3>1, <3>2 DEF SmoothInv, WholeDatagrams, NextIsComing
  <2>6. CASE smooth' = FALSE /\ air' = air
    BY <2>3, <2>6 DEF SmoothInv, WholeDatagrams, NextIsComing
  <2> QED
    BY <1>5, <2>4, <2>5, <2>6 DEF HandleEvent
<1>6. ASSUME NEW d \in air, Receive(d) PROVE SmoothInv'
  <2>1. /\ air' \subseteq air /\ bridge /\ buf' = d.data /\ Len(buf') = 4 /\ Incoming(Len(buf'))
        /\ UNCHANGED <<running, bridge, due, events>>
    BY <1>6 DEF Receive, client, SmoothInv, WholeDatagrams
  <2>2. \/ quiet' = 0 /\ smooth' = running
        \/ smooth' = FALSE
    <3>1. Forwardable(Len(buf'))
      BY <2>1 DEF Forwardable
    <3> QED
      BY <2>1, <3>1, SmoothForward DEF Incoming
  <2>3. QueueType' /\ WholeDatagrams'
    BY <2>1 DEF SmoothInv, QueueType, WholeDatagrams
  <2>4. quiet' = 0 => InTimer'
    BY <1>0, <2>1 DEF QueueType, InTimer
  <2> QED
    BY <2>1, <2>2, <2>3, <2>4 DEF SmoothInv, NextIsComing
<1>7. ASSUME NEW d \in air, Lose(d) PROVE SmoothInv'
  BY <1>7 DEF Lose, client, SmoothInv, QueueType, WholeDatagrams, NextIsComing
<1>8. CASE Interrupted
  <2>1. ~Forwardable(-1)
    BY DEF Forwardable
  <2> QED
    BY <1>8, <2>1, SmoothStutter DEF Interrupted, Incoming, client, rover
<1>9. CASE BridgeExits
  BY <1>9 DEF BridgeExits, client, SmoothInv, QueueType, WholeDatagrams, NextIsComing
<1>10. CASE BridgeStarts
  <2>1. ~bridge /\ UNCHANGED <<events, due, air, smooth>>
    BY <1>10 DEF BridgeStarts, client
  <2> QED
    BY <2>1 DEF SmoothInv, QueueType, WholeDatagrams, NextIsComing
<1>11. CASE RoverStops
  BY <1>11, SmoothStutter DEF RoverStops, DM!Stop, client
<1>12. CASE Millisecond
  <2>1. /\ running => due # 0 /\ events = <<>>
        /\ due' = IF running /\ due > 0 THEN due - 1 ELSE due
        /\ air' = {[d EXCEPT !.age = @ + 1] : d \in air}
        /\ UNCHANGED <<running, events, bridge, smooth>>
    BY <1>12 DEF Millisecond
  <2>2. quiet' <= quiet + 1 /\ quiet' \in Nat
    BY <1>12, ElapseStep, LimitIsPositive DEF Millisecond, CutInv, ClockType
  <2>3. QueueType'
    BY <1>0, <2>1 DEF QueueType
  <2>4. /\ \A e \in air' : \E d \in air : e = [data |-> d.data, age |-> d.age + 1]
        /\ \A d \in air : [data |-> d.data, age |-> d.age + 1] \in air' /\ d.age \in Nat
    BY <2>1 DEF CutInv, AirType, Datagram
  <2>5. WholeDatagrams'
    <3>1. ASSUME NEW e \in air' PROVE Len(e.data) = 4
      <4>1. PICK d \in air : e = [data |-> d.data, age |-> d.age + 1]
        BY <2>4
      <4> QED
        BY <4>1 DEF SmoothInv, WholeDatagrams
    <3> QED
      BY <3>1 DEF WholeDatagrams
  <2>6. running /\ InTimer => InTimer'
    BY <1>0, <2>1, <2>2 DEF InTimer, QueueType
  <2>7. running => ~InQueue
    BY <2>1 DEF InQueue
  <2>8. InAir => InAir'
    <3>1. ASSUME NEW d \in air, quiet <= Period + d.age PROVE InAir'
      <4>1. PICK e \in air' : e = [data |-> d.data, age |-> d.age + 1]
        BY <2>4
      <4>2. e.age = d.age + 1 /\ d.age \in Nat
        BY <2>4, <4>1
      <4> QED
        BY <1>0, <2>2, <3>1, <4>2 DEF InAir
    <3> QED
      BY <3>1 DEF InAir
  <2> QED
    BY <2>1, <2>3, <2>5, <2>6, <2>7, <2>8 DEF SmoothInv, NextIsComing
<1>13. CASE UNCHANGED vars
  BY <1>13, SmoothStutter DEF vars, client, rover
<1> QED
  BY <1>1, <1>3, <1>4, <1>5, <1>6, <1>7, <1>8, <1>9, <1>10, <1>11, <1>12, <1>13 DEF Next, Network

\* While no datagram is lost and both programs run, the rover's timer never cuts
\* its drives: for every period and delay that together fit into its grace.
THEOREM NoStopWithoutLossAlways == Spec => NoStopWithoutLoss
<1>1. CutInv /\ SmoothInv /\ [Next]_vars => [on /\ ~on' => ~smooth]_vars
  <2> SUFFICES ASSUME CutInv, SmoothInv, Next, on, ~on', smooth PROVE FALSE
    OBVIOUS
  <2>1. CASE RoverStops
    BY <2>1, SmoothIsFed, LinkTimes DEF RoverStops, DM!Stop, CutInv, ClockType
  <2>2. CASE Millisecond
    BY <2>2, ElapseStep DEF Millisecond, CutInv
  <2>3. ASSUME NEW d \in air, Receive(d) \/ Lose(d) PROVE FALSE
    BY <2>3, IncomingStep DEF Receive, Lose, rover
  <2>4. ~Forwardable(-1)
    BY DEF Forwardable
  <2>5. CASE Interrupted \/ BridgeExits \/ BridgeStarts
    BY <2>4, <2>5 DEF Interrupted, Incoming, BridgeExits, BridgeStarts, rover
  <2>6. CASE ClientStarts \/ CloseWindow \/ TickCb \/ HandleEvent
    BY <2>6 DEF ClientStarts, CloseWindow, TickCb, HandleEvent, ClientUnchanged, rover
  <2>7. ASSUME NEW a \in 0 .. 2, NEW v \in AxisValues, StickEvent(a, v) PROVE FALSE
    BY <2>7 DEF StickEvent, ClientUnchanged, rover
  <2> QED
    BY <2>1, <2>2, <2>3, <2>5, <2>6, <2>7 DEF Next, Network
<1> QED
  BY <1>1, CutInit, CutStep, SmoothInit, SmoothStep, PTL DEF Spec, NoStopWithoutLoss

-----------------------------------------------------------------------------
(***************************************************************************)
(* SLCan.                                                                  *)
(***************************************************************************)

-----------------------------------------------------------------------------
\* The wire as frames of equal length.

\* Division by the length of a frame.
LEMMA Division ==
    ASSUME NEW b \in Nat \ {0}, NEW a \in Nat
    PROVE  a \div b \in Nat /\ a % b \in 0 .. b - 1 /\ a = b * (a \div b) + (a % b)
<1>1. a \div b \in Int /\ a % b \in 0 .. b - 1 /\ a = b * (a \div b) + (a % b)
  BY SMTT(30)
<1> DEFINE q == a \div b
<1>2. a = b * q + (a % b) /\ q \in Int
  BY <1>1
<1> HIDE DEF q
<1>3. q <= -1 => b * q <= -b
  BY <1>2
<1>4. q >= 0
  BY <1>1, <1>2, <1>3
<1> QED BY <1>1, <1>2, <1>4 DEF q

LEMMA DivisionUnique ==
    ASSUME NEW b \in Nat \ {0}, NEW q \in Nat, NEW r \in 0 .. b - 1, NEW a, a = b * q + r
    PROVE  a \in Nat /\ a \div b = q /\ a % b = r
<1>1. a \in Nat
  <2>1. b * q \in Nat
    OBVIOUS
  <2> QED BY <2>1
<1> DEFINE p == a \div b
           s == a % b
           d == p - q
<1>2. p \in Nat /\ s \in 0 .. b - 1 /\ a = b * p + s
  BY <1>1, Division
<1> HIDE DEF p, s
<1>3. d \in Int /\ b * d = r - s
  BY <1>2
<1> HIDE DEF d
<1>4. d >= 1 => b * d >= b
  BY <1>3
<1>5. d <= -1 => b * d <= -b
  BY <1>3
<1>6. d = 0
  BY <1>2, <1>3, <1>4, <1>5
<1>7. p = q
  BY <1>2, <1>6 DEF d
<1>8. s = r
  BY <1>2, <1>3, <1>6
<1> QED BY <1>1, <1>7, <1>8 DEF p, s

LEMMA Lengths ==
    /\ Len(Id) \in Nat \ {0} /\ DOMAIN Id = 1 .. Len(Id) /\ \A i \in 1 .. Len(Id) : Id[i] \in Digit
    /\ Overhead \in Nat /\ Overhead = Len(Id) + 3
    /\ FrameLen \in Nat \ {0} /\ FrameLen = Overhead + 2 * CmdLen
    /\ CmdLen \in 1 .. 8 /\ Mtu \in Nat /\ FrameLen <= Mtu
    /\ Len(Payloads) \in Nat /\ Frames = 1 .. Len(Payloads)
    /\ \A k \in Frames : \A i \in 1 .. 2 * CmdLen : Payloads[k][i] \in Digit
<1>1. Len(Id) \in Nat \ {0} /\ DOMAIN Id = 1 .. Len(Id) /\ \A i \in 1 .. Len(Id) : Id[i] \in Digit
  BY SLCanAssumption, EmptySeq, LenProperties
<1>2. Len(Payloads) \in Nat /\ Frames = 1 .. Len(Payloads)
  BY SLCanAssumption, LenProperties DEF Frames
<1>3. \A k \in Frames : Payloads[k] \in [1 .. 2 * CmdLen -> Digit]
  BY SLCanAssumption, <1>2, ElementOfSeq
<1> QED BY <1>1, <1>2, <1>3, SLCanAssumption DEF Overhead, FrameLen

\* Where frame k begins, less one.
Start(k) == (k - 1) * FrameLen

LEMMA StartFacts ==
    ASSUME NEW k \in Frames
    PROVE  /\ Start(k) \in Nat /\ k * FrameLen = Start(k) + FrameLen
           /\ Start(k) + FrameLen <= FrameLen * Len(Payloads)
           /\ k = 1 <=> Start(k) = 0
           /\ \A j \in Frames : j < k => Start(j) + FrameLen <= Start(k)
<1>1. k \in Nat /\ k >= 1 /\ k <= Len(Payloads) /\ FrameLen \in Nat \ {0} /\ Len(Payloads) \in Nat
  BY Lengths
<1> DEFINE F == FrameLen
           m == k - 1
           L == Len(Payloads)
           e == L - k
<1>2. m \in Nat /\ F \in Nat /\ F >= 1 /\ L \in Nat /\ k = m + 1 /\ L = m + 1 + e /\ e \in Nat
  BY <1>1
<1>3. Start(k) = m * F /\ k * FrameLen = k * F /\ FrameLen * Len(Payloads) = F * L
  BY DEF Start
<1>4. \A j \in Frames : j \in Nat /\ j >= 1 /\ Start(j) = (j - 1) * F
  BY Lengths DEF Start
<1> HIDE DEF F, m, L, e
<1>5. m * F \in Nat /\ e * F \in Nat /\ k * F = m * F + F
  BY <1>2
<1>6. F * L = m * F + F + e * F
  BY <1>2
<1>7. m * F = 0 <=> m = 0
  <2>1. m >= 1 => m * F >= F
    BY <1>2
  <2> QED BY <1>2, <2>1
<1>8. \A j \in Frames : j < k => Start(j) + F <= m * F
  <2> TAKE j \in Frames
  <2> DEFINE d == k - 1 - j
             i == j - 1
  <2> HAVE j < k
  <2>1. d \in Nat /\ i \in Nat /\ m = i + 1 + d /\ Start(j) = i * F
    BY <1>1, <1>2, <1>4
  <2> HIDE DEF d, i
  <2>2. m * F = i * F + F + d * F /\ d * F \in Nat /\ i * F \in Nat
    BY <1>2, <2>1
  <2> QED BY <2>1, <2>2, <1>2
<1>9. k = 1 <=> m = 0
  BY <1>2
<1> QED BY <1>2, <1>3, <1>5, <1>6, <1>7, <1>8, <1>9 DEF F

\* Every position is the i-th of one frame.
LEMMA PositionOf ==
    ASSUME NEW p \in Positions
    PROVE  /\ p \in Nat /\ FrameOf(p) \in Frames /\ IndexIn(p) \in 0 .. FrameLen - 1
           /\ p = Start(FrameOf(p)) + IndexIn(p) + 1
<1> DEFINE F == FrameLen
           a == p - 1
           L == Len(Payloads)
<1>1. F \in Nat \ {0} /\ L \in Nat /\ Frames = 1 .. L
  BY Lengths
<1>2. a \in Nat /\ p = a + 1 /\ a < F * L
  <2>1. F * L \in Nat
    BY <1>1
  <2> QED BY <2>1 DEF Positions
<1> DEFINE q == a \div F
           r == a % F
<1>3. FrameOf(p) = q + 1 /\ IndexIn(p) = r
  BY DEF FrameOf, IndexIn
<1> HIDE DEF F, L, a
<1>4. q \in Nat /\ r \in 0 .. F - 1 /\ a = F * q + r
  BY <1>1, <1>2, Division
<1> HIDE DEF q, r
<1>5. q < L
  <2> DEFINE d == q - L
  <2>1. d \in Int /\ q = L + d
    BY <1>1, <1>4
  <2> HIDE DEF d
  <2>2. F * q = F * L + F * d /\ (d >= 0 => F * d >= 0)
    BY <1>1, <1>4, <2>1
  <2>3. d < 0
    BY <1>1, <1>2, <1>4, <2>1, <2>2
  <2> QED BY <1>1, <2>1, <2>3
<1>6. q + 1 \in Frames /\ Start(q + 1) = F * q
  BY <1>1, <1>4, <1>5 DEF Start, F
<1> QED BY <1>2, <1>3, <1>4, <1>6 DEF F

LEMMA SpanPositions ==
    ASSUME NEW k \in Frames, NEW i \in 0 .. FrameLen - 1
    PROVE  LET p == Start(k) + i + 1 IN
           p \in Positions /\ FrameOf(p) = k /\ IndexIn(p) = i
<1> DEFINE p == Start(k) + i + 1
           F == FrameLen
<1>1. F \in Nat \ {0} /\ k \in Nat /\ k - 1 \in Nat /\ i \in 0 .. F - 1
  BY Lengths
<1>2. p \in Nat /\ p >= 1 /\ p <= F * Len(Payloads)
  BY StartFacts, <1>1
<1>3. p - 1 = F * (k - 1) + i
  BY <1>1 DEF Start
<1> DEFINE a == p - 1
           q == k - 1
<1>a. F \in Nat \ {0} /\ q \in Nat /\ i \in 0 .. F - 1 /\ a = F * q + i
  BY <1>1, <1>3
<1> HIDE DEF p, a, q, F
<1>b. a \div F = q /\ a % F = i
  BY <1>a, DivisionUnique
<1>4. (p - 1) \div F = k - 1 /\ (p - 1) % F = i
  BY <1>b DEF a, q
<1>5. p \in Positions
  BY <1>2, <1>1, Lengths DEF Positions, F
<1>6. FrameOf(p) = k /\ IndexIn(p) = i
  BY <1>4, <1>1 DEF FrameOf, IndexIn, F
<1> QED BY <1>5, <1>6 DEF p

\* The first character of a frame is its only t, the last its only CR.
LEMMA Characters ==
    ASSUME NEW p \in Positions
    PROVE  /\ Char(p) = T <=> IndexIn(p) = 0
           /\ Char(p) = CR <=> IndexIn(p) = FrameLen - 1
           /\ IndexIn(p) \in 1 .. Len(Id) => Char(p) = Id[IndexIn(p)]
           /\ IndexIn(p) = Len(Id) + 1 => Char(p) = CmdLen
<1> DEFINE i == IndexIn(p)
           d == Payloads[FrameOf(p)][i - Len(Id) - 1]
<1>1. i \in 0 .. FrameLen - 1 /\ FrameOf(p) \in Frames
  BY PositionOf
<1>2. /\ Len(Id) \in Nat \ {0} /\ FrameLen = Len(Id) + 3 + 2 * CmdLen /\ CmdLen \in 1 .. 8
      /\ \A j \in 1 .. Len(Id) : Id[j] \in 0 .. 15
  BY Lengths DEF Digit
<1>3. i > Len(Id) + 1 /\ i < FrameLen - 1 => d \in 0 .. 15
  <2> HAVE i > Len(Id) + 1 /\ i < FrameLen - 1
  <2>1. i - Len(Id) - 1 \in 1 .. 2 * CmdLen
    BY <1>1, <1>2
  <2> QED BY <1>1, <2>1, Lengths DEF Digit
<1>4. Char(p) = CASE i = 0                 -> T
                  [] i \in 1 .. Len(Id)    -> Id[i]
                  [] i = Len(Id) + 1       -> CmdLen
                  [] i = FrameLen - 1      -> CR
                  [] OTHER                 -> d
  BY DEF Char
<1> HIDE DEF i, d
<1>5. i = 0 => Char(p) = 16
  BY <1>4, <1>2 DEF T
<1>6. i \in 1 .. Len(Id) => Char(p) = Id[i]
  BY <1>4, <1>2
<1>7. i = Len(Id) + 1 => Char(p) = CmdLen
  BY <1>4, <1>2
<1>8. i = FrameLen - 1 => Char(p) = 17
  BY <1>4, <1>2 DEF CR
<1>9. i > Len(Id) + 1 /\ i < FrameLen - 1 => Char(p) = d
  BY <1>4, <1>2, <1>1
<1>11. i # 0 /\ i # FrameLen - 1 => Char(p) < 16 /\ Char(p) \in Int
  <2>1. CASE i \in 1 .. Len(Id)
    <3>1. Id[i] \in 0 .. 15
      BY <2>1, <1>2
    <3> QED BY <3>1, <2>1, <1>6
  <2>2. CASE i = Len(Id) + 1
    BY <2>2, <1>7, <1>2
  <2>3. CASE i > Len(Id) + 1
    BY <2>3, <1>9, <1>3, <1>1, <1>2
  <2> QED BY <2>1, <2>2, <2>3, <1>1, <1>2
<1>12. FrameLen - 1 # 0
  BY <1>2
<1>13. (Char(p) = 16 <=> i = 0) /\ (Char(p) = 17 <=> i = FrameLen - 1)
  BY <1>5, <1>8, <1>11, <1>12
<1> QED BY <1>6, <1>7, <1>13 DEF i, T, CR

-----------------------------------------------------------------------------
\* Sequences of positions in the order of the wire.

In(s) == {s[i] : i \in 1 .. Len(s)}
Rising(s) == \A i, j \in 1 .. Len(s) : i <= j => s[j] - s[i] >= j - i

\* What is in a line or a ring: positions in order, each once.
Ordered(s) == s \in Seq(Positions) /\ Rising(s)

LEMMA OrderedFacts ==
    ASSUME NEW s, Ordered(s)
    PROVE  /\ Len(s) \in Nat /\ s \in [1 .. Len(s) -> Positions] /\ In(s) \subseteq Positions
           /\ \A i \in 1 .. Len(s) : s[i] \in Positions /\ s[i] \in Nat
<1>1. Len(s) \in Nat /\ s \in [1 .. Len(s) -> Positions]
  BY LenProperties DEF Ordered
<1>2. Positions \subseteq Nat
  BY PositionOf
<1> QED BY <1>1, <1>2 DEF In

LEMMA OrderedEmpty == Ordered(<<>>) /\ In(<<>>) = {} /\ Len(<<>>) = 0
<1>1. <<>> \in Seq(Positions) /\ Len(<<>>) = 0
  BY EmptySeq
<1> QED BY <1>1 DEF Ordered, Rising, In

LEMMA OrderedAppend ==
    ASSUME NEW s, Ordered(s), NEW p \in Positions, \A q \in In(s) : q < p
    PROVE  LET t == Append(s, p) IN
           /\ Ordered(t) /\ In(t) = In(s) \cup {p}
           /\ Len(t) = Len(s) + 1 /\ t[Len(t)] = p /\ \A i \in 1 .. Len(s) : t[i] = s[i]
<1> DEFINE t == Append(s, p)
           n == Len(s)
<1>1. n \in Nat /\ p \in Nat /\ \A i \in 1 .. n : s[i] \in Nat /\ s[i] \in In(s)
  BY OrderedFacts, PositionOf DEF In
<1>2. /\ t \in Seq(Positions) /\ Len(t) = n + 1 /\ t[n + 1] = p
      /\ \A i \in 1 .. n : t[i] = s[i]
  BY AppendProperties DEF Ordered
<1> HIDE DEF t
<1>3. In(t) = In(s) \cup {p}
  <2>1. 1 .. n + 1 = (1 .. n) \cup {n + 1}
    BY <1>1
  <2>2. In(t) \subseteq In(s) \cup {p}
    BY <1>2, <2>1 DEF In
  <2>3. In(s) \cup {p} \subseteq In(t)
    BY <1>2, <2>1 DEF In
  <2> QED BY <2>2, <2>3
<1>4. \A i \in 1 .. n : s[n] - s[i] >= n - i
  BY <1>1 DEF Ordered, Rising
<1>5. \A i \in 1 .. n : p - s[i] >= n + 1 - i
  <2> TAKE i \in 1 .. n
  <2>1. n \in 1 .. n
    BY <1>1
  <2>2. s[n] < p /\ s[n] \in Nat /\ s[i] \in Nat
    BY <1>1, <2>1
  <2> QED BY <1>1, <1>4, <2>2
<1>6. Rising(t)
  <2> SUFFICES ASSUME NEW i \in 1 .. n + 1, NEW j \in 1 .. n + 1, i <= j
               PROVE  t[j] - t[i] >= j - i
    BY <1>2 DEF Rising
  <2>1. CASE j <= n
    <3>1. i \in 1 .. n /\ j \in 1 .. n
      BY <2>1, <1>1
    <3> QED BY <3>1, <1>1, <1>2 DEF Ordered, Rising
  <2>2. CASE j = n + 1 /\ i <= n
    <3>1. i \in 1 .. n
      BY <2>2, <1>1
    <3> QED BY <3>1, <2>2, <1>2, <1>5
  <2>3. CASE j = n + 1 /\ i = n + 1
    BY <2>3, <1>1, <1>2
  <2> QED BY <2>1, <2>2, <2>3, <1>1
<1> QED BY <1>2, <1>3, <1>6 DEF Ordered, t

LEMMA OrderedTail ==
    ASSUME NEW s, Ordered(s), s # <<>>
    PROVE  /\ Head(s) \in In(s) /\ Head(s) \in Positions
           /\ Ordered(Tail(s)) /\ In(s) = In(Tail(s)) \cup {Head(s)}
           /\ \A q \in In(Tail(s)) : Head(s) < q
<1> DEFINE t == Tail(s)
           n == Len(s)
<1>1. /\ n \in Nat \ {0} /\ \A i \in 1 .. n : s[i] \in Nat
  BY OrderedFacts, EmptySeq DEF Ordered
<1>2. /\ t \in Seq(Positions) /\ Len(t) = n - 1 /\ Head(s) = s[1] /\ Head(s) \in Positions
      /\ \A i \in 1 .. n - 1 : t[i] = s[i + 1]
  BY HeadTailProperties DEF Ordered
<1> HIDE DEF t
<1>3. \A i \in 1 .. n - 1 : i + 1 \in 1 .. n
  BY <1>1
<1>4. Rising(t)
  <2> SUFFICES ASSUME NEW i \in 1 .. n - 1, NEW j \in 1 .. n - 1, i <= j
               PROVE  t[j] - t[i] >= j - i
    BY <1>2 DEF Rising
  <2>1. s[j + 1] - s[i + 1] >= (j + 1) - (i + 1)
    BY <1>3 DEF Ordered, Rising
  <2> QED BY <2>1, <1>2
<1>5. In(s) = In(t) \cup {s[1]}
  <2>1. \A i \in 1 .. n : i = 1 \/ (i - 1 \in 1 .. n - 1 /\ s[i] = t[i - 1])
    BY <1>1, <1>2
  <2>2. 1 \in 1 .. n
    BY <1>1
  <2>3. In(s) \subseteq In(t) \cup {s[1]}
    BY <2>1, <1>2 DEF In
  <2>4. In(t) \cup {s[1]} \subseteq In(s)
    BY <1>2, <1>3, <2>2 DEF In
  <2> QED BY <2>3, <2>4
<1>6. \A q \in In(t) : s[1] < q
  <2> SUFFICES ASSUME NEW i \in 1 .. n - 1 PROVE s[1] < t[i]
    BY <1>2 DEF In
  <2>1. 1 \in 1 .. n /\ i + 1 \in 1 .. n /\ 1 <= i + 1
    BY <1>1
  <2>2. s[i + 1] - s[1] >= (i + 1) - 1 /\ s[1] \in Nat /\ s[i + 1] \in Nat
    BY <2>1, <1>1 DEF Ordered, Rising
  <2> QED BY <2>2, <1>2
<1>7. s[1] \in In(s)
  BY <1>5
<1> QED BY <1>2, <1>4, <1>5, <1>6, <1>7 DEF t, Ordered

\* A line as long as a frame that begins with a t and ends with a CR is a frame,
\* or it is stretched over at least two.
LEMMA FrameOrTwo ==
    ASSUME NEW s, Ordered(s), Len(s) = FrameLen,
           Char(s[1]) = T, Char(s[FrameLen]) = CR
    PROVE  (\E k \in Frames : s = Span(k)) \/ s[FrameLen] - s[1] + 1 >= 2 * FrameLen
<1> DEFINE F == FrameLen
           p == s[1]
           z == s[FrameLen]
           j == FrameOf(p)
           k == FrameOf(z)
<1>1. F \in Nat \ {0} /\ 1 \in 1 .. F /\ F \in 1 .. F
  BY Lengths
<1>2. p \in Positions /\ z \in Positions /\ p \in Nat /\ z \in Nat
  BY <1>1, OrderedFacts
<1>3. p = Start(j) + 1 /\ j \in Frames
  <2>1. p = Start(j) + IndexIn(p) + 1 /\ j \in Frames
    BY <1>2, PositionOf
  <2>2. IndexIn(p) = 0
    BY <1>2, Characters
  <2>3. Start(j) \in Nat
    BY <2>1, StartFacts
  <2> QED BY <2>1, <2>2, <2>3
<1>4. z = Start(k) + F /\ k \in Frames
  <2>1. z = Start(k) + IndexIn(z) + 1 /\ k \in Frames
    BY <1>2, PositionOf
  <2>2. IndexIn(z) = F - 1
    BY <1>2, Characters
  <2>3. Start(k) \in Nat
    BY <2>1, StartFacts
  <2> QED BY <1>1, <2>1, <2>2, <2>3
<1>5. z - p >= F - 1
  BY <1>1 DEF Ordered, Rising
<1>6. Start(j) \in Nat /\ Start(k) \in Nat
  BY <1>3, <1>4, StartFacts
<1>7. j <= k
  <2>1. k < j => Start(k) + F <= Start(j)
    BY <1>3, <1>4, StartFacts
  <2>2. j \in Nat /\ k \in Nat
    BY <1>3, <1>4, Lengths
  <2> QED BY <2>1, <2>2, <1>1, <1>3, <1>4, <1>5, <1>6
<1>8. CASE j = k
  <2>1. \A i \in 1 .. F : s[i] = Start(k) + i
    <3> TAKE i \in 1 .. F
    <3>1. s[i] - p >= i - 1 /\ z - s[i] >= F - i /\ s[i] \in Nat
      BY <1>1, OrderedFacts DEF Ordered, Rising
    <3> QED BY <3>1, <1>1, <1>3, <1>4, <1>6, <1>8
  <2>2. s \in [1 .. F -> Positions]
    BY OrderedFacts
  <2>3. s = [i \in 1 .. F |-> Start(k) + i]
    BY <2>1, <2>2
  <2>4. s = Span(k)
    BY <2>3 DEF Span, Start
  <2> QED BY <2>4, <1>4
<1>9. CASE j < k
  <2>1. Start(j) + F <= Start(k)
    BY <1>3, <1>4, <1>9, StartFacts
  <2> QED BY <2>1, <1>1, <1>3, <1>4, <1>6
<1>10. j \in Nat /\ k \in Nat
  BY <1>3, <1>4, Lengths
<1> QED BY <1>7, <1>8, <1>9, <1>10

\* A sequence has no more elements than places.
LEMMA InCount ==
    ASSUME NEW s, Ordered(s)
    PROVE  IsFiniteSet(In(s)) /\ Cardinality(In(s)) <= Len(s)
<1>1. Len(s) \in Nat /\ s \in [1 .. Len(s) -> In(s)]
  BY OrderedFacts DEF In
<1>2. s \in Surjection(1 .. Len(s), In(s))
  BY <1>1 DEF Surjection, In
<1>3. IsFiniteSet(1 .. Len(s)) /\ Cardinality(1 .. Len(s)) = Len(s)
  BY <1>1, FS_Interval
<1> QED BY <1>2, <1>3, FS_Surjection

LEMMA IntervalCount ==
    ASSUME NEW p \in Nat, NEW z \in Nat, NEW n \in Nat \ {0}, z - p + 1 >= 2 * n
    PROVE  IsFiniteSet(p .. z) /\ Cardinality(p .. z) >= 2 * n /\ Cardinality(p .. z) \in Nat
<1>1. p \in Int /\ z \in Int
  OBVIOUS
<1>2. IsFiniteSet(p .. z) /\ Cardinality(p .. z) = IF p > z THEN 0 ELSE z - p + 1
  BY <1>1, FS_Interval
<1> QED BY <1>2

\* What a line stretched over two frames lacks.
LEMMA GapCount ==
    ASSUME NEW s, Ordered(s), Len(s) = FrameLen, s[FrameLen] - s[1] + 1 >= 2 * FrameLen,
           NEW G \in SUBSET (1 .. s[FrameLen]), (s[1] .. s[FrameLen]) \ In(s) \subseteq G
    PROVE  Cardinality(G) >= FrameLen
<1> DEFINE F == FrameLen
           p == s[1]
           z == s[FrameLen]
           S == p .. z
           D == S \ In(s)
<1>1. F \in Nat \ {0} /\ p \in Nat /\ z \in Nat
  <2>1. F \in Nat \ {0}
    BY Lengths
  <2>2. 1 \in 1 .. Len(s) /\ F \in 1 .. Len(s)
    BY <2>1
  <2> QED BY <2>1, <2>2, OrderedFacts
<1>2. IsFiniteSet(S) /\ Cardinality(S) >= 2 * F /\ Cardinality(S) \in Nat
  <2>1. z - p + 1 >= 2 * F
    OBVIOUS
  <2> HIDE DEF p, z, F
  <2> QED BY <1>1, <2>1, IntervalCount
<1>3. IsFiniteSet(1 .. z)
  BY <1>1, FS_Interval
<1>4. IsFiniteSet(G)
  BY <1>3, FS_Subset
<1>5. IsFiniteSet(In(s)) /\ Cardinality(In(s)) <= F
  BY InCount
<1>6. S \cap In(s) \subseteq In(s)
  OBVIOUS
<1>7. Cardinality(S \cap In(s)) <= F /\ IsFiniteSet(S \cap In(s))
  <2>1. Cardinality(S \cap In(s)) <= Cardinality(In(s)) /\ IsFiniteSet(S \cap In(s))
    BY <1>5, <1>6, FS_Subset
  <2>2. Cardinality(S \cap In(s)) \in Nat /\ Cardinality(In(s)) \in Nat
    BY <2>1, <1>5, FS_CardinalityType
  <2> QED BY <1>1, <1>5, <2>1, <2>2
<1>8. IsFiniteSet(D) /\ Cardinality(D) = Cardinality(S) - Cardinality(S \cap In(s))
  BY <1>2, FS_Difference
<1>9. Cardinality(D) <= Cardinality(G)
  BY <1>4, FS_Subset
<1>10. Cardinality(S \cap In(s)) \in Nat /\ Cardinality(G) \in Nat /\ Cardinality(D) \in Nat
  BY <1>4, <1>7, <1>8, FS_CardinalityType
<1> HIDE DEF D, S
<1> QED BY <1>1, <1>2, <1>7, <1>8, <1>9, <1>10

-----------------------------------------------------------------------------
\* What is always true of the ring, the buffer and the calls.

\* The characters that input() has taken from the ring.
Read == {q \in got : \A r \in In(ring) : q < r}

RingOK ==
    /\ wire \in 0 .. FrameLen * Len(Payloads)
    /\ Ordered(ring) /\ In(ring) \subseteq got /\ got \subseteq Positions
    /\ \A q \in got : q <= wire /\ (q \in In(ring) \/ q \in Read)

\* _rxbuf holds all that was read since some moment, and no CR among it.
BufferOK ==
    /\ Ordered(rxbuf) /\ Len(rxbuf) <= Mtu /\ In(rxbuf) \subseteq Read
    /\ \A q \in Read : \A r \in In(rxbuf) : q >= r => q \in In(rxbuf)
    /\ \A q \in In(rxbuf) : Char(q) # CR

\* The first n characters of frame k have been received, and the CR before it,
Received(k, n) == (Start(k) = 0 \/ Start(k) \in got) /\ \A i \in 1 .. n : Start(k) + i \in got
\* the last character that was read is the one at p,
ReadUpTo(p) == (p = 0 \/ p \in Read) /\ \A q \in Read : q <= p
\* and then _rxbuf holds just these characters.
Begun(k, n) == [i \in 1 .. n |-> Start(k) + i]
WholeOK ==
    \A k \in Frames : \A n \in 0 .. FrameLen - 1 :
        Received(k, n) /\ ReadUpTo(Start(k) + n) => rxbuf = Begun(k, n)

\* A call was made with a frame, or with a line that something is missing from.
CallOK(line) ==
    /\ line # <<>> /\ line[Len(line)] \in got
    /\ (\E k \in Frames : line = Span(k)) \/ LostBefore(line[Len(line)]) >= FrameLen

ActedOn(line) == \E c \in 1 .. Len(calls) : calls[c] = line
IsCalls == calls \in Seq(Seq(Positions))
CallsOK ==
    /\ IsCalls
    /\ \A c \in 1 .. Len(calls) : CallOK(calls[c])
    /\ \A k \in Frames : Received(k, FrameLen) /\ Start(k) + FrameLen \in Read => ActedOn(Span(k))

SLCanInv == RingOK /\ BufferOK /\ WholeOK /\ CallsOK

LEMMA SLCanInvProperties == SLCanInv => NoSplice /\ IntactFramesHandled
<1> SUFFICES ASSUME SLCanInv PROVE NoSplice /\ IntactFramesHandled
  OBVIOUS
<1>1. DOMAIN calls = 1 .. Len(calls) /\ DOMAIN ring = 1 .. Len(ring)
  BY LenProperties DEF SLCanInv, CallsOK, IsCalls, RingOK, Ordered
<1>2. NoSplice
  BY <1>1 DEF SLCanInv, BufferOK, CallsOK, CallOK, NoSplice
<1>3. IntactFramesHandled
  <2> SUFFICES ASSUME NEW k \in Frames, \A i \in 1 .. FrameLen : Span(k)[i] \in got,
                      k = 1 \/ (k - 1) * FrameLen \in got, EndRead(k)
               PROVE  \E c \in DOMAIN calls : calls[c] = Span(k)
    BY DEF IntactFramesHandled
  <2>1. \A i \in 1 .. FrameLen : Start(k) + i \in got
    BY DEF Span, Start
  <2>2. Start(k) = 0 \/ Start(k) \in got
    BY StartFacts DEF Start
  <2>3. k * FrameLen = Start(k) + FrameLen
    BY StartFacts
  <2>4. Start(k) + FrameLen \in Read
    <3>1. \A r \in In(ring) : r > k * FrameLen /\ r \in Nat
      BY <1>1, OrderedFacts DEF EndRead, In, SLCanInv, RingOK
    <3>2. k * FrameLen \in got /\ k * FrameLen \in Nat
      BY <2>3, StartFacts, Lengths DEF EndRead
    <3> QED BY <2>3, <3>1, <3>2 DEF Read
  <2> QED BY <1>1, <2>1, <2>2, <2>4 DEF SLCanInv, CallsOK, Received, ActedOn
<1> QED BY <1>2, <1>3

-----------------------------------------------------------------------------
\* A character that arrives.

LEMMA ArriveKeeps == SLCanInv /\ Arrive => SLCanInv'
<1> SUFFICES ASSUME SLCanInv, Arrive PROVE SLCanInv'
  OBVIOUS
<1> DEFINE p == wire + 1
<1>1. /\ p \in Positions /\ wire' = p /\ ring' = Append(ring, p) /\ got' = got \cup {p}
      /\ rxbuf' = rxbuf /\ calls' = calls
  BY DEF Arrive
<1>2. \A q \in got : q \in Positions /\ q \in Nat /\ q <= wire /\ q < p
  BY PositionOf DEF SLCanInv, RingOK
<1>3. wire \in Nat /\ p \in Nat
  BY <1>1, PositionOf, Lengths DEF SLCanInv, RingOK
<1> HIDE DEF p
<1>4. Ordered(ring') /\ In(ring') = In(ring) \cup {p}
  BY <1>1, <1>2, OrderedAppend DEF SLCanInv, RingOK
<1>5. Read' = Read
  <2>1. \A q \in Read : q \in Read'
    BY <1>1, <1>2, <1>4 DEF Read
  <2>2. \A q \in Read' : q \in Read
    <3> TAKE q \in Read'
    <3>1. q \in got \cup {p} /\ q < p /\ \A r \in In(ring) : q < r
      BY <1>1, <1>4 DEF Read
    <3> QED BY <3>1, <1>3 DEF Read
  <2> QED BY <2>1, <2>2
<1>6. RingOK'
  <2>1. p \in 0 .. FrameLen * Len(Payloads)
    BY <1>1, <1>3 DEF Positions
  <2>2. \A q \in got' : q <= p
    BY <1>1, <1>2, <1>3
  <2>3. \A q \in got' : q \in In(ring') \/ q \in Read'
    BY <1>1, <1>4, <1>5 DEF SLCanInv, RingOK
  <2> QED BY <1>1, <1>2, <1>4, <2>1, <2>2, <2>3 DEF SLCanInv, RingOK
<1>7. BufferOK'
  BY <1>1, <1>5 DEF SLCanInv, BufferOK
<1>8. \A k \in Frames, n \in 0 .. FrameLen :
          Received(k, n)' /\ Start(k) + n \in Read \cup {0} => Received(k, n)
  <2> SUFFICES ASSUME NEW k \in Frames, NEW n \in 0 .. FrameLen, Received(k, n)',
                      Start(k) + n \in Read \cup {0}
               PROVE  Received(k, n)
    OBVIOUS
  <2>1. Start(k) + n < p /\ Start(k) \in Nat
    BY <1>1, <1>2, <1>3, StartFacts, PositionOf DEF Read
  <2>2. \A i \in 1 .. n : Start(k) + i # p
    BY <2>1, <1>3
  <2>3. Start(k) # p
    BY <2>1, <1>3
  <2> QED BY <1>1, <2>2, <2>3 DEF Received
<1>9. WholeOK'
  <2> SUFFICES ASSUME NEW k \in Frames, NEW n \in 0 .. FrameLen - 1,
                      Received(k, n)', ReadUpTo(Start(k) + n)'
               PROVE  rxbuf' = Begun(k, n)
    BY DEF WholeOK
  <2>1. ReadUpTo(Start(k) + n)
    BY <1>5 DEF ReadUpTo
  <2>2. n \in 0 .. FrameLen
    BY Lengths
  <2>3. Received(k, n)
    BY <1>8, <2>1, <2>2 DEF ReadUpTo
  <2> QED BY <1>1, <2>1, <2>3 DEF SLCanInv, WholeOK
<1>10. \A q \in got : LostBefore(q)' = LostBefore(q)
  <2> TAKE q \in got
  <2>1. {r \in got' : r < q /\ Char(r) = CR} = {r \in got : r < q /\ Char(r) = CR}
    BY <1>1, <1>2, <1>3
  <2>2. \A r \in 1 .. q : r \in got' <=> r \in got
    BY <1>1, <1>2, <1>3
  <2> QED BY <2>1, <2>2 DEF LostBefore
<1>11. CallsOK'
  <2>1. \A c \in 1 .. Len(calls) : CallOK(calls[c])'
    BY <1>1, <1>10 DEF SLCanInv, CallsOK, CallOK
  <2>2. ASSUME NEW k \in Frames, Received(k, FrameLen)', (Start(k) + FrameLen \in Read)'
        PROVE  ActedOn(Span(k))'
    <3>1. Received(k, FrameLen)
      BY <1>5, <1>8, <2>2, Lengths
    <3> QED BY <1>1, <1>5, <2>2, <3>1 DEF SLCanInv, CallsOK, ActedOn
  <2> QED BY <1>1, <2>1, <2>2 DEF SLCanInv, CallsOK, IsCalls
<1> QED BY <1>6, <1>7, <1>9, <1>11 DEF SLCanInv

-----------------------------------------------------------------------------
\* A character that is read.

\* A line that is acted on is as long as a frame, and every frame is acted on.
LEMMA AcceptedLength ==
    ASSUME NEW line, Accepted(line), LengthDigit(line) = CmdLen
    PROVE  Len(line) = FrameLen /\ Char(line[1]) = T
<1>1. 2 * CmdLen = Len(line) - Overhead /\ Len(line) >= Overhead
  BY DEF Accepted, Matches
<1>2. Len(line) = FrameLen
  BY <1>1, Lengths, SLCanAssumption DEF FrameLen
<1> QED BY <1>2 DEF Accepted, Matches

LEMMA SpanFacts ==
    ASSUME NEW k \in Frames
    PROVE  /\ Span(k) \in Seq(Positions) /\ Len(Span(k)) = FrameLen
           /\ \A i \in 1 .. FrameLen : Span(k)[i] = Start(k) + i /\ Span(k)[i] \in Positions
                                       /\ IndexIn(Span(k)[i]) = i - 1
<1>1. FrameLen \in Nat /\ Start(k) \in Nat
  BY Lengths, StartFacts
<1>2. Span(k) = [i \in 1 .. FrameLen |-> Start(k) + i]
  BY DEF Span, Start
<1>3. \A i \in 1 .. FrameLen : Start(k) + i \in Positions /\ IndexIn(Start(k) + i) = i - 1
  <2> TAKE i \in 1 .. FrameLen
  <2>1. i - 1 \in 0 .. FrameLen - 1 /\ Start(k) + (i - 1) + 1 = Start(k) + i
    BY <1>1
  <2> QED BY <2>1, SpanPositions
<1>4. Span(k) \in [1 .. FrameLen -> Positions]
  BY <1>2, <1>3
<1>5. Span(k) \in Seq(Positions)
  BY <1>4, <1>1
<1>6. Len(Span(k)) = FrameLen
  BY <1>4, <1>1
<1> QED BY <1>2, <1>3, <1>5, <1>6

LEMMA SpanAccepted ==
    ASSUME NEW k \in Frames
    PROVE  Accepted(Span(k)) /\ LengthDigit(Span(k)) = CmdLen
<1> DEFINE s == Span(k)
           n == Len(Id)
<1>1. /\ n \in Nat \ {0} /\ FrameLen = n + 3 + 2 * CmdLen /\ CmdLen \in 1 .. 8 /\ Overhead = n + 3
      /\ DOMAIN Id = 1 .. n
  BY Lengths
<1>2. Len(s) = FrameLen /\ \A i \in 1 .. FrameLen : s[i] \in Positions /\ IndexIn(s[i]) = i - 1
  BY SpanFacts
<1> HIDE DEF s
<1>3. Char(s[1]) = T
  <2>1. s[1] \in Positions /\ IndexIn(s[1]) = 0
    BY <1>1, <1>2
  <2> QED BY <2>1, Characters
<1>4. \A i \in 1 .. n : Char(s[1 + i]) = Id[i]
  <2> TAKE i \in 1 .. n
  <2>1. 1 + i \in 1 .. FrameLen /\ (1 + i) - 1 = i
    BY <1>1
  <2>2. s[1 + i] \in Positions /\ IndexIn(s[1 + i]) = i
    BY <2>1, <1>2
  <2> QED BY <2>2, Characters
<1>5. Char(s[n + 2]) = CmdLen
  <2>1. n + 2 \in 1 .. FrameLen /\ (n + 2) - 1 = n + 1
    BY <1>1
  <2>2. s[n + 2] \in Positions /\ IndexIn(s[n + 2]) = n + 1
    BY <2>1, <1>2
  <2> QED BY <2>2, Characters
<1>6. LengthDigit(s) = CmdLen
  BY <1>1, <1>5 DEF LengthDigit, HexToDec, Digit
<1>7. Matches(s)
  BY <1>1, <1>2, <1>3, <1>4 DEF Matches
<1>8. 2 * CmdLen = FrameLen - Overhead
  BY <1>1
<1> QED BY <1>2, <1>6, <1>7, <1>8 DEF Accepted, s

LEMMA BegunFacts ==
    ASSUME NEW k \in Frames
    PROVE  /\ Begun(k, 0) = <<>> /\ Begun(k, FrameLen) = Span(k)
           /\ \A n \in 1 .. FrameLen : /\ Begun(k, n) = Append(Begun(k, n - 1), Start(k) + n)
                                       /\ Len(Begun(k, n - 1)) = n - 1
<1>1. FrameLen \in Nat
  BY Lengths
<1>2. Begun(k, 0) = <<>>
  BY DEF Begun
<1>3. Begun(k, FrameLen) = Span(k)
  BY DEF Begun, Span, Start
<1>4. ASSUME NEW n \in 1 .. FrameLen
      PROVE  /\ Begun(k, n) = Append(Begun(k, n - 1), Start(k) + n)
             /\ Len(Begun(k, n - 1)) = n - 1
  <2> DEFINE m == n - 1
             b == Begun(k, m)
             c == Begun(k, n)
  <2>1. m \in Nat /\ n = m + 1 /\ n \in Nat /\ Start(k) \in Nat
    BY <1>1, StartFacts
  <2>2. b \in [1 .. m -> Nat] /\ \A i \in 1 .. m : b[i] = Start(k) + i
    BY <2>1 DEF Begun
  <2>3. c \in [1 .. n -> Nat] /\ \A i \in 1 .. n : c[i] = Start(k) + i
    BY <2>1 DEF Begun
  <2> HIDE DEF b, c, m
  <2>4. b \in Seq(Nat) /\ Len(b) = m /\ c \in Seq(Nat) /\ Len(c) = n /\ Start(k) + n \in Nat
    BY <2>1, <2>2, <2>3
  <2>5. /\ Append(b, Start(k) + n) \in Seq(Nat) /\ Len(Append(b, Start(k) + n)) = m + 1
        /\ \A i \in 1 .. m : Append(b, Start(k) + n)[i] = b[i]
        /\ Append(b, Start(k) + n)[m + 1] = Start(k) + n
    BY <2>4, AppendProperties
  <2>6. \A i \in 1 .. n : Append(b, Start(k) + n)[i] = c[i]
    BY <2>1, <2>2, <2>3, <2>5
  <2>7. c = Append(b, Start(k) + n)
    BY <2>1, <2>4, <2>5, <2>6, SeqEqual
  <2> QED BY <2>4, <2>7 DEF b, c, m
<1> QED BY <1>2, <1>3, <1>4

\* What reading the first character p of the ring changes.
Reads(p) ==
    /\ p \in Positions /\ p \in got /\ got' = got /\ wire' = wire
    /\ \A q \in Read : q < p
    /\ \A q \in got : q < p => q \in Read
    /\ Read' = Read \cup {p}

LEMMA InputReads ==
    ASSUME SLCanInv, Input
    PROVE  Reads(Head(ring)) /\ RingOK'
<1> DEFINE p == Head(ring)
<1>1. ring # <<>> /\ ring' = Tail(ring) /\ got' = got /\ wire' = wire
  BY DEF Input
<1>2. /\ p \in In(ring) /\ p \in Positions /\ Ordered(ring') /\ In(ring) = In(ring') \cup {p}
      /\ \A q \in In(ring') : p < q
  BY <1>1, OrderedTail DEF SLCanInv, RingOK
<1>3. got \subseteq Positions /\ In(ring) \subseteq got /\ \A q \in got : q \in Nat /\ (q \in In(ring) \/ q \in Read)
  BY PositionOf DEF SLCanInv, RingOK
<1> HIDE DEF p
<1>4. p \in got /\ p \in Nat
  BY <1>2, <1>3
<1>5. \A q \in Read : q < p
  BY <1>2 DEF Read
<1>6. \A q \in got : q < p => q \in Read
  <2> SUFFICES ASSUME NEW q \in got, q < p, q \in In(ring) PROVE FALSE
    BY <1>3
  <2>1. q = p \/ p < q
    BY <1>2
  <2> QED BY <2>1, <1>3, <1>4
<1>7. Read' = Read \cup {p}
  <2>1. Read' = {q \in got : \A r \in In(ring') : q < r}
    BY <1>1 DEF Read
  <2>2. p \in Read'
    BY <2>1, <1>2, <1>4
  <2>3. \A q \in Read : q \in Read'
    BY <2>1, <1>2 DEF Read
  <2>4. \A q \in Read' : q \in Read \cup {p}
    <3> SUFFICES ASSUME NEW q \in Read', q # p PROVE q \in Read
      OBVIOUS
    <3>1. q \in got /\ q \in Nat /\ \A r \in In(ring') : q < r
      BY <2>1, <1>3
    <3>2. q \notin In(ring')
      BY <3>1
    <3>3. q \notin In(ring)
      BY <3>2, <1>2
    <3> QED BY <3>1, <3>3, <1>3
  <2> QED BY <2>2, <2>3, <2>4
<1>8. RingOK'
  <2>1. In(ring') \subseteq got'
    BY <1>1, <1>2, <1>3
  <2>2. \A q \in got' : q \in In(ring') \/ q \in Read'
    BY <1>1, <1>2, <1>3, <1>7
  <2> QED BY <1>1, <1>2, <2>1, <2>2 DEF SLCanInv, RingOK
<1> QED BY <1>1, <1>2, <1>4, <1>5, <1>6, <1>7, <1>8 DEF Reads, p

\* The line with p at its end.
LEMMA LineFacts ==
    ASSUME SLCanInv, NEW p, Reads(p)
    PROVE  LET kept == Room(rxbuf)
               line == Append(kept, p) IN
           /\ kept \in {<<>>, rxbuf} /\ Len(kept) + 1 <= Mtu
           /\ Ordered(line) /\ Len(line) = Len(kept) + 1 /\ line[Len(line)] = p
           /\ In(line) = In(kept) \cup {p}
<1> DEFINE kept == Room(rxbuf)
<1>1. kept \in {<<>>, rxbuf} /\ Len(kept) + 1 <= Mtu
  BY OrderedFacts, OrderedEmpty, Lengths DEF Room, SLCanInv, BufferOK
<1>2. Ordered(kept) /\ In(kept) \subseteq Read
  BY <1>1, OrderedEmpty DEF SLCanInv, BufferOK
<1> HIDE DEF kept
<1>3. \A q \in In(kept) : q < p
  BY <1>2 DEF Reads
<1>4. p \in Positions
  BY DEF Reads
<1>5. Ordered(kept)
  BY <1>2
<1> QED BY <1>1, <1>3, <1>4, <1>5, OrderedAppend DEF kept

LEMMA BufferKeeps ==
    ASSUME SLCanInv, NEW p, Reads(p), Char(p) # CR, rxbuf' = Append(Room(rxbuf), p)
    PROVE  BufferOK'
<1> DEFINE kept == Room(rxbuf)
<1>1. /\ kept \in {<<>>, rxbuf} /\ Len(rxbuf') <= Mtu
      /\ Ordered(rxbuf') /\ In(rxbuf') = In(kept) \cup {p}
  BY LineFacts
<1> HIDE DEF kept
<1>2. In(kept) \subseteq In(rxbuf) /\ In(rxbuf) \subseteq Read /\ (In(kept) # {} => kept = rxbuf)
  BY <1>1, OrderedEmpty DEF SLCanInv, BufferOK
<1>3. In(rxbuf') \subseteq Read'
  BY <1>1, <1>2 DEF Reads
<1>4. \A q \in In(rxbuf') : Char(q) # CR
  BY <1>1, <1>2 DEF SLCanInv, BufferOK
<1>5. ASSUME NEW q \in Read', NEW r \in In(rxbuf'), q >= r PROVE q \in In(rxbuf')
  <2>1. CASE q = p
    BY <2>1, <1>1
  <2>2. CASE q # p
    <3>1. q \in Read /\ q < p /\ p \in Nat /\ q \in Nat
      BY <2>2, PositionOf DEF Reads, Read, SLCanInv, RingOK
    <3>2. r # p
      BY <3>1, <1>5
    <3>3. r \in In(kept)
      BY <3>2, <1>1
    <3>4. q \in In(rxbuf)
      BY <3>1, <3>3, <1>2, <1>5 DEF SLCanInv, BufferOK
    <3> QED BY <3>3, <3>4, <1>1, <1>2
  <2> QED BY <2>1, <2>2
<1> QED BY <1>1, <1>3, <1>4, <1>5 DEF BufferOK

\* The place of p in its frame, when all of that has been received up to there.
LEMMA PlaceOf ==
    ASSUME SLCanInv, NEW p, Reads(p), NEW k \in Frames, NEW n \in 1 .. FrameLen,
           p = Start(k) + n, Received(k, n)
    PROVE  rxbuf = Begun(k, n - 1) /\ Append(Room(rxbuf), p) = Begun(k, n)
<1>1. n - 1 \in 0 .. FrameLen - 1 /\ n \in Nat /\ FrameLen \in Nat /\ Start(k) \in Nat
  BY Lengths, StartFacts
<1>2. Received(k, n - 1)
  BY <1>1 DEF Received
<1>3. ReadUpTo(Start(k) + (n - 1))
  <2>1. Start(k) + (n - 1) < p /\ Start(k) + (n - 1) \in Nat
    BY <1>1
  <2>2. Start(k) + (n - 1) = 0 \/ Start(k) + (n - 1) \in got
    <3>1. CASE n = 1
      BY <3>1, <1>1 DEF Received
    <3>2. CASE n # 1
      <4>1. n - 1 \in 1 .. n
        BY <3>2, <1>1
      <4> QED BY <4>1 DEF Received
    <3> QED BY <3>1, <3>2
  <2>3. \A q \in Read : q < p /\ q \in Nat
    BY PositionOf DEF Reads, Read, SLCanInv, RingOK
  <2>4. \A q \in Read : q <= Start(k) + (n - 1)
    BY <2>3, <1>1
  <2> QED BY <2>1, <2>2, <2>4 DEF Reads, ReadUpTo
<1>4. rxbuf = Begun(k, n - 1)
  BY <1>1, <1>2, <1>3 DEF SLCanInv, WholeOK
<1>5. Len(rxbuf) = n - 1 /\ Begun(k, n) = Append(rxbuf, p)
  BY <1>4, BegunFacts
<1>6. Room(rxbuf) = rxbuf
  BY <1>1, <1>5, Lengths DEF Room
<1> QED BY <1>4, <1>5, <1>6

LEMMA WholeKeeps ==
    ASSUME SLCanInv, NEW p, Reads(p),
           \/ Char(p) = CR /\ rxbuf' = <<>>
           \/ Char(p) # CR /\ rxbuf' = Append(Room(rxbuf), p)
    PROVE  WholeOK'
<1> SUFFICES ASSUME NEW k \in Frames, NEW n \in 0 .. FrameLen - 1,
                    Received(k, n)', ReadUpTo(Start(k) + n)'
             PROVE  rxbuf' = Begun(k, n)
  BY DEF WholeOK
<1>1. n \in Nat /\ FrameLen \in Nat \ {0} /\ Start(k) \in Nat /\ p \in Nat /\ p >= 1 /\ p \in Positions
  BY Lengths, StartFacts, PositionOf DEF Reads, Positions
<1>2. Start(k) + n = p
  <2>1. p <= Start(k) + n
    BY DEF ReadUpTo, Reads
  <2>2. Start(k) + n \in Read \cup {p}
    BY <2>1, <1>1 DEF ReadUpTo, Reads
  <2>3. Start(k) + n <= p
    BY <2>2, <1>1 DEF Reads
  <2> QED BY <1>1, <2>1, <2>3
<1>3. Received(k, n)
  BY DEF Received, Reads
<1>4. CASE n = 0
  <2>1. Start(k) = p /\ Start(k) # 0
    BY <1>1, <1>2, <1>4
  <2>2. k # 1 /\ k \in Nat /\ k >= 1 /\ k - 1 \in Frames
    BY <2>1, StartFacts, Lengths
  <2>3. Start(k - 1) + FrameLen = Start(k)
    <3>1. (k - 1) * FrameLen = Start(k - 1) + FrameLen
      BY <2>2, StartFacts
    <3> QED BY <3>1 DEF Start
  <2>4. FrameLen - 1 \in 0 .. FrameLen - 1 /\ Start(k - 1) \in Nat
    BY <1>1, <2>2, StartFacts
  <2>5. Start(k - 1) + (FrameLen - 1) + 1 = p
    BY <1>1, <2>1, <2>3, <2>4
  <2>6. IndexIn(p) = FrameLen - 1
    BY <2>2, <2>4, <2>5, SpanPositions
  <2>7. Char(p) = CR
    BY <1>1, <2>6, Characters
  <2> QED BY <2>7, <1>4, BegunFacts
<1>5. CASE n # 0
  <2>1. n \in 1 .. FrameLen /\ n - 1 \in 0 .. FrameLen - 1 /\ p = Start(k) + (n - 1) + 1
    BY <1>1, <1>2, <1>5
  <2>2. IndexIn(p) = n - 1
    BY <2>1, SpanPositions
  <2>3. Char(p) # CR
    BY <1>1, <2>1, <2>2, Characters
  <2>4. Append(Room(rxbuf), p) = Begun(k, n)
    BY <1>2, <1>3, <2>1, PlaceOf
  <2> QED BY <2>3, <2>4
<1> QED BY <1>4, <1>5

\* A line that is acted on is a frame, or lacks as much as one: no CR has been
\* received since its first character, and what has been is in the line.
LEMMA LineOK ==
    ASSUME SLCanInv, NEW p, Reads(p), Char(p) = CR, NEW line, line = Append(Room(rxbuf), p),
           Accepted(line), LengthDigit(line) = CmdLen
    PROVE  /\ line \in Seq(Positions) /\ line # <<>> /\ line[Len(line)] = p
           /\ (\E k \in Frames : line = Span(k)) \/ LostBefore(p) >= FrameLen
<1> DEFINE kept == Room(rxbuf)
           a == line[1]
           ends == {q \in got : q < p /\ Char(q) = CR}
           G == {q \in 1 .. p : (\A e \in ends : e < q) /\ q \notin got}
<1>1. /\ kept \in {<<>>, rxbuf} /\ Ordered(line) /\ Len(line) = Len(kept) + 1 /\ line[Len(line)] = p
      /\ In(line) = In(kept) \cup {p}
  BY LineFacts
<1>2. Len(line) = FrameLen /\ Char(a) = T /\ FrameLen \in Nat \ {0}
  BY AcceptedLength, Lengths
<1>3. line[FrameLen] = p
  BY <1>1, <1>2
<1>4. line # <<>> /\ line \in Seq(Positions)
  BY <1>1, <1>2, EmptySeq DEF Ordered
<1>5. LostBefore(p) = Cardinality(G)
  BY DEF LostBefore
<1> HIDE DEF kept
<1>6. a \in In(line) /\ a \in Nat /\ p \in Nat
  <2>1. 1 \in 1 .. Len(line)
    BY <1>2
  <2> QED BY <2>1, <1>1, OrderedFacts, PositionOf DEF In, Reads
<1>7. \A q \in got : q \in Nat
  BY PositionOf DEF SLCanInv, RingOK
<1>8. ASSUME NEW q \in got, a <= q, q < p PROVE q \in In(line) /\ Char(q) # CR
  <2>1. q \in Read /\ q \in Nat
    BY <1>7, <1>8 DEF Reads
  <2>2. a # p
    BY <1>6, <1>8, <2>1
  <2>3. a \in In(kept)
    BY <2>2, <1>1, <1>6
  <2>4. kept = rxbuf
    BY <2>3, <1>1, OrderedEmpty
  <2>5. q \in In(rxbuf)
    BY <1>8, <2>1, <2>3, <2>4, <1>6 DEF SLCanInv, BufferOK
  <2> QED BY <2>4, <2>5, <1>1 DEF SLCanInv, BufferOK
<1>9. CASE \E k \in Frames : line = Span(k)
  BY <1>1, <1>4, <1>9
<1>10. CASE p - a + 1 >= 2 * FrameLen
  <2> DEFINE S == (a .. p) \ In(line)
  <2>1. \A q \in S : q \in G
    <3> SUFFICES ASSUME NEW q \in a .. p, q \notin In(line)
                 PROVE  q \in 1 .. p /\ (\A e \in ends : e < q) /\ q \notin got
      OBVIOUS
    <3>1. q \in Nat /\ a <= q /\ q <= p /\ q # p
      BY <1>1, <1>6
    <3>2. a >= 1
      BY <1>1, <1>6, OrderedFacts DEF Positions
    <3>3. q \notin got
      BY <3>1, <1>6, <1>8
    <3>4. \A e \in ends : e < q
      <4> SUFFICES ASSUME NEW e \in got, e < p, Char(e) = CR PROVE e < q
        OBVIOUS
      <4>1. ~ (a <= e)
        BY <1>8
      <4> QED BY <4>1, <3>1, <1>6, <1>7
    <3> QED BY <3>1, <3>2, <3>3, <3>4, <1>6
  <2>2. G \subseteq 1 .. p
    OBVIOUS
  <2> HIDE DEF G
  <2>3. Cardinality(G) >= FrameLen
    BY <1>1, <1>2, <1>3, <1>10, <2>1, <2>2, GapCount
  <2> QED BY <2>3, <1>1, <1>4, <1>5
<1>11. (\E k \in Frames : line = Span(k)) \/ p - a + 1 >= 2 * FrameLen
  BY <1>1, <1>2, <1>3, FrameOrTwo
<1> QED BY <1>9, <1>10, <1>11

\* What was acted on stays so.
LEMMA CallsGrow ==
    ASSUME IsCalls, NEW line \in Seq(Positions), NEW new, new = Append(calls, line)
    PROVE  /\ new \in Seq(Seq(Positions))
           /\ \A c \in 1 .. Len(new) : new[c] = line \/ (c \in 1 .. Len(calls) /\ new[c] = calls[c])
           /\ \E c \in 1 .. Len(new) : new[c] = line
           /\ \A c \in 1 .. Len(calls) : c \in 1 .. Len(new) /\ new[c] = calls[c]
<1>1. /\ new \in Seq(Seq(Positions)) /\ Len(new) = Len(calls) + 1 /\ new[Len(calls) + 1] = line
      /\ \A c \in 1 .. Len(calls) : new[c] = calls[c]
  BY AppendProperties DEF IsCalls
<1>2. Len(calls) \in Nat
  BY LenProperties DEF IsCalls
<1> HIDE DEF IsCalls
<1> QED BY <1>1, <1>2

LEMMA CallsKeep ==
    ASSUME SLCanInv, NEW p, Reads(p),
           LET line == Append(Room(rxbuf), p) IN
           \/ Char(p) = CR /\ Handle(line)
           \/ Char(p) # CR /\ UNCHANGED calls
    PROVE  CallsOK'
<1> DEFINE line == Append(Room(rxbuf), p)
           Taken == Char(p) = CR /\ Accepted(line) /\ LengthDigit(line) = CmdLen
<1>1. IsCalls /\ \A c \in 1 .. Len(calls) : CallOK(calls[c])
  BY DEF SLCanInv, CallsOK
<1>2. IF Taken THEN calls' = Append(calls, line) ELSE calls' = calls
  BY DEF Handle
<1>3. Taken => line \in Seq(Positions) /\ CallOK(line)
  BY LineOK DEF Reads, CallOK
<1> HIDE DEF Taken, line
<1>5. \A l : ActedOn(l) => ActedOn(l)'
  <2>1. CASE Taken
    BY <2>1, <1>1, <1>2, <1>3, CallsGrow DEF ActedOn
  <2>2. CASE ~Taken
    BY <2>2, <1>2 DEF ActedOn
  <2> QED BY <2>1, <2>2
<1>6. IsCalls'
  <2>1. CASE Taken
    BY <2>1, <1>1, <1>2, <1>3, CallsGrow DEF IsCalls
  <2>2. CASE ~Taken
    BY <2>2, <1>1, <1>2 DEF IsCalls
  <2> QED BY <2>1, <2>2
<1>7. (\A c \in 1 .. Len(calls) : CallOK(calls[c]))'
  <2>1. \A c \in 1 .. Len(calls') : CallOK(calls'[c])
    <3>1. CASE Taken
      <4>1. \A c \in 1 .. Len(calls') : calls'[c] = line \/ (c \in 1 .. Len(calls) /\ calls'[c] = calls[c])
        BY <3>1, <1>1, <1>2, <1>3, CallsGrow
      <4> QED BY <4>1, <3>1, <1>1, <1>3
    <3>2. CASE ~Taken
      BY <3>2, <1>1, <1>2
    <3> QED BY <3>1, <3>2
  <2> QED BY <2>1 DEF CallOK, LostBefore, Reads
<1>8. ASSUME NEW k \in Frames, Received(k, FrameLen)', Start(k) + FrameLen \in Read'
      PROVE  ActedOn(Span(k))'
  <2>1. Received(k, FrameLen)
    BY <1>8 DEF Received, Reads
  <2>2. CASE Start(k) + FrameLen \in Read
    BY <2>1, <2>2, <1>5 DEF SLCanInv, CallsOK
  <2>3. CASE Start(k) + FrameLen = p
    <3>1. FrameLen \in 1 .. FrameLen /\ FrameLen - 1 \in 0 .. FrameLen - 1 /\ FrameLen \in Nat /\ Start(k) \in Nat
      BY Lengths, StartFacts
    <3>2. line = Span(k)
      BY <2>1, <2>3, <3>1, PlaceOf, BegunFacts DEF line
    <3>3. p = Start(k) + (FrameLen - 1) + 1
      BY <2>3, <3>1
    <3>4. p \in Positions /\ IndexIn(p) = FrameLen - 1
      BY <3>1, <3>3, SpanPositions
    <3>5. Char(p) = CR
      BY <3>4, Characters
    <3>6. Taken
      BY <3>2, <3>5, SpanAccepted DEF Taken
    <3>7. \E c \in 1 .. Len(calls') : calls'[c] = line
      BY <3>6, <1>1, <1>2, <1>3, CallsGrow
    <3> QED BY <3>2, <3>7 DEF ActedOn
  <2> QED BY <1>8, <2>2, <2>3 DEF Reads
<1> QED BY <1>6, <1>7, <1>8 DEF CallsOK

LEMMA InputKeeps == SLCanInv /\ Input => SLCanInv'
<1> SUFFICES ASSUME SLCanInv, Input PROVE SLCanInv'
  OBVIOUS
<1> DEFINE p == Head(ring)
<1>1. Reads(p) /\ RingOK'
  BY InputReads
<1>2. LET line == Append(Room(rxbuf), p) IN
      \/ Char(p) = CR /\ Handle(line) /\ rxbuf' = <<>>
      \/ Char(p) # CR /\ rxbuf' = line /\ UNCHANGED calls
  BY DEF Input, AfterLine
<1> HIDE DEF p
<1>3. BufferOK'
  <2>1. CASE Char(p) = CR
    BY <2>1, <1>2, OrderedEmpty, Lengths DEF BufferOK
  <2>2. CASE Char(p) # CR
    BY <2>2, <1>1, <1>2, BufferKeeps
  <2> QED BY <2>1, <2>2
<1>4. WholeOK'
  BY <1>1, <1>2, WholeKeeps
<1>5. CallsOK'
  BY <1>1, <1>2, CallsKeep
<1> QED BY <1>1, <1>3, <1>4, <1>5 DEF SLCanInv

LEMMA OverrunKeeps == SLCanInv /\ Overrun => SLCanInv'
<1> SUFFICES ASSUME SLCanInv, Overrun PROVE SLCanInv'
  OBVIOUS
<1>1. /\ wire + 1 \in Positions /\ wire' = wire + 1 /\ ring' = ring /\ rxbuf' = rxbuf
      /\ calls' = calls /\ got' = got
  BY DEF Overrun
<1>2. RingOK'
  <2>1. wire \in Nat /\ wire' \in 0 .. FrameLen * Len(Payloads)
    <3>1. FrameLen * Len(Payloads) \in Nat
      BY Lengths
    <3> QED BY <1>1, <3>1 DEF SLCanInv, RingOK, Positions
  <2>2. \A q \in got : q \in Nat /\ q <= wire'
    BY <1>1, <2>1, PositionOf DEF SLCanInv, RingOK
  <2> QED BY <1>1, <2>1, <2>2 DEF SLCanInv, RingOK, Read
<1>3. BufferOK'
  BY <1>1 DEF SLCanInv, BufferOK, Read
<1>4. WholeOK'
  BY <1>1 DEF SLCanInv, WholeOK, Received, ReadUpTo, Read
<1>5. CallsOK'
  BY <1>1 DEF SLCanInv, CallsOK, IsCalls, CallOK, LostBefore, ActedOn, Received, Read
<1> QED BY <1>2, <1>3, <1>4, <1>5 DEF SLCanInv

LEMMA SLCanInit == CanInit => SLCanInv
<1> SUFFICES ASSUME CanInit PROVE SLCanInv
  OBVIOUS
<1>1. wire = 0 /\ ring = <<>> /\ rxbuf = <<>> /\ calls = <<>> /\ got = {}
  BY DEF CanInit
<1>2. Read = {}
  BY <1>1 DEF Read
<1>3. FrameLen * Len(Payloads) \in Nat
  BY Lengths
<1>4. RingOK
  BY <1>1, <1>3, OrderedEmpty DEF RingOK
<1>5. BufferOK
  BY <1>1, OrderedEmpty, Lengths DEF BufferOK
<1>6. WholeOK
  <2> SUFFICES ASSUME NEW k \in Frames, NEW n \in 0 .. FrameLen - 1, ReadUpTo(Start(k) + n)
               PROVE  rxbuf = Begun(k, n)
    BY DEF WholeOK
  <2>1. Start(k) + n = 0 /\ Start(k) \in Nat /\ n \in Nat
    BY <1>2, StartFacts, Lengths DEF ReadUpTo
  <2>2. n = 0
    BY <2>1
  <2> QED BY <1>1, <2>2, BegunFacts
<1>7. CallsOK
  <2>1. calls \in Seq(Seq(Positions)) /\ Len(calls) = 0
    BY <1>1, EmptySeq
  <2> QED BY <1>2, <2>1 DEF CallsOK, IsCalls
<1> QED BY <1>4, <1>5, <1>6, <1>7 DEF SLCanInv

LEMMA SLCanInductive == SLCanInv /\ [CanNext]_canvars => SLCanInv'
<1> SUFFICES ASSUME SLCanInv, [CanNext]_canvars PROVE SLCanInv'
  OBVIOUS
<1>1. CASE Arrive
  BY <1>1, ArriveKeeps
<1>2. CASE Overrun
  BY <1>2, OverrunKeeps
<1>3. CASE Input
  BY <1>3, InputKeeps
<1>4. CASE UNCHANGED canvars
  BY <1>4 DEF canvars, SLCanInv, RingOK, BufferOK, WholeOK, CallsOK, IsCalls, CallOK, LostBefore, ActedOn,
              Received, ReadUpTo, Read
<1> QED BY <1>1, <1>2, <1>3, <1>4 DEF CanNext, Quiet

\* Nothing but a frame that was sent is acted on, unless between two received
\* line ends as many characters were lost as a frame has (SLCan.cpp input(),
\* handle()).
THEOREM NoSpliceAlways == CanSpec => []NoSplice
<1>1. SLCanInv => NoSplice
  BY SLCanInvProperties
<1> QED BY <1>1, SLCanInit, SLCanInductive, PTL DEF CanSpec

\* A frame that arrives whole after a line end is acted on once its CR has been
\* read, whatever was lost before (SLCan.cpp input(), handle()).
THEOREM IntactFramesHandledAlways == CanSpec => []IntactFramesHandled
<1>1. SLCanInv => IntactFramesHandled
  BY SLCanInvProperties
<1> QED BY <1>1, SLCanInit, SLCanInductive, PTL DEF CanSpec

=============================================================================
