--------------------------- MODULE SvfPlayerProofs ---------------------------
(***************************************************************************)
(* The player and the device, for every set of well-formed files, every    *)
(* size of delay calls, both builds and any number of failing pins: while  *)
(* none has failed the host knows where the device is.                     *)
(*                                                                         *)
(* Each step of libxsvf moves both by the same TMS, so what has to be      *)
(* proved is that a bit is shifted only in a shift state, a delay waits    *)
(* only where waiting changes nothing, and the way out of INIT ends in     *)
(* RESET.  The first two are about the calls that a command still has to   *)
(* make.  On top of that come the mismatches, the number of bits that a    *)
(* scan shifts, the edges that the progress count stands for, and that the *)
(* play counts what the analysis counted.                                  *)
(***************************************************************************)
EXTENDS SvfPlayer, TLAPS

(***************************************************************************)
(* The access port and the two walkers, for every pair of states.          *)
(***************************************************************************)

USE DEF INIT, RESET, IDLE, DRSELECT, DRCAPTURE, DRSHIFT, DREXIT1, DRPAUSE, DREXIT2,
        DRUPDATE, IRSELECT, IRCAPTURE, IRSHIFT, IREXIT1, IRPAUSE, IREXIT2, IRUPDATE, UNKNOWN

\* A clock brings a state of the port to another.
LEMMA DeviceType ==
    ASSUME NEW s \in DeviceStates, NEW tms \in {0, 1}
    PROVE  Device(s, tms) \in DeviceStates
  BY DEF DeviceStates, Device, Column

LEMMA WalkTmsType ==
    ASSUME NEW s, NEW t
    PROVE  WalkTms(s, t) \in {0, 1}
  BY DEF WalkTms

\* What libxsvf_tap_walk() believes after a round is what the port does on the
\* TMS it sent: from every state towards every other, and also towards the state
\* that does not exist, which ENDDR lets through.
THEOREM WalkIsFaithful ==
    ASSUME NEW s \in DeviceStates, NEW t \in DeviceStates \cup {UNKNOWN}, s # t
    PROVE  WalkNext(s, t) = Device(s, WalkTms(s, t))
  BY DEF DeviceStates, WalkNext, WalkTms, Device, Turns, Column

\* For every pair of states: the state setTapState() believes it has reached after
\* a step is the one the device goes to on the bit of TMS it has queued for it.
THEOREM SetTapStateIsFaithful ==
    ASSUME NEW s \in DeviceStates, NEW t \in DeviceStates, s # t
    PROVE  HostNext(s, t) = Device(s, IF Ahead(s, t) THEN 0 ELSE 1)
  BY DEF DeviceStates, HostNext, Ahead, InColumn, Bound, Device, Column

-----------------------------------------------------------------------------
\* A first round out of INIT, and the last bit of a shift, which leaves for EXIT1.
LEMMA OutOfInit ==
    ASSUME NEW t
    PROVE  WalkTms(INIT, t) = 1 /\ WalkNext(INIT, t) = RESET
  BY DEF WalkTms, WalkNext

LEMMA LeaveShift ==
    ASSUME NEW s \in {DRSHIFT, IRSHIFT}, NEW tms \in {0, 1}, tms = 1
    PROVE  s + 1 = Device(s, tms)
  BY DEF Device, Column

\* Rounds of the walker from s to RESET.
Far(s) ==
    CASE s = RESET -> 0
      [] s = IRSELECT -> 1
      [] s = DRSELECT -> 2
      [] s \in {IDLE, DRUPDATE, IRUPDATE} -> 3
      [] s \in {DREXIT1, DREXIT2, IREXIT1, IREXIT2} -> 4
      [] OTHER -> 5

LEMMA FarBound ==
    ASSUME NEW s
    PROVE  Far(s) \in 0 .. 5
  BY DEF Far

LEMMA FarStep ==
    ASSUME NEW s \in DeviceStates, s # RESET
    PROVE  Far(WalkNext(s, RESET)) = Far(s) - 1
<1>1. CASE s = IRSELECT
  <2>1. WalkNext(s, RESET) = RESET
    BY <1>1 DEF WalkNext, Turns
  <2> QED
    BY <1>1, <2>1 DEF Far
<1>2. CASE s = DRSELECT
  <2>1. WalkNext(s, RESET) = IRSELECT
    BY <1>2 DEF WalkNext, Turns
  <2> QED
    BY <1>2, <2>1 DEF Far
<1>3. CASE s \in {IDLE, DRUPDATE, IRUPDATE}
  <2>1. WalkNext(s, RESET) = DRSELECT
    BY <1>3 DEF WalkNext, Turns
  <2> QED
    BY <1>3, <2>1 DEF Far
<1>4. CASE s \in {DREXIT1, DREXIT2, IREXIT1, IREXIT2}
  <2>1. WalkNext(s, RESET) \in {DRUPDATE, IRUPDATE}
    BY <1>4 DEF WalkNext, Turns
  <2> QED
    BY <1>4, <2>1 DEF Far
<1>5. CASE s \in {DRCAPTURE, DRSHIFT, DRPAUSE, IRCAPTURE, IRSHIFT, IRPAUSE}
  <2>1. WalkNext(s, RESET) \in {DREXIT1, DREXIT2, IREXIT1, IREXIT2}
    BY <1>5 DEF WalkNext, Turns
  <2> QED
    BY <1>5, <2>1 DEF Far
<1> QED
  BY <1>1, <1>2, <1>3, <1>4, <1>5 DEF DeviceStates

\* A clock brings the port no more than one step nearer to RESET.
LEMMA FarValues ==
    /\ Far(RESET) = 0 /\ Far(IRSELECT) = 1 /\ Far(DRSELECT) = 2
    /\ Far(IDLE) = 3 /\ Far(DRUPDATE) = 3 /\ Far(IRUPDATE) = 3
    /\ Far(DREXIT1) = 4 /\ Far(DREXIT2) = 4 /\ Far(IREXIT1) = 4 /\ Far(IREXIT2) = 4
    /\ \A s \in {DRCAPTURE, DRSHIFT, DRPAUSE, IRCAPTURE, IRSHIFT, IRPAUSE} : Far(s) = 5
  BY DEF Far

LEMMA DeviceRows ==
    ASSUME NEW tms \in {0, 1}
    PROVE  /\ \A s \in {IDLE, DRUPDATE, IRUPDATE} : Device(s, tms) \in {IDLE, DRSELECT}
           /\ Device(DRSELECT, tms) \in {IRSELECT, DRCAPTURE}
           /\ \A s \in {DRCAPTURE, DRSHIFT, DRPAUSE, IRCAPTURE, IRSHIFT, IRPAUSE} :
                 Device(s, tms) \in {DRSHIFT, DREXIT1, DRPAUSE, DREXIT2, IRSHIFT, IREXIT1, IRPAUSE, IREXIT2}
           /\ \A s \in {DREXIT1, DREXIT2, IREXIT1, IREXIT2} :
                 Device(s, tms) \in {DRPAUSE, DRUPDATE, DRSHIFT, IRPAUSE, IRUPDATE, IRSHIFT}
<1>1. ASSUME NEW s \in {IDLE, DRUPDATE, IRUPDATE} PROVE Device(s, tms) \in {IDLE, DRSELECT}
  BY DEF Device, Column
<1>2. Device(DRSELECT, tms) \in {IRSELECT, DRCAPTURE}
  BY DEF Device, Column
<1>3. ASSUME NEW s \in {DRCAPTURE, DRSHIFT, DRPAUSE, IRCAPTURE, IRSHIFT, IRPAUSE}
      PROVE  Device(s, tms) \in {DRSHIFT, DREXIT1, DRPAUSE, DREXIT2, IRSHIFT, IREXIT1, IRPAUSE, IREXIT2}
  BY DEF Device, Column
<1>4. ASSUME NEW s \in {DREXIT1, DREXIT2, IREXIT1, IREXIT2}
      PROVE  Device(s, tms) \in {DRPAUSE, DRUPDATE, DRSHIFT, IRPAUSE, IRUPDATE, IRSHIFT}
  BY DEF Device, Column
<1> QED
  BY <1>1, <1>2, <1>3, <1>4

LEMMA FarNear ==
    ASSUME NEW s \in DeviceStates, NEW tms \in {0, 1}
    PROVE  Far(s) <= 1 + Far(Device(s, tms))
<1>1. CASE s \in {RESET, IRSELECT}
  BY <1>1, FarValues, FarBound
<1>2. CASE s \in {IDLE, DRUPDATE, IRUPDATE}
  BY <1>2, DeviceRows, FarValues
<1>3. CASE s = DRSELECT
  BY <1>3, DeviceRows, FarValues
<1>4. CASE s \in {DRCAPTURE, DRSHIFT, DRPAUSE, IRCAPTURE, IRSHIFT, IRPAUSE}
  BY <1>4, DeviceRows, FarValues
<1>5. CASE s \in {DREXIT1, DREXIT2, IREXIT1, IREXIT2}
  BY <1>5, DeviceRows, FarValues
<1> QED
  BY <1>1, <1>2, <1>3, <1>4, <1>5 DEF DeviceStates

\* The walker comes to a shift state only if it is to go there.
LEMMA WalkArrives ==
    ASSUME NEW s \in TapStates, NEW t, WalkNext(s, t) \in {DRSHIFT, IRSHIFT}
    PROVE  WalkNext(s, t) = t
  BY DEF TapStates, WalkNext, Turns

-----------------------------------------------------------------------------
\* Clocks with TMS = 0 do not leave a shift or pause state, nor IDLE ...
LEMMA Settled ==
    ASSUME NEW s \in {IDLE, DRSHIFT, DRPAUSE, IRSHIFT, IRPAUSE}, NEW tms \in {0, 1}, tms = 0
    PROVE  Device(s, tms) = s
  BY DEF Device, Column

LEMMA OneClock ==
    ASSUME NEW s \in DeviceStates, NEW tms \in {0, 1}, tms = 0
    PROVE  Device(s, tms) \in {IDLE, DRCAPTURE, DRSHIFT, DRPAUSE, IRCAPTURE, IRSHIFT, IRPAUSE}
  BY DEF Device, Column, DeviceStates

LEMMA FromCapture ==
    ASSUME NEW s \in {DRCAPTURE, IRCAPTURE}, NEW tms \in {0, 1}, tms = 0
    PROVE  Device(s, tms) \in {DRSHIFT, IRSHIFT}
  BY DEF Device, Column

\* ... and two of them have always brought the port to one of those: it is
\* enough for Clocked to make two.
LEMMA TwoClocksSettle ==
    ASSUME NEW s \in DeviceStates
    PROVE  Device(Device(s, 0), 0) \in {IDLE, DRSHIFT, DRPAUSE, IRSHIFT, IRPAUSE}
<1> DEFINE d == Device(s, 0)
<1>1. d \in {IDLE, DRCAPTURE, DRSHIFT, DRPAUSE, IRCAPTURE, IRSHIFT, IRPAUSE}
  BY OneClock
<1> HIDE DEF d
<1>2. CASE d \in {IDLE, DRSHIFT, DRPAUSE, IRSHIFT, IRPAUSE}
  BY <1>2, Settled DEF d
<1>3. CASE d \in {DRCAPTURE, IRCAPTURE}
  BY <1>3, FromCapture DEF d
<1> QED
  BY <1>1, <1>2, <1>3

LEMMA ClockedStays ==
    ASSUME NEW s \in {IDLE, DRSHIFT, DRPAUSE, IRSHIFT, IRPAUSE}, NEW n
    PROVE  Clocked(n, s) = s
  BY Settled DEF Clocked

LEMMA ClockedType ==
    ASSUME NEW s \in DeviceStates, NEW n
    PROVE  Clocked(n, s) \in DeviceStates
<1>1. Device(s, 0) \in DeviceStates
  BY DeviceType
<1>2. Device(Device(s, 0), 0) \in DeviceStates
  BY <1>1, DeviceType
<1> QED
  BY <1>1, <1>2 DEF Clocked

-----------------------------------------------------------------------------
\* Where the port can be after k pulses with TMS = 1, wherever it was.
After(k) ==
    CASE k = 0 -> DeviceStates
      [] k = 1 -> {RESET, DRSELECT, IRSELECT, DREXIT1, IREXIT1, DREXIT2, IREXIT2, DRUPDATE, IRUPDATE}
      [] k = 2 -> {RESET, DRSELECT, IRSELECT, DRUPDATE, IRUPDATE}
      [] k = 3 -> {RESET, DRSELECT, IRSELECT}
      [] k = 4 -> {RESET, IRSELECT}
      [] OTHER -> {RESET}

LEMMA AfterNone == After(0) = DeviceStates
  BY DEF After

LEMMA AfterStep ==
    ASSUME NEW k \in 0 .. 5, NEW s \in After(k)
    PROVE  Device(s, 1) \in After(k + 1)
<1>1. CASE k = 0
  BY <1>1 DEF After, Device, Column, DeviceStates
<1>2. CASE k = 1
  BY <1>2 DEF After, Device, Column
<1>3. CASE k = 2
  BY <1>3 DEF After, Device, Column
<1>4. CASE k = 3
  BY <1>4 DEF After, Device, Column
<1>5. CASE k = 4
  BY <1>5 DEF After, Device, Column
<1>6. CASE k = 5
  BY <1>6 DEF After, Device, Column
<1> QED
  BY <1>1, <1>2, <1>3, <1>4, <1>5, <1>6

\* Five of the pulses with TMS = 1 that the walker makes in INIT are enough,
\* whatever state the port is in; the sixth leaves it where it is.
THEOREM ResetFromAnywhere ==
    ASSUME NEW s \in DeviceStates
    PROVE  Device(Device(Device(Device(Device(s, 1), 1), 1), 1), 1) = RESET
<1> DEFINE d1 == Device(s, 1)
           d2 == Device(d1, 1)
           d3 == Device(d2, 1)
           d4 == Device(d3, 1)
<1>0. s \in After(0)
  BY DEF After
<1>1. d1 \in After(1)
  BY <1>0, AfterStep
<1> HIDE DEF d1
<1>2. d2 \in After(2)
  BY <1>1, AfterStep
<1> HIDE DEF d2
<1>3. d3 \in After(3)
  BY <1>2, AfterStep
<1> HIDE DEF d3
<1>4. d4 \in After(4)
  BY <1>3, AfterStep
<1> HIDE DEF d4
<1>5. Device(d4, 1) \in After(5)
  BY <1>4, AfterStep
<1> QED
  BY <1>5 DEF After, d1, d2, d3, d4

HIDE DEF INIT, RESET, IDLE, DRSELECT, DRCAPTURE, DRSHIFT, DREXIT1, DRPAUSE, DREXIT2,
         DRUPDATE, IRSELECT, IRCAPTURE, IRSHIFT, IREXIT1, IRPAUSE, IREXIT2, IRUPDATE, UNKNOWN

-----------------------------------------------------------------------------
(***************************************************************************)
(* The calls that a command still has to make.                             *)
(***************************************************************************)

ShiftStates == {DRSHIFT, IRSHIFT}

WalkJobs == [op : {"walk"}, to : States]
ShiftJobs == [op : {"shift"}, left : Nat, tdo : BOOLEAN, to : States]
DelayJobs == [op : {"delay"}, left : Nat]
Jobs == WalkJobs \cup ShiftJobs \cup DelayJobs

\* Bits that are still to be shifted: whatever comes before them leads to the
\* shift state s and stays there.
ShiftsIn(s, js, t) ==
    \A i \in 1 .. Len(js) : js[i].op = "shift" /\ js[i].left > 0 =>
        /\ \A j \in 1 .. i - 1 : js[j].op # "delay" /\ js[j].to = s
        /\ t = s \/ \E j \in 1 .. i - 1 : js[j].op = "walk"

\* A delay comes after a walk to a state that waiting does not leave.
DelaysStable(js, t) ==
    \A i \in 1 .. Len(js) : js[i].op = "delay" =>
        IF i = 1 THEN t \in Stable ELSE js[i - 1].op = "walk" /\ js[i - 1].to \in Stable

JobsOK(js, t) == js \in Seq(Jobs) /\ DelaysStable(js, t) /\ \E s \in ShiftStates : ShiftsIn(s, js, t)

-----------------------------------------------------------------------------
(***************************************************************************)
(* Calls are made one after the other.                                     *)
(***************************************************************************)

LEMMA JobKinds ==
    ASSUME NEW j \in Jobs
    PROVE  /\ j.op \in {"walk", "shift", "delay"}
           /\ j.op = "walk" => j \in WalkJobs /\ j.to \in States
           /\ j.op = "shift" => j \in ShiftJobs /\ j.to \in States /\ j.left \in Nat /\ j.tdo \in BOOLEAN
           /\ j.op = "delay" => j \in DelayJobs /\ j.left \in Nat
  BY DEF Jobs, WalkJobs, ShiftJobs, DelayJobs

LEMMA FirstJob ==
    ASSUME NEW js \in Seq(Jobs), js # <<>>
    PROVE  js[1] \in Jobs /\ Head(js) = js[1] /\ Len(js) \in Nat /\ Len(js) >= 1
  OBVIOUS

LEMMA NoJobs == \A t : JobsOK(<<>>, t)
  BY DEF JobsOK, ShiftsIn, DelaysStable, ShiftStates

LEMMA WalkIsJob == \A s \in States : Walk(s) \in Jobs /\ Walk(s).op = "walk" /\ Walk(s).to = s
  BY DEF Walk, Jobs, WalkJobs

\* Walks alone can be made from anywhere.
LEMMA WalksOnly ==
    ASSUME NEW js \in Seq(Jobs), \A i \in 1 .. Len(js) : js[i].op = "walk", NEW t
    PROVE  JobsOK(js, t)
  BY DEF JobsOK, ShiftsIn, DelaysStable, ShiftStates

\* A call is done; if it was a walk, where it led.
LEMMA JobDone ==
    ASSUME NEW js, NEW t, JobsOK(js, t), js # <<>>, js[1].op = "walk" => t = js[1].to
    PROVE  JobsOK(Tail(js), t)
<1>1. js \in Seq(Jobs) /\ DelaysStable(js, t)
  BY DEF JobsOK
<1>2. PICK s \in ShiftStates : ShiftsIn(s, js, t)
  BY DEF JobsOK
<1>3. /\ Tail(js) \in Seq(Jobs) /\ Len(js) \in Nat /\ Len(js) >= 1 /\ Len(Tail(js)) = Len(js) - 1
      /\ \A i \in 1 .. Len(Tail(js)) : Tail(js)[i] = js[i + 1] /\ i + 1 \in 1 .. Len(js)
  BY <1>1
<1>4. DelaysStable(Tail(js), t)
  <2> SUFFICES ASSUME NEW i \in 1 .. Len(Tail(js)), Tail(js)[i].op = "delay"
               PROVE  IF i = 1 THEN t \in Stable
                      ELSE Tail(js)[i - 1].op = "walk" /\ Tail(js)[i - 1].to \in Stable
    BY DEF DelaysStable
  <2>1. js[i].op = "walk" /\ js[i].to \in Stable
    <3>1. i + 1 \in 1 .. Len(js) /\ i + 1 # 1 /\ (i + 1) - 1 = i /\ js[i + 1].op = "delay"
      BY <1>3
    <3> QED
      BY <3>1, <1>1 DEF DelaysStable
  <2>2. CASE i = 1
    BY <2>1, <2>2
  <2>3. CASE i # 1
    <3>1. i - 1 \in 1 .. Len(Tail(js)) /\ Tail(js)[i - 1] = js[i]
      BY <2>3, <1>3
    <3> QED
      BY <2>1, <2>3, <3>1
  <2> QED
    BY <2>2, <2>3
<1>5. ShiftsIn(s, Tail(js), t)
  <2> SUFFICES ASSUME NEW i \in 1 .. Len(Tail(js)), Tail(js)[i].op = "shift", Tail(js)[i].left > 0
               PROVE  /\ \A j \in 1 .. i - 1 : Tail(js)[j].op # "delay" /\ Tail(js)[j].to = s
                      /\ t = s \/ \E j \in 1 .. i - 1 : Tail(js)[j].op = "walk"
    BY DEF ShiftsIn
  <2>1. i + 1 \in 1 .. Len(js) /\ js[i + 1].op = "shift" /\ js[i + 1].left > 0 /\ (i + 1) - 1 = i
    BY <1>3
  <2>2. /\ \A j \in 1 .. i : js[j].op # "delay" /\ js[j].to = s
        /\ t = s \/ \E j \in 1 .. i : js[j].op = "walk"
    BY <2>1, <1>2 DEF ShiftsIn
  <2>3. \A j \in 1 .. i - 1 : j + 1 \in 1 .. i /\ Tail(js)[j] = js[j + 1]
    BY <1>3
  <2>4. \A j \in 1 .. i - 1 : Tail(js)[j].op # "delay" /\ Tail(js)[j].to = s
    BY <2>2, <2>3
  <2>5. ASSUME t # s PROVE \E j \in 1 .. i - 1 : Tail(js)[j].op = "walk"
    <3>1. PICK j \in 1 .. i : js[j].op = "walk"
      BY <2>2, <2>5
    <3>2. 1 \in 1 .. i /\ js[1].to = s
      BY <2>2
    <3>3. j # 1
      BY <3>1, <3>2, <2>5
    <3>4. j - 1 \in 1 .. i - 1 /\ Tail(js)[j - 1] = js[j]
      <4>1. j - 1 \in 1 .. i - 1 /\ j - 1 \in 1 .. Len(Tail(js)) /\ (j - 1) + 1 = j
        BY <3>3
      <4> QED
        BY <4>1, <1>3
    <3> QED
      BY <3>1, <3>4
  <2> QED
    BY <2>4, <2>5
<1> QED
  BY <1>3, <1>4, <1>5 DEF JobsOK

\* While the first call is a walk it does not matter where the host is.
LEMMA JobWalks ==
    ASSUME NEW js, NEW t, NEW t2, JobsOK(js, t), js # <<>>, js[1].op = "walk"
    PROVE  JobsOK(js, t2)
<1>1. js \in Seq(Jobs) /\ DelaysStable(js, t)
  BY DEF JobsOK
<1>2. PICK s \in ShiftStates : ShiftsIn(s, js, t)
  BY DEF JobsOK
<1>3. DelaysStable(js, t2)
  BY <1>1 DEF DelaysStable
<1>4. ShiftsIn(s, js, t2)
  <2> SUFFICES ASSUME NEW i \in 1 .. Len(js), js[i].op = "shift", js[i].left > 0
               PROVE  /\ \A j \in 1 .. i - 1 : js[j].op # "delay" /\ js[j].to = s
                      /\ \E j \in 1 .. i - 1 : js[j].op = "walk"
    BY DEF ShiftsIn
  <2>1. \A j \in 1 .. i - 1 : js[j].op # "delay" /\ js[j].to = s
    BY <1>2 DEF ShiftsIn
  <2>2. 1 \in 1 .. i - 1
    <3>1. i # 1
      OBVIOUS
    <3> QED
      BY <3>1, <1>1
  <2> QED
    BY <2>1, <2>2
<1> QED
  BY <1>1, <1>3, <1>4 DEF JobsOK

\* A bit is shifted in a shift state; if that leaves it, nothing follows that
\* needs it.
LEMMA JobShifts ==
    ASSUME NEW js, NEW t, NEW t2, JobsOK(js, t), js # <<>>, js[1].op = "shift", js[1].left > 0,
           t2 = t \/ (js[1].left = 1 /\ t # js[1].to)
    PROVE  t \in ShiftStates /\ JobsOK([js EXCEPT ![1].left = @ - 1], t2)
<1> DEFINE ks == [js EXCEPT ![1].left = @ - 1]
<1>1. js \in Seq(Jobs) /\ DelaysStable(js, t) /\ Len(js) \in Nat /\ 1 \in 1 .. Len(js)
  BY DEF JobsOK
<1>2. PICK s \in ShiftStates : ShiftsIn(s, js, t)
  BY DEF JobsOK
<1>3. t = s
  BY <1>1, <1>2 DEF ShiftsIn
<1>4. js[1] \in ShiftJobs /\ js[1].left \in Nat
  BY <1>1, JobKinds
<1>5. /\ ks \in Seq(Jobs) /\ Len(ks) = Len(js)
      /\ ks[1].op = "shift" /\ ks[1].to = js[1].to /\ ks[1].left = js[1].left - 1
      /\ \A i \in 1 .. Len(js) : i # 1 => ks[i] = js[i]
  <2>1. [js[1] EXCEPT !.left = @ - 1] \in ShiftJobs
    BY <1>4 DEF ShiftJobs
  <2>2. /\ [js[1] EXCEPT !.left = @ - 1].op = "shift"
        /\ [js[1] EXCEPT !.left = @ - 1].to = js[1].to
        /\ [js[1] EXCEPT !.left = @ - 1].left = js[1].left - 1
    BY <1>4 DEF ShiftJobs
  <2>3. ks = [js EXCEPT ![1] = [js[1] EXCEPT !.left = @ - 1]]
    OBVIOUS
  <2>4. [js[1] EXCEPT !.left = @ - 1] \in Jobs
    BY <2>1 DEF Jobs
  <2> HIDE DEF ks
  <2> QED
    BY <2>2, <2>3, <2>4, <1>1
<1> HIDE DEF ks
<1>6. DelaysStable(ks, t2)
  <2> SUFFICES ASSUME NEW i \in 1 .. Len(js), ks[i].op = "delay"
               PROVE  i # 1 /\ ks[i - 1].op = "walk" /\ ks[i - 1].to \in Stable
    BY <1>5 DEF DelaysStable
  <2>1. i # 1 /\ js[i].op = "delay"
    BY <1>5
  <2>2. js[i - 1].op = "walk" /\ js[i - 1].to \in Stable
    BY <2>1, <1>1 DEF DelaysStable
  <2>3. i - 1 # 1 /\ i - 1 \in 1 .. Len(js)
    BY <2>1, <2>2, <1>1
  <2> QED
    BY <2>1, <2>2, <2>3, <1>5
<1>7. ShiftsIn(s, ks, t2)
  <2> SUFFICES ASSUME NEW i \in 1 .. Len(js), ks[i].op = "shift", ks[i].left > 0
               PROVE  /\ \A j \in 1 .. i - 1 : ks[j].op # "delay" /\ ks[j].to = s
                      /\ t2 = s
    BY <1>5 DEF ShiftsIn
  <2>1. js[i].op = "shift" /\ js[i].left > 0
    BY <1>4, <1>5
  <2>2. \A j \in 1 .. i - 1 : js[j].op # "delay" /\ js[j].to = s
    BY <2>1, <1>2 DEF ShiftsIn
  <2>3. \A j \in 1 .. i - 1 : ks[j].op # "delay" /\ ks[j].to = s
    BY <2>2, <1>5
  <2>4. t2 = s
    <3>1. CASE i = 1
      BY <3>1, <1>3, <1>4, <1>5
    <3>2. CASE i # 1
      <4>1. 1 \in 1 .. i - 1 /\ js[1].to = s
        BY <3>2, <2>2
      <4> QED
        BY <4>1, <1>3
    <3> QED
      BY <3>1, <3>2
  <2> QED
    BY <2>3, <2>4
<1> QED
  BY <1>2, <1>3, <1>5, <1>6, <1>7 DEF JobsOK, ks

\* Clocks of a delay are made.
LEMMA JobDelays ==
    ASSUME NEW js, NEW t, NEW n \in Nat, JobsOK(js, t), js # <<>>, js[1].op = "delay"
    PROVE  t \in Stable /\ JobsOK([js EXCEPT ![1].left = n], t)
<1> DEFINE ks == [js EXCEPT ![1].left = n]
<1>1. js \in Seq(Jobs) /\ DelaysStable(js, t) /\ Len(js) \in Nat /\ 1 \in 1 .. Len(js)
  BY DEF JobsOK
<1>2. PICK s \in ShiftStates : ShiftsIn(s, js, t)
  BY DEF JobsOK
<1>3. t \in Stable
  BY <1>1 DEF DelaysStable
<1>4. js[1] \in DelayJobs
  BY <1>1, JobKinds
<1>5. /\ ks \in Seq(Jobs) /\ Len(ks) = Len(js) /\ ks[1].op = "delay"
      /\ \A i \in 1 .. Len(js) : i # 1 => ks[i] = js[i]
  <2>1. [js[1] EXCEPT !.left = n] \in DelayJobs /\ [js[1] EXCEPT !.left = n].op = "delay"
    BY <1>4 DEF DelayJobs
  <2>2. ks = [js EXCEPT ![1] = [js[1] EXCEPT !.left = n]]
    OBVIOUS
  <2>3. [js[1] EXCEPT !.left = n] \in Jobs
    BY <2>1 DEF Jobs
  <2> HIDE DEF ks
  <2> QED
    BY <2>1, <2>2, <2>3, <1>1
<1> HIDE DEF ks
<1>6. DelaysStable(ks, t)
  <2> SUFFICES ASSUME NEW i \in 1 .. Len(js), ks[i].op = "delay", i # 1
               PROVE  ks[i - 1].op = "walk" /\ ks[i - 1].to \in Stable
    BY <1>3, <1>5 DEF DelaysStable
  <2>1. js[i - 1].op = "walk" /\ js[i - 1].to \in Stable
    BY <1>1, <1>5 DEF DelaysStable
  <2>2. i - 1 # 1 /\ i - 1 \in 1 .. Len(js)
    BY <2>1, <1>1
  <2> QED
    BY <2>1, <2>2, <1>5
<1>7. ShiftsIn(s, ks, t)
  <2>1. \A i \in 1 .. Len(js) : i # 1 => ~(js[i].op = "shift" /\ js[i].left > 0)
    <3> SUFFICES ASSUME NEW i \in 1 .. Len(js), i # 1, js[i].op = "shift", js[i].left > 0 PROVE FALSE
      OBVIOUS
    <3>1. 1 \in 1 .. i - 1
      OBVIOUS
    <3> QED
      BY <3>1, <1>2 DEF ShiftsIn
  <2> QED
    BY <2>1, <1>5 DEF ShiftsIn
<1> QED
  BY <1>3, <1>5, <1>6, <1>7 DEF JobsOK, ks

-----------------------------------------------------------------------------
(***************************************************************************)
(* The calls of a command.                                                 *)
(***************************************************************************)

Settings ==
    [endir : States, enddr : States, run : States, endrun : States,
     hdr : BitData, tdr : BitData, hir : BitData, tir : BitData]

LEMMA SettingsFields ==
    ASSUME NEW st \in Settings
    PROVE  /\ st.endir \in States /\ st.enddr \in States
           /\ st.hdr \in BitData /\ st.tdr \in BitData /\ st.hir \in BitData /\ st.tir \in BitData
  BY DEF Settings

LEMMA BitDataFields ==
    ASSUME NEW b \in BitData
    PROVE  b.len \in Nat /\ b.tdo \in BOOLEAN
  BY DEF BitData

LEMMA StateNames ==
    /\ ShiftStates \subseteq States /\ Stable \subseteq States /\ Stable \subseteq DeviceStates
    /\ RESET \in States /\ IDLE \in States /\ INIT \notin States /\ INIT \notin Stable
  BY DEF States, ShiftStates, Stable, DeviceStates,
         INIT, RESET, IDLE, DRSHIFT, IRSHIFT, DRPAUSE, IRPAUSE, IRUPDATE, UNKNOWN

LEMMA DefaultSettings == Defaults \in Settings
<1>1. NoBits \in BitData
  BY DEF NoBits, BitData
<1> QED
  BY <1>1, StateNames DEF Defaults, Settings

LEMMA StateSetting ==
    ASSUME NEW st \in Settings, NEW v \in States
    PROVE  /\ [st EXCEPT !["endir"] = v] \in Settings
           /\ [st EXCEPT !["enddr"] = v] \in Settings
  BY DEF Settings

LEMMA BitSetting ==
    ASSUME NEW st \in Settings, NEW v \in BitData
    PROVE  /\ [st EXCEPT !["hdr"] = v] \in Settings
           /\ [st EXCEPT !["tdr"] = v] \in Settings
           /\ [st EXCEPT !["hir"] = v] \in Settings
           /\ [st EXCEPT !["tir"] = v] \in Settings
  BY DEF Settings

LEMMA RuntestSetting ==
    ASSUME NEW st \in Settings, NEW r \in States, NEW v \in States
    PROVE  /\ [st EXCEPT !.run = r, !.endrun = v] \in Settings
           /\ [st EXCEPT !.run = r, !.endrun = v].run = r
           /\ [st EXCEPT !.run = r, !.endrun = v].endrun = v
  BY DEF Settings

LEMMA CommandSetsType ==
    ASSUME set \in Settings, NEW c, WellFormed(c)
    PROVE  CommandSets(c, set) \in Settings
<1>1. CASE c.op = "SET"
  <2>1. CommandSets(c, set) = [set EXCEPT ![c.what] = c.value]
    BY <1>1 DEF CommandSets
  <2>2. CASE c.what \in {"endir", "enddr"} /\ c.value \in States
    BY <2>1, <2>2, StateSetting
  <2>3. CASE c.what \in {"hdr", "tdr", "hir", "tir"} /\ c.value \in BitData
    <3>1. c.what = "hdr" \/ c.what = "tdr" \/ c.what = "hir" \/ c.what = "tir"
      BY <2>3
    <3>2. /\ [set EXCEPT !["hdr"] = c.value] \in Settings
          /\ [set EXCEPT !["tdr"] = c.value] \in Settings
          /\ [set EXCEPT !["hir"] = c.value] \in Settings
          /\ [set EXCEPT !["tir"] = c.value] \in Settings
      BY <2>3, BitSetting
    <3> QED
      BY <2>1, <3>1, <3>2
  <2> QED
    BY <1>1, <2>2, <2>3 DEF WellFormed
<1>2. CASE c.op = "RUNTEST"
  <2>1. c.run \in States /\ c.end \in States
    BY <1>2, StateNames DEF WellFormed
  <2> QED
    BY <1>2, <2>1, RuntestSetting DEF CommandSets
<1>3. CASE c.op \notin {"SET", "RUNTEST"}
  BY <1>3 DEF CommandSets
<1> QED
  BY <1>1, <1>2, <1>3

\* A part of a scan is shifted only if all before it stay in the shift state.
LEMMA ScanIsOK ==
    ASSUME NEW head \in BitData, NEW body \in BitData, NEW tail \in BitData,
           NEW s \in ShiftStates, NEW end \in States, NEW t
    PROVE  JobsOK(ScanJobs(head, body, tail, s, end), t)
<1> DEFINE js == ScanJobs(head, body, tail, s, end)
           to1 == Last(body.len + tail.len, s, end)
           to2 == Last(tail.len, s, end)
<1>1. /\ head.len \in Nat /\ body.len \in Nat /\ tail.len \in Nat
      /\ head.tdo \in BOOLEAN /\ body.tdo \in BOOLEAN /\ tail.tdo \in BOOLEAN
  BY BitDataFields
<1>2. s \in States /\ to1 \in States /\ to2 \in States
  BY StateNames DEF Last
<1>3. (body.len > 0 \/ tail.len > 0 => to1 = s) /\ (tail.len > 0 => to2 = s)
  BY <1>1 DEF Last
<1>4. js = <<Walk(s), Shift(head, to1), Shift(body, to2), Shift(tail, end), Walk(end)>>
  BY DEF ScanJobs, BehindHead
<1> HIDE DEF js, to1, to2
<1>5. \A b \in BitData, z \in States :
         /\ Shift(b, z) \in Jobs /\ Shift(b, z).op = "shift" /\ Shift(b, z).left = b.len
         /\ Shift(b, z).to = z
  BY BitDataFields DEF Shift, Jobs, ShiftJobs
<1>6. /\ js \in Seq(Jobs) /\ Len(js) = 5
      /\ js[1] = Walk(s) /\ js[2] = Shift(head, to1) /\ js[3] = Shift(body, to2)
      /\ js[4] = Shift(tail, end) /\ js[5] = Walk(end)
  BY <1>2, <1>4, <1>5, WalkIsJob
<1>7. /\ js[1].op = "walk" /\ js[1].to = s /\ js[5].op = "walk"
      /\ js[2].op = "shift" /\ js[2].to = to1
      /\ js[3].op = "shift" /\ js[3].to = to2 /\ js[3].left = body.len
      /\ js[4].op = "shift" /\ js[4].left = tail.len
  BY <1>2, <1>5, <1>6, WalkIsJob
<1>8. DelaysStable(js, t)
  BY <1>6, <1>7 DEF DelaysStable
<1>9. ShiftsIn(s, js, t)
  <2> SUFFICES ASSUME NEW i \in 1 .. 5, js[i].op = "shift", js[i].left > 0
               PROVE  /\ \A j \in 1 .. i - 1 : js[j].op # "delay" /\ js[j].to = s
                      /\ \E j \in 1 .. i - 1 : js[j].op = "walk"
    BY <1>6 DEF ShiftsIn
  <2>1. i \in {2, 3, 4}
    BY <1>7
  <2>2. CASE i = 2
    BY <2>2, <1>7
  <2>3. CASE i = 3
    <3>1. to1 = s
      BY <2>3, <1>3, <1>7
    <3> QED
      BY <2>3, <3>1, <1>7
  <2>4. CASE i = 4
    <3>1. to1 = s /\ to2 = s
      BY <2>4, <1>3, <1>7
    <3> QED
      BY <2>4, <3>1, <1>7
  <2> QED
    BY <2>1, <2>2, <2>3, <2>4
<1> QED
  BY <1>6, <1>8, <1>9 DEF JobsOK, js

LEMMA RuntestIsOK ==
    ASSUME NEW r \in Stable, NEW n \in Nat, NEW end \in States, NEW t
    PROVE  JobsOK(<<Walk(r), Delay(n), Walk(end)>>, t)
<1> DEFINE js == <<Walk(r), Delay(n), Walk(end)>>
<1>1. Delay(n) \in Jobs /\ Delay(n).op = "delay"
  BY DEF Delay, Jobs, DelayJobs
<1>2. /\ js \in Seq(Jobs) /\ Len(js) = 3
      /\ js[1].op = "walk" /\ js[1].to = r /\ js[2].op = "delay" /\ js[3].op = "walk"
  BY <1>1, WalkIsJob, StateNames
<1> HIDE DEF js
<1>3. DelaysStable(js, t)
  BY <1>2 DEF DelaysStable
<1>4. \A s \in ShiftStates : ShiftsIn(s, js, t)
  BY <1>2 DEF ShiftsIn
<1> QED
  BY <1>2, <1>3, <1>4 DEF JobsOK, ShiftStates, js

LEMMA CommandIsOK ==
    ASSUME set \in Settings, NEW c, WellFormed(c), set' = CommandSets(c, set), NEW t
    PROVE  JobsOK(CommandJobs(c, set'), t)
<1>1. CASE c.op = "SDR"
  <2>1. CommandJobs(c, set') = ScanJobs(set.hdr, c.bits, set.tdr, DRSHIFT, set.enddr)
    BY <1>1 DEF CommandJobs, CommandSets
  <2>2. c.bits \in BitData /\ DRSHIFT \in ShiftStates
    BY <1>1 DEF WellFormed, ShiftStates
  <2> QED
    BY <2>1, <2>2, ScanIsOK, SettingsFields
<1>2. CASE c.op = "SIR"
  <2>1. CommandJobs(c, set') = ScanJobs(set.hir, c.bits, set.tir, IRSHIFT, set.endir)
    BY <1>2 DEF CommandJobs, CommandSets
  <2>2. c.bits \in BitData /\ IRSHIFT \in ShiftStates
    BY <1>2 DEF WellFormed, ShiftStates
  <2> QED
    BY <2>1, <2>2, ScanIsOK, SettingsFields
<1>3. CASE c.op = "RUNTEST"
  <2>1. c.run \in Stable /\ c.tck \in Nat /\ c.end \in States /\ c.run \in States
    BY <1>3, StateNames DEF WellFormed
  <2>2. set' = [set EXCEPT !.run = c.run, !.endrun = c.end]
    BY <1>3 DEF CommandSets
  <2>4. set'.run = c.run /\ set'.endrun = c.end
    <3> DEFINE u == [set EXCEPT !.run = c.run, !.endrun = c.end]
    <3>1. u.run = c.run /\ u.endrun = c.end
      BY <2>1 DEF Settings
    <3> HIDE DEF u
    <3>2. set' = u
      BY <2>2 DEF u
    <3> QED
      BY <3>1, <3>2
  <2>3. CommandJobs(c, set') = <<Walk(set'.run), Delay(c.tck), Walk(set'.endrun)>>
    BY <1>3 DEF CommandJobs
  <2> QED
    BY <2>1, <2>3, <2>4, RuntestIsOK
<1>4. CASE c.op = "STATE"
  <2>1. c.path \in Seq(States) /\ CommandJobs(c, set') = [i \in 1 .. Len(c.path) |-> Walk(c.path[i])]
    BY <1>4 DEF WellFormed, CommandJobs
  <2>2. \A i \in 1 .. Len(c.path) : Walk(c.path[i]) \in Jobs /\ Walk(c.path[i]).op = "walk"
    BY <2>1, WalkIsJob
  <2>3. /\ CommandJobs(c, set') \in Seq(Jobs) /\ Len(CommandJobs(c, set')) = Len(c.path)
        /\ \A i \in 1 .. Len(c.path) : CommandJobs(c, set')[i] = Walk(c.path[i])
    BY <2>1, <2>2
  <2> QED
    BY <2>2, <2>3, WalksOnly
<1>5. CASE c.op \in {"SET", "SYNTAX"}
  BY <1>5, NoJobs DEF CommandJobs
<1> QED
  BY <1>1, <1>2, <1>3, <1>4, <1>5 DEF WellFormed

-----------------------------------------------------------------------------
(***************************************************************************)
(* What a pulse does to the device.                                        *)
(***************************************************************************)

LEMMA TapSets ==
    /\ TapStates = {INIT} \cup DeviceStates /\ INIT \notin DeviceStates
    /\ RESET \in DeviceStates /\ RESET # INIT /\ States = DeviceStates \cup {UNKNOWN}
    /\ ShiftStates \subseteq DeviceStates /\ Stable \subseteq DeviceStates
  BY DEF TapStates, DeviceStates, States, ShiftStates, Stable,
         INIT, RESET, IDLE, DRSHIFT, DRPAUSE, IRSHIFT, IRPAUSE, IRUPDATE

LEMMA WalkNextType ==
    ASSUME NEW s \in DeviceStates, NEW t \in States, s # t
    PROVE  WalkNext(s, t) = Device(s, WalkTms(s, t)) /\ WalkNext(s, t) \in DeviceStates
<1>1. WalkNext(s, t) = Device(s, WalkTms(s, t))
  BY WalkIsFaithful, TapSets
<1>2. Device(s, WalkTms(s, t)) \in DeviceStates
  BY WalkTmsType, DeviceType
<1> QED
  BY <1>1, <1>2

LEMMA PulseEffect ==
    ASSUME dev \in DeviceStates, faults \in Nat,
           NEW tms \in {0, 1}, NEW tdo, NEW err, Pulse(tms, tdo, err)
    PROVE  /\ dev' \in DeviceStates /\ faults' \in Nat
           /\ mode = "play" /\ faults' = 0 => faults = 0 /\ dev' = Device(dev, tms)
<1>1. CASE AnalyzePulse(err)
  BY <1>1 DEF AnalyzePulse, world
<1>2. CASE PlayPulse(tms, tdo, err)
  BY <1>2, DeviceType DEF PlayPulse, Edge
<1>3. CASE PulseFails(tms, tdo, err)
  <2>1. faults' = faults + 1 /\ (dev' = dev \/ dev' = Device(dev, tms))
    BY <1>3 DEF PulseFails, Edge
  <2> QED
    BY <2>1, DeviceType
<1> QED
  BY <1>1, <1>2, <1>3 DEF Pulse

-----------------------------------------------------------------------------
(***************************************************************************)
(* The invariant.                                                          *)
(***************************************************************************)

Types ==
    /\ script \in Scripts /\ at \in Nat \ {0} /\ set \in Settings
    /\ tap \in TapStates /\ dev \in DeviceStates /\ faults \in Nat /\ round \in Int

\* round counts pulses down in INIT, and rounds up on the way back to RESET,
\* where the walker is never stuck.
Rounds ==
    /\ tap = INIT => round \in -5 .. 0
    /\ phase = "reset" /\ tap # INIT => round + Far(tap) <= 6

Phases ==
    /\ phase = "setup" => jobs = <<>> /\ round = 0 /\ tap = INIT /\ rc = -1
    /\ phase = "reset" => jobs = <<Walk(RESET)>>
    /\ phase = "shutdown" => jobs = <<>> /\ round = 0 /\ tap = RESET

\* In INIT the device is somewhere on its way to RESET.
Together == IF tap = INIT THEN dev \in After(0 - round) ELSE tap = dev
Follows ==
    mode = "play" /\ phase \in {"svf", "reset", "shutdown"} /\ faults = 0 => Together

PlayerInv == Types /\ Rounds /\ Phases /\ Follows /\ PinsReleased /\ JobsOK(jobs, tap)

LEMMA InitInv == Init => PlayerInv
<1> SUFFICES ASSUME Init PROVE PlayerInv
  OBVIOUS
<1>1. Types /\ Rounds /\ Phases /\ Follows /\ PinsReleased
  BY DefaultSettings, TapSets
     DEF Init, Types, Rounds, Phases, Follows, PinsReleased
<1>2. JobsOK(jobs, tap)
  BY NoJobs DEF Init
<1> QED
  BY <1>1, <1>2 DEF PlayerInv

\* A result is found, and the host sets out for RESET.
LEMMA LeaveStep ==
    ASSUME PlayerInv, NEW r, Leave(r), UNCHANGED <<script, linux, mode, tap, dev, faults>>,
           at' \in Nat \ {0}, set' \in Settings, phase = "svf"
    PROVE  PlayerInv'
<1>1. Types'
  BY DEF PlayerInv, Types, Leave
<1>2. Rounds'
  BY FarBound DEF Leave, Rounds
<1>3. Phases'
  BY DEF Leave, Phases, Walk
<1>4. Follows'
  <2>1. mode' = "play" /\ faults' = 0 => Together
    BY DEF PlayerInv, Follows
  <2>2. tap' = INIT => dev' \in After(0 - round')
    <3>1. round' = 0
      BY DEF Leave
    <3>2. dev' \in DeviceStates
      BY DEF PlayerInv, Types
    <3>3. 0 - round' = 0
      BY <3>1
    <3> QED
      BY <3>2, <3>3, AfterNone
  <2> QED
    BY <2>1, <2>2 DEF Follows, Together
<1>5. PinsReleased'
  BY DEF Leave, PinsReleased
<1>6. JobsOK(jobs', tap')
  <2>1. jobs' \in Seq(Jobs) /\ Len(jobs') = 1 /\ jobs'[1].op = "walk"
    BY WalkIsJob, StateNames DEF Leave
  <2> QED
    BY <2>1, WalksOnly
<1> QED
  BY <1>1, <1>2, <1>3, <1>4, <1>5, <1>6 DEF PlayerInv

\* The next call, or the next command's calls.
LEMMA ResumeStep ==
    ASSUME PlayerInv, phase = "svf", phase' = "svf", round' = 0,
           UNCHANGED <<script, mode, tap, dev, faults>>,
           at' \in Nat \ {0}, set' \in Settings, JobsOK(jobs', tap)
    PROVE  PlayerInv'
<1>1. Types'
  BY DEF PlayerInv, Types
<1>2. Rounds'
  BY DEF Rounds
<1>3. Phases'
  BY DEF Phases
<1>4. Follows'
  <2>1. mode' = "play" /\ faults' = 0 => Together
    BY DEF PlayerInv, Follows
  <2>2. dev' \in After(0 - round')
    <3>1. dev' \in DeviceStates
      BY DEF PlayerInv, Types
    <3> QED
      BY <3>1, AfterNone
  <2> QED
    BY <2>1, <2>2 DEF Follows, Together
<1>5. PinsReleased'
  BY DEF PinsReleased
<1>6. JobsOK(jobs', tap')
  OBVIOUS
<1> QED
  BY <1>1, <1>2, <1>3, <1>4, <1>5, <1>6 DEF PlayerInv

\* While the host is on its way back to RESET there is only the walk.
LEMMA Walking ==
    ASSUME PlayerInv, phase = "reset"
    PROVE  /\ jobs # <<>> /\ Head(jobs).op = "walk" /\ Head(jobs).to = RESET /\ Tail(jobs) = <<>>
<1>1. jobs = <<Walk(RESET)>>
  BY DEF PlayerInv, Phases
<1> QED
  BY <1>1, WalkIsJob, StateNames

LEMMA ReadStep == PlayerInv /\ ReadCommand => PlayerInv'
<1> SUFFICES ASSUME PlayerInv, ReadCommand PROVE PlayerInv'
  OBVIOUS
<1>1. /\ at \in Nat \ {0} /\ set \in Settings /\ script \in Scripts /\ phase = "svf"
      /\ UNCHANGED <<script, linux, mode, tap, dev, faults>>
  BY DEF PlayerInv, Types, ReadCommand
<1>2. CASE at > Len(script) /\ Leave(0) /\ UNCHANGED <<at, set>>
  BY <1>1, <1>2, LeaveStep
<1>3. CASE /\ at <= Len(script) /\ at' = at + 1 /\ set' = CommandSets(script[at], set)
           /\ \/ SyntaxError(script[at], set') /\ Error
              \/ /\ jobs' = CommandJobs(script[at], set') /\ round' = 0
                 /\ UNCHANGED <<rc, phase>>
  <2>1. WellFormed(script[at])
    BY <1>1, <1>3, FileAssumption
  <2>2. at' \in Nat \ {0} /\ set' \in Settings
    BY <1>1, <1>3, <2>1, CommandSetsType
  <2>3. CASE Error
    BY <1>1, <2>2, <2>3, LeaveStep DEF Error
  <2>4. CASE jobs' = CommandJobs(script[at], set') /\ round' = 0 /\ UNCHANGED <<rc, phase>>
    <3>1. JobsOK(jobs', tap)
      BY <1>1, <1>3, <2>1, <2>4, CommandIsOK
    <3> QED
      BY <1>1, <2>2, <2>4, <3>1, ResumeStep
  <2> QED
    BY <1>3, <2>3, <2>4
<1> QED
  BY <1>2, <1>3 DEF ReadCommand

LEMMA WalkDoneStep == PlayerInv /\ WalkDone => PlayerInv'
<1> SUFFICES ASSUME PlayerInv, WalkDone PROVE PlayerInv'
  OBVIOUS
<1>1. /\ jobs # <<>> /\ Head(jobs).op = "walk" /\ tap = Head(jobs).to
      /\ jobs' = Tail(jobs) /\ round' = 0
      /\ UNCHANGED <<script, linux, mode, at, set, tap, rc, dev, faults>>
  BY DEF WalkDone, Doing, Done, world
<1>2. CASE phase = "svf"
  <2>1. JobsOK(jobs, tap) /\ Head(jobs) = jobs[1]
    BY <1>1, FirstJob DEF PlayerInv, JobsOK
  <2>2. JobsOK(jobs', tap)
    BY <1>1, <2>1, JobDone
  <2>3. phase' = "svf" /\ at' \in Nat \ {0} /\ set' \in Settings
    BY <1>1, <1>2 DEF WalkDone, Done, PlayerInv, Types
  <2> QED
    BY <1>1, <1>2, <2>2, <2>3, ResumeStep
<1>3. CASE phase = "reset"
  <2>1. phase' = "shutdown" /\ jobs' = <<>> /\ tap' = RESET
    BY <1>1, <1>3, Walking DEF WalkDone, Done
  <2>2. Types'
    BY <1>1 DEF PlayerInv, Types
  <2>3. Rounds' /\ Phases' /\ PinsReleased'
    BY <1>1, <2>1 DEF Rounds, Phases, PinsReleased
  <2>4. Follows'
    <3>1. mode' = "play" /\ faults' = 0 => Together
      BY <1>1, <1>3 DEF PlayerInv, Follows
    <3> QED
      BY <1>1, <2>1, <3>1, TapSets DEF Follows, Together
  <2>5. JobsOK(jobs', tap')
    BY <2>1, NoJobs
  <2> QED
    BY <2>2, <2>3, <2>4, <2>5 DEF PlayerInv
<1> QED
  BY <1>2, <1>3 DEF WalkDone, Doing

\* A round moves host and device by the same TMS, or takes both a pulse further
\* in INIT, where the host then waits for RESET; the walk to RESET does not fail.
LEMMA WalkRoundStep == PlayerInv /\ WalkRound => PlayerInv'
<1> SUFFICES ASSUME PlayerInv, WalkRound PROVE PlayerInv'
  OBVIOUS
<1> DEFINE t == Head(jobs).to
           i == IF tap = INIT THEN 0 ELSE round
<1>1. /\ jobs # <<>> /\ jobs[1].op = "walk" /\ Head(jobs).op = "walk" /\ tap # t
      /\ phase \in {"svf", "reset"}
      /\ UNCHANGED <<script, linux, mode, at, set>>
  <2>1. jobs \in Seq(Jobs) /\ Doing("walk") /\ tap # t
    BY DEF PlayerInv, JobsOK, WalkRound
  <2>2. UNCHANGED <<script, linux, mode, at, set>>
    BY DEF WalkRound
  <2> QED
    BY <2>1, <2>2, FirstJob DEF Doing
<1>2. /\ Types /\ Rounds /\ Phases /\ Follows /\ JobsOK(jobs, tap)
      /\ tap \in TapStates /\ dev \in DeviceStates /\ faults \in Nat /\ round \in Int
      /\ at \in Nat \ {0} /\ set \in Settings
  BY DEF PlayerInv, Types
<1>3. t \in States
  <2>1. Head(jobs) \in Jobs
    BY <1>1, <1>2, FirstJob DEF JobsOK
  <2> QED
    BY <1>1, <2>1, JobKinds
<1>4. /\ dev' \in DeviceStates /\ faults' \in Nat
      /\ mode = "play" /\ faults' = 0 => faults = 0 /\ dev' = Device(dev, WalkTms(tap, t))
  <2>1. WalkTms(tap, t) \in {0, 1} /\ \E err \in BOOLEAN : Pulse(WalkTms(tap, t), FALSE, err)
    BY WalkTmsType DEF WalkRound
  <2> QED
    BY <1>2, <2>1, PulseEffect
<1>5. /\ WalkNext(tap, t) \in DeviceStates
      /\ tap # INIT => WalkNext(tap, t) = Device(tap, WalkTms(tap, t))
      /\ tap = INIT => WalkNext(tap, t) = RESET /\ WalkTms(tap, t) = 1
  <2>1. CASE tap = INIT
    BY <2>1, OutOfInit, TapSets
  <2>2. CASE tap # INIT
    BY <1>1, <1>2, <1>3, <2>2, WalkNextType, TapSets
  <2> QED
    BY <2>1, <2>2
<1>6. mode = "play" /\ faults' = 0 => Together
  BY <1>1, <1>2, <1>4 DEF Follows
<1>7. CASE /\ tap = INIT /\ round > 1 - ResetPulses
           /\ round' = round - 1 /\ UNCHANGED <<tap, jobs, phase, rc>>
  <2>1. round \in -4 .. 0 /\ round' \in -5 .. 0 /\ 0 - round \in 0 .. 4 /\ 0 - round' = (0 - round) + 1
    BY <1>2, <1>7 DEF Rounds, ResetPulses
  <2>2. Types'
    BY <1>1, <1>2, <1>4, <1>7, <2>1 DEF Types
  <2>3. Rounds'
    BY <1>7, <2>1 DEF Rounds
  <2>4. Phases'
    BY <1>1, <1>2, <1>7 DEF Phases
  <2>5. Follows'
    <3>1. ASSUME mode' = "play", faults' = 0 PROVE dev' \in After(0 - round')
      <4>1. dev \in After(0 - round) /\ dev' = Device(dev, 1)
        BY <1>1, <1>4, <1>5, <1>6, <1>7, <3>1 DEF Together
      <4>2. 0 - round \in 0 .. 5
        BY <2>1
      <4>3. dev' \in After((0 - round) + 1)
        BY <4>1, <4>2, AfterStep
      <4> QED
        BY <2>1, <4>3
    <3> QED
      BY <1>7, <3>1 DEF Follows, Together
  <2>6. PinsReleased'
    BY <1>1, <1>7 DEF PinsReleased
  <2> QED
    BY <1>2, <1>7, <2>2, <2>3, <2>4, <2>5, <2>6 DEF PlayerInv
<1>8. CASE /\ tap = INIT => round = 1 - ResetPulses
           /\ tap' = WalkNext(tap, t)
           /\ \/ WalkerStuck(i) /\ IF phase = "svf" THEN Error ELSE Done /\ UNCHANGED rc
              \/ /\ ~WalkerStuck(i) /\ round' = IF i < 12 THEN i + 1 ELSE i
                 /\ UNCHANGED <<jobs, phase, rc>>
  <2>1. mode' = "play" /\ faults' = 0 => tap' = dev'
    <3> SUFFICES ASSUME mode' = "play", faults' = 0 PROVE tap' = dev'
      OBVIOUS
    <3>1. dev' = Device(dev, WalkTms(tap, t)) /\ Together
      BY <1>1, <1>4, <1>6
    <3>2. CASE tap = INIT
      <4>1. 0 - round = 5
        BY <1>8, <3>2 DEF ResetPulses
      <4>2. dev \in After(5) /\ 5 \in 0 .. 5
        BY <3>1, <3>2, <4>1 DEF Together
      <4>3. dev' \in After(5 + 1)
        BY <1>5, <3>1, <3>2, <4>2, AfterStep
      <4>4. dev' = RESET
        BY <4>3 DEF After
      <4> QED
        BY <1>5, <1>8, <3>2, <4>4
    <3>3. CASE tap # INIT
      BY <1>5, <1>8, <3>1, <3>3 DEF Together
    <3> QED
      BY <3>2, <3>3
  <2>2. tap' \in DeviceStates /\ tap' # INIT /\ tap' \in TapStates
    BY <1>5, <1>8, TapSets
  <2>3. phase = "reset" => ~WalkerStuck(i) /\ i + 1 + Far(tap') <= 6 /\ i \in Int
    <3> SUFFICES ASSUME phase = "reset" PROVE ~WalkerStuck(i) /\ i + 1 + Far(tap') <= 6 /\ i \in Int
      OBVIOUS
    <3>1. t = RESET
      BY Walking
    <3>2. CASE tap = INIT
      <4>1. tap' = RESET /\ i = 0
        BY <1>5, <1>8, <3>2
      <4> QED
        BY <4>1, FarBound DEF WalkerStuck
    <3>3. CASE tap # INIT
      <4>1. i = round /\ round + Far(tap) <= 6 /\ Far(tap) \in 0 .. 5
        BY <1>2, <3>3, FarBound DEF Rounds
      <4>2. Far(tap') = Far(tap) - 1
        BY <1>1, <1>2, <1>8, <3>1, <3>3, FarStep, TapSets
      <4> QED
        BY <1>2, <4>1, <4>2 DEF WalkerStuck
    <3> QED
      BY <3>2, <3>3
  <2>4. CASE WalkerStuck(i) /\ phase = "svf" /\ Error
    <3>1. phase' = "reset" /\ jobs' = <<Walk(RESET)>> /\ round' = 0
      BY <2>4 DEF Error, Leave
    <3>2. Types'
      BY <1>1, <1>2, <1>4, <2>2, <3>1 DEF Types
    <3>3. Rounds' /\ Phases' /\ Follows' /\ PinsReleased'
      BY <2>1, <2>2, <3>1, FarBound DEF Rounds, Phases, Follows, Together, PinsReleased, Walk
    <3>4. JobsOK(jobs', tap')
      <4>1. jobs' \in Seq(Jobs) /\ Len(jobs') = 1 /\ jobs'[1].op = "walk"
        BY <3>1, WalkIsJob, StateNames
      <4> QED
        BY <4>1, WalksOnly
    <3> QED
      BY <3>2, <3>3, <3>4 DEF PlayerInv
  <2>5. CASE /\ ~WalkerStuck(i) /\ round' = IF i < 12 THEN i + 1 ELSE i
             /\ UNCHANGED <<jobs, phase, rc>>
    <3>1. i \in Int /\ i < 12 /\ round' = i + 1
      BY <1>2, <2>5 DEF WalkerStuck
    <3>2. Types'
      BY <1>1, <1>2, <1>4, <2>2, <3>1 DEF Types
    <3>3. Rounds'
      BY <2>2, <2>3, <2>5, <3>1 DEF Rounds
    <3>4. Phases' /\ Follows' /\ PinsReleased'
      BY <1>1, <1>2, <2>1, <2>2, <2>5 DEF Phases, Follows, Together, PinsReleased
    <3>5. JobsOK(jobs', tap')
      BY <1>1, <1>2, <2>5, JobWalks
    <3> QED
      BY <3>2, <3>3, <3>4, <3>5 DEF PlayerInv
  <2> QED
    BY <1>1, <1>8, <2>3, <2>4, <2>5
<1> QED
  BY <1>7, <1>8 DEF WalkRound

\* Bits and delays are calls of a command.
LEMMA Commanding ==
    ASSUME PlayerInv, NEW op \in {"shift", "delay"}, Doing(op)
    PROVE  /\ phase = "svf" /\ jobs # <<>> /\ Head(jobs) = jobs[1] /\ jobs[1].op = op
           /\ jobs[1] \in Jobs
<1>1. phase = "svf" /\ jobs # <<>> /\ Head(jobs).op = op
  BY Walking DEF Doing
<1>2. jobs \in Seq(Jobs)
  BY DEF PlayerInv, JobsOK
<1> QED
  BY <1>1, <1>2, FirstJob

\* A step within a call: what is left of the calls, and where host and device are.
LEMMA CallStep ==
    ASSUME PlayerInv, phase = "svf", tap # INIT,
           UNCHANGED <<script, mode, phase, at, set, round>>,
           tap' \in DeviceStates, dev' \in DeviceStates, faults' \in Nat,
           mode = "play" /\ faults' = 0 => faults = 0 /\ (tap = dev => tap' = dev'),
           JobsOK(jobs', tap')
    PROVE  PlayerInv'
<1>1. tap' # INIT
  BY TapSets
<1>2. Types'
  BY TapSets DEF PlayerInv, Types
<1>3. Rounds' /\ Phases' /\ PinsReleased'
  BY <1>1 DEF Rounds, Phases, PinsReleased
<1>4. Follows'
  BY <1>1 DEF PlayerInv, Follows, Together
<1> QED
  BY <1>2, <1>3, <1>4 DEF PlayerInv

LEMMA ShiftBitStep == PlayerInv /\ ShiftBit => PlayerInv'
<1> SUFFICES ASSUME PlayerInv, ShiftBit PROVE PlayerInv'
  OBVIOUS
<1> DEFINE job == Head(jobs)
           leaves == job.left = 1 /\ tap # job.to
           tms == IF leaves THEN 1 ELSE 0
<1>1. Doing("shift")
  BY DEF ShiftBit
<1>2. phase = "svf" /\ jobs # <<>> /\ Head(jobs) = jobs[1] /\ jobs[1].op = "shift" /\ jobs[1] \in Jobs
  BY <1>1, Commanding
<1>3. /\ job.left > 0 /\ tap' = IF leaves THEN tap + 1 ELSE tap
      /\ \E err \in BOOLEAN : Pulse(tms, job.tdo, err)
      /\ jobs' = [jobs EXCEPT ![1].left = @ - 1]
      /\ UNCHANGED <<script, mode, phase, at, set, round>>
  BY DEF ShiftBit
<1>4. JobsOK(jobs, tap) /\ dev \in DeviceStates /\ faults \in Nat
  BY DEF PlayerInv, Types
<1>5. tap \in {DRSHIFT, IRSHIFT} /\ JobsOK(jobs', tap')
  <2>1. jobs[1].left > 0 /\ (tap' = tap \/ (jobs[1].left = 1 /\ tap # jobs[1].to))
    BY <1>2, <1>3
  <2> QED
    BY <1>2, <1>3, <1>4, <2>1, JobShifts DEF ShiftStates
<1>6. tms \in {0, 1} /\ tap' = Device(tap, tms)
  <2>1. CASE leaves
    BY <1>3, <1>5, <2>1, LeaveShift
  <2>2. CASE ~leaves
    <3>1. tap \in {IDLE, DRSHIFT, DRPAUSE, IRSHIFT, IRPAUSE}
      BY <1>5
    <3> QED
      BY <1>3, <2>2, <3>1, Settled
  <2> QED
    BY <2>1, <2>2
<1>7. tap \in DeviceStates /\ tap # INIT /\ tap' \in DeviceStates
  BY <1>5, <1>6, TapSets, DeviceType DEF ShiftStates
<1>8. /\ dev' \in DeviceStates /\ faults' \in Nat
      /\ mode = "play" /\ faults' = 0 => faults = 0 /\ dev' = Device(dev, tms)
  BY <1>3, <1>4, <1>6, PulseEffect
<1>9. mode = "play" /\ faults' = 0 => faults = 0 /\ (tap = dev => tap' = dev')
  BY <1>6, <1>8
<1> QED
  BY <1>2, <1>3, <1>5, <1>7, <1>8, <1>9, CallStep

LEMMA ShiftDoneStep == PlayerInv /\ ShiftDone => PlayerInv'
<1> SUFFICES ASSUME PlayerInv, ShiftDone PROVE PlayerInv'
  OBVIOUS
<1>1. Doing("shift") /\ UNCHANGED <<script, linux, mode, at, set, tap, dev, faults>>
  BY DEF ShiftDone, world
<1>2. phase = "svf" /\ jobs # <<>> /\ jobs[1].op = "shift"
  BY <1>1, Commanding
<1>3. at' \in Nat \ {0} /\ set' \in Settings /\ JobsOK(jobs, tap)
  BY <1>1 DEF PlayerInv, Types
<1>4. CASE Error
  BY <1>1, <1>2, <1>3, <1>4, LeaveStep DEF Error
<1>5. CASE Done
  <2>1. JobsOK(Tail(jobs), tap)
    BY <1>2, <1>3, JobDone
  <2>2. JobsOK(jobs', tap) /\ phase' = "svf" /\ round' = 0
    BY <1>2, <1>5, <2>1 DEF Done
  <2> QED
    BY <1>1, <1>2, <1>3, <2>2, ResumeStep
<1> QED
  BY <1>4, <1>5 DEF ShiftDone

LEMMA DelayDoneStep == PlayerInv /\ DelayDone => PlayerInv'
<1> SUFFICES ASSUME PlayerInv, DelayDone PROVE PlayerInv'
  OBVIOUS
<1>1. Doing("delay") /\ Done /\ UNCHANGED <<script, linux, mode, at, set, tap, dev, faults>>
  BY DEF DelayDone, world
<1>2. phase = "svf" /\ jobs # <<>> /\ jobs[1].op = "delay"
  BY <1>1, Commanding
<1>3. at' \in Nat \ {0} /\ set' \in Settings /\ JobsOK(jobs, tap)
  BY <1>1 DEF PlayerInv, Types
<1>4. JobsOK(Tail(jobs), tap)
  BY <1>2, <1>3, JobDone
<1>5. JobsOK(jobs', tap) /\ phase' = "svf" /\ round' = 0
  BY <1>1, <1>2, <1>4 DEF Done
<1> QED
  BY <1>1, <1>2, <1>3, <1>5, ResumeStep

\* A delay waits where waiting does not move the device, however many of its
\* clocks are made.
LEMMA DelayCallStep ==
    ASSUME PlayerInv, NEW n \in 0 .. Chunk, DelayCall(n)
    PROVE  PlayerInv'
<1> DEFINE left == Head(jobs).left
           cnt == Request(left)
           reported == IF n = cnt THEN cnt ELSE Reported(n, cnt)
<1>1. Doing("delay")
  BY DEF DelayCall
<1>2. phase = "svf" /\ jobs # <<>> /\ Head(jobs) = jobs[1] /\ jobs[1].op = "delay" /\ jobs[1] \in Jobs
  BY <1>1, Commanding
<1>3. /\ left > 0 /\ n <= cnt
      /\ faults' = IF n < cnt THEN faults + 1 ELSE faults
      /\ dev' = Clocked(n, dev)
      /\ jobs' = [jobs EXCEPT ![1].left = @ - reported]
      /\ UNCHANGED <<script, mode, phase, at, set, round, tap>>
  BY DEF DelayCall
<1>4. JobsOK(jobs, tap) /\ dev \in DeviceStates /\ faults \in Nat
  BY DEF PlayerInv, Types
<1>5. left \in Nat /\ left - reported \in Nat
  <2>1. left \in Nat
    BY <1>2, JobKinds
  <2>2. cnt \in Nat /\ cnt <= left
    BY <2>1, PlayerAssumption DEF Request
  <2>3. reported \in Nat /\ reported <= cnt
    BY <1>3, <2>2 DEF Reported
  <2> HIDE DEF reported, cnt, left
  <2> QED
    BY <2>1, <2>2, <2>3
<1>6. jobs' = [jobs EXCEPT ![1].left = left - reported]
  BY <1>2, <1>3
<1>7. tap \in Stable /\ JobsOK(jobs', tap)
  <2> HIDE DEF left, reported
  <2> QED
    BY <1>2, <1>4, <1>5, <1>6, JobDelays
<1>8. tap' = tap /\ tap \in DeviceStates /\ tap # INIT
  BY <1>3, <1>7, TapSets
<1>9. dev' \in DeviceStates /\ (tap = dev => dev' = dev)
  <2>1. dev' \in DeviceStates
    BY <1>3, <1>4, ClockedType
  <2>2. tap = dev => dev \in {IDLE, DRSHIFT, DRPAUSE, IRSHIFT, IRPAUSE}
    BY <1>7 DEF Stable
  <2> QED
    BY <1>3, <2>1, <2>2, ClockedStays
<1>10. faults' \in Nat /\ (faults' = 0 => faults = 0)
  BY <1>3, <1>4
<1> HIDE DEF left, cnt, reported
<1> QED
  BY <1>2, <1>3, <1>7, <1>8, <1>9, <1>10, CallStep

LEMMA AnalyzeDelayStep == PlayerInv /\ AnalyzeDelay => PlayerInv'
<1> SUFFICES ASSUME PlayerInv, AnalyzeDelay PROVE PlayerInv'
  OBVIOUS
<1>1. /\ Doing("delay") /\ jobs' = [jobs EXCEPT ![1].left = 0]
      /\ UNCHANGED <<script, mode, phase, at, set, round, tap, dev, faults>>
  BY DEF AnalyzeDelay, world
<1>2. phase = "svf" /\ jobs # <<>> /\ jobs[1].op = "delay"
  BY <1>1, Commanding
<1>3. JobsOK(jobs, tap) /\ dev \in DeviceStates /\ faults \in Nat
  BY DEF PlayerInv, Types
<1>4. tap \in Stable /\ JobsOK(jobs', tap)
  BY <1>1, <1>2, <1>3, JobDelays
<1>5. tap' = tap /\ dev' = dev /\ tap \in DeviceStates /\ tap # INIT
  BY <1>1, <1>4, TapSets
<1> QED
  BY <1>1, <1>2, <1>3, <1>4, <1>5, CallStep

LEMMA SetupStep == PlayerInv /\ (AnalyzeSetup \/ PlaySetup \/ PlaySetupFails) => PlayerInv'
<1> SUFFICES ASSUME PlayerInv, AnalyzeSetup \/ PlaySetup \/ PlaySetupFails PROVE PlayerInv'
  OBVIOUS
<1>1. /\ phase = "setup" /\ UNCHANGED <<script, mode, at, set, jobs, round, tap>>
      /\ \/ phase' = "svf"
         \/ phase' = "done" /\ rc' = rc
      /\ dev' \in DeviceStates /\ faults' \in Nat
  BY DEF PlayerInv, Types, AnalyzeSetup, PlaySetup, PlaySetupFails, Start, Refused, world
<1>2. jobs = <<>> /\ round = 0 /\ tap = INIT /\ rc = -1
  BY <1>1 DEF PlayerInv, Phases
<1>3. Types'
  BY <1>1 DEF PlayerInv, Types
<1>4. Rounds' /\ Phases'
  BY <1>1, <1>2 DEF Rounds, Phases
<1>5. Follows'
  <2>1. dev' \in After(0 - round')
    BY <1>1, <1>2, AfterNone
  <2> QED
    BY <1>1, <1>2, <2>1 DEF Follows, Together
<1>6. PinsReleased'
  BY <1>1, <1>2 DEF PinsReleased
<1>7. JobsOK(jobs', tap')
  BY <1>1, <1>2, NoJobs
<1> QED
  BY <1>3, <1>4, <1>5, <1>6, <1>7 DEF PlayerInv

LEMMA AnalyzeShutdownStep == PlayerInv /\ AnalyzeShutdown => PlayerInv'
<1> SUFFICES ASSUME PlayerInv, AnalyzeShutdown PROVE PlayerInv'
  OBVIOUS
<1>1. /\ phase = "shutdown" /\ at' = 1 /\ set' = Defaults /\ tap' = INIT
      /\ UNCHANGED <<script, jobs, round, dev, faults>>
      /\ \/ phase' = "setup" /\ rc' = -1
         \/ phase' = "done" /\ rc' # 0
  BY DEF AnalyzeShutdown, world
<1>2. jobs = <<>> /\ round = 0
  BY <1>1 DEF PlayerInv, Phases
<1>3. Types'
  BY <1>1, DefaultSettings, TapSets DEF PlayerInv, Types
<1>4. Rounds' /\ Phases' /\ PinsReleased'
  BY <1>1, <1>2 DEF Rounds, Phases, PinsReleased
<1>5. Follows'
  BY <1>1 DEF Follows
<1>6. JobsOK(jobs', tap')
  BY <1>1, <1>2, NoJobs
<1> QED
  BY <1>3, <1>4, <1>5, <1>6 DEF PlayerInv

\* Of the FreeBSD driver, which stops at the first pin that it cannot release.
LEMMA PlayShutdownStep ==
    ASSUME PlayerInv, NEW failed \in SUBSET JtagPins, PlayShutdown(failed)
    PROVE  PlayerInv'
<1>1. /\ phase' = "done" /\ outputs' = FiniResult(failed).left
      /\ rc' = RcAfter(FiniResult(failed).ok)
      /\ UNCHANGED <<script, linux, mode, at, set, jobs, round, tap, dev>>
      /\ faults' \in {faults, faults + 1}
  BY DEF PlayShutdown
<1>2. Types'
  BY <1>1 DEF PlayerInv, Types
<1>3. Rounds' /\ Phases' /\ Follows' /\ JobsOK(jobs', tap')
  BY <1>1 DEF PlayerInv, Rounds, Phases, Follows
<1>4. PinsReleased'
  <2> SUFFICES ASSUME rc' = 0, ~linux PROVE outputs' = {}
    BY <1>1 DEF PinsReleased
  <2>1. FiniResult(failed).ok
    BY <1>1 DEF RcAfter
  <2>2. failed = {}
    BY <2>1 DEF FiniResult
  <2>3. FiniResult(failed).left = {}
    BY <2>2 DEF FiniResult
  <2> QED
    BY <1>1, <2>3
<1> QED
  BY <1>2, <1>3, <1>4 DEF PlayerInv

LEMMA NextInv == PlayerInv /\ [Next]_vars => PlayerInv'
<1> SUFFICES ASSUME PlayerInv, [Next]_vars PROVE PlayerInv'
  OBVIOUS
<1>1. CASE UNCHANGED vars
  BY <1>1 DEF vars, host, world, PlayerInv, Types, Rounds, Phases, Follows, Together, PinsReleased
<1>2. CASE AnalyzeSetup \/ PlaySetup \/ PlaySetupFails
  BY <1>2, SetupStep
<1>3. CASE ReadCommand \/ WalkRound \/ WalkDone
  BY <1>3, ReadStep, WalkRoundStep, WalkDoneStep
<1>4. CASE ShiftBit \/ ShiftDone
  BY <1>4, ShiftBitStep, ShiftDoneStep
<1>5. CASE AnalyzeDelay \/ DelayDone \/ \E n \in 0 .. Chunk : DelayCall(n)
  BY <1>5, AnalyzeDelayStep, DelayDoneStep, DelayCallStep
<1>6. CASE AnalyzeShutdown \/ \E failed \in SUBSET JtagPins : PlayShutdown(failed)
  BY <1>6, AnalyzeShutdownStep, PlayShutdownStep
<1> QED
  BY <1>1, <1>2, <1>3, <1>4, <1>5, <1>6 DEF Next

LEMMA PlayerInvAlways == Spec => []PlayerInv
  BY InitInv, NextInv, PTL DEF Spec

\* From the end of the first reset on the host's idea of the TAP state is the
\* device's, whatever the file does, as long as no pin operation has failed.
THEOREM HostFollowsDeviceAlways == Spec => []HostFollowsDevice
<1>1. PlayerInv => HostFollowsDevice
  BY DEF PlayerInv, Follows, Together, HostFollowsDevice
<1> QED
  BY <1>1, PlayerInvAlways, PTL

\* Every play leaves the device in RESET, after errors too, and one that succeeds
\* on the FreeBSD build leaves no pin driven.
THEOREM LeftInOrderAlways == Spec => []LeftInOrder
<1>1. PlayerInv => LeftInOrder
  BY TapSets DEF PlayerInv, Phases, Follows, Together, LeftInOrder, ResetAtEnd, PinsReleased
<1> QED
  BY <1>1, PlayerInvAlways, PTL

-----------------------------------------------------------------------------
(***************************************************************************)
(* Mismatches.                                                             *)
(***************************************************************************)

\* From the bit that differs to the result: the bits after it, whose calls go on,
\* keep tdo_error, and no later command is read.
ShiftingOn == jobs # <<>> /\ jobs[1].op = "shift" /\ tdoError
Remembered ==
    mismatch => IF phase = "svf" THEN ShiftingOn ELSE phase # "setup" /\ rc # 0

\* A pulse in which no answer is looked at finds no mismatch.
LEMMA PulseMismatch ==
    ASSUME NEW tms, NEW tdo, NEW err, Pulse(tms, tdo, err)
    PROVE  mismatch' => mismatch \/ (tdo /\ err)
  BY Zenon DEF Pulse, AnalyzePulse, PlayPulse, PulseFails, world

LEMMA RememberedNext ==
    ASSUME PlayerInv, Remembered, [Next]_vars
    PROVE  Remembered'
<1>1. CASE UNCHANGED vars
  BY <1>1 DEF vars, host, world, Remembered, ShiftingOn
<1>2. CASE AnalyzeSetup \/ PlaySetup \/ PlaySetupFails
  <2>1. phase = "setup" /\ mismatch' = mismatch
    BY <1>2 DEF AnalyzeSetup, PlaySetup, PlaySetupFails, world
  <2> QED
    BY <2>1 DEF Remembered
<1>3. CASE ReadCommand
  <2>1. phase = "svf" /\ jobs = <<>> /\ mismatch' = mismatch
    BY <1>3 DEF ReadCommand
  <2> QED
    BY <2>1 DEF Remembered, ShiftingOn
<1>4. CASE WalkRound
  <2>1. Doing("walk") /\ jobs \in Seq(Jobs)
    BY <1>4 DEF WalkRound, PlayerInv, JobsOK
  <2>2. jobs[1].op = "walk" /\ phase \in {"svf", "reset"}
    BY <2>1, FirstJob DEF Doing
  <2>3. mismatch' => mismatch
    <3>1. PICK err \in BOOLEAN : Pulse(WalkTms(tap, Head(jobs).to), FALSE, err)
      BY <1>4 DEF WalkRound
    <3> QED
      BY <3>1, PulseMismatch
  <2>4. CASE phase = "svf"
    BY <2>2, <2>3, <2>4 DEF Remembered, ShiftingOn
  <2>5. CASE phase = "reset"
    <3>1. rc' = rc /\ phase' \in {"reset", "shutdown"}
      BY <1>4, <2>5 DEF WalkRound, Done
    <3> QED
      BY <2>3, <2>5, <3>1 DEF Remembered
  <2> QED
    BY <2>2, <2>4, <2>5
<1>5. CASE WalkDone
  <2>1. Doing("walk") /\ jobs \in Seq(Jobs)
    BY <1>5 DEF WalkDone, PlayerInv, JobsOK
  <2>2. jobs[1].op = "walk" /\ phase \in {"svf", "reset"}
    BY <2>1, FirstJob DEF Doing
  <2>3. mismatch' = mismatch /\ rc' = rc /\ (phase = "reset" => phase' = "shutdown")
    BY <1>5 DEF WalkDone, Done, world
  <2> QED
    BY <2>2, <2>3 DEF Remembered, ShiftingOn
<1>6. CASE ShiftBit
  <2>1. Doing("shift")
    BY <1>6 DEF ShiftBit
  <2>2. phase = "svf" /\ jobs # <<>> /\ Head(jobs) = jobs[1] /\ jobs[1].op = "shift" /\ jobs[1] \in Jobs
    BY <2>1, Commanding
  <2>3. PICK err \in BOOLEAN :
           /\ Pulse(IF Head(jobs).left = 1 /\ tap # Head(jobs).to THEN 1 ELSE 0, Head(jobs).tdo, err)
           /\ tdoError' = TdoErrorAfter(err)
    BY <1>6 DEF ShiftBit
  <2>4. jobs' = [jobs EXCEPT ![1].left = @ - 1] /\ phase' = phase /\ jobs \in Seq(Jobs)
    BY <1>6 DEF ShiftBit, PlayerInv, JobsOK
  <2>5. jobs' # <<>> /\ jobs'[1].op = "shift"
    <3>1. [jobs[1] EXCEPT !.left = @ - 1].op = "shift"
      BY <2>2 DEF Jobs, ShiftJobs, WalkJobs, DelayJobs
    <3>2. 1 \in 1 .. Len(jobs)
      BY <2>2, <2>4, FirstJob
    <3>3. jobs'[1] = [jobs[1] EXCEPT !.left = @ - 1] /\ DOMAIN jobs' = DOMAIN jobs
      BY <2>4, <3>2
    <3> QED
      BY <2>4, <3>1, <3>2, <3>3
  <2>6. mismatch' => tdoError'
    <3>1. mismatch => tdoError
      BY <2>2 DEF Remembered, ShiftingOn
    <3>2. mismatch' => mismatch \/ err
      BY <2>3, PulseMismatch
    <3> QED
      BY <2>3, <3>1, <3>2 DEF TdoErrorAfter
  <2> QED
    BY <2>2, <2>4, <2>5, <2>6 DEF Remembered, ShiftingOn
<1>7. CASE ShiftDone
  <2>1. Doing("shift")
    BY <1>7 DEF ShiftDone
  <2>2. phase = "svf"
    BY <2>1, Commanding
  <2>3. mismatch' = mismatch
    BY <1>7 DEF ShiftDone, world
  <2> QED
    BY <1>7, <2>2, <2>3 DEF ShiftDone, Remembered, ShiftingOn, Error, Leave
<1>8. CASE AnalyzeDelay \/ DelayDone \/ \E n \in 0 .. Chunk : DelayCall(n)
  <2>1. Doing("delay") /\ mismatch' = mismatch
    BY <1>8 DEF AnalyzeDelay, DelayDone, DelayCall, world
  <2>2. phase = "svf" /\ jobs[1].op = "delay"
    BY <2>1, Commanding
  <2> QED
    BY <2>1, <2>2 DEF Remembered, ShiftingOn
<1>9. CASE AnalyzeShutdown \/ \E failed \in SUBSET JtagPins : PlayShutdown(failed)
  <2>1. phase = "shutdown" /\ mismatch' = mismatch
    BY <1>9 DEF AnalyzeShutdown, PlayShutdown, world
  <2>2. CASE AnalyzeShutdown
    BY <2>1, <2>2 DEF AnalyzeShutdown, Remembered
  <2>3. CASE \E failed \in SUBSET JtagPins : PlayShutdown(failed)
    BY <2>1, <2>3 DEF PlayShutdown, RcAfter, Remembered
  <2> QED
    BY <1>9, <2>2, <2>3
<1> QED
  BY <1>1, <1>2, <1>3, <1>4, <1>5, <1>6, <1>7, <1>8, <1>9 DEF Next

\* A line that differed from what the file expects makes the play fail, whatever
\* pin operations fail besides.
THEOREM MismatchReportedAlways == Spec => []MismatchReported
<1>1. Init => Remembered
  BY DEF Init, Remembered
<1>2. Remembered => MismatchReported
  BY DEF Remembered, MismatchReported
<1>3. PlayerInv /\ Remembered /\ [Next]_vars => Remembered'
  BY RememberedNext
<1> QED
  BY <1>1, <1>2, <1>3, PlayerInvAlways, PTL DEF Spec

-----------------------------------------------------------------------------
(***************************************************************************)
(* The bits of a scan.  Header, data and trailer are calls of their own,   *)
(* and which of them leaves the shift state depends on those behind it; so *)
(* the invariant names every stage of a scan, and what is left of it.      *)
(***************************************************************************)

\* What is left of a part of a scan, and where its last bit goes.
Left(bd, i, to) == [op |-> "shift", left |-> i, tdo |-> bd.tdo, to |-> to]

\* With r bits to go the host is in the shift state; with none it has left it,
\* unless there were none at all or the scan ends there.
Pending(r, n, t, s, e) == IF r > 0 THEN t = s ELSE t = s => n = 0 \/ e = s

\* How far a scan of header h, data b and trailer l has come, in the shift state
\* s and on to e: the calls still to be made, the host's state and the k bits
\* that went out.
ScanStage(js, t, k, h, b, l, s, e) ==
    LET n == h.len + b.len + l.len
        toH == Last(b.len + l.len, s, e)
        toB == Last(l.len, s, e)
    IN
    \/ js = <<Walk(s), Shift(h, toH), Shift(b, toB), Shift(l, e), Walk(e)>> /\ k = 0
    \/ \E i \in 0 .. h.len :
           /\ js = <<Left(h, i, toH), Shift(b, toB), Shift(l, e), Walk(e)>>
           /\ k = h.len - i /\ Pending(n - k, n, t, s, e)
    \/ \E i \in 0 .. b.len :
           /\ js = <<Left(b, i, toB), Shift(l, e), Walk(e)>>
           /\ k = h.len + b.len - i /\ Pending(n - k, n, t, s, e)
    \/ \E i \in 0 .. l.len :
           /\ js = <<Left(l, i, e), Walk(e)>>
           /\ k = n - i /\ Pending(n - k, n, t, s, e)
    \/ js = <<Walk(e)>> /\ k \in ScanLength(h, b, l) /\ (t = s => e = s \/ (n = 0 /\ k = 0))
    \/ js = <<>> /\ k \in ScanLength(h, b, l)

Stage ==
    LET c == script[at - 1] IN
    /\ c.op = "SDR" => ScanStage(jobs, tap, bits, set.hdr, c.bits, set.tdr, DRSHIFT, set.enddr)
    /\ c.op = "SIR" => ScanStage(jobs, tap, bits, set.hir, c.bits, set.tir, IRSHIFT, set.endir)

ScanInv ==
    /\ at <= Len(script) + 1
    /\ phase = "setup" => at = 1
    /\ mode = "play" /\ phase = "svf" /\ faults = 0 /\ at > 1 => Stage

\* What the stages have in common.
LEMMA LeftParts ==
    \A bd, i, to :
        /\ Left(bd, i, to).op = "shift" /\ Left(bd, i, to).left = i /\ Left(bd, i, to).to = to
        /\ Shift(bd, to) = Left(bd, bd.len, to)
  BY DEF Shift, Left

LEMMA OneLess == \A bd, i, to : [Left(bd, i, to) EXCEPT !.left = @ - 1] = Left(bd, i - 1, to)
  BY DEF Left

LEMMA WalkParts == \A s : Walk(s).op = "walk" /\ Walk(s).to = s
  BY DEF Walk

LEMMA StageDone ==
    ASSUME NEW h \in BitData, NEW b \in BitData, NEW l \in BitData, NEW s, NEW e,
           NEW js, NEW t, NEW k, ScanStage(js, t, k, h, b, l, s, e), js # <<>>,
           js[1].op = "walk" => t = js[1].to,
           js[1].op = "shift" => js[1].left = 0
    PROVE  ScanStage(Tail(js), t, k, h, b, l, s, e)
<1> DEFINE n == h.len + b.len + l.len
           toH == Last(b.len + l.len, s, e)
           toB == Last(l.len, s, e)
<1>0. h.len \in Nat /\ b.len \in Nat /\ l.len \in Nat
  BY BitDataFields
<1> HIDE DEF toH, toB
<1>1. CASE js = <<Walk(s), Shift(h, toH), Shift(b, toB), Shift(l, e), Walk(e)>> /\ k = 0
  <2>1. t = s
    BY <1>1, WalkParts
  <2>2. Tail(js) = <<Left(h, h.len, toH), Shift(b, toB), Shift(l, e), Walk(e)>>
    BY <1>1, LeftParts
  <2>3. k = h.len - h.len /\ Pending(n - k, n, t, s, e)
    BY <1>0, <1>1, <2>1 DEF Pending
  <2>4. \E i \in 0 .. h.len :
           /\ Tail(js) = <<Left(h, i, toH), Shift(b, toB), Shift(l, e), Walk(e)>>
           /\ k = h.len - i /\ Pending(n - k, n, t, s, e)
    BY <1>0, <2>2, <2>3
  <2> QED
    BY <2>4 DEF ScanStage, toH, toB
<1>2. ASSUME NEW i \in 0 .. h.len,
             js = <<Left(h, i, toH), Shift(b, toB), Shift(l, e), Walk(e)>>,
             k = h.len - i, Pending(n - k, n, t, s, e)
      PROVE  ScanStage(Tail(js), t, k, h, b, l, s, e)
  <2>1. i = 0
    BY <1>2, LeftParts
  <2>2. Tail(js) = <<Left(b, b.len, toB), Shift(l, e), Walk(e)>>
    BY <1>2, LeftParts
  <2>3. k = h.len + b.len - b.len
    BY <1>0, <1>2, <2>1
  <2> QED
    BY <1>0, <1>2, <2>2, <2>3 DEF ScanStage, toH, toB
<1>3. ASSUME NEW i \in 0 .. b.len,
             js = <<Left(b, i, toB), Shift(l, e), Walk(e)>>,
             k = h.len + b.len - i, Pending(n - k, n, t, s, e)
      PROVE  ScanStage(Tail(js), t, k, h, b, l, s, e)
  <2>1. i = 0
    BY <1>3, LeftParts
  <2>2. Tail(js) = <<Left(l, l.len, e), Walk(e)>>
    BY <1>3, LeftParts
  <2>3. k = n - l.len
    BY <1>0, <1>3, <2>1
  <2> QED
    BY <1>0, <1>3, <2>2, <2>3 DEF ScanStage, toH, toB
<1>4. ASSUME NEW i \in 0 .. l.len,
             js = <<Left(l, i, e), Walk(e)>>,
             k = n - i, Pending(n - k, n, t, s, e)
      PROVE  ScanStage(Tail(js), t, k, h, b, l, s, e)
  <2>1. i = 0
    BY <1>4, LeftParts
  <2>2. Tail(js) = <<Walk(e)>> /\ k = n
    BY <1>0, <1>4, <2>1
  <2>3. t = s => e = s \/ (n = 0 /\ k = 0)
    BY <1>0, <1>4, <2>2 DEF Pending
  <2>4. k \in ScanLength(h, b, l)
    BY <2>2 DEF ScanLength
  <2> QED
    BY <2>2, <2>3, <2>4 DEF ScanStage
<1>5. CASE js = <<Walk(e)>> /\ k \in ScanLength(h, b, l)
  <2>1. Tail(js) = <<>>
    BY <1>5
  <2> QED
    BY <1>5, <2>1 DEF ScanStage
<1> QED
  BY <1>1, <1>2, <1>3, <1>4, <1>5 DEF ScanStage, toH, toB

\* A round of the walker; in the shift state it clocks a bit through.
LEMMA StageWalks ==
    ASSUME NEW h \in BitData, NEW b \in BitData, NEW l \in BitData, NEW s, NEW e,
           NEW js, NEW t, NEW k, ScanStage(js, t, k, h, b, l, s, e), js # <<>>,
           js[1].op = "walk", t # js[1].to, NEW t2, t2 = s => js[1].to = s
    PROVE  ScanStage(js, t2, IF t = s THEN k + 1 ELSE k, h, b, l, s, e)
<1> DEFINE n == h.len + b.len + l.len
           k2 == IF t = s THEN k + 1 ELSE k
<1>0. h.len \in Nat /\ b.len \in Nat /\ l.len \in Nat
  BY BitDataFields
<1>1. CASE js[1] = Walk(s) /\ k = 0 /\
           js = <<Walk(s), Shift(h, Last(b.len + l.len, s, e)), Shift(b, Last(l.len, s, e)),
                  Shift(l, e), Walk(e)>>
  BY <1>1, WalkParts DEF ScanStage
<1>2. CASE js = <<Walk(e)>> /\ k \in ScanLength(h, b, l) /\ (t = s => e = s \/ (n = 0 /\ k = 0))
  <2>1. js[1].to = e
    BY <1>2, WalkParts
  <2>2. k2 \in ScanLength(h, b, l) /\ (t2 = s => e = s)
    <3>1. CASE t = s
      <4>1. n = 0 /\ k2 = 1
        BY <1>2, <2>1, <3>1
      <4> QED
        BY <2>1, <4>1 DEF ScanLength
    <3>2. CASE t # s
      BY <1>2, <2>1, <3>2
    <3> QED
      BY <3>1, <3>2
  <2> QED
    BY <1>2, <2>2 DEF ScanStage
<1>3. CASE js[1].op = "shift"
  BY <1>3
<1>4. \A i, to, bd : Left(bd, i, to).op = "shift"
  BY DEF Left
<1> QED
  BY <1>1, <1>2, <1>4 DEF ScanStage

\* A bit of a part of a scan; the last of all leaves the shift state, unless the
\* scan ends there.
LEMMA StageShifts ==
    ASSUME NEW h \in BitData, NEW b \in BitData, NEW l \in BitData, NEW s \in ShiftStates, NEW e,
           NEW js, NEW t, NEW k, ScanStage(js, t, k, h, b, l, s, e), js # <<>>,
           js[1].op = "shift", js[1].left > 0,
           NEW t2, t2 = IF js[1].left = 1 /\ t # js[1].to THEN t + 1 ELSE t
    PROVE  t = s /\ ScanStage([js EXCEPT ![1].left = @ - 1], t2, k + 1, h, b, l, s, e)
<1> DEFINE n == h.len + b.len + l.len
           toH == Last(b.len + l.len, s, e)
           toB == Last(l.len, s, e)
           ks == [js EXCEPT ![1].left = @ - 1]
<1>0. h.len \in Nat /\ b.len \in Nat /\ l.len \in Nat /\ s \in Nat /\ n \in Nat
  BY BitDataFields DEF ShiftStates, DRSHIFT, IRSHIFT
<1>1. /\ b.len + l.len > 0 => toH = s
      /\ b.len + l.len = 0 => toH = e
      /\ l.len > 0 => toB = s
      /\ l.len = 0 => toB = e
  BY <1>0 DEF Last
<1> HIDE DEF toH, toB
\* What a bit does to those still to go.
<1>2. ASSUME js[1].left \in Nat, n - k >= js[1].left, k \in Int, Pending(n - k, n, t, s, e),
             n - k > js[1].left => js[1].to = s, n - k = js[1].left => js[1].to = e
      PROVE  t = s /\ Pending(n - (k + 1), n, t2, s, e)
  <2>1. t = s
    BY <1>0, <1>2 DEF Pending
  <2>2. CASE n - k > 1
    <3>1. t2 = s
      BY <1>2, <2>1, <2>2
    <3>2. n - (k + 1) > 0
      BY <1>0, <1>2, <2>2
    <3> QED
      BY <2>1, <3>1, <3>2 DEF Pending
  <2>3. CASE n - k = 1
    <3>1. ~(n - (k + 1) > 0) /\ js[1].to = e /\ js[1].left = 1
      BY <1>0, <1>2, <2>3
    <3>2. t2 = s => e = s
      BY <1>0, <1>2, <2>1, <3>1
    <3> QED
      BY <2>1, <3>1, <3>2 DEF Pending
  <2>4. n - k > 1 \/ n - k = 1
    BY <1>0, <1>2
  <2> QED
    BY <2>2, <2>3, <2>4
<1>3. ASSUME NEW i \in 0 .. h.len,
             js = <<Left(h, i, toH), Shift(b, toB), Shift(l, e), Walk(e)>>,
             k = h.len - i, Pending(n - k, n, t, s, e)
      PROVE  t = s /\ ScanStage(ks, t2, k + 1, h, b, l, s, e)
  <2>1. js[1] = Left(h, i, toH) /\ js[1].left = i /\ js[1].to = toH /\ i > 0
    <3>1. js[1] = Left(h, i, toH)
      BY <1>3
    <3> QED
      BY <3>1, LeftParts
  <2>2. t = s /\ Pending(n - (k + 1), n, t2, s, e)
    <3>1. n - k = i + (b.len + l.len) /\ k \in Int
      BY <1>0, <1>3
    <3> QED
      BY <1>0, <1>1, <1>2, <1>3, <2>1, <3>1
  <2>3. ks = <<Left(h, i - 1, toH), Shift(b, toB), Shift(l, e), Walk(e)>>
    <3>1. ks = [js EXCEPT ![1] = [js[1] EXCEPT !.left = @ - 1]]
      OBVIOUS
    <3>2. [js[1] EXCEPT !.left = @ - 1] = Left(h, i - 1, toH)
      BY <2>1, OneLess
    <3> HIDE DEF ks
    <3> QED
      BY <1>3, <3>1, <3>2
  <2>4. i - 1 \in 0 .. h.len /\ k + 1 = h.len - (i - 1)
    BY <1>0, <1>3, <2>1
  <2> HIDE DEF ks
  <2> QED
    BY <2>2, <2>3, <2>4 DEF ScanStage, toH, toB
<1>4. ASSUME NEW i \in 0 .. b.len,
             js = <<Left(b, i, toB), Shift(l, e), Walk(e)>>,
             k = h.len + b.len - i, Pending(n - k, n, t, s, e)
      PROVE  t = s /\ ScanStage(ks, t2, k + 1, h, b, l, s, e)
  <2>1. js[1] = Left(b, i, toB) /\ js[1].left = i /\ js[1].to = toB /\ i > 0
    <3>1. js[1] = Left(b, i, toB)
      BY <1>4
    <3> QED
      BY <3>1, LeftParts
  <2>2. t = s /\ Pending(n - (k + 1), n, t2, s, e)
    <3>1. n - k = i + l.len /\ k \in Int
      BY <1>0, <1>4
    <3> QED
      BY <1>0, <1>1, <1>2, <1>4, <2>1, <3>1
  <2>3. ks = <<Left(b, i - 1, toB), Shift(l, e), Walk(e)>>
    <3>1. ks = [js EXCEPT ![1] = [js[1] EXCEPT !.left = @ - 1]]
      OBVIOUS
    <3>2. [js[1] EXCEPT !.left = @ - 1] = Left(b, i - 1, toB)
      BY <2>1, OneLess
    <3> HIDE DEF ks
    <3> QED
      BY <1>4, <3>1, <3>2
  <2>4. i - 1 \in 0 .. b.len /\ k + 1 = h.len + b.len - (i - 1)
    BY <1>0, <1>4, <2>1
  <2> HIDE DEF ks
  <2> QED
    BY <2>2, <2>3, <2>4 DEF ScanStage, toH, toB
<1>5. ASSUME NEW i \in 0 .. l.len,
             js = <<Left(l, i, e), Walk(e)>>,
             k = n - i, Pending(n - k, n, t, s, e)
      PROVE  t = s /\ ScanStage(ks, t2, k + 1, h, b, l, s, e)
  <2>1. js[1] = Left(l, i, e) /\ js[1].left = i /\ js[1].to = e /\ i > 0
    <3>1. js[1] = Left(l, i, e)
      BY <1>5
    <3> QED
      BY <3>1, LeftParts
  <2>2. t = s /\ Pending(n - (k + 1), n, t2, s, e)
    <3>1. n - k = i + 0 /\ k \in Int
      BY <1>0, <1>5
    <3> QED
      BY <1>0, <1>1, <1>2, <1>5, <2>1, <3>1
  <2>3. ks = <<Left(l, i - 1, e), Walk(e)>>
    <3>1. ks = [js EXCEPT ![1] = [js[1] EXCEPT !.left = @ - 1]]
      OBVIOUS
    <3>2. [js[1] EXCEPT !.left = @ - 1] = Left(l, i - 1, e)
      BY <2>1, OneLess
    <3> HIDE DEF ks
    <3> QED
      BY <1>5, <3>1, <3>2
  <2>4. i - 1 \in 0 .. l.len /\ k + 1 = n - (i - 1)
    BY <1>0, <1>5, <2>1
  <2> HIDE DEF ks
  <2> QED
    BY <2>2, <2>3, <2>4 DEF ScanStage, toH, toB
<1>6. /\ js # <<Walk(e)>>
      /\ js # <<Walk(s), Shift(h, toH), Shift(b, toB), Shift(l, e), Walk(e)>>
  <2>1. js[1] # Walk(e) /\ js[1] # Walk(s)
    BY WalkParts
  <2> QED
    BY <2>1
<1> QED
  BY <1>3, <1>4, <1>5, <1>6 DEF ScanStage, toH, toB

LEMMA StageHasNoDelay ==
    ASSUME NEW h, NEW b, NEW l, NEW s, NEW e,
           NEW js, NEW t, NEW k, ScanStage(js, t, k, h, b, l, s, e), js # <<>>
    PROVE  js[1].op \in {"walk", "shift"}
  BY DEF ScanStage, Shift, Left, Walk

\* What the walker and a bit do to the number of bits, as long as no pin
\* operation fails: an edge counts in the state the command aims at.
LEMMA PulseCounts ==
    ASSUME PlayerInv, mode = "play", phase = "svf", faults' = 0,
           NEW tms, NEW tdo, NEW err, Pulse(tms, tdo, err)
    PROVE  faults = 0 /\ bits' = IF tap = Target THEN bits + 1 ELSE bits
<1>1. faults \in Nat /\ (faults = 0 => Together)
  BY DEF PlayerInv, Types, Follows
<1>2. PlayPulse(tms, tdo, err)
  <2>1. ~AnalyzePulse(err)
    BY DEF AnalyzePulse
  <2>2. PulseFails(tms, tdo, err) => faults' = faults + 1
    BY DEF PulseFails
  <2> QED
    BY <1>1, <2>1, <2>2 DEF Pulse
<1>3. faults = 0 /\ Edge(tms)
  BY <1>2 DEF PlayPulse
<1>4. Target # INIT
  BY DEF Target, INIT, DRSHIFT, IRSHIFT
<1>5. tap # INIT => dev = tap
  BY <1>1, <1>3 DEF Together
<1> QED
  BY <1>3, <1>4, <1>5 DEF Edge

\* The steps between two commands.
LEMMA StageStep ==
    ASSUME PlayerInv, mode = "play", phase = "svf", phase' = "svf", faults' = 0,
           NEW h \in BitData, NEW b \in BitData, NEW l \in BitData, NEW s \in ShiftStates, NEW e,
           faults = 0 => ScanStage(jobs, tap, bits, h, b, l, s, e), Target = s,
           \/ WalkRound \/ WalkDone \/ ShiftBit \/ ShiftDone
           \/ AnalyzeDelay \/ DelayDone \/ \E n \in 0 .. Chunk : DelayCall(n)
    PROVE  ScanStage(jobs', tap', bits', h, b, l, s, e)
<1>1. jobs \in Seq(Jobs) /\ tap \in TapStates /\ faults \in Nat
  BY DEF PlayerInv, JobsOK, Types
<1>2. CASE WalkRound
  <2> DEFINE t == Head(jobs).to
  <2>1. jobs # <<>> /\ Head(jobs) = jobs[1] /\ jobs[1].op = "walk" /\ tap # t
    BY <1>1, <1>2, FirstJob DEF WalkRound, Doing
  <2>2. faults = 0 /\ bits' = IF tap = s THEN bits + 1 ELSE bits
    <3>1. PICK err \in BOOLEAN : Pulse(WalkTms(tap, t), FALSE, err)
      BY <1>2 DEF WalkRound
    <3> QED
      BY <3>1, PulseCounts
  <2>3. jobs' = jobs /\ tap' \in {tap, WalkNext(tap, t)} /\ (tap' = tap => tap = INIT \/ tap' = WalkNext(tap, t))
    BY <1>2 DEF WalkRound, Error, Leave
  <2>4. tap' = s => t = s
    <3>1. INIT \notin ShiftStates
      BY DEF ShiftStates, INIT, DRSHIFT, IRSHIFT
    <3> QED
      BY <1>1, <2>3, <3>1, WalkArrives DEF ShiftStates
  <2> HIDE DEF t
  <2>5. ScanStage(jobs, tap', IF tap = s THEN bits + 1 ELSE bits, h, b, l, s, e)
    BY <2>1, <2>2, <2>4, StageWalks DEF t
  <2> QED
    BY <2>2, <2>3, <2>5
<1>3. CASE ShiftBit
  <2>1. Doing("shift") /\ Head(jobs).left > 0 /\ jobs' = [jobs EXCEPT ![1].left = @ - 1]
        /\ tap' = IF Head(jobs).left = 1 /\ tap # Head(jobs).to THEN tap + 1 ELSE tap
    BY <1>3 DEF ShiftBit
  <2>2. jobs # <<>> /\ Head(jobs) = jobs[1] /\ jobs[1].op = "shift" /\ jobs[1].left > 0
        /\ tap' = IF jobs[1].left = 1 /\ tap # jobs[1].to THEN tap + 1 ELSE tap
    BY <1>1, <2>1, FirstJob DEF Doing
  <2>3. faults = 0 /\ bits' = IF tap = s THEN bits + 1 ELSE bits
    <3>1. \E tms, err : Pulse(tms, Head(jobs).tdo, err)
      BY <1>3 DEF ShiftBit
    <3> QED
      BY <3>1, PulseCounts
  <2>4. tap = s /\ ScanStage([jobs EXCEPT ![1].left = @ - 1], tap', bits + 1, h, b, l, s, e)
    <3>1. ScanStage(jobs, tap, bits, h, b, l, s, e)
      BY <2>3
    <3>2. \A t2 : t2 = (IF jobs[1].left = 1 /\ tap # jobs[1].to THEN tap + 1 ELSE tap) =>
             tap = s /\ ScanStage([jobs EXCEPT ![1].left = @ - 1], t2, bits + 1, h, b, l, s, e)
      BY <2>2, <3>1, StageShifts, Zenon
    <3> QED
      BY <2>2, <3>2, Zenon
  <2> QED
    BY <2>1, <2>3, <2>4
<1>4. CASE WalkDone \/ ShiftDone
  <2>1. /\ (Doing("walk") /\ tap = Head(jobs).to) \/ (Doing("shift") /\ Head(jobs).left = 0)
        /\ jobs' = Tail(jobs) /\ UNCHANGED <<tap, bits, faults>>
    BY <1>4 DEF WalkDone, ShiftDone, Done, Error, Leave, world
  <2>2. /\ jobs # <<>>
        /\ jobs[1].op = "walk" => tap = jobs[1].to
        /\ jobs[1].op = "shift" => jobs[1].left = 0
    BY <1>1, <2>1, FirstJob DEF Doing
  <2> QED
    BY <2>1, <2>2, StageDone
<1>5. CASE AnalyzeDelay \/ DelayDone \/ \E n \in 0 .. Chunk : DelayCall(n)
  <2>1. Doing("delay") /\ (faults' = 0 => faults = 0)
    BY <1>1, <1>5 DEF AnalyzeDelay, DelayDone, DelayCall, world
  <2>2. jobs # <<>> /\ jobs[1].op = "delay"
    BY <1>1, <2>1, FirstJob DEF Doing
  <2> QED
    BY <2>1, <2>2, StageHasNoDelay
<1> QED
  BY <1>2, <1>3, <1>4, <1>5

LEMMA ScanInvNext ==
    ASSUME PlayerInv, ScanInv, [Next]_vars
    PROVE  ScanInv'
<1>0. at \in Nat \ {0} /\ script \in Scripts /\ set \in Settings
  BY DEF PlayerInv, Types
<1>1. CASE UNCHANGED vars
  BY <1>1 DEF vars, host, world, ScanInv, Stage
<1>2. CASE AnalyzeSetup \/ PlaySetup \/ PlaySetupFails
  <2>1. phase = "setup" /\ phase' # "setup" /\ UNCHANGED <<at, script>>
    BY <1>2 DEF AnalyzeSetup, PlaySetup, PlaySetupFails, Start, Refused
  <2> QED
    BY <2>1 DEF ScanInv
<1>3. CASE ReadCommand
  <2> DEFINE c == script[at]
  <2> SUFFICES ASSUME mode' = "play", phase' = "svf", faults' = 0, at' > 1 PROVE Stage'
    <3>1. phase' # "setup"
      BY <1>3 DEF ReadCommand, Leave, Error
    <3>2. at' <= Len(script') + 1
      BY <1>0, <1>3, FileAssumption DEF ReadCommand, ScanInv
    <3> QED
      BY <3>1, <3>2 DEF ScanInv
  <2>1. /\ at <= Len(script) /\ at' = at + 1 /\ set' = CommandSets(c, set) /\ jobs' = CommandJobs(c, set')
        /\ bits' = 0 /\ script' = script /\ tap' = tap
    BY <1>3 DEF ReadCommand, Leave, Error
  <2>2. script'[at' - 1] = c
    BY <1>0, <2>1
  <2>3. ASSUME c.op = "SDR"
        PROVE  ScanStage(jobs', tap', bits', set'.hdr, c.bits, set'.tdr, DRSHIFT, set'.enddr)
    <3>1. set' = set /\ jobs' = ScanJobs(set.hdr, c.bits, set.tdr, DRSHIFT, set.enddr)
      BY <2>1, <2>3 DEF CommandSets, CommandJobs
    <3> QED
      BY <2>1, <3>1 DEF ScanStage, ScanJobs, BehindHead
  <2>4. ASSUME c.op = "SIR"
        PROVE  ScanStage(jobs', tap', bits', set'.hir, c.bits, set'.tir, IRSHIFT, set'.endir)
    <3>1. set' = set /\ jobs' = ScanJobs(set.hir, c.bits, set.tir, IRSHIFT, set.endir)
      BY <2>1, <2>4 DEF CommandSets, CommandJobs
    <3> QED
      BY <2>1, <3>1 DEF ScanStage, ScanJobs, BehindHead
  <2> QED
    BY <2>2, <2>3, <2>4 DEF Stage
<1>4. CASE \/ WalkRound \/ WalkDone \/ ShiftBit \/ ShiftDone
           \/ AnalyzeDelay \/ DelayDone \/ \E n \in 0 .. Chunk : DelayCall(n)
  <2> DEFINE c == script[at - 1]
  <2>1. UNCHANGED <<script, mode, at, set>> /\ phase \in {"svf", "reset"}
    BY <1>4 DEF WalkRound, WalkDone, ShiftBit, ShiftDone, AnalyzeDelay, DelayDone, DelayCall, Doing
  <2>2. phase' \in {"svf", "reset", "shutdown"} /\ (phase' = "svf" => phase = "svf")
    BY <1>4, <2>1 DEF WalkRound, WalkDone, ShiftBit, ShiftDone, AnalyzeDelay, DelayDone, DelayCall,
                      Done, Error, Leave
  <2> SUFFICES ASSUME mode' = "play", phase' = "svf", faults' = 0, at' > 1 PROVE Stage'
    BY <2>1, <2>2 DEF ScanInv
  <2>3. mode = "play" /\ phase = "svf" /\ (faults = 0 => Stage)
    BY <2>1, <2>2 DEF ScanInv
  <2>4. WellFormed(c)
    <3>1. at - 1 \in 1 .. Len(script)
      BY <1>0, <2>1, FileAssumption DEF ScanInv
    <3> QED
      BY <1>0, <3>1, FileAssumption
  <2>5. ASSUME c.op = "SDR"
        PROVE  ScanStage(jobs', tap', bits', set.hdr, c.bits, set.tdr, DRSHIFT, set.enddr)
    <3>1. Target = DRSHIFT /\ DRSHIFT \in ShiftStates
      BY <2>5 DEF Target, ShiftStates
    <3>2. c.bits \in BitData /\ set.hdr \in BitData /\ set.tdr \in BitData
      BY <1>0, <2>4, <2>5, SettingsFields DEF WellFormed
    <3>3. faults = 0 => ScanStage(jobs, tap, bits, set.hdr, c.bits, set.tdr, DRSHIFT, set.enddr)
      BY <2>3, <2>5 DEF Stage
    <3> QED
      BY <1>4, <2>3, <3>1, <3>2, <3>3, StageStep
  <2>6. ASSUME c.op = "SIR"
        PROVE  ScanStage(jobs', tap', bits', set.hir, c.bits, set.tir, IRSHIFT, set.endir)
    <3>1. Target = IRSHIFT /\ IRSHIFT \in ShiftStates
      BY <2>1, <2>3, <2>6 DEF Target, ShiftStates
    <3>2. c.bits \in BitData /\ set.hir \in BitData /\ set.tir \in BitData
      BY <1>0, <2>4, <2>6, SettingsFields DEF WellFormed
    <3>3. faults = 0 => ScanStage(jobs, tap, bits, set.hir, c.bits, set.tir, IRSHIFT, set.endir)
      BY <2>3, <2>6 DEF Stage
    <3> QED
      BY <1>4, <2>3, <3>1, <3>2, <3>3, StageStep
  <2> QED
    BY <2>1, <2>5, <2>6 DEF Stage
<1>5. CASE AnalyzeShutdown \/ \E failed \in SUBSET JtagPins : PlayShutdown(failed)
  <2>1. phase' \in {"setup", "done"} /\ (phase' = "setup" => at' = 1) /\ script' = script
        /\ at' \in {1, at}
    BY <1>5 DEF AnalyzeShutdown, PlayShutdown
  <2> QED
    BY <1>0, <2>1, FileAssumption DEF ScanInv
<1> QED
  BY <1>1, <1>2, <1>3, <1>4, <1>5 DEF Next

\* Every bit of header, data and trailer goes out exactly once, whichever of them
\* are empty, whatever lengths they have and whatever state the scan ends in.
THEOREM ExactBitsAlways == Spec => ExactBits
<1>1. Init => ScanInv
  BY FileAssumption DEF Init, ScanInv
<1>2. PlayerInv /\ ScanInv /\ [Next]_vars => ScanInv'
  BY ScanInvNext
<1>3. Spec => []ScanInv
  BY <1>1, <1>2, PlayerInvAlways, PTL DEF Spec
<1>4. ScanInv =>
        [ReadCommand /\ mode = "play" /\ faults = 0 /\ at > 1 =>
            LET c == script[at - 1] IN
            /\ c.op = "SDR" => bits \in ScanLength(set.hdr, c.bits, set.tdr)
            /\ c.op = "SIR" => bits \in ScanLength(set.hir, c.bits, set.tir)]_vars
  <2> SUFFICES ASSUME ScanInv, ReadCommand, mode = "play", faults = 0, at > 1
               PROVE  LET c == script[at - 1] IN
                      /\ c.op = "SDR" => bits \in ScanLength(set.hdr, c.bits, set.tdr)
                      /\ c.op = "SIR" => bits \in ScanLength(set.hir, c.bits, set.tir)
    OBVIOUS
  <2>1. phase = "svf" /\ jobs = <<>> /\ Stage
    BY DEF ReadCommand, ScanInv
  <2>2. \A h, b, l, s, e : ScanStage(<<>>, tap, bits, h, b, l, s, e) => bits \in ScanLength(h, b, l)
    BY DEF ScanStage
  <2> QED
    BY <2>1, <2>2 DEF Stage
<1> QED
  BY <1>3, <1>4, PTL DEF ExactBits

-----------------------------------------------------------------------------
(***************************************************************************)
(* Edges.                                                                  *)
(***************************************************************************)

EdgesInv == count \in Int /\ edges \in Int /\ lost \in Int /\ EdgesAccounted

LEMMA PulseEdges ==
    ASSUME EdgesInv, linux' = linux, NEW tms, NEW tdo, NEW err, Pulse(tms, tdo, err)
    PROVE  EdgesInv'
<1>1. CASE AnalyzePulse(err)
  BY <1>1 DEF AnalyzePulse, world, EdgesInv, EdgesAccounted
<1>2. CASE PlayPulse(tms, tdo, err)
  BY <1>2 DEF PlayPulse, Edge, EdgesInv, EdgesAccounted
<1>3. CASE PulseFails(tms, tdo, err)
  <2>1. /\ count' = count + 1
        /\ \/ edges' = edges + 1 /\ lost' = lost
           \/ lost' = lost + 1 /\ edges' = edges
    BY Zenon, <1>3 DEF PulseFails, Edge
  <2> QED
    BY <2>1 DEF EdgesInv, EdgesAccounted
<1> QED
  BY <1>1, <1>2, <1>3 DEF Pulse

\* Every pulse that the Linux build counts, those of delays that failed halfway
\* included, is an edge that reached the device or one whose own operation failed.
THEOREM EdgesAccountedAlways == Spec => []EdgesAccounted
<1>1. Init => EdgesInv
  BY DEF Init, EdgesInv, EdgesAccounted
<1>2. PlayerInv /\ EdgesInv /\ [Next]_vars => EdgesInv'
  <2> SUFFICES ASSUME PlayerInv, EdgesInv, [Next]_vars PROVE EdgesInv'
    OBVIOUS
  <2>1. CASE UNCHANGED <<linux, count, edges, lost>>
    BY <2>1 DEF EdgesInv, EdgesAccounted
  <2>2. CASE WalkRound
    <3>1. linux' = linux /\ \E tms, tdo, err : Pulse(tms, tdo, err)
      BY <2>2 DEF WalkRound
    <3> QED
      BY <3>1, PulseEdges
  <2>3. CASE ShiftBit
    <3>1. linux' = linux /\ \E tms, tdo, err : Pulse(tms, tdo, err)
      BY <2>3 DEF ShiftBit
    <3> QED
      BY <3>1, PulseEdges
  <2>4. ASSUME NEW n \in 0 .. Chunk, DelayCall(n)
        PROVE  EdgesInv'
    <3> DEFINE left == Head(jobs).left
               cnt == Request(left)
               reported == IF n = cnt THEN cnt ELSE Reported(n, cnt)
    <3>1. /\ linux' = linux /\ lost' = lost /\ edges' = edges + n /\ count' = count + reported
      BY <2>4 DEF DelayCall, Counted
    <3>2. linux => reported = n
      BY DEF Reported
    <3>3. reported \in Int
      <4>1. Doing("delay")
        BY <2>4 DEF DelayCall
      <4>2. left \in Nat
        BY <4>1, Commanding, JobKinds
      <4> QED
        BY <4>2, PlayerAssumption DEF Request, Reported
    <3> HIDE DEF reported
    <3> QED
      BY <3>1, <3>2, <3>3, PlayerAssumption DEF EdgesInv, EdgesAccounted
  <2>5. CASE \/ AnalyzeSetup \/ PlaySetup \/ PlaySetupFails \/ ReadCommand \/ WalkDone \/ ShiftDone
             \/ AnalyzeDelay \/ DelayDone \/ AnalyzeShutdown
             \/ \E failed \in SUBSET JtagPins : PlayShutdown(failed)
    <3>1. UNCHANGED <<linux, count, edges, lost>>
      BY <2>5 DEF AnalyzeSetup, PlaySetup, PlaySetupFails, Start, Refused, ReadCommand, WalkDone,
                  ShiftDone, AnalyzeDelay, DelayDone, AnalyzeShutdown, PlayShutdown, world
    <3> QED
      BY <2>1, <3>1
  <2>6. CASE UNCHANGED vars
    BY <2>1, <2>6 DEF vars, host, world
  <2> QED
    BY <2>2, <2>3, <2>4, <2>5, <2>6 DEF Next
<1>3. EdgesInv => EdgesAccounted
  BY DEF EdgesInv
<1> QED
  BY <1>1, <1>2, <1>3, PlayerInvAlways, PTL DEF Spec

-----------------------------------------------------------------------------
(***************************************************************************)
(* Analysis and play.  Neither knows of the other, so the invariant        *)
(* remembers the analysis: h is the places it came through, one for each   *)
(* step of its own, with the clocks it had counted by then.  As long as    *)
(* the play meets no error it comes through the same places with the same  *)
(* counts.  An error may be met in the one and not in the other, but then  *)
(* the play turns back to RESET, and never farther from it than the        *)
(* analysis was: clocks counted and clocks to RESET together never become  *)
(* fewer on the way.                                                       *)
(***************************************************************************)
Place(n) ==
    [at |-> at, set |-> set, phase |-> phase, jobs |-> jobs, round |-> round, tap |-> tap, n |-> n]

First == [at |-> 1, set |-> Defaults, phase |-> "svf", jobs |-> <<>>, round |-> 0, tap |-> INIT, n |-> 0]

\* The place that follows if no error is met.
AfterRead(f, x) ==
    IF x.at > Len(f)
    THEN [x EXCEPT !.phase = "reset", !.jobs = <<Walk(RESET)>>, !.round = 0]
    ELSE LET s == CommandSets(f[x.at], x.set) IN
         [x EXCEPT !.at = @ + 1, !.set = s, !.jobs = CommandJobs(f[x.at], s), !.round = 0]
AfterCall(x) ==
    [x EXCEPT !.jobs = Tail(@), !.round = 0, !.phase = IF @ = "reset" THEN "shutdown" ELSE @]
AfterRound(x) ==
    LET i == IF x.tap = INIT THEN 0 ELSE x.round IN
    IF x.tap = INIT /\ x.round > 1 - ResetPulses
    THEN [x EXCEPT !.round = @ - 1, !.n = @ + 1]
    ELSE [x EXCEPT !.tap = WalkNext(@, x.jobs[1].to), !.round = IF i < 12 THEN i + 1 ELSE i, !.n = @ + 1]
AfterBit(x) ==
    [x EXCEPT !.tap = IF x.jobs[1].left = 1 /\ @ # x.jobs[1].to THEN @ + 1 ELSE @,
              !.jobs = [x.jobs EXCEPT ![1].left = @ - 1], !.n = @ + 1]
WithLeft(js, a) == [js EXCEPT ![1].left = a]
AfterDelay(x) == [x EXCEPT !.jobs = WithLeft(x.jobs, 0), !.n = x.n + x.jobs[1].left]

AfterPlace(f, x) ==
    IF x.jobs = <<>> THEN AfterRead(f, x)
    ELSE CASE x.jobs[1].op = "walk" /\ x.tap # x.jobs[1].to -> AfterRound(x)
           [] x.jobs[1].op = "shift" /\ x.jobs[1].left > 0 -> AfterBit(x)
           [] x.jobs[1].op = "delay" /\ x.jobs[1].left > 0 -> AfterDelay(x)
           [] OTHER -> AfterCall(x)

\* Clocks to RESET, and clocks counted with them.
ToReset(t, r) == IF t = INIT THEN ResetPulses + r ELSE Far(t)
Sum(x) == x.n + ToReset(x.tap, x.round)

\* The way of an analysis.
Way(f, h) ==
    /\ \E X : h \in Seq(X)
    /\ Len(h) > 0 /\ h[1] = First
    /\ \A i \in 1 .. Len(h) : h[i].n \in Nat /\ Sum(h[i]) \in Int
    /\ \A i \in 1 .. Len(h) - 1 : h[i].phase \in {"svf", "reset"} /\ h[i + 1] = AfterPlace(f, h[i])
    /\ \A i, j \in 1 .. Len(h) : i <= j => Sum(h[i]) <= Sum(h[j])
WholeWay(f, h) ==
    Way(f, h) /\ h[Len(h)].phase = "shutdown" /\ h[Len(h)].tap = RESET /\ h[Len(h)].n = total

\* The play is at place i of the way, or m clocks into the delay it begins.
Into(m) == WithLeft(jobs, jobs[1].left + m)
OnTheWay(h, i, m) ==
    /\ i \in 1 .. Len(h) /\ m \in Nat
    /\ IF m = 0 THEN Place(count) = h[i]
       ELSE /\ phase = "svf" /\ jobs # <<>> /\ jobs[1].op = "delay" /\ jobs[1].left > 0
            /\ [Place(count - m) EXCEPT !.jobs = Into(m)] = h[i]
Turned == count + ToReset(tap, round) <= total

Fresh == jobs = <<>> \/ jobs[1].op # "walk" => round = 0
Begins == (phase = "setup" => at = 1 /\ set = Defaults) /\ (phase = "svf" => rc = 0)
Analyzing ==
    mode = "analyze" =>
        /\ count = 0 /\ ~tdoError /\ phase \in {"setup", "svf", "reset", "shutdown", "done"}
        /\ phase = "setup" => total = 0
        /\ phase \in {"svf", "reset", "shutdown"} /\ rc = 0 =>
              \E h : Way(script, h) /\ h[Len(h)] = Place(total)
Playing ==
    mode = "play" =>
        \E h : /\ WholeWay(script, h)
               /\ phase = "setup" => count = 0
               /\ phase = "svf" => \E i, m : OnTheWay(h, i, m)
               /\ phase \in {"reset", "shutdown"} => Turned /\ (rc = 0 => \E i : OnTheWay(h, i, 0))
               /\ phase = "done" => count <= total /\ (rc = 0 => count = total)
               /\ phase \in {"setup", "svf", "reset", "shutdown", "done"}
AccountInv ==
    /\ total \in Nat /\ count \in Nat /\ mode \in {"analyze", "play"}
    /\ Fresh /\ Begins /\ Analyzing /\ Playing

LEMMA ToResetType ==
    ASSUME PlayerInv
    PROVE  /\ ToReset(tap, round) \in Int /\ ToReset(tap', 0) \in Int
           /\ ToReset(tap, round) <= ToReset(tap, 0)
<1>1. round \in Int /\ (tap = INIT => round <= 0)
  BY DEF PlayerInv, Types, Rounds
<1> QED
  BY <1>1, FarBound DEF ToReset, ResetPulses

-----------------------------------------------------------------------------
(***************************************************************************)
(* Each step goes to the place that follows.                               *)
(***************************************************************************)

\* A round of the walker.  Where it gives up its clock has been counted all the
\* same.
LEMMA RoundPlace ==
    ASSUME PlayerInv, WalkRound, NEW c \in Nat, NEW y, y = AfterPlace(script, Place(c))
    PROVE  /\ y.tap = tap' /\ y.n = c + 1 /\ y.n \in Nat /\ Sum(y) \in Int
           /\ Sum(Place(c)) <= Sum(y)
           /\ jobs # <<>> /\ jobs[1].op = "walk" /\ phase \in {"svf", "reset"}
           /\ phase' = phase => Place(c + 1)' = y /\ jobs' = jobs /\ rc' = rc
           /\ phase' # phase => phase = "svf" /\ Error /\ tap' # INIT
           /\ phase = "reset" => ToReset(tap, round) = 1 + ToReset(tap', round')
<1> DEFINE t == Head(jobs).to
           i == IF tap = INIT THEN 0 ELSE round
<1>1. /\ jobs # <<>> /\ Head(jobs) = jobs[1] /\ jobs[1].op = "walk" /\ tap # t /\ t \in States
      /\ phase \in {"svf", "reset"} /\ jobs \in Seq(Jobs)
  <2>1. Doing("walk") /\ tap # t /\ jobs \in Seq(Jobs)
    BY DEF WalkRound, PlayerInv, JobsOK
  <2>2. jobs # <<>> /\ Head(jobs).op = "walk" /\ phase \in {"svf", "reset"}
    BY <2>1 DEF Doing
  <2> QED
    BY <2>1, <2>2, FirstJob, JobKinds
<1>2. /\ round \in Int /\ tap \in TapStates /\ (tap = INIT => round \in -5 .. 0)
      /\ (phase = "reset" /\ tap # INIT => round <= 6)
  BY FarBound DEF PlayerInv, Types, Rounds
<1>3. y = AfterRound(Place(c))
  BY <1>1 DEF AfterPlace, Place
<1>4. CASE tap = INIT /\ round > 1 - ResetPulses
  <2>1. round' = round - 1 /\ UNCHANGED <<tap, jobs, phase, rc, at, set>>
    <3>1. \/ /\ tap = INIT /\ round > 1 - ResetPulses
             /\ round' = round - 1 /\ UNCHANGED <<tap, jobs, phase, rc>>
          \/ tap = INIT => round = 1 - ResetPulses
      BY DEF WalkRound
    <3>2. UNCHANGED <<at, set>>
      BY DEF WalkRound
    <3> QED
      BY <1>2, <1>4, <3>1, <3>2 DEF ResetPulses
  <2>2. y = [at |-> at, set |-> set, phase |-> phase, jobs |-> jobs, round |-> round - 1,
             tap |-> tap, n |-> c + 1]
    BY <1>3, <1>4 DEF AfterRound, Place
  <2>3. y.tap = tap /\ y.n = c + 1 /\ y.round = round - 1
    BY <2>2
  <2>4. Sum(y) = c + 1 + ResetPulses + round - 1 /\ Sum(Place(c)) = c + ResetPulses + round
    BY <1>2, <1>4, <2>3 DEF Sum, ToReset, Place, ResetPulses
  <2>5. Place(c + 1)' = y
    BY <2>1, <2>2 DEF Place
  <2>6. ToReset(tap, round) = 1 + ToReset(tap', round')
    BY <1>2, <1>4, <2>1 DEF ToReset, ResetPulses
  <2> QED
    BY <1>1, <1>2, <2>1, <2>3, <2>4, <2>5, <2>6 DEF ResetPulses
<1>5. CASE ~(tap = INIT /\ round > 1 - ResetPulses)
  <2>1. /\ tap = INIT => round = 1 - ResetPulses
        /\ tap' = WalkNext(tap, t) /\ UNCHANGED <<at, set>>
        /\ \/ /\ WalkerStuck(i)
              /\ IF phase = "svf" THEN Error ELSE Done /\ UNCHANGED rc
           \/ /\ ~WalkerStuck(i) /\ round' = IF i < 12 THEN i + 1 ELSE i
              /\ UNCHANGED <<jobs, phase, rc>>
    BY <1>5 DEF WalkRound
  <2>2. y = [at |-> at, set |-> set, phase |-> phase, jobs |-> jobs,
             round |-> IF i < 12 THEN i + 1 ELSE i, tap |-> tap', n |-> c + 1]
    BY <1>1, <1>3, <1>5, <2>1 DEF AfterRound, Place
  <2>3. y.tap = tap' /\ y.n = c + 1
    BY <2>2
  <2>4. tap' \in DeviceStates /\ tap' # INIT /\ ToReset(tap, round) <= 1 + Far(tap')
    <3>1. CASE tap = INIT
      <4>1. tap' = RESET
        BY <2>1, <3>1, OutOfInit
      <4> QED
        BY <2>1, <3>1, <4>1, TapSets, FarBound DEF ToReset, ResetPulses
    <3>2. CASE tap # INIT
      <4>1. tap \in DeviceStates
        BY <1>2, <3>2, TapSets
      <4>2. tap' = Device(tap, WalkTms(tap, t)) /\ tap' \in DeviceStates
        BY <1>1, <2>1, <4>1, WalkNextType
      <4> QED
        BY <3>2, <4>1, <4>2, WalkTmsType, FarNear, TapSets DEF ToReset
    <3> QED
      BY <3>1, <3>2
  <2>5. Sum(y) = c + 1 + Far(tap') /\ Sum(Place(c)) = c + ToReset(tap, round)
    BY <2>3, <2>4 DEF Sum, ToReset, Place
  <2>6. phase = "reset" => ~WalkerStuck(i)
    BY <1>2 DEF WalkerStuck
  <2>7. phase' = phase => Place(c + 1)' = y /\ jobs' = jobs /\ rc' = rc
    <3>1. phase' = phase => round' = (IF i < 12 THEN i + 1 ELSE i) /\ UNCHANGED <<jobs, phase, rc>>
      BY <1>1, <2>1, <2>6 DEF Error, Leave
    <3> QED
      BY <2>1, <2>2, <3>1 DEF Place
  <2>8. phase' # phase => phase = "svf" /\ Error
    BY <1>1, <2>1, <2>6
  <2>9. phase = "reset" => ToReset(tap, round) = 1 + ToReset(tap', round')
    <3> SUFFICES ASSUME phase = "reset" PROVE ToReset(tap, round) = 1 + Far(tap')
      BY <2>4 DEF ToReset
    <3>1. t = RESET
      BY <1>1, Walking
    <3>2. CASE tap = INIT
      <4>1. tap' = RESET /\ Far(RESET) = 0
        BY <2>1, <3>2, OutOfInit, FarValues
      <4> QED
        BY <2>1, <3>2, <4>1 DEF ToReset, ResetPulses
    <3>3. CASE tap # INIT
      <4>1. tap \in DeviceStates /\ tap # RESET
        BY <1>1, <1>2, <3>1, <3>3, TapSets
      <4> QED
        BY <2>1, <3>1, <3>3, <4>1, FarStep, FarBound DEF ToReset
    <3> QED
      BY <3>2, <3>3
  <2> HIDE DEF i
  <2>10. Sum(y) \in Int /\ Sum(Place(c)) <= Sum(y)
    BY <2>4, <2>5, FarBound, ToResetType
  <2> QED
    BY <1>1, <2>3, <2>4, <2>7, <2>8, <2>9, <2>10
<1> QED
  BY <1>4, <1>5

\* The walk is over, the bits are shifted, the clocks made.
LEMMA CallPlace ==
    ASSUME PlayerInv, WalkDone \/ DelayDone \/ (ShiftDone /\ ~tdoError),
           NEW c \in Nat, NEW y, y = AfterPlace(script, Place(c))
    PROVE  /\ y.n = c /\ Sum(y) \in Int /\ Sum(Place(c)) <= Sum(y)
           /\ Place(c)' = y /\ round' = 0 /\ tap' = tap
           /\ UNCHANGED <<script, mode, rc, total, count>>
<1>1. /\ jobs # <<>> /\ Head(jobs) = jobs[1] /\ phase \in {"svf", "reset"}
      /\ \/ jobs[1].op = "walk" /\ tap = jobs[1].to
         \/ jobs[1].op \in {"shift", "delay"} /\ jobs[1].left = 0
  <2>1. jobs \in Seq(Jobs) /\ jobs # <<>> /\ phase \in {"svf", "reset"}
    BY DEF WalkDone, DelayDone, ShiftDone, Doing, PlayerInv, JobsOK
  <2>2. Head(jobs) = jobs[1]
    BY <2>1, FirstJob
  <2> QED
    BY <2>1, <2>2 DEF WalkDone, DelayDone, ShiftDone, Doing
<1>2. Done /\ UNCHANGED <<script, mode, at, set, tap, rc, total, count>>
  BY DEF WalkDone, DelayDone, ShiftDone
<1>3. y = AfterCall(Place(c))
  BY <1>1 DEF AfterPlace, Place
<1>4. y = [at |-> at, set |-> set, phase |-> IF phase = "reset" THEN "shutdown" ELSE phase,
           jobs |-> Tail(jobs), round |-> 0, tap |-> tap, n |-> c]
  BY <1>3 DEF AfterCall, Place
<1>5. Place(c)' = y
  BY <1>2, <1>4 DEF Place, Done
<1>6. Sum(y) = c + ToReset(tap, 0) /\ Sum(Place(c)) = c + ToReset(tap, round) /\ y.n = c
  BY <1>4 DEF Sum, Place
<1>7. tap' = tap /\ ToReset(tap', 0) = ToReset(tap, 0)
  BY <1>2
<1> QED
  BY <1>2, <1>5, <1>6, <1>7, ToResetType DEF Done

LEMMA BitPlace ==
    ASSUME PlayerInv, ShiftBit, NEW c \in Nat, NEW y, y = AfterPlace(script, Place(c))
    PROVE  /\ y.n = c + 1 /\ Sum(y) \in Int /\ Sum(Place(c)) <= Sum(y)
           /\ Place(c + 1)' = y /\ phase = "svf" /\ UNCHANGED <<script, mode, phase, rc, round>>
           /\ jobs # <<>> /\ jobs' # <<>> /\ jobs[1].op = "shift" /\ jobs'[1].op = "shift"
           /\ \E tms, err : Pulse(tms, jobs[1].tdo, err) /\ tdoError' = TdoErrorAfter(err)
<1> DEFINE leaves == jobs[1].left = 1 /\ tap # jobs[1].to
<1>1. Doing("shift")
  BY DEF ShiftBit
<1>2. phase = "svf" /\ jobs # <<>> /\ Head(jobs) = jobs[1] /\ jobs[1].op = "shift" /\ jobs[1] \in Jobs
  BY <1>1, Commanding
<1>3. /\ jobs[1].left > 0 /\ tap' = (IF leaves THEN tap + 1 ELSE tap)
      /\ \E err \in BOOLEAN : /\ Pulse(IF leaves THEN 1 ELSE 0, jobs[1].tdo, err)
                              /\ tdoError' = TdoErrorAfter(err)
      /\ jobs' = [jobs EXCEPT ![1].left = @ - 1]
      /\ UNCHANGED <<script, mode, phase, at, set, round, rc>>
  BY <1>2 DEF ShiftBit
<1>4. JobsOK(jobs, tap) /\ round \in Int /\ jobs \in Seq(Jobs)
  BY DEF PlayerInv, Types, JobsOK
<1>5. tap \in ShiftStates
  <2>1. jobs[1].left > 0 /\ (tap' = tap \/ (jobs[1].left = 1 /\ tap # jobs[1].to))
    BY <1>3
  <2> QED
    BY <1>2, <1>3, <1>4, <2>1, JobShifts
<1>6. y = AfterBit(Place(c))
  <2>1. Place(c).jobs = jobs
    BY DEF Place
  <2> QED
    BY <1>2, <1>3, <2>1 DEF AfterPlace
<1>7. y = [at |-> at, set |-> set, phase |-> phase, jobs |-> [jobs EXCEPT ![1].left = @ - 1],
           round |-> round, tap |-> IF leaves THEN tap + 1 ELSE tap, n |-> c + 1]
  BY <1>6 DEF AfterBit, Place
<1>8. Place(c + 1)' = y
  BY <1>3, <1>7 DEF Place
<1>9. ToReset(tap, round) <= 1 + ToReset(tap', round) /\ ToReset(tap', round) \in Int
  <2>1. tap = DRSHIFT \/ tap = IRSHIFT
    BY <1>5 DEF ShiftStates
  <2>2. tap' = tap \/ tap' = tap + 1
    BY <1>3
  <2> QED
    BY <2>1, <2>2, FarValues DEF ToReset, INIT, DRSHIFT, IRSHIFT, DREXIT1, IREXIT1
<1>10. Sum(y) = c + 1 + ToReset(tap', round) /\ Sum(Place(c)) = c + ToReset(tap, round) /\ y.n = c + 1
  BY <1>3, <1>7 DEF Sum, Place
<1>11. Sum(y) \in Int /\ Sum(Place(c)) <= Sum(y)
  BY <1>9, <1>10, ToResetType
<1>12. jobs' # <<>> /\ jobs'[1].op = "shift"
  <2>1. [jobs[1] EXCEPT !.left = @ - 1].op = "shift"
    BY <1>2 DEF Jobs, ShiftJobs, WalkJobs, DelayJobs
  <2>2. 1 \in 1 .. Len(jobs)
    BY <1>2, <1>4, FirstJob
  <2>3. jobs'[1] = [jobs[1] EXCEPT !.left = @ - 1] /\ DOMAIN jobs' = DOMAIN jobs
    BY <1>3, <2>2
  <2> QED
    BY <1>4, <2>1, <2>2, <2>3
<1>13. \E tms, err : Pulse(tms, jobs[1].tdo, err) /\ tdoError' = TdoErrorAfter(err)
  <2>1. PICK err \in BOOLEAN : /\ Pulse(IF leaves THEN 1 ELSE 0, jobs[1].tdo, err)
                               /\ tdoError' = TdoErrorAfter(err)
    BY <1>3
  <2> HIDE DEF leaves
  <2> QED
    BY <2>1
<1>14. UNCHANGED <<script, mode, phase, rc, round>>
  BY <1>3
<1>15. y.n = c + 1 /\ jobs # <<>> /\ jobs[1].op = "shift" /\ phase = "svf"
  BY <1>2, <1>10
<1> QED
  BY ONLY <1>8, <1>11, <1>12, <1>13, <1>14, <1>15

LEMMA DelayPlace ==
    ASSUME PlayerInv, AnalyzeDelay, NEW c \in Nat, NEW y, y = AfterPlace(script, Place(c))
    PROVE  \E d \in Nat : /\ y.n = c + d /\ Sum(y) \in Int /\ Sum(Place(c)) <= Sum(y)
                          /\ Place(c + d)' = y /\ total' = Total(d)
                          /\ phase = "svf" /\ jobs # <<>> /\ jobs[1].op = "delay"
                          /\ UNCHANGED <<script, mode, phase, at, set, round, tap, tdoError, rc, count>>
<1>1. Doing("delay")
  BY DEF AnalyzeDelay
<1>2. phase = "svf" /\ jobs # <<>> /\ Head(jobs) = jobs[1] /\ jobs[1].op = "delay" /\ jobs[1] \in Jobs
  BY <1>1, Commanding
<1>3. PICK d : d = jobs[1].left
  OBVIOUS
<1>4. /\ d \in Nat /\ d > 0 /\ total' = Total(d) /\ jobs' = WithLeft(jobs, 0)
      /\ UNCHANGED <<script, mode, phase, at, set, round, tap, tdoError, rc, count>>
  BY <1>2, <1>3, JobKinds DEF AnalyzeDelay, WithLeft
<1>5. y = AfterDelay(Place(c))
  <2>1. Place(c).jobs = jobs
    BY DEF Place
  <2> QED
    BY <1>2, <1>3, <1>4, <2>1 DEF AfterPlace
<1>6. y = [at |-> at, set |-> set, phase |-> phase, jobs |-> WithLeft(jobs, 0),
           round |-> round, tap |-> tap, n |-> c + d]
  BY <1>3, <1>5 DEF AfterDelay, Place
<1>7. Place(c + d)' = y
  BY <1>4, <1>6 DEF Place
<1>8. Sum(y) = c + d + ToReset(tap, round) /\ Sum(Place(c)) = c + ToReset(tap, round) /\ y.n = c + d
  BY <1>6 DEF Sum, Place
<1> QED
  BY <1>2, <1>4, <1>7, <1>8, ToResetType

LEMMA LeftAt ==
    ASSUME NEW js, 1 \in DOMAIN js, NEW e, js[1] = [op |-> "delay", left |-> e], NEW a
    PROVE  /\ WithLeft(js, a)[1] = [op |-> "delay", left |-> a] /\ DOMAIN WithLeft(js, a) = DOMAIN js
           /\ \A i \in DOMAIN js : i # 1 => WithLeft(js, a)[i] = js[i]
           /\ WithLeft(js, a) = [i \in DOMAIN js |-> WithLeft(js, a)[i]]
<1>1. [js[1] EXCEPT !.left = a] = [op |-> "delay", left |-> a]
  OBVIOUS
<1> QED
  BY <1>1 DEF WithLeft

LEMMA LeftOnce ==
    ASSUME NEW js \in Seq(Jobs), js # <<>>, js[1].op = "delay", js[1] \in Jobs
    PROVE  /\ \A a : WithLeft(js, a) # <<>> /\ WithLeft(js, a)[1].op = "delay" /\ WithLeft(js, a)[1].left = a
           /\ WithLeft(js, js[1].left) = js
           /\ \A a, b : WithLeft(WithLeft(js, a), b) = WithLeft(js, b)
<1>1. 1 \in DOMAIN js
  BY FirstJob
<1>2. js[1] = [op |-> "delay", left |-> js[1].left]
  BY JobKinds DEF DelayJobs
<1>3. ASSUME NEW a
      PROVE  /\ WithLeft(js, a)[1] = [op |-> "delay", left |-> a] /\ DOMAIN WithLeft(js, a) = DOMAIN js
             /\ \A i \in DOMAIN js : i # 1 => WithLeft(js, a)[i] = js[i]
             /\ WithLeft(js, a) = [i \in DOMAIN js |-> WithLeft(js, a)[i]]
  BY <1>1, <1>2, LeftAt
<1>4. \A a : WithLeft(js, a) # <<>> /\ WithLeft(js, a)[1].op = "delay" /\ WithLeft(js, a)[1].left = a
  <2> SUFFICES ASSUME NEW a
               PROVE  WithLeft(js, a) # <<>> /\ WithLeft(js, a)[1].op = "delay" /\ WithLeft(js, a)[1].left = a
    OBVIOUS
  <2>1. 1 \in DOMAIN WithLeft(js, a) /\ WithLeft(js, a)[1] = [op |-> "delay", left |-> a]
    BY <1>1, <1>3
  <2> QED
    BY <2>1
<1>5. WithLeft(js, js[1].left) = js
  BY <1>1, <1>2 DEF WithLeft
<1>6. ASSUME NEW a, NEW b PROVE WithLeft(WithLeft(js, a), b) = WithLeft(js, b)
  <2>1. PICK z : z = WithLeft(js, a)
    OBVIOUS
  <2>2. z[1] = [op |-> "delay", left |-> a] /\ DOMAIN z = DOMAIN js /\ \A i \in DOMAIN js : i # 1 => z[i] = js[i]
    BY <1>3, <2>1
  <2>3. PICK u, v : u = WithLeft(z, b) /\ v = WithLeft(js, b)
    OBVIOUS
  <2>4. /\ u[1] = [op |-> "delay", left |-> b] /\ \A i \in DOMAIN js : i # 1 => u[i] = z[i]
        /\ u = [i \in DOMAIN js |-> u[i]]
    BY <1>1, <2>2, <2>3, LeftAt
  <2>5. /\ v[1] = [op |-> "delay", left |-> b] /\ \A i \in DOMAIN js : i # 1 => v[i] = js[i]
        /\ v = [i \in DOMAIN js |-> v[i]]
    BY <1>3, <2>3
  <2>6. \A i \in DOMAIN js : u[i] = v[i]
    BY <2>2, <2>4, <2>5
  <2> QED
    BY <2>1, <2>3, <2>4, <2>5, <2>6
<1> QED
  BY <1>4, <1>5, <1>6

\* A part of a delay, however much of it was made: from x, m clocks before, the
\* call goes on to y, or is r clocks farther into it.
PartMade(x, y, m) ==
    \E r, d \in Nat :
        /\ count' = d /\ d = count + r
        /\ \/ Place(d)' = y
           \/ /\ jobs'[1].left > 0
              /\ x = [Place(d - (m + r))' EXCEPT !.jobs = Into(m + r)']
              /\ m + r = 0 => x = Place(d)'

LEMMA PartPlace ==
    ASSUME PlayerInv, NEW n \in 0 .. Chunk, DelayCall(n), count \in Nat, NEW m \in Nat,
           NEW x, x = [Place(count - m) EXCEPT !.jobs = Into(m)],
           NEW y, y = AfterPlace(script, x)
    PROVE  /\ phase = "svf" /\ jobs # <<>> /\ jobs' # <<>> /\ jobs[1].op = "delay" /\ jobs'[1].op = "delay"
           /\ UNCHANGED <<script, mode, phase, at, set, round, tap, tdoError, rc, total>>
           /\ PartMade(x, y, m)
<1>1. Doing("delay")
  BY DEF DelayCall
<1>2. phase = "svf" /\ jobs # <<>> /\ Head(jobs) = jobs[1] /\ jobs[1].op = "delay" /\ jobs[1] \in Jobs
  BY <1>1, Commanding
<1>3. PICK l : l = jobs[1].left
  OBVIOUS
<1>4. l \in Nat /\ l > 0 /\ jobs \in Seq(Jobs)
  BY <1>2, <1>3, JobKinds DEF DelayCall, PlayerInv, JobsOK
<1>5. PICK r : r = IF n = Request(l) THEN Request(l) ELSE Reported(n, Request(l))
  OBVIOUS
<1>6. jobs' = WithLeft(jobs, l - r) /\ count' = count + r
  BY <1>2, <1>3, <1>5 DEF DelayCall, Counted, WithLeft
<1>7. n <= Request(l)
  BY <1>2, <1>3 DEF DelayCall
<1>8. UNCHANGED <<script, mode, phase, at, set, round, tap, tdoError, rc, total>>
  BY DEF DelayCall
<1>9. r \in Nat /\ r <= l
  <2>1. Request(l) \in Nat /\ Request(l) <= l /\ n \in Nat
    BY <1>4, PlayerAssumption DEF Request
  <2>2. r = n \/ r = Request(l)
    BY <1>5 DEF Reported
  <2> QED
    BY <1>4, <1>7, <2>1, <2>2
<1>17. PICK d : d = count + r
  OBVIOUS
<1>18. d \in Nat /\ count' = d
  BY <1>6, <1>9, <1>17
<1>10. Into(m) = WithLeft(jobs, l + m)
  BY <1>3 DEF Into
<1>11. jobs' # <<>> /\ jobs'[1].op = "delay" /\ jobs'[1].left = l - r
  BY <1>2, <1>4, <1>6, LeftOnce
<1>19. \A a, b : WithLeft(WithLeft(jobs, a), b) = WithLeft(jobs, b)
  BY <1>2, <1>4, LeftOnce
<1>12. PICK k, js : k = count - m /\ js = Into(m)
  OBVIOUS
<1>13. x = [at |-> at, set |-> set, phase |-> phase, jobs |-> js, round |-> round,
            tap |-> tap, n |-> k]
  BY <1>12 DEF Place
<1>14. js # <<>> /\ js[1].op = "delay" /\ js[1].left = l + m /\ k + (l + m) = count + l /\ l + m > 0
  <2>1. js # <<>> /\ js[1].op = "delay" /\ js[1].left = l + m
    BY <1>2, <1>4, <1>10, <1>12, LeftOnce
  <2> QED
    BY <1>4, <1>12, <2>1
<1> DEFINE Gone == \/ Place(d)' = y
                   \/ /\ jobs'[1].left > 0
                      /\ x = [Place(d - (m + r))' EXCEPT !.jobs = Into(m + r)']
                      /\ m + r = 0 => x = Place(d)'
<1>15. ASSUME r = l PROVE Gone
  <2>1. y = AfterDelay(x)
    <3>1. x.jobs = js
      BY <1>13
    <3> QED
      BY <1>14, <3>1 DEF AfterPlace
  <2>2. y = [at |-> at, set |-> set, phase |-> phase, jobs |-> WithLeft(js, 0),
             round |-> round, tap |-> tap, n |-> k + js[1].left]
    <3>1. x.jobs = js /\ x.n = k
      BY <1>13
    <3>2. y = [[at |-> at, set |-> set, phase |-> phase, jobs |-> js, round |-> round, tap |-> tap, n |-> k]
               EXCEPT !.jobs = WithLeft(js, 0), !.n = k + js[1].left]
      BY <1>13, <2>1, <3>1 DEF AfterDelay
    <3> QED
      BY <3>2
  <2>3. WithLeft(js, 0) = jobs'
    <3>1. l - r = 0
      BY <1>4, <1>15
    <3> QED
      BY <1>6, <1>10, <1>12, <1>19, <3>1
  <2>4. k + js[1].left = d
    BY <1>14, <1>15, <1>17
  <2>5. Place(d)' = y
    BY <1>8, <2>2, <2>3, <2>4 DEF Place
  <2> QED
    BY <2>5
<1>16. ASSUME r # l PROVE Gone
  <2>1. l - r > 0
    BY <1>4, <1>9, <1>16
  <2>2. Into(m + r)' = WithLeft(jobs', (l - r) + (m + r))
    BY <1>11 DEF Into
  <2>3. (l - r) + (m + r) = l + m /\ d - (m + r) = k
    BY <1>4, <1>17, <1>9, <1>12
  <2>4. Into(m + r)' = js
    BY <1>6, <1>10, <1>12, <1>19, <2>2, <2>3
  <2>5. x = [Place(d - (m + r))' EXCEPT !.jobs = Into(m + r)']
    <3>1. Place(d - (m + r))' = [at |-> at, set |-> set, phase |-> phase, jobs |-> jobs', round |-> round,
            tap |-> tap, n |-> k]
      BY <1>8, <2>3 DEF Place
    <3> QED
      BY <1>13, <2>4, <3>1
  <2>6. m + r = 0 => x = Place(d)'
    <3> SUFFICES ASSUME m = 0, r = 0 PROVE x = Place(d)'
      BY <1>9
    <3>1. l - r = l /\ l + m = l
      BY <1>4
    <3>2. jobs' = js
      BY <1>6, <1>10, <1>12, <3>1
    <3>3. d = k
      BY <1>12, <1>17
    <3> QED
      BY <1>8, <1>13, <3>2, <3>3 DEF Place
  <2> QED
    BY <1>11, <2>1, <2>5, <2>6
<1>20. \/ Place(d)' = y
       \/ /\ jobs'[1].left > 0
          /\ x = [Place(d - (m + r))' EXCEPT !.jobs = Into(m + r)']
          /\ m + r = 0 => x = Place(d)'
  BY <1>15, <1>16
<1>21. PartMade(x, y, m)
  BY Zenon, <1>9, <1>17, <1>18, <1>20 DEF PartMade
<1> QED
  BY <1>2, <1>8, <1>11, <1>21

\* A command is read, the end of the file found, or an error in the command.
LEMMA ReadPlace ==
    ASSUME PlayerInv, Fresh, ReadCommand, NEW c \in Nat, NEW y, y = AfterPlace(script, Place(c))
    PROVE  /\ y.n = c /\ Sum(y) \in Int /\ Sum(Place(c)) <= Sum(y)
           /\ jobs = <<>> /\ phase = "svf" /\ phase' \in {"svf", "reset"} /\ round = 0 /\ round' = 0
           /\ UNCHANGED <<script, mode, tap, tdoError, total, count>>
           /\ \/ Place(c)' = y /\ ((phase' = "svf" /\ rc' = rc) \/ (phase' = "reset" /\ rc' = 0))
              \/ phase' = "reset" /\ rc' = -1
<1>1. jobs = <<>> /\ phase = "svf" /\ UNCHANGED <<script, mode, tap, tdoError, total, count>> /\ round = 0
  BY DEF ReadCommand, Fresh
<1>2. y = AfterRead(script, Place(c)) /\ script' = script
  BY <1>1 DEF AfterPlace, Place
<1>3. round' = 0 /\ phase' \in {"svf", "reset"}
  BY <1>1 DEF ReadCommand, Leave, Error
<1>4. y.n = c /\ y.tap = tap /\ y.round = 0
  BY <1>2 DEF AfterRead, Place
<1>5. Sum(y) = c + ToReset(tap, 0) /\ Sum(Place(c)) = c + ToReset(tap, round)
  BY <1>4 DEF Sum, Place
<1>6. Sum(y) \in Int /\ Sum(Place(c)) <= Sum(y)
  BY <1>1, <1>5, ToResetType
<1>7. \/ Place(c)' = y /\ ((phase' = "svf" /\ rc' = rc) \/ (phase' = "reset" /\ rc' = 0))
      \/ phase' = "reset" /\ rc' = -1
  <2>1. CASE at > Len(script) /\ Leave(0) /\ UNCHANGED <<at, set>>
    <3>1. y = [at |-> at, set |-> set, phase |-> "reset", jobs |-> <<Walk(RESET)>>, round |-> 0,
               tap |-> tap, n |-> c]
      BY <1>2, <2>1 DEF AfterRead, Place
    <3> QED
      BY <1>1, <2>1, <3>1 DEF Leave, Place
  <2>2. CASE /\ at <= Len(script) /\ at' = at + 1 /\ set' = CommandSets(script[at], set)
             /\ jobs' = CommandJobs(script[at], set') /\ round' = 0
             /\ UNCHANGED <<rc, phase>>
    <3>1. ~(at > Len(script))
      <4>1. at \in Nat /\ script \in Scripts
        BY DEF PlayerInv, Types
      <4> QED
        BY <2>2, <4>1, FileAssumption
    <3>2. y = [at |-> at + 1, set |-> set', phase |-> phase, jobs |-> jobs', round |-> 0,
               tap |-> tap, n |-> c]
      BY <1>2, <2>2, <3>1 DEF AfterRead, Place
    <3>3. at' = at + 1 /\ phase' = phase /\ rc' = rc /\ round' = 0 /\ tap' = tap
      BY <1>1, <2>2
    <3> QED
      BY <1>1, <3>2, <3>3 DEF Place
  <2>3. CASE Error
    BY <2>3 DEF Error, Leave
  <2> QED
    BY <2>1, <2>2, <2>3 DEF ReadCommand
<1> QED
  BY <1>1, <1>3, <1>4, <1>6, <1>7

-----------------------------------------------------------------------------
(***************************************************************************)
(* The way of the analysis, and the play on it.                            *)
(***************************************************************************)

LEMMA WayBegins ==
    ASSUME NEW f
    PROVE  Way(f, <<First>>) /\ <<First>>[Len(<<First>>)] = First
<1>1. PICK h : h = <<First>>
  OBVIOUS
<1>2. h \in Seq({First}) /\ Len(h) = 1 /\ h[1] = First
  BY <1>1
<1>3. First.n \in Nat /\ Sum(First) \in Int
  BY DEF First, Sum, ToReset, ResetPulses
<1>4. Way(f, h)
  BY <1>2, <1>3 DEF Way
<1> QED
  BY <1>1, <1>2, <1>4

LEMMA WayGoesOn ==
    ASSUME NEW f, NEW h, Way(f, h), h[Len(h)].phase \in {"svf", "reset"},
           NEW y, y = AfterPlace(f, h[Len(h)]), y.n \in Nat, Sum(y) \in Int, Sum(h[Len(h)]) <= Sum(y)
    PROVE  Way(f, Append(h, y)) /\ Append(h, y)[Len(Append(h, y))] = y
<1>1. PICK X : h \in Seq(X)
  BY DEF Way
<1>2. PICK g, k : g = Append(h, y) /\ k = Len(h)
  OBVIOUS
<1>3. h \in Seq(X \cup {y}) /\ k \in Nat /\ k > 0
  BY <1>1, <1>2 DEF Way
<1>4. /\ g \in Seq(X \cup {y}) /\ Len(g) = k + 1 /\ g[k + 1] = y
      /\ \A i \in 1 .. k : g[i] = h[i]
  BY <1>2, <1>3
<1>5. /\ h[1] = First
      /\ \A i \in 1 .. k : h[i].n \in Nat /\ Sum(h[i]) \in Int
      /\ \A i \in 1 .. k - 1 : h[i].phase \in {"svf", "reset"} /\ h[i + 1] = AfterPlace(f, h[i])
      /\ \A i, j \in 1 .. k : i <= j => Sum(h[i]) <= Sum(h[j])
  BY <1>2 DEF Way
<1>6. g[1] = First
  BY <1>3, <1>4, <1>5
<1>7. ASSUME NEW i \in 1 .. k + 1 PROVE g[i].n \in Nat /\ Sum(g[i]) \in Int
  <2>1. i \in 1 .. k \/ i = k + 1
    BY <1>3
  <2> QED
    BY <1>4, <1>5, <2>1
<1>8. ASSUME NEW i \in 1 .. k PROVE g[i].phase \in {"svf", "reset"} /\ g[i + 1] = AfterPlace(f, g[i])
  <2>1. CASE i = k
    BY <1>2, <1>3, <1>4, <2>1
  <2>2. CASE i # k
    <3>1. i \in 1 .. k - 1 /\ i + 1 \in 1 .. k
      BY <1>3, <2>2
    <3> QED
      BY <1>4, <1>5, <3>1
  <2> QED
    BY <2>1, <2>2
<1>9. ASSUME NEW i \in 1 .. k + 1, NEW j \in 1 .. k + 1, i <= j PROVE Sum(g[i]) <= Sum(g[j])
  <2>1. CASE j \in 1 .. k
    <3>1. i \in 1 .. k
      BY <1>3, <1>9, <2>1
    <3> QED
      BY <1>4, <1>5, <1>9, <2>1, <3>1
  <2>2. CASE j = k + 1 /\ i \in 1 .. k
    <3>1. Sum(h[i]) <= Sum(h[k]) /\ k \in 1 .. k
      BY <1>3, <1>5, <2>2
    <3>2. Sum(h[i]) \in Int /\ Sum(h[k]) \in Int /\ Sum(h[k]) <= Sum(y)
      BY <1>2, <1>5, <2>2, <3>1
    <3> QED
      BY <1>4, <2>2, <3>1, <3>2
  <2>3. CASE i = k + 1
    <3>1. j = i
      BY <1>3, <1>9, <2>3
    <3> QED
      BY <1>7, <3>1
  <2> QED
    BY <1>3, <2>1, <2>2, <2>3
<1>10. Way(f, g)
  <2>1. Len(g) > 0 /\ Len(g) - 1 = k
    BY <1>3, <1>4
  <2> QED
    BY <1>4, <1>6, <1>7, <1>8, <1>9, <2>1 DEF Way
<1> QED
  BY <1>2, <1>4, <1>10

LEMMA WayIsOne ==
    ASSUME NEW h, WholeWay(script, h), NEW i \in 1 .. Len(h), h[i].phase \in {"svf", "reset"}
    PROVE  i + 1 \in 1 .. Len(h) /\ h[i + 1] = AfterPlace(script, h[i])
<1>1. Len(h) \in Nat
  BY DEF WholeWay, Way
<1>2. i # Len(h)
  BY DEF WholeWay
<1> QED
  BY <1>1, <1>2 DEF WholeWay, Way

LEMMA WayToReset ==
    ASSUME NEW h, WholeWay(script, h), NEW i \in 1 .. Len(h), total \in Nat
    PROVE  /\ Sum(h[i]) \in Int /\ Sum(h[i]) <= total
           /\ h[i].phase = "shutdown" => h[i].n = total
<1>1. PICK k : k = Len(h)
  OBVIOUS
<1>2. k \in Nat /\ i \in 1 .. k /\ k \in 1 .. k
  BY <1>1 DEF WholeWay, Way
<1>3. Sum(h[k]) = total
  <2>1. h[k].tap = RESET /\ h[k].n = total
    BY <1>1 DEF WholeWay
  <2> QED
    BY <2>1, FarValues DEF Sum, ToReset, INIT, RESET
<1>4. Sum(h[i]) \in Int /\ Sum(h[i]) <= Sum(h[k])
  BY <1>1, <1>2 DEF WholeWay, Way
<1>5. h[i].phase = "shutdown" => i = k
  <2>1. i # k => i \in 1 .. k - 1
    BY <1>2
  <2> QED
    BY <1>1, <2>1 DEF WholeWay, Way
<1> QED
  BY <1>1, <1>3, <1>4, <1>5 DEF WholeWay

LEMMA PulseClocks ==
    ASSUME NEW tms, NEW tdo, NEW err, Pulse(tms, tdo, err)
    PROVE  /\ mode = "analyze" => total' = Total(1) /\ count' = count /\ ~err
           /\ mode = "play" => count' = count + 1 /\ total' = total
<1>1. CASE AnalyzePulse(err)
  BY <1>1 DEF AnalyzePulse
<1>2. CASE PlayPulse(tms, tdo, err)
  BY <1>2 DEF PlayPulse
<1>3. CASE PulseFails(tms, tdo, err)
  BY <1>3 DEF PulseFails
<1> QED
  BY <1>1, <1>2, <1>3 DEF Pulse

\* A step of the analysis.
LEMMA AnalysisGoesOn ==
    ASSUME AccountInv, mode = "analyze", UNCHANGED <<script, mode, count>>,
           phase \in {"svf", "reset"}, phase' \in {"svf", "reset", "shutdown"},
           phase' = "svf" => rc' = 0, ~tdoError', Fresh',
           NEW c, c = total, NEW e, e \in Nat, e = total',
           NEW y, y = AfterPlace(script, Place(c)), y.n \in Nat, Sum(y) \in Int, Sum(Place(c)) <= Sum(y),
           rc' = 0 => rc = 0 /\ Place(e)' = y
    PROVE  AccountInv'
<1>1. Begins' /\ Playing'
  BY DEF Begins, Playing
<1>2. ASSUME rc' = 0 PROVE \E h : Way(script', h) /\ h[Len(h)] = Place(e)'
  <2>1. PICK h : Way(script, h) /\ h[Len(h)] = Place(c)
    BY <1>2 DEF AccountInv, Analyzing
  <2>2. h[Len(h)].phase \in {"svf", "reset"}
    BY <2>1 DEF Place
  <2>3. Way(script, Append(h, y)) /\ Append(h, y)[Len(Append(h, y))] = y
    BY <2>1, <2>2, WayGoesOn
  <2> QED
    BY <1>2, <2>3
<1>3. Analyzing'
  <2>1. rc' = 0 => \E h : Way(script', h) /\ h[Len(h)] = Place(total)'
    BY <1>2 DEF Place
  <2>2. count' = 0
    BY DEF AccountInv, Analyzing
  <2> QED
    BY <2>1, <2>2 DEF Analyzing
<1> QED
  BY <1>1, <1>3 DEF AccountInv

\* Where the play is, outside delays.
LEMMA PlayPlace ==
    ASSUME AccountInv, mode = "play", phase = "svf", jobs = <<>> \/ jobs[1].op # "delay" \/ ~(jobs[1].left > 0),
           NEW c, c = count
    PROVE  \E h : WholeWay(script, h) /\ \E i \in 1 .. Len(h) : h[i] = Place(c)
<1>1. PICK h : WholeWay(script, h) /\ \E i, m : OnTheWay(h, i, m)
  BY DEF AccountInv, Playing
<1>2. PICK i, m : OnTheWay(h, i, m)
  BY <1>1
<1>3. i \in 1 .. Len(h) /\ h[i] = Place(c)
  BY <1>2 DEF OnTheWay
<1> QED
  BY <1>1, <1>3

\* A step of the play from one place of the way to the next.
LEMMA PlayOn ==
    ASSUME UNCHANGED <<script, total>>, total \in Nat,
           NEW h, WholeWay(script, h), NEW i \in 1 .. Len(h), h[i].phase \in {"svf", "reset"},
           NEW y, y = AfterPlace(script, h[i]), NEW d, d = count', Place(d)' = y
    PROVE  WholeWay(script, h)' /\ OnTheWay(h, i + 1, 0)' /\ Turned'
<1>1. i + 1 \in 1 .. Len(h) /\ h[i + 1] = y
  BY WayIsOne
<1>2. Sum(y) <= total
  BY <1>1, WayToReset
<1>3. y.n = d /\ y.tap = tap' /\ y.round = round'
  BY DEF Place
<1>4. Sum(y) = d + ToReset(tap', round')
  BY <1>3 DEF Sum
<1>5. Turned'
  BY <1>2, <1>4 DEF Turned
<1>6. OnTheWay(h, i + 1, 0)'
  <2>1. Place(count)' = h[i + 1]
    BY <1>1 DEF Place
  <2> QED
    BY <1>1, <2>1 DEF OnTheWay
<1>7. WholeWay(script, h)'
  BY DEF WholeWay
<1> QED
  BY <1>5, <1>6, <1>7

LEMMA PlayGoesOn ==
    ASSUME AccountInv, mode = "play", UNCHANGED <<script, mode, total>>,
           phase \in {"svf", "reset"}, phase' \in {"svf", "reset", "shutdown"},
           phase' = "svf" => phase = "svf" /\ rc' = 0, Fresh', count' \in Nat,
           phase = "svf" => jobs = <<>> \/ jobs[1].op # "delay" \/ ~(jobs[1].left > 0),
           phase = "reset" => Turned' /\ rc' = rc,
           NEW c, c = count, NEW d, d = count', NEW y, y = AfterPlace(script, Place(c)), Place(d)' = y
    PROVE  AccountInv'
<1>1. Begins' /\ Analyzing' /\ total' \in Nat
  BY DEF Begins, Analyzing, AccountInv
<1>2. ASSUME NEW h, WholeWay(script, h), NEW i \in 1 .. Len(h), h[i] = Place(c)
      PROVE  WholeWay(script, h)' /\ OnTheWay(h, i + 1, 0)' /\ Turned'
  <2>1. h[i].phase \in {"svf", "reset"}
    BY <1>2 DEF Place
  <2> QED
    BY <1>2, <2>1, PlayOn DEF AccountInv
<1>3. CASE phase = "svf"
  <2>1. PICK h : WholeWay(script, h) /\ \E i \in 1 .. Len(h) : h[i] = Place(c)
    BY <1>3, PlayPlace
  <2>2. PICK i \in 1 .. Len(h) : h[i] = Place(c)
    BY <2>1
  <2>3. WholeWay(script, h)' /\ OnTheWay(h, i + 1, 0)' /\ Turned'
    BY <1>2, <2>1, <2>2
  <2>4. \E g : WholeWay(script, g)' /\ Turned' /\ \E j : OnTheWay(g, j, 0)'
    BY <2>3
  <2>5. Playing'
    BY <2>4 DEF Playing
  <2> QED
    BY <1>1, <2>5 DEF AccountInv
<1>4. CASE phase = "reset"
  <2>1. PICK h : WholeWay(script, h) /\ (rc = 0 => \E i : OnTheWay(h, i, 0))
    BY <1>4 DEF AccountInv, Playing
  <2>2. WholeWay(script, h)'
    BY <2>1 DEF WholeWay
  <2>3. rc' = 0 => \E j : OnTheWay(h, j, 0)'
    <3> SUFFICES ASSUME rc' = 0 PROVE \E j : OnTheWay(h, j, 0)'
      OBVIOUS
    <3>1. PICK i : OnTheWay(h, i, 0)
      BY <1>4, <2>1
    <3>2. i \in 1 .. Len(h) /\ h[i] = Place(c)
      BY <3>1 DEF OnTheWay
    <3> QED
      BY <1>2, <2>1, <3>2
  <2>4. Playing'
    BY <1>4, <2>2, <2>3 DEF Playing
  <2> QED
    BY <1>1, <2>4 DEF AccountInv
<1> QED
  BY <1>3, <1>4

\* An error, and the play turns back.
LEMMA PlayTurns ==
    ASSUME AccountInv, mode = "play", UNCHANGED <<script, mode, total>>,
           phase = "svf", phase' = "reset", rc' = -1, Fresh', count' \in Nat, Turned'
    PROVE  AccountInv'
<1>1. Begins' /\ Analyzing' /\ total' \in Nat
  BY DEF Begins, Analyzing, AccountInv
<1>2. PICK h : WholeWay(script, h)
  BY DEF AccountInv, Playing
<1>3. WholeWay(script, h)'
  BY <1>2 DEF WholeWay
<1>4. Playing'
  BY <1>3 DEF Playing
<1> QED
  BY <1>1, <1>4 DEF AccountInv

-----------------------------------------------------------------------------
LEMMA TotalStep ==
    ASSUME total \in Nat, NEW d \in Nat, total' = Total(d)
    PROVE  total' \in Nat /\ (total' < MaxTck => total' = total + d /\ total < MaxTck)
  BY PlayerAssumption DEF Total

LEMMA AccountRead ==
    ASSUME PlayerInv, AccountInv, ReadCommand
    PROVE  AccountInv'
<1>1. PICK c : c = IF mode = "analyze" THEN total ELSE count
  OBVIOUS
<1>2. PICK y : y = AfterPlace(script, Place(c))
  OBVIOUS
<1>3. c \in Nat /\ Fresh /\ mode \in {"analyze", "play"} /\ count \in Nat /\ total \in Nat /\ rc = 0
  BY <1>1 DEF AccountInv, Begins, ReadCommand
<1>4. /\ y.n = c /\ Sum(y) \in Int /\ Sum(Place(c)) <= Sum(y)
      /\ jobs = <<>> /\ phase = "svf" /\ phase' \in {"svf", "reset"} /\ round = 0 /\ round' = 0
      /\ UNCHANGED <<script, mode, tap, tdoError, total, count>>
      /\ \/ Place(c)' = y /\ ((phase' = "svf" /\ rc' = rc) \/ (phase' = "reset" /\ rc' = 0))
         \/ phase' = "reset" /\ rc' = -1
  BY <1>2, <1>3, ReadPlace
<1>5. Fresh' /\ (phase' = "svf" => rc' = 0)
  BY <1>3, <1>4 DEF Fresh
<1>6. CASE mode = "analyze"
  <2>1. c = total /\ c = total' /\ ~tdoError'
    BY <1>1, <1>4, <1>6 DEF AccountInv, Analyzing
  <2>2. rc' = 0 => rc = 0 /\ Place(c)' = y
    BY <1>3, <1>4
  <2> QED
    BY <1>2, <1>3, <1>4, <1>5, <1>6, <2>1, <2>2, AnalysisGoesOn
<1>7. CASE mode = "play"
  <2>1. c = count /\ c = count'
    BY <1>1, <1>4, <1>7
  <2>2. CASE Place(c)' = y
    BY <1>2, <1>3, <1>4, <1>5, <1>7, <2>1, <2>2, PlayGoesOn
  <2>3. CASE phase' = "reset" /\ rc' = -1
    <3>1. PICK h : WholeWay(script, h) /\ \E i \in 1 .. Len(h) : h[i] = Place(c)
      BY <1>4, <1>7, <2>1, PlayPlace
    <3>2. Sum(Place(c)) <= total
      BY <1>3, <3>1, WayToReset
    <3>3. Turned'
      BY <1>4, <2>1, <3>2 DEF Turned, Sum, Place
    <3> QED
      BY <1>3, <1>4, <1>5, <1>7, <2>3, <3>3, PlayTurns
  <2> QED
    BY <1>4, <2>2, <2>3
<1> QED
  BY <1>3, <1>6, <1>7

LEMMA AccountRound ==
    ASSUME PlayerInv, AccountInv, WalkRound, mode = "analyze" => total' = total + 1
    PROVE  AccountInv'
<1>1. PICK c : c = IF mode = "analyze" THEN total ELSE count
  OBVIOUS
<1>2. PICK y : y = AfterPlace(script, Place(c))
  OBVIOUS
<1>3. c \in Nat /\ mode \in {"analyze", "play"} /\ count \in Nat /\ total \in Nat
  BY <1>1 DEF AccountInv
<1>4. /\ y.tap = tap' /\ y.n = c + 1 /\ y.n \in Nat /\ Sum(y) \in Int
      /\ Sum(Place(c)) <= Sum(y)
      /\ jobs # <<>> /\ jobs[1].op = "walk" /\ phase \in {"svf", "reset"}
      /\ phase' = phase => Place(c + 1)' = y /\ jobs' = jobs /\ rc' = rc
      /\ phase' # phase => phase = "svf" /\ Error /\ tap' # INIT
      /\ phase = "reset" => ToReset(tap, round) = 1 + ToReset(tap', round')
  BY <1>2, <1>3, RoundPlace
<1>5. UNCHANGED <<script, mode, tdoError>> /\ \E tms, err : Pulse(tms, FALSE, err)
  BY DEF WalkRound
<1>6. /\ mode = "analyze" => count' = count
      /\ mode = "play" => count' = count + 1 /\ total' = total
  BY <1>5, PulseClocks
<1>7. PICK d : d = c + 1
  OBVIOUS
<1>8. /\ phase' # phase => phase' = "reset" /\ rc' = -1 /\ jobs' = <<Walk(RESET)>> /\ round' = 0
      /\ phase' \in {"svf", "reset"}
  BY <1>4 DEF Error, Leave
<1>9. Fresh' /\ (phase' = "svf" => rc' = 0 /\ phase = "svf")
  <2>1. rc = 0 \/ phase # "svf"
    BY DEF AccountInv, Begins
  <2> QED
    BY <1>4, <1>8, <2>1 DEF Fresh
<1>10. CASE mode = "analyze"
  <2>1. c = total /\ d = total' /\ d \in Nat /\ ~tdoError' /\ UNCHANGED <<script, mode, count>>
    BY <1>1, <1>3, <1>5, <1>6, <1>7, <1>10 DEF AccountInv, Analyzing
  <2>2. rc' = 0 => rc = 0 /\ Place(d)' = y
    BY <1>4, <1>7, <1>8
  <2> QED
    BY <1>2, <1>4, <1>8, <1>9, <1>10, <2>1, <2>2, AnalysisGoesOn
<1>11. CASE mode = "play"
  <2>1. c = count /\ d = count' /\ count' \in Nat /\ UNCHANGED <<script, mode, total>>
    BY <1>1, <1>3, <1>5, <1>6, <1>7, <1>11
  <2>2. CASE phase' = phase
    <3>1. Place(d)' = y /\ rc' = rc
      BY <1>4, <1>7, <2>2
    <3>2. phase = "reset" => Turned'
      <4> SUFFICES ASSUME phase = "reset" PROVE Turned'
        OBVIOUS
      <4>1. Turned
        BY <1>11 DEF AccountInv, Playing
      <4>2. ToReset(tap, round) \in Int /\ ToReset(tap, round) = 1 + ToReset(tap', round')
        BY <1>4, ToResetType
      <4>3. ToReset(tap', round') \in Int
        <5>1. round' \in Int
          BY NextInv DEF PlayerInv, Types, Next
        <5> QED
          BY <5>1, FarBound DEF ToReset, ResetPulses
      <4> QED
        BY <1>3, <1>7, <2>1, <4>1, <4>2, <4>3 DEF Turned
    <3> QED
      BY <1>2, <1>4, <1>8, <1>9, <1>11, <2>1, <3>1, <3>2, PlayGoesOn
  <2>3. CASE phase' # phase
    <3>1. PICK h : WholeWay(script, h) /\ \E i \in 1 .. Len(h) : h[i] = Place(c)
      BY <1>4, <1>11, <2>1, <2>3, PlayPlace
    <3>2. PICK i \in 1 .. Len(h) : h[i] = Place(c)
      BY <3>1
    <3>3. h[i].phase \in {"svf", "reset"}
      BY <1>4, <3>2 DEF Place
    <3>4. i + 1 \in 1 .. Len(h) /\ h[i + 1] = y
      BY <1>2, <3>1, <3>2, <3>3, WayIsOne
    <3>5. Sum(y) <= total
      BY <1>3, <3>1, <3>4, WayToReset
    <3>6. Sum(y) = d + Far(tap')
      BY <1>4, <1>7, <2>3 DEF Sum, ToReset
    <3>7. Turned'
      BY <1>4, <2>1, <2>3, <3>5, <3>6 DEF Turned, ToReset
    <3> QED
      BY <1>4, <1>8, <1>9, <1>11, <2>1, <2>3, <3>7, PlayTurns
  <2> QED
    BY <2>2, <2>3
<1> QED
  BY <1>3, <1>10, <1>11

LEMMA AccountBit ==
    ASSUME PlayerInv, AccountInv, ShiftBit, mode = "analyze" => total' = total + 1
    PROVE  AccountInv'
<1>1. PICK c : c = IF mode = "analyze" THEN total ELSE count
  OBVIOUS
<1>2. PICK y : y = AfterPlace(script, Place(c))
  OBVIOUS
<1>3. c \in Nat /\ mode \in {"analyze", "play"} /\ count \in Nat /\ total \in Nat
  BY <1>1 DEF AccountInv
<1>4. /\ y.n = c + 1 /\ Sum(y) \in Int /\ Sum(Place(c)) <= Sum(y)
      /\ Place(c + 1)' = y /\ phase = "svf" /\ UNCHANGED <<script, mode, phase, rc, round>>
      /\ jobs # <<>> /\ jobs' # <<>> /\ jobs[1].op = "shift" /\ jobs'[1].op = "shift"
      /\ \E tms, err : Pulse(tms, jobs[1].tdo, err) /\ tdoError' = TdoErrorAfter(err)
  BY <1>2, <1>3, BitPlace
<1>5. PICK tms, err : Pulse(tms, jobs[1].tdo, err) /\ tdoError' = TdoErrorAfter(err)
  BY <1>4
<1>6. /\ mode = "analyze" => count' = count /\ ~err
      /\ mode = "play" => count' = count + 1 /\ total' = total
  BY <1>5, PulseClocks
<1>7. PICK d : d = c + 1
  OBVIOUS
<1>8. rc = 0 /\ rc' = 0 /\ round = 0 /\ round' = 0
  BY <1>4 DEF AccountInv, Begins, Fresh
<1>9. Fresh'
  BY <1>8 DEF Fresh
<1>10. CASE mode = "analyze"
  <2>1. c = total /\ d = total' /\ d \in Nat /\ UNCHANGED <<script, mode, count>>
    BY <1>1, <1>3, <1>4, <1>6, <1>7, <1>10
  <2>2. ~tdoError'
    <3>1. ~tdoError
      BY <1>10 DEF AccountInv, Analyzing
    <3> QED
      BY <1>5, <1>6, <1>10, <3>1 DEF TdoErrorAfter
  <2>3. Place(d)' = y /\ y.n \in Nat
    BY <1>3, <1>4, <1>7
  <2> QED
    BY <1>2, <1>4, <1>8, <1>9, <1>10, <2>1, <2>2, <2>3, AnalysisGoesOn
<1>11. CASE mode = "play"
  <2>1. c = count /\ d = count' /\ count' \in Nat /\ UNCHANGED <<script, mode, total>>
    BY <1>1, <1>3, <1>4, <1>6, <1>7, <1>11
  <2>2. Place(d)' = y
    BY <1>4, <1>7
  <2> QED
    BY <1>2, <1>4, <1>8, <1>9, <1>11, <2>1, <2>2, PlayGoesOn
<1> QED
  BY <1>3, <1>10, <1>11

LEMMA AccountCall ==
    ASSUME PlayerInv, AccountInv, WalkDone \/ DelayDone \/ (ShiftDone /\ ~tdoError)
    PROVE  AccountInv'
<1>1. PICK c : c = IF mode = "analyze" THEN total ELSE count
  OBVIOUS
<1>2. PICK y : y = AfterPlace(script, Place(c))
  OBVIOUS
<1>3. c \in Nat /\ mode \in {"analyze", "play"} /\ count \in Nat /\ total \in Nat
  BY <1>1 DEF AccountInv
<1>4. /\ y.n = c /\ Sum(y) \in Int /\ Sum(Place(c)) <= Sum(y)
      /\ Place(c)' = y /\ round' = 0 /\ tap' = tap
      /\ UNCHANGED <<script, mode, rc, total, count>>
  BY <1>2, <1>3, CallPlace
<1>5. /\ phase \in {"svf", "reset"} /\ phase' = (IF phase = "reset" THEN "shutdown" ELSE phase)
      /\ tdoError' => tdoError
      /\ jobs[1].op # "delay" \/ ~(jobs[1].left > 0)
  <2>1. jobs \in Seq(Jobs)
    BY DEF PlayerInv, JobsOK
  <2>2. jobs # <<>> /\ (Head(jobs).op # "delay" \/ ~(Head(jobs).left > 0))
    BY DEF WalkDone, DelayDone, ShiftDone, Doing
  <2>3. jobs[1].op # "delay" \/ ~(jobs[1].left > 0)
    BY <2>1, <2>2, FirstJob
  <2> QED
    BY <2>3 DEF WalkDone, DelayDone, ShiftDone, Doing, Done
<1>6. Fresh' /\ (phase' = "svf" => phase = "svf" /\ rc' = 0) /\ phase' \in {"svf", "reset", "shutdown"}
  BY <1>4, <1>5 DEF Fresh, AccountInv, Begins
<1>7. CASE mode = "analyze"
  <2>1. c = total /\ c = total' /\ ~tdoError' /\ y.n \in Nat
    BY <1>1, <1>3, <1>4, <1>5, <1>7 DEF AccountInv, Analyzing
  <2> QED
    BY <1>2, <1>3, <1>4, <1>5, <1>6, <1>7, <2>1, AnalysisGoesOn
<1>8. CASE mode = "play"
  <2>1. c = count /\ c = count' /\ count' \in Nat
    BY <1>1, <1>3, <1>4, <1>8
  <2>2. phase = "reset" => Turned'
    <3> SUFFICES ASSUME phase = "reset" PROVE Turned'
      OBVIOUS
    <3>1. Turned
      BY <1>8 DEF AccountInv, Playing
    <3>2. ToReset(tap', round') = ToReset(tap, round)
      <4>1. tap = RESET
        BY Walking DEF WalkDone, DelayDone, ShiftDone, Doing
      <4> QED
        BY <1>4, <4>1 DEF ToReset, INIT, RESET
    <3> QED
      BY <1>4, <3>1, <3>2 DEF Turned
  <2> QED
    BY <1>2, <1>4, <1>5, <1>6, <1>8, <2>1, <2>2, PlayGoesOn
<1> QED
  BY <1>3, <1>7, <1>8

\* A mismatch ends the command, in the play only.
LEMMA AccountMismatch ==
    ASSUME PlayerInv, AccountInv, ShiftDone, tdoError
    PROVE  AccountInv'
<1>1. mode = "play"
  <2>1. mode \in {"analyze", "play"} /\ (mode = "analyze" => ~tdoError)
    BY DEF AccountInv, Analyzing
  <2> QED
    BY <2>1
<1>2. phase = "svf" /\ jobs # <<>> /\ Head(jobs) = jobs[1] /\ jobs[1].op = "shift"
  <2>1. Doing("shift")
    BY DEF ShiftDone
  <2> QED
    BY <2>1, Commanding
<1>3. Error /\ UNCHANGED <<script, mode, tap, total, count>>
  BY DEF ShiftDone
<1>4. round = 0 /\ round' = 0 /\ phase' = "reset" /\ rc' = -1 /\ Fresh'
  BY <1>2, <1>3 DEF AccountInv, Fresh, Error, Leave
<1>5. PICK c : c = count
  OBVIOUS
<1>6. PICK h : WholeWay(script, h) /\ \E i \in 1 .. Len(h) : h[i] = Place(c)
  BY <1>1, <1>2, <1>5, PlayPlace
<1>7. Sum(Place(c)) <= total /\ count \in Nat
  BY <1>6, WayToReset DEF AccountInv
<1>8. Turned'
  BY <1>3, <1>4, <1>5, <1>7 DEF Turned, Sum, Place
<1> QED
  BY <1>1, <1>2, <1>3, <1>4, <1>7, <1>8, PlayTurns

LEMMA AccountAnalyzeDelay ==
    ASSUME PlayerInv, AccountInv, AnalyzeDelay, total' < MaxTck
    PROVE  AccountInv'
<1>1. PICK c : c = total
  OBVIOUS
<1>2. PICK y : y = AfterPlace(script, Place(c))
  OBVIOUS
<1>3. c \in Nat /\ mode = "analyze"
  BY <1>1 DEF AccountInv, AnalyzeDelay
<1>4. PICK d \in Nat : /\ y.n = c + d /\ Sum(y) \in Int /\ Sum(Place(c)) <= Sum(y)
                       /\ Place(c + d)' = y /\ total' = Total(d)
                       /\ phase = "svf" /\ jobs # <<>> /\ jobs[1].op = "delay"
                       /\ UNCHANGED <<script, mode, phase, at, set, round, tap, tdoError, rc, count>>
  BY <1>2, <1>3, DelayPlace
<1>5. PICK e : e = c + d
  OBVIOUS
<1>6. e = total' /\ e \in Nat
  BY <1>1, <1>3, <1>4, <1>5, TotalStep
<1>7. rc = 0 /\ round = 0 /\ ~tdoError
  BY <1>3, <1>4 DEF AccountInv, Begins, Fresh, Analyzing
<1>8. Fresh' /\ rc' = 0 /\ ~tdoError' /\ Place(e)' = y /\ y.n \in Nat
  BY <1>4, <1>5, <1>6, <1>7 DEF Fresh
<1> QED
  BY <1>1, <1>2, <1>3, <1>4, <1>6, <1>7, <1>8, AnalysisGoesOn

LEMMA AccountDelayCall ==
    ASSUME PlayerInv, AccountInv, NEW n \in 0 .. Chunk, DelayCall(n)
    PROVE  AccountInv'
<1>1. mode = "play" /\ count \in Nat /\ total \in Nat
  BY DEF DelayCall, AccountInv
<1>2. phase = "svf" /\ jobs # <<>> /\ Head(jobs) = jobs[1] /\ jobs[1].op = "delay" /\ jobs[1] \in Jobs
  <2>1. Doing("delay")
    BY DEF DelayCall
  <2> QED
    BY <2>1, Commanding
<1>3. PICK h : WholeWay(script, h) /\ \E i, m : OnTheWay(h, i, m)
  BY <1>1, <1>2 DEF AccountInv, Playing
<1>4. PICK i, m : OnTheWay(h, i, m)
  BY <1>3
<1>5. PICK x : x = [Place(count - m) EXCEPT !.jobs = Into(m)]
  OBVIOUS
<1>6. i \in 1 .. Len(h) /\ m \in Nat /\ x = h[i] /\ x.phase = "svf"
  <2>1. m = 0 => x = Place(count)
    <3> SUFFICES ASSUME m = 0 PROVE x = Place(count)
      OBVIOUS
    <3>1. jobs \in Seq(Jobs) /\ jobs[1].left + 0 = jobs[1].left /\ count - 0 = count
      BY <1>1, <1>2, JobKinds DEF PlayerInv, JobsOK
    <3>2. Into(0) = jobs
      BY <1>2, <3>1, LeftOnce DEF Into
    <3> QED
      BY <1>5, <3>1, <3>2 DEF Place
  <2>2. x.phase = "svf"
    BY <1>2, <1>5 DEF Place
  <2> QED
    BY <1>4, <1>5, <2>1, <2>2 DEF OnTheWay
<1>7. PICK y : y = AfterPlace(script, x)
  OBVIOUS
<1>8. /\ jobs' # <<>> /\ jobs'[1].op = "delay"
      /\ UNCHANGED <<script, mode, phase, at, set, round, tap, tdoError, rc, total>>
      /\ PartMade(x, y, m)
  BY <1>1, <1>5, <1>6, <1>7, PartPlace
<1>9. PICK r, d \in Nat :
          /\ count' = d /\ d = count + r
          /\ \/ Place(d)' = y
             \/ /\ jobs'[1].left > 0
                /\ x = [Place(d - (m + r))' EXCEPT !.jobs = Into(m + r)']
                /\ m + r = 0 => x = Place(d)'
  BY <1>8 DEF PartMade
<1>10. WholeWay(script, h)' /\ \E j, k : OnTheWay(h, j, k)'
  <2>1. CASE Place(d)' = y
    <3>1. WholeWay(script, h)' /\ OnTheWay(h, i + 1, 0)'
      BY <1>1, <1>3, <1>6, <1>7, <1>8, <1>9, <2>1, PlayOn
    <3> QED
      BY <3>1
  <2>2. CASE /\ jobs'[1].left > 0
             /\ x = [Place(d - (m + r))' EXCEPT !.jobs = Into(m + r)']
             /\ m + r = 0 => x = Place(d)'
    <3>1. PICK k : k = m + r
      OBVIOUS
    <3>2. k \in Nat
      BY <1>6, <1>9, <3>1
    <3>3. Place(d)' = Place(count)' /\ Place(d - k)' = Place(count - k)'
      BY <1>9 DEF Place
    <3>4. OnTheWay(h, i, k)'
      BY <1>2, <1>6, <1>8, <2>2, <3>1, <3>2, <3>3 DEF OnTheWay
    <3>5. WholeWay(script, h)'
      BY <1>3, <1>8 DEF WholeWay
    <3> QED
      BY <3>4, <3>5
  <2> QED
    BY <1>9, <2>1, <2>2
<1>11. Playing'
  BY <1>2, <1>8, <1>10 DEF Playing
<1>12. Fresh' /\ Begins' /\ Analyzing'
  BY <1>1, <1>2, <1>8 DEF AccountInv, Fresh, Begins, Analyzing
<1> QED
  BY <1>1, <1>8, <1>9, <1>11, <1>12 DEF AccountInv

LEMMA AccountSetup ==
    ASSUME PlayerInv, AccountInv, AnalyzeSetup \/ PlaySetup \/ PlaySetupFails
    PROVE  AccountInv'
<1>1. /\ phase = "setup" /\ jobs = <<>> /\ round = 0 /\ tap = INIT /\ rc = -1
      /\ at = 1 /\ set = Defaults
      /\ UNCHANGED <<script, mode, at, set, jobs, round, tap, tdoError, total, count>>
      /\ \/ phase' = "svf" /\ rc' = 0
         \/ phase' = "done" /\ rc' = rc
  <2>1. phase = "setup"
    BY DEF AnalyzeSetup, PlaySetup, PlaySetupFails
  <2>2. UNCHANGED <<script, mode, at, set, jobs, round, tap, tdoError, total, count>>
    BY DEF AnalyzeSetup, PlaySetup, PlaySetupFails, Start, Refused
  <2>3. \/ phase' = "svf" /\ rc' = 0
        \/ phase' = "done" /\ rc' = rc
    BY DEF AnalyzeSetup, PlaySetup, PlaySetupFails, Start, Refused
  <2> QED
    BY <2>1, <2>2, <2>3 DEF PlayerInv, Phases, AccountInv, Begins
<1>2. total \in Nat /\ count \in Nat /\ mode \in {"analyze", "play"}
  BY DEF AccountInv
<1>3. Fresh' /\ Begins'
  BY <1>1 DEF Fresh, Begins
<1>4. Analyzing'
  <2> SUFFICES ASSUME mode = "analyze" PROVE Analyzing'
    BY <1>1 DEF Analyzing
  <2>1. count = 0 /\ ~tdoError /\ total = 0
    BY <1>1 DEF AccountInv, Analyzing
  <2>2. phase' = "svf" => \E h : Way(script', h) /\ h[Len(h)] = Place(total)'
    <3> SUFFICES ASSUME phase' = "svf" PROVE \E h : Way(script', h) /\ h[Len(h)] = Place(total)'
      OBVIOUS
    <3>1. Place(total)' = First
      BY <1>1, <2>1 DEF Place, First
    <3>2. Way(script, <<First>>) /\ <<First>>[Len(<<First>>)] = First
      BY WayBegins
    <3> QED
      BY <1>1, <3>1, <3>2
  <2> QED
    BY <1>1, <2>1, <2>2 DEF Analyzing
<1>5. Playing'
  <2> SUFFICES ASSUME mode = "play" PROVE Playing'
    BY <1>1 DEF Playing
  <2>1. PICK h : WholeWay(script, h)
    BY DEF AccountInv, Playing
  <2>2. count = 0
    BY <1>1 DEF AccountInv, Playing
  <2>3. WholeWay(script, h)'
    BY <1>1, <2>1 DEF WholeWay
  <2>4. OnTheWay(h, 1, 0)' \/ phase' = "done"
    <3>1. h[1] = First /\ 1 \in 1 .. Len(h)
      <4>1. Len(h) \in Nat /\ Len(h) > 0 /\ h[1] = First
        BY <2>1 DEF WholeWay, Way
      <4> QED
        BY <4>1
    <3>2. phase' = "svf" => Place(count)' = First
      BY <1>1, <2>2 DEF Place, First
    <3> QED
      BY <1>1, <3>1, <3>2 DEF OnTheWay
  <2>5. count' = 0 /\ 0 <= total' /\ (phase' = "done" => rc' # 0)
    BY <1>1, <1>2, <2>2
  <2> QED
    BY <1>1, <2>3, <2>4, <2>5 DEF Playing
<1> QED
  BY <1>1, <1>2, <1>3, <1>4, <1>5 DEF AccountInv

LEMMA AccountAnalyzed ==
    ASSUME PlayerInv, AccountInv, AnalyzeShutdown
    PROVE  AccountInv'
<1>1. /\ phase = "shutdown" /\ mode = "analyze" /\ jobs = <<>> /\ round = 0 /\ tap = RESET
      /\ \/ rc = 0 /\ mode' = "play" /\ phase' = "setup" /\ rc' = -1
         \/ rc # 0 /\ phase' = "done" /\ UNCHANGED <<mode, rc>>
      /\ at' = 1 /\ set' = Defaults
      /\ UNCHANGED <<script, jobs, round, tdoError, total, count>>
  BY DEF AnalyzeShutdown, PlayerInv, Phases
<1>2. total \in Nat /\ count = 0 /\ ~tdoError
  BY <1>1 DEF AccountInv, Analyzing
<1>3. Fresh' /\ Begins'
  BY <1>1 DEF Fresh, Begins
<1>4. Analyzing'
  BY <1>1, <1>2 DEF Analyzing
<1>5. Playing'
  <2> SUFFICES ASSUME rc = 0, phase' = "setup" PROVE Playing'
    BY <1>1 DEF Playing
  <2>1. PICK h : Way(script, h) /\ h[Len(h)] = Place(total)
    BY <1>1 DEF AccountInv, Analyzing
  <2>2. h[Len(h)].phase = "shutdown" /\ h[Len(h)].tap = RESET /\ h[Len(h)].n = total
    BY <1>1, <2>1 DEF Place
  <2>3. WholeWay(script, h)'
    BY <1>1, <2>1, <2>2 DEF WholeWay
  <2> QED
    BY <1>1, <1>2, <2>3 DEF Playing
<1> QED
  BY <1>1, <1>2, <1>3, <1>4, <1>5 DEF AccountInv

LEMMA AccountPlayed ==
    ASSUME PlayerInv, AccountInv, NEW failed \in SUBSET JtagPins, PlayShutdown(failed)
    PROVE  AccountInv'
<1>1. /\ phase = "shutdown" /\ mode = "play" /\ jobs = <<>> /\ round = 0 /\ tap = RESET
      /\ phase' = "done" /\ (rc' = 0 => rc = 0)
      /\ UNCHANGED <<script, mode, jobs, round, total, count>>
  <2>1. rc' = 0 => rc = 0
    BY DEF PlayShutdown, RcAfter
  <2> QED
    BY <2>1 DEF PlayShutdown, PlayerInv, Phases
<1>2. total \in Nat /\ count \in Nat
  BY DEF AccountInv
<1>3. PICK h : WholeWay(script, h) /\ Turned /\ (rc = 0 => \E i : OnTheWay(h, i, 0))
  BY <1>1 DEF AccountInv, Playing
<1>4. count <= total
  BY <1>1, <1>2, <1>3, FarValues DEF Turned, ToReset, INIT, RESET
<1>5. rc = 0 => count = total
  <2> SUFFICES ASSUME rc = 0 PROVE count = total
    OBVIOUS
  <2>1. PICK i : OnTheWay(h, i, 0)
    BY <1>3
  <2>2. i \in 1 .. Len(h) /\ h[i].phase = "shutdown" /\ h[i].n = count
    BY <1>1, <2>1 DEF OnTheWay, Place
  <2> QED
    BY <1>2, <1>3, <2>2, WayToReset
<1>6. WholeWay(script, h)'
  BY <1>1, <1>3 DEF WholeWay
<1>7. Playing'
  BY <1>1, <1>4, <1>5, <1>6 DEF Playing
<1> QED
  BY <1>1, <1>2, <1>7 DEF AccountInv, Fresh, Begins, Analyzing

LEMMA AccountNext ==
    ASSUME PlayerInv, AccountInv, [Next]_vars, total' < MaxTck
    PROVE  AccountInv'
<1>0. total \in Nat /\ mode \in {"analyze", "play"}
  BY DEF AccountInv
<1>1. CASE WalkRound
  <2>1. mode = "analyze" => total' = Total(1)
    <3>1. \E tms, err : Pulse(tms, FALSE, err)
      BY <1>1 DEF WalkRound
    <3> QED
      BY <3>1, PulseClocks
  <2> QED
    BY <1>0, <1>1, <2>1, TotalStep, AccountRound
<1>2. CASE ShiftBit
  <2>1. mode = "analyze" => total' = Total(1)
    <3>1. \E tms, tdo, err : Pulse(tms, tdo, err)
      BY <1>2 DEF ShiftBit
    <3> QED
      BY <3>1, PulseClocks
  <2> QED
    BY <1>0, <1>2, <2>1, TotalStep, AccountBit
<1>3. CASE UNCHANGED vars
  <2>1. UNCHANGED <<script, mode, phase, at, set, jobs, round, tap, tdoError, rc, total, count>>
    BY <1>3 DEF vars, host
  <2>2. Fresh' /\ Begins' /\ Analyzing'
    BY <2>1 DEF AccountInv, Fresh, Begins, Analyzing, Place
  <2>3. ASSUME NEW h PROVE WholeWay(script, h)' = WholeWay(script, h) /\ Turned' = Turned
    BY <2>1 DEF WholeWay, Turned
  <2>4. ASSUME NEW h, NEW i, NEW m PROVE OnTheWay(h, i, m)' = OnTheWay(h, i, m)
    BY <2>1 DEF OnTheWay, Into, Place
  <2>5. Playing'
    BY <2>1, <2>3, <2>4 DEF AccountInv, Playing
  <2> QED
    BY <2>1, <2>2, <2>5 DEF AccountInv
<1> QED
  BY <1>1, <1>2, <1>3, AccountRead, AccountCall, AccountMismatch, AccountAnalyzeDelay, AccountDelayCall,
     AccountSetup, AccountAnalyzed, AccountPlayed DEF Next

\* As long as the analysis has not stopped counting.
CountedInv == total \in Nat /\ (total < MaxTck => AccountInv)

LEMMA TotalType ==
    ASSUME PlayerInv, total \in Nat, [Next]_vars
    PROVE  total' \in Nat /\ (total' < MaxTck => total < MaxTck)
<1>1. CASE total' = total
  BY <1>1
<1>2. ASSUME NEW d \in Nat, total' = Total(d)
      PROVE  total' \in Nat /\ (total' < MaxTck => total < MaxTck)
  BY <1>2, TotalStep
<1>3. CASE AnalyzeDelay
  <2>1. Doing("delay") /\ total' = Total(Head(jobs).left)
    BY <1>3 DEF AnalyzeDelay
  <2>2. Head(jobs).left \in Nat
    BY <2>1, Commanding, JobKinds
  <2> QED
    BY <1>2, <2>1, <2>2
<1>4. CASE WalkRound \/ ShiftBit
  <2>1. PICK tms, tdo, err : Pulse(tms, tdo, err)
    BY <1>4 DEF WalkRound, ShiftBit
  <2>2. total' = total \/ total' = Total(1)
    BY <2>1 DEF Pulse, AnalyzePulse, PlayPulse, PulseFails
  <2> QED
    BY <1>1, <1>2, <2>2
<1>5. CASE \/ AnalyzeSetup \/ PlaySetup \/ PlaySetupFails \/ ReadCommand \/ WalkDone \/ ShiftDone
           \/ DelayDone \/ (\E n \in 0 .. Chunk : DelayCall(n)) \/ AnalyzeShutdown
           \/ (\E failed \in SUBSET JtagPins : PlayShutdown(failed)) \/ UNCHANGED vars
  <2>1. total' = total
    BY <1>5 DEF AnalyzeSetup, PlaySetup, PlaySetupFails, ReadCommand, WalkDone, ShiftDone,
                DelayDone, DelayCall, AnalyzeShutdown, PlayShutdown, vars, host
  <2> QED
    BY <1>1, <2>1
<1> QED
  BY <1>3, <1>4, <1>5 DEF Next

LEMMA CountedInit == Init => CountedInv
<1> SUFFICES ASSUME Init PROVE AccountInv /\ total \in Nat
  BY DEF CountedInv
<1>1. /\ total = 0 /\ count = 0 /\ mode = "analyze" /\ phase = "setup" /\ jobs = <<>> /\ round = 0
      /\ at = 1 /\ set = Defaults /\ ~tdoError
  BY DEF Init
<1> QED
  BY <1>1 DEF AccountInv, Fresh, Begins, Analyzing, Playing

\* The count is within what the analysis found, wherever the play is.
LEMMA AccountPredicts ==
    ASSUME AccountInv, PlayerInv
    PROVE  AnalyzePredicts
<1> SUFFICES ASSUME mode = "play" PROVE count <= total /\ (phase = "done" /\ rc = 0 => count = total)
  BY DEF AnalyzePredicts
<1>1. PICK h : /\ WholeWay(script, h)
               /\ phase = "setup" => count = 0
               /\ phase = "svf" => \E i, m : OnTheWay(h, i, m)
               /\ phase \in {"reset", "shutdown"} => Turned
               /\ phase = "done" => count <= total /\ (rc = 0 => count = total)
               /\ phase \in {"setup", "svf", "reset", "shutdown", "done"}
  BY DEF AccountInv, Playing
<1>2. total \in Nat /\ count \in Nat
  BY DEF AccountInv
<1>3. ToReset(tap, round) \in Int /\ ToReset(tap, round) >= 0
  <2>1. round \in Int /\ (tap = INIT => round \in -5 .. 0)
    BY DEF PlayerInv, Types, Rounds
  <2> QED
    BY <2>1, FarBound DEF ToReset, ResetPulses
<1>4. CASE phase = "svf"
  <2>1. PICK i, m : OnTheWay(h, i, m)
    BY <1>1, <1>4
  <2>2. CASE m = 0
    <3>1. i \in 1 .. Len(h) /\ h[i] = Place(count)
      BY <2>1, <2>2 DEF OnTheWay
    <3>2. Sum(h[i]) <= total
      BY <1>1, <1>2, <3>1, WayToReset
    <3>3. Sum(h[i]) = count + ToReset(tap, round)
      BY <3>1 DEF Sum, Place
    <3> QED
      BY <1>2, <1>3, <1>4, <3>2, <3>3
  <2>3. CASE m # 0
    <3>1. /\ i \in 1 .. Len(h) /\ m \in Nat /\ jobs # <<>> /\ jobs[1].op = "delay" /\ jobs[1].left > 0
          /\ [Place(count - m) EXCEPT !.jobs = Into(m)] = h[i]
      BY <2>1, <2>3 DEF OnTheWay
    <3>2. jobs \in Seq(Jobs) /\ jobs[1] \in Jobs
      BY <3>1, FirstJob DEF PlayerInv, JobsOK
    <3>3. PICK l, js : l = jobs[1].left /\ js = Into(m)
      OBVIOUS
    <3>4. l \in Nat /\ l > 0 /\ js # <<>> /\ js[1].op = "delay" /\ js[1].left = l + m
      BY <3>1, <3>2, <3>3, LeftOnce, JobKinds DEF Into
    <3>5. h[i] = [at |-> at, set |-> set, phase |-> phase, jobs |-> js, round |-> round,
                  tap |-> tap, n |-> count - m]
      BY <3>1, <3>3 DEF Place
    <3>6. PICK y : y = AfterPlace(script, h[i])
      OBVIOUS
    <3>7. y = AfterDelay(h[i])
      <4>1. l + m > 0 /\ h[i].jobs = js
        BY <3>1, <3>4, <3>5
      <4> QED
        BY <3>4, <3>6, <4>1 DEF AfterPlace
    <3>8. y = [at |-> at, set |-> set, phase |-> phase, jobs |-> WithLeft(js, 0), round |-> round,
               tap |-> tap, n |-> (count - m) + js[1].left]
      <4>1. h[i].jobs = js /\ h[i].n = count - m
        BY <3>5
      <4>2. y = [[at |-> at, set |-> set, phase |-> phase, jobs |-> js, round |-> round, tap |-> tap, n |-> count - m]
                 EXCEPT !.jobs = WithLeft(js, 0), !.n = (count - m) + js[1].left]
        BY <3>5, <3>7, <4>1 DEF AfterDelay
      <4> QED
        BY <4>2
    <3>9. i + 1 \in 1 .. Len(h) /\ h[i + 1] = y
      BY <1>1, <1>4, <3>1, <3>5, <3>6, WayIsOne
    <3>10. Sum(y) <= total
      BY <1>1, <1>2, <3>9, WayToReset
    <3>11. Sum(y) = (count - m) + js[1].left + ToReset(tap, round)
      BY <3>8 DEF Sum
    <3> QED
      BY <1>2, <1>3, <1>4, <3>1, <3>4, <3>10, <3>11
  <2> QED
    BY <2>2, <2>3
<1>5. CASE phase \in {"reset", "shutdown"}
  BY <1>1, <1>2, <1>3, <1>5 DEF Turned
<1> QED
  BY <1>1, <1>2, <1>4, <1>5

\* The progress count never passes what the analysis found, a play that succeeds
\* has made exactly those clocks, delays that failed halfway included, and what the
\* Linux build counts reached the device unless its own operation failed: for every
\* file with fewer clocks than MaxTck, where the model stops counting them.
THEOREM AccountsTrueAlways == Spec => [](total < MaxTck => AccountsTrue)
<1>1. PlayerInv /\ CountedInv /\ [Next]_vars => CountedInv'
  BY AccountNext, TotalType DEF CountedInv
<1>2. PlayerInv /\ CountedInv => (total < MaxTck => AnalyzePredicts)
  BY AccountPredicts DEF CountedInv
<1>3. EdgesAccounted /\ (total < MaxTck => AnalyzePredicts) => (total < MaxTck => AccountsTrue)
  BY DEF AccountsTrue
<1> QED
  BY <1>1, <1>2, <1>3, CountedInit, PlayerInvAlways, EdgesAccountedAlways, PTL DEF Spec

=============================================================================
