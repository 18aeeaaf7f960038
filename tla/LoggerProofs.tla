----------------------------- MODULE LoggerProofs -----------------------------
(***************************************************************************)
(* The two loggers.                                                        *)
(*                                                                         *)
(* The log of ValveLog, for any number of valves and of failing reads.     *)
(* LogTrue speaks of the moments between two scans only; the invariant has *)
(* to say what holds in the middle of one, where the inputs below n have   *)
(* been sampled into io_prst and the others are still described by io_past.*)
(*                                                                         *)
(* The log of WaterLog accounts for every pulse, for any width of the      *)
(* meter's accumulator and any number of pulses, failed transfers and      *)
(* restarts.                                                               *)
(***************************************************************************)
EXTENDS ValveLog, WaterLog, TLAPS

-----------------------------------------------------------------------------
(***************************************************************************)
(* The valve logger.                                                       *)
(***************************************************************************)

\* Input v has been passed in the scan that is going on.
Passed(v) == v < n

\* Before the end of the first scan there is nothing to compare with.
NoPastYet == first => past = {} /\ logged = NoEvents /\ system = "none"

\* During a scan io_prst has bits of passed inputs only.
PrstBelow == \A v \in prst : n # 0 => Passed(v)

\* What holds of a valve whose reads have all been good.
NotReadYet(v) == first /\ ~Passed(v) => began[v] = "none"
ReadKnown(v) ==
    ~first \/ Passed(v) =>
        /\ began[v] \in {"on", "off"} /\ read[v] \in {"on", "off"}
        /\ Reconstructed(v) = read[v]
InPrst(v) == Passed(v) => ((v \in prst) <=> (read[v] = "on"))
InPast(v) == ~first /\ ~Passed(v) => ((v \in past) <=> (read[v] = "on"))
Good(v) == NotReadYet(v) /\ ReadKnown(v) /\ InPrst(v) /\ InPast(v)

\* The last system event agrees with io_past, failures or not.
SystemAgrees == system # "none" => ((system = "off") <=> (past = {}))

LogInv ==
    TypeOK /\ NoPastYet /\ PrstBelow /\ SystemAgrees /\ \A v \in Valves \ failed : Good(v)

-----------------------------------------------------------------------------
LEMMA LogInit == Init => LogInv
<1> SUFFICES ASSUME Init PROVE LogInv
  OBVIOUS
<1>1. TypeOK
  BY ValveAssumption DEF Init, TypeOK, NoEvents
<1>2. NoPastYet /\ PrstBelow /\ SystemAgrees
  BY DEF Init, NoPastYet, PrstBelow, SystemAgrees
<1>3. ASSUME NEW v \in Valves PROVE Good(v)
  BY <1>3 DEF Init, Good, NotReadYet, ReadKnown, InPrst, InPast, Passed, Valves, NoEvents
<1> QED
  BY <1>1, <1>2, <1>3 DEF LogInv

\* A restart forgets everything the invariant speaks of.
LEMMA LogRestart == TypeOK /\ Restart => LogInv'
<1> SUFFICES ASSUME TypeOK, Restart PROVE LogInv'
  OBVIOUS
<1>1. TypeOK'
  BY ValveAssumption DEF Restart, TypeOK, NoEvents
<1>2. NoPastYet' /\ PrstBelow' /\ SystemAgrees'
  BY DEF Restart, NoPastYet, PrstBelow, SystemAgrees
<1>3. ASSUME NEW v \in Valves PROVE Good(v)'
  BY <1>3 DEF Restart, Good, NotReadYet, ReadKnown, InPrst, InPast, Passed, Valves, NoEvents
<1> QED
  BY <1>1, <1>2, <1>3 DEF LogInv

\* The step that matters: a good reading of input n.
LEMMA LogReadInput == LogInv /\ ReadInput => LogInv'
<1> SUFFICES ASSUME LogInv, ReadInput PROVE LogInv'
  OBVIOUS
<1> DEFINE bit == n \in valve
<1>t. TypeOK /\ n \in Valves /\ bit \in BOOLEAN /\ n \in Int
  BY DEF LogInv, TypeOK, ReadInput, Valves
<1>e. Event(bit) \in {"on", "off"} /\ ((Event(bit) = "on") <=> bit)
  BY <1>t DEF Event
<1>s. /\ prst' = IF bit THEN prst \cup {n} ELSE prst
      /\ logged' = [logged EXCEPT ![n] = ValveEvent(bit)]
      /\ read' = [read EXCEPT ![n] = Event(bit)]
      /\ began' = [began EXCEPT ![n] = IF began[n] = "none" THEN Event(bit) ELSE began[n]]
      /\ n' = n + 1
      /\ UNCHANGED <<valve, first, past, system, failed, fails>>
  BY DEF ReadInput
<1>v. ValveEvent(bit) = IF ~first /\ bit # (n \in past) THEN Event(bit) ELSE logged[n]
  BY DEF ValveEvent
<1> HIDE DEF bit
<1>1. TypeOK'
  <2>1. n' \in 0 .. (N + 1) /\ prst' \subseteq Valves
    BY <1>t, <1>s, ValveAssumption DEF TypeOK, Valves
  <2>2. ValveEvent(bit) \in {"none", "on", "off"}
    BY <1>t, <1>e, <1>v DEF TypeOK
  <2>3. /\ logged' \in [Valves -> {"none", "on", "off"}]
        /\ read' \in [Valves -> {"none", "on", "off"}]
        /\ began' \in [Valves -> {"none", "on", "off"}]
    BY <2>2, <1>t, <1>e, <1>s DEF TypeOK
  <2> QED
    BY <2>1, <2>3, <1>t, <1>s DEF TypeOK
<1>2. NoPastYet'
  <2> SUFFICES ASSUME first PROVE past = {} /\ logged' = NoEvents /\ system = "none"
    BY <1>s DEF NoPastYet
  <2>1. past = {} /\ logged = NoEvents /\ system = "none"
    BY DEF LogInv, NoPastYet
  <2>2. ValveEvent(bit) = logged[n]
    BY <1>v
  <2> QED
    BY <2>1, <2>2, <1>s, <1>t DEF TypeOK
<1>3. PrstBelow'
  BY <1>s, <1>t DEF LogInv, PrstBelow, Passed, TypeOK, Valves
<1>4. SystemAgrees'
  BY <1>s DEF LogInv, SystemAgrees
<1>5. ASSUME NEW v \in Valves \ failed' PROVE Good(v)'
  <2>g. v \in Valves /\ v \in Int /\ Good(v)
    BY <1>5, <1>s DEF LogInv, Valves
  <2>1. CASE v # n
    <3>1. /\ read'[v] = read[v] /\ began'[v] = began[v] /\ logged'[v] = logged[v]
          /\ (v \in prst' <=> v \in prst)
      BY <2>1, <2>g, <1>s, <1>t DEF TypeOK
    <3>2. Passed(v)' <=> Passed(v)
      BY <2>1, <2>g, <1>s, <1>t DEF Passed
    <3> QED
      BY <3>1, <3>2, <2>g, <1>s
         DEF Good, NotReadYet, ReadKnown, InPrst, InPast, Reconstructed
  <2>2. CASE v = n
    <3>1. /\ read'[v] = Event(bit) /\ logged'[v] = ValveEvent(bit)
          /\ began'[v] = IF began[v] = "none" THEN Event(bit) ELSE began[v]
      BY <2>2, <2>g, <1>s, <1>t DEF TypeOK
    <3>2. ~Passed(v) /\ Passed(v)'
      BY <2>2, <2>g, <1>s DEF Passed
    <3>3. v \notin prst
      BY <2>2, <2>g, <1>t DEF LogInv, PrstBelow, Passed, Valves
    <3>4. v \in prst' <=> bit
      BY <3>3, <2>2, <1>s
    <3>5. CASE first
      <4>1. logged[v] = "none" /\ began[v] = "none"
        BY <3>5, <3>2, <2>g DEF LogInv, NoPastYet, NoEvents, Good, NotReadYet
      <4>2. logged'[v] = "none" /\ began'[v] = Event(bit)
        BY <4>1, <3>1, <3>5, <2>2, <1>v
      <4> QED
        BY <4>2, <3>1, <3>2, <3>4, <3>5, <1>e, <1>s
           DEF Good, NotReadYet, ReadKnown, InPrst, InPast, Reconstructed
    <3>6. CASE ~first
      <4>1. /\ began[v] \in {"on", "off"} /\ read[v] \in {"on", "off"}
            /\ Reconstructed(v) = read[v] /\ ((v \in past) <=> (read[v] = "on"))
        BY <3>6, <3>2, <2>g DEF Good, ReadKnown, InPast
      <4>2. began'[v] = began[v]
        BY <4>1, <3>1
      <4>3. Reconstructed(v)' = Event(bit)
        <5>1. CASE bit # (v \in past)
          <6>1. logged'[v] = Event(bit)
            BY <5>1, <3>1, <3>6, <2>2, <1>v
          <6> QED
            BY <6>1, <1>e DEF Reconstructed
        <5>2. CASE bit = (v \in past)
          <6>1. logged'[v] = logged[v]
            BY <5>2, <3>1, <2>2, <1>v
          <6>2. read[v] = Event(bit)
            BY <5>2, <4>1, <1>e
          <6> QED
            BY <6>1, <6>2, <4>1, <4>2 DEF Reconstructed
        <5> QED
          BY <5>1, <5>2
      <4> QED
        BY <4>1, <4>2, <4>3, <3>1, <3>2, <3>4, <3>6, <1>e, <1>s
           DEF Good, NotReadYet, ReadKnown, InPrst, InPast
    <3> QED
      BY <3>5, <3>6
  <2> QED
    BY <2>1, <2>2
<1> QED
  BY <1>1, <1>2, <1>3, <1>4, <1>5 DEF LogInv

\* The end of a scan: io_past takes over what the scan has found.
LEMMA LogEndScan == LogInv /\ EndScan => LogInv'
<1> SUFFICES ASSUME LogInv, EndScan PROVE LogInv'
  OBVIOUS
<1>1. TypeOK'
  <2>1. system' \in {"none", "on", "off"}
    <3>1. system \in {"none", "on", "off"}
      BY DEF LogInv, TypeOK
    <3>2. system' \in {system, "on", "off"}
      BY DEF EndScan, SystemEvent
    <3> QED
      BY <3>1, <3>2
  <2>2. past' \subseteq Valves
    BY DEF LogInv, TypeOK, EndScan, NextPast
  <2>3. n' \in 0 .. (N + 1)
    BY ValveAssumption DEF EndScan
  <2>4. first' \in BOOLEAN
    BY Zenon DEF EndScan
  <2> QED
    BY <2>1, <2>2, <2>3, <2>4 DEF LogInv, TypeOK, EndScan
<1>2. NoPastYet' /\ PrstBelow'
  BY DEF EndScan, NoPastYet, PrstBelow
<1>3. SystemAgrees'
  BY DEF LogInv, NoPastYet, SystemAgrees, EndScan, SystemEvent, NextPast
<1>4. ASSUME NEW v \in Valves \ failed' PROVE Good(v)'
  <2>1. Good(v) /\ Passed(v)
    BY <1>4, ValveAssumption DEF LogInv, EndScan, Passed, Valves
  <2>2. ~Passed(v)'
    BY <1>4, ValveAssumption DEF EndScan, Passed, Valves
  <2> QED
    BY <2>1, <2>2 DEF EndScan, NextPast, Good, NotReadYet, ReadKnown, InPrst, InPast, Reconstructed
<1> QED
  BY <1>1, <1>2, <1>3, <1>4 DEF LogInv

LEMMA LogStep == LogInv /\ [Next]_vars => LogInv'
<1> SUFFICES ASSUME LogInv, [Next]_vars PROVE LogInv'
  OBVIOUS
<1>t. TypeOK
  BY DEF LogInv
<1>1. CASE Timer
  <2>1. TypeOK' /\ NoPastYet' /\ PrstBelow' /\ SystemAgrees'
    BY <1>1, ValveAssumption DEF LogInv, TypeOK, NoPastYet, PrstBelow, SystemAgrees, Timer, ghosts
  <2>2. ASSUME NEW v \in Valves \ failed' PROVE Good(v)'
    <3>1. Good(v) /\ ~Passed(v) /\ ~Passed(v)'
      BY <2>2, <1>1 DEF LogInv, Timer, Passed, Valves, ghosts
    <3> QED
      BY <3>1, <1>1 DEF Timer, ghosts, Good, NotReadYet, ReadKnown, InPrst, InPast, Reconstructed
  <2> QED
    BY <2>1, <2>2 DEF LogInv
<1>2. CASE ReadInput
  BY <1>2, LogReadInput
<1>3. CASE EndScan
  BY <1>3, LogEndScan
<1>4. CASE ReadFails
  <2>1. TypeOK'
    BY <1>4, ValveAssumption DEF LogInv, TypeOK, ReadFails, Valves
  <2>2. NoPastYet' /\ SystemAgrees'
    BY <1>4 DEF LogInv, NoPastYet, SystemAgrees, ReadFails
  <2>3. PrstBelow'
    BY <1>4, <1>t DEF LogInv, TypeOK, PrstBelow, Passed, ReadFails, Valves
  <2>4. ASSUME NEW v \in Valves \ failed' PROVE Good(v)'
    <3>1. Good(v) /\ v # n
      BY <2>4, <1>4 DEF LogInv, ReadFails
    <3>2. Passed(v)' <=> Passed(v)
      BY <3>1, <2>4, <1>4 DEF ReadFails, Passed, Valves
    <3> QED
      BY <3>1, <3>2, <1>4
         DEF ReadFails, Good, NotReadYet, ReadKnown, InPrst, InPast, Reconstructed
  <2> QED
    BY <2>1, <2>2, <2>3, <2>4 DEF LogInv
<1>5. CASE Restart
  BY <1>5, <1>t, LogRestart
<1>6. CASE (\E v \in Valves : Move(v)) \/ UNCHANGED vars
  <2>1. UNCHANGED <<n, first, past, prst, ghosts>>
    BY <1>6 DEF Move, vars
  <2>2. TypeOK'
    <3>1. valve' \subseteq Valves
      BY <1>6, <1>t DEF Move, vars, TypeOK
    <3> QED
      BY <2>1, <3>1, <1>t DEF TypeOK, ghosts
  <2> QED
    BY <2>1, <2>2
       DEF LogInv, ghosts, NoPastYet, PrstBelow, SystemAgrees, Good, NotReadYet, ReadKnown,
           InPrst, InPast, Passed, Reconstructed
<1> QED
  BY <1>1, <1>2, <1>3, <1>4, <1>5, <1>6 DEF Next, Scan

-----------------------------------------------------------------------------
LEMMA LogInvTrue == LogInv => LogTrue
<1> SUFFICES ASSUME LogInv, Scanned PROVE LogTrue
  BY DEF LogTrue, ValveLogTrue, SystemLogTrue
<1>1. ASSUME NEW v \in Valves \ failed
      PROVE  /\ Reconstructed(v) = read[v] /\ read[v] \in {"on", "off"}
             /\ ((v \in past) <=> (read[v] = "on"))
  <2>1. Good(v) /\ ~Passed(v)
    BY <1>1 DEF LogInv, Scanned, Passed, Valves
  <2> QED
    BY <2>1 DEF Scanned, Good, ReadKnown, InPast
<1>2. ASSUME failed = {}, system # "none"
      PROVE  (system = "off") = (\A v \in Valves : Reconstructed(v) = "off")
  <2>1. (system = "off") <=> (past = {})
    BY <1>2 DEF LogInv, SystemAgrees
  <2>2. (past = {}) <=> (\A v \in Valves : v \notin past)
    BY DEF LogInv, TypeOK
  <2>3. \A v \in Valves : (v \notin past) <=> (Reconstructed(v) = "off")
    BY <1>1, <1>2
  <2> QED
    BY <2>1, <2>2, <2>3
<1> QED
  BY <1>1, <1>2 DEF LogTrue, ValveLogTrue, SystemLogTrue

\* Between scans the log tells the state of every valve whose reads were good,
\* and, while no read failed, the system's events agree with the valves': for
\* every number of valves and of failing reads, and across restarts.
THEOREM LogTrueAlways == Spec => []LogTrue
<1>1. Spec => []LogInv
  BY LogInit, LogStep, PTL DEF Spec
<1> QED
  BY <1>1, LogInvTrue, PTL

-----------------------------------------------------------------------------
(***************************************************************************)
(* The water logger.                                                       *)
(***************************************************************************)

WaterTypes ==
    /\ acc \in 0 .. (Modulus - 1) /\ word \in 0 .. (Modulus - 1)
    /\ pc \in {"sleep", "record"}
    /\ waterLogged \in Nat /\ total \in Nat

WaterInv == WaterTypes /\ EveryPulseOnce

\* What the log, the count in hand and the meter account for.
Accounted == waterLogged + InHand + acc

-----------------------------------------------------------------------------
LEMMA InHandType == WaterTypes => InHand \in 0 .. (Modulus - 1)
  BY WaterLogAssumption DEF WaterTypes, InHand

LEMMA AccountedType == WaterTypes => Accounted \in Nat
  BY InHandType, WaterLogAssumption DEF WaterTypes, Accounted

\* A pulse moves the accumulator on by one, or loses a whole turn.
LEMMA BlipValue ==
    ASSUME NEW a \in 0 .. (Modulus - 1)
    PROVE  (a + 1) % Modulus = IF a = Modulus - 1 THEN 0 ELSE a + 1
  BY WaterLogAssumption

LEMMA WholeTurn ==
    ASSUME NEW x \in Nat, x % Modulus = 0
    PROVE  (x + Modulus) % Modulus = 0
<1> DEFINE q == x \div Modulus
           r == (x + Modulus) \div Modulus
           m == (x + Modulus) % Modulus
           d == q + 1 - r
<1>1. Modulus \in Nat /\ Modulus > 0 /\ q \in Int /\ r \in Int /\ m \in 0 .. (Modulus - 1)
  BY WaterLogAssumption
<1>2. x = Modulus * q
  BY WaterLogAssumption
<1>3. x + Modulus = Modulus * r + m
  BY WaterLogAssumption
<1> HIDE DEF q, r, m
<1>4. Modulus * d = m /\ d \in Int
  BY <1>1, <1>2, <1>3
<1> HIDE DEF d
<1>5. d >= 1 => Modulus * d >= Modulus
  BY <1>1, <1>4
<1>6. d <= -1 => Modulus * d <= -Modulus
  BY <1>1, <1>4
<1>7. d = 0
  BY <1>1, <1>4, <1>5, <1>6
<1>8. m = 0
  BY <1>1, <1>4, <1>7
<1> QED
  BY <1>8 DEF m

LEMMA ZeroTurns == 0 % Modulus = 0
  BY WaterLogAssumption

LEMMA WaterStarts == WaterInit => WaterInv
<1> SUFFICES ASSUME WaterInit PROVE WaterInv
  OBVIOUS
<1>1. acc = 0 /\ word = 0 /\ pc = "sleep" /\ waterLogged = 0 /\ total = 0 /\ InHand = 0
  BY DEF WaterInit, AccInit, InHand
<1> QED
  BY <1>1, ZeroTurns, WaterLogAssumption DEF WaterInv, WaterTypes, EveryPulseOnce

\* A step that changes neither the pulses nor what accounts for them.
LEMMA AccountKept ==
    ASSUME WaterInv, WaterTypes', total' = total, Accounted' = Accounted, taken => taken'
    PROVE  WaterInv'
<1>1. Accounted <= total /\ (~taken => (total - Accounted) % Modulus = 0)
  BY DEF WaterInv, EveryPulseOnce, Accounted
<1>2. Accounted' <= total'
  BY <1>1
<1>3. ~taken' => (total' - Accounted') % Modulus = 0
  BY <1>1
<1> QED
  BY <1>2, <1>3 DEF WaterInv, EveryPulseOnce, Accounted

\* A step that loses some of what accounted for them, and says so.
LEMMA AccountLost ==
    ASSUME WaterInv, WaterTypes', total' = total, Accounted' <= Accounted, taken'
    PROVE  WaterInv'
<1>0. (WaterTypes => Accounted \in Nat)'
  BY AccountedType, PTL
<1>1. Accounted \in Nat /\ Accounted' \in Nat /\ total \in Nat
  BY <1>0, AccountedType DEF WaterInv, WaterTypes
<1>2. Accounted <= total
  BY DEF WaterInv, EveryPulseOnce, Accounted
<1>3. Accounted' <= total'
  BY <1>1, <1>2
<1> QED
  BY <1>3 DEF WaterInv, EveryPulseOnce, Accounted

LEMMA WaterKeeps == WaterInv /\ [WaterNext]_watervars => WaterInv'
<1> SUFFICES ASSUME WaterInv, [WaterNext]_watervars PROVE WaterInv'
  OBVIOUS
<1>t. /\ WaterTypes /\ InHand \in Nat /\ acc \in 0 .. (Modulus - 1) /\ word \in 0 .. (Modulus - 1)
      /\ waterLogged \in Nat /\ total \in Nat /\ Modulus \in Nat /\ 0 \in 0 .. (Modulus - 1)
  BY InHandType, WaterLogAssumption DEF WaterInv, WaterTypes
<1>1. CASE Flow
  <2>1. /\ acc' = (IF acc = Modulus - 1 THEN 0 ELSE acc + 1)
        /\ total' = total + 1 /\ word' = word /\ pc' = pc /\ waterLogged' = waterLogged
        /\ taken' = taken
    BY <1>1, <1>t, BlipValue DEF Flow, Blip
  <2>2. WaterTypes' /\ InHand' = InHand
    BY <2>1, <1>t DEF WaterTypes, InHand
  <2>3. Accounted \in Nat /\ Accounted <= total /\ (~taken => (total - Accounted) % Modulus = 0)
    BY <1>t DEF WaterInv, EveryPulseOnce, Accounted
  <2>4. CASE acc # Modulus - 1
    <3>1. Accounted' = Accounted + 1
      BY <2>1, <2>2, <2>4, <1>t DEF Accounted
    <3>2. Accounted' <= total' /\ total' - Accounted' = total - Accounted
      BY <2>1, <2>3, <3>1, <1>t
    <3> QED
      BY <2>1, <2>2, <2>3, <3>2 DEF WaterInv, EveryPulseOnce, Accounted
  <2>5. CASE acc = Modulus - 1
    <3>1. Accounted' = Accounted - (Modulus - 1)
      BY <2>1, <2>2, <2>5, <1>t DEF Accounted
    <3>2. /\ Accounted' <= total' /\ total - Accounted \in Nat
          /\ total' - Accounted' = (total - Accounted) + Modulus
      BY <2>1, <2>3, <3>1, <1>t
    <3>3. ~taken => (total' - Accounted') % Modulus = 0
      BY <2>3, <3>2, WholeTurn
    <3> QED
      BY <2>1, <2>2, <3>2, <3>3 DEF WaterInv, EveryPulseOnce, Accounted
  <2> QED
    BY <2>4, <2>5
<1>2. CASE Transfer
  <2>1. /\ pc = "sleep" /\ pc' = "record" /\ word' = acc /\ acc' = 0
        /\ total' = total /\ waterLogged' = waterLogged /\ taken' = taken
    BY <1>2 DEF Transfer, ReadOut
  <2>2. WaterTypes' /\ InHand = 0 /\ InHand' = acc
    BY <2>1, <1>t DEF WaterTypes, InHand
  <2>3. Accounted' = Accounted
    BY <2>1, <2>2, <1>t DEF Accounted
  <2> QED
    BY <2>1, <2>2, <2>3, AccountKept
<1>3. CASE TransferFails
  <2>1. /\ pc = "sleep" /\ pc' = pc /\ total' = total /\ waterLogged' = waterLogged
        /\ \/ word' = acc /\ acc' = 0 /\ taken' = (taken \/ acc # 0)
           \/ word' = word /\ acc' = acc /\ taken' = taken
    BY <1>3 DEF TransferFails, ReadOut
  <2>2. WaterTypes' /\ InHand = 0 /\ InHand' = 0
    BY <2>1, <1>t DEF WaterTypes, InHand
  <2>3. CASE acc' = acc /\ taken' = taken
    <3>1. Accounted' = Accounted
      BY <2>1, <2>2, <2>3, <1>t DEF Accounted
    <3> QED
      BY <2>1, <2>2, <2>3, <3>1, AccountKept
  <2>4. CASE acc = 0 /\ acc' = 0 /\ taken' = (taken \/ acc # 0)
    <3>1. Accounted' = Accounted
      BY <2>1, <2>2, <2>4, <1>t DEF Accounted
    <3> QED
      BY <2>1, <2>2, <2>4, <3>1, AccountKept
  <2>5. CASE acc # 0 /\ acc' = 0 /\ taken' = (taken \/ acc # 0)
    <3>1. Accounted' <= Accounted
      BY <2>1, <2>2, <2>5, <1>t DEF Accounted
    <3> QED
      BY <2>1, <2>2, <2>5, <3>1, AccountLost
  <2> QED
    BY <2>1, <2>3, <2>4, <2>5
<1>4. CASE Record
  <2>1. /\ pc = "record" /\ pc' = "sleep" /\ waterLogged' = waterLogged + word
        /\ acc' = acc /\ word' = word /\ total' = total /\ taken' = taken
    BY <1>4 DEF Record, CountLogged
  <2>2. InHand = word /\ InHand' = 0 /\ waterLogged' \in Nat
    BY <2>1, <1>t DEF InHand
  <2>3. WaterTypes' /\ Accounted' = Accounted
    BY <2>1, <2>2, <1>t DEF WaterTypes, Accounted
  <2> QED
    BY <2>1, <2>3, AccountKept
<1>5. CASE WaterRestart
  <2>1. /\ pc' = "sleep" /\ acc' = acc /\ word' = word /\ total' = total /\ waterLogged' = waterLogged
        /\ taken' = (taken \/ (pc = "record" /\ word # 0))
    BY <1>5 DEF WaterRestart
  <2>2. WaterTypes' /\ InHand' = 0
    BY <2>1, <1>t DEF WaterTypes, InHand
  <2>3. CASE InHand = 0
    <3>1. Accounted' = Accounted
      BY <2>1, <2>2, <2>3, <1>t DEF Accounted
    <3> QED
      BY <2>1, <2>2, <3>1, AccountKept
  <2>4. CASE InHand # 0
    <3>1. taken'
      BY <2>1, <2>4 DEF InHand
    <3>2. Accounted' <= Accounted
      BY <2>1, <2>2, <1>t DEF Accounted
    <3> QED
      BY <2>1, <2>2, <3>1, <3>2, AccountLost
  <2> QED
    BY <2>3, <2>4
<1>6. CASE UNCHANGED watervars
  BY <1>6 DEF watervars, WaterInv, WaterTypes, EveryPulseOnce, InHand
<1> QED
  BY <1>1, <1>2, <1>3, <1>4, <1>5, <1>6 DEF WaterNext

\* The log never shows more water than flowed, and while no fault has swallowed a
\* count it accounts for every pulse up to whole turns of the accumulator.
THEOREM EveryPulseOnceAlways == WaterSpec => []EveryPulseOnce
<1>1. WaterInv => EveryPulseOnce
  BY DEF WaterInv
<1> QED
  BY <1>1, WaterStarts, WaterKeeps, PTL DEF WaterSpec

=============================================================================
