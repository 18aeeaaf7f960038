--------------------------- MODULE PulseMeterProofs ---------------------------
(***************************************************************************)
(* The meter for every width of its counters: one pulse for one closing,   *)
(* the accumulator its host relies on, and what a transaction reads of it. *)
(***************************************************************************)
EXTENDS PulseMeter, NaturalsInduction, WellFoundedInduction, TLAPS

-----------------------------------------------------------------------------
(***************************************************************************)
(* The debounced input.  While the input differs from the debounced state  *)
(* cnt is one behind the ghost that counts the agreeing samples; in the    *)
(* two clocks after power-up it is not, the synchroniser starting low.     *)
(***************************************************************************)

InputTypes ==
    /\ state \in {0, 1} /\ sync \in {0, 1} \X {0, 1} /\ sig \in {0, 1}
    /\ cnt \in 0 .. DbMax
    /\ low \in 0 .. Cap /\ high \in 0 .. Cap /\ rested \in BOOLEAN

PowerUp ==
    /\ state = 1 /\ sync[2] = 0 /\ high = 0 /\ cnt = low /\ rested
    /\ \/ low = 0 /\ sig = 1 /\ sync[1] = 0
       \/ low = 1 /\ sync[1] = 1

\* One of the two ghosts counts, the one of the level that is sampled.
Runs ==
    /\ sync[2] = 0 => low > 0 /\ high = 0
    /\ sync[2] = 1 => high > 0 /\ low = 0

\* How far the counter is on its way to the opposite state.
Counting ==
    ~Idle => /\ state = 1 => cnt = low - 1
             /\ state = 0 => cnt = high - 1

\* A wire is debounced as high only after it has rested high.
Rest == state = 1 \/ high >= Period => rested

DebounceInv == InputTypes /\ (PowerUp \/ (Runs /\ Counting /\ Rest))

LEMMA CapValue == DbMax \in Nat /\ DbMax > 1 /\ Period = DbMax + 1 /\ Cap = DbMax + 2
  BY DebounceAssumption DEF Period, Cap

\* The counter wraps exactly from its maximum.
LEMMA CntStepValue ==
    ASSUME cnt \in 0 .. DbMax
    PROVE  CntStep = IF cnt = DbMax THEN 0 ELSE cnt + 1
  BY DebounceAssumption DEF CntStep

LEMMA RunOfType ==
    ASSUME NEW run \in 0 .. Cap, NEW agrees \in BOOLEAN
    PROVE  RunOf(run, agrees) \in 0 .. Cap
  BY CapValue DEF RunOf

LEMMA DebounceInitial == Init => DebounceInv
<1> SUFFICES ASSUME Init PROVE DebounceInv
  OBVIOUS
<1>1. /\ sig = 1 /\ sync = <<0, 0>> /\ state = 1 /\ cnt = 0
      /\ low = 0 /\ high = 0 /\ rested = TRUE
  BY DEF Init, InputInit, DebounceInit
<1>2. InputTypes
  BY <1>1, CapValue DEF InputTypes
<1> QED
  BY <1>1, <1>2 DEF DebounceInv, PowerUp

LEMMA DebouncePosedgeKeeps == DebounceInv /\ InputPosedge => DebounceInv'
<1> SUFFICES ASSUME DebounceInv, InputPosedge PROVE DebounceInv'
  OBVIOUS
<1>t. /\ state \in {0, 1} /\ sync[1] \in {0, 1} /\ sync[2] \in {0, 1} /\ sig \in {0, 1}
      /\ cnt \in 0 .. DbMax /\ low \in 0 .. Cap /\ high \in 0 .. Cap
  BY DEF DebounceInv, InputTypes
<1>r. rested \in BOOLEAN
  BY DEF DebounceInv, InputTypes
<1>s. sync' = <<sig, sync[1]>> /\ sync'[1] = sig /\ sync'[2] = sync[1]
  BY DEF InputPosedge, DebouncePosedge
<1>c. cnt' = IF state = sync[2] THEN 0 ELSE IF cnt = DbMax THEN 0 ELSE cnt + 1
  BY <1>t, CntStepValue DEF InputPosedge, DebouncePosedge, Idle, CntWhenIdle
<1>d. state' = IF state # sync[2] /\ cnt = DbMax THEN 1 - state ELSE state
  BY DEF InputPosedge, DebouncePosedge, Idle, Max
<1>l. low' = IF sync[1] # 0 THEN 0 ELSE IF low < Cap THEN low + 1 ELSE low
  BY <1>s DEF InputPosedge, RunOf
<1>h. high' = IF sync[1] # 1 THEN 0 ELSE IF high < Cap THEN high + 1 ELSE high
  BY <1>s DEF InputPosedge, RunOf
<1>p. rested' = (high' >= Period \/ (rested /\ ~(state # sync[2] /\ cnt = DbMax /\ state = 1)))
  BY DEF InputPosedge, Pulse, Idle, Max
<1>1. InputTypes'
  <2>1. state' \in {0, 1} /\ cnt' \in 0 .. DbMax /\ low' \in 0 .. Cap /\ high' \in 0 .. Cap
    BY <1>t, <1>c, <1>d, <1>l, <1>h, CapValue
  <2>2. sync' \in {0, 1} \X {0, 1} /\ sig' \in {0, 1}
    BY <1>t, <1>s DEF InputPosedge
  <2>3. rested' \in BOOLEAN
    BY <1>p, Zenon
  <2> QED
    BY <2>1, <2>2, <2>3 DEF InputTypes
<1>2. CASE PowerUp
  <2>1. state = 1 /\ sync[2] = 0 /\ high = 0 /\ cnt = low /\ low \in {0, 1} /\ cnt # DbMax
    BY <1>2, CapValue DEF PowerUp
  <2>2. rested'
    BY <1>2, <2>1, <1>p DEF PowerUp
  <2>3. CASE low = 0
    <3>1. sig = 1 /\ sync[1] = 0
      BY <1>2, <2>3 DEF PowerUp
    <3>2. low' = 1 /\ high' = 0 /\ cnt' = 1 /\ state' = 1
      BY <2>1, <2>3, <3>1, <1>c, <1>d, <1>l, <1>h, CapValue
    <3> QED
      BY <1>1, <2>2, <3>1, <3>2, <1>s DEF DebounceInv, PowerUp
  <2>4. CASE low = 1
    <3>1. sync[1] = 1
      BY <1>2, <2>4 DEF PowerUp
    <3>2. low' = 0 /\ high' = 1 /\ state' = 1
      BY <2>1, <3>1, <1>d, <1>l, <1>h, CapValue
    <3> QED
      BY <1>1, <2>2, <3>1, <3>2, <1>s DEF DebounceInv, Runs, Counting, Rest, Idle
  <2> QED
    BY <2>1, <2>3, <2>4
<1>3. CASE Runs /\ Counting /\ Rest
  <2>r. /\ sync[2] = 0 => low > 0 /\ high = 0
        /\ sync[2] = 1 => high > 0 /\ low = 0
        /\ state # sync[2] => (state = 1 => cnt = low - 1) /\ (state = 0 => cnt = high - 1)
    BY <1>3 DEF Runs, Counting, Idle
  <2>1. Runs'
    <3>1. sync[1] = 0 => low' > 0 /\ high' = 0
      BY <1>t, <1>l, <1>h, CapValue
    <3>2. sync[1] = 1 => high' > 0 /\ low' = 0
      BY <1>t, <1>l, <1>h, CapValue
    <3> QED
      BY <3>1, <3>2, <1>s DEF Runs
  <2>2. Counting'
    <3> SUFFICES ASSUME state' # sync[1]
                 PROVE  (state' = 1 => cnt' = low' - 1) /\ (state' = 0 => cnt' = high' - 1)
      BY <1>s DEF Counting, Idle
    <3>1. CASE state = sync[2]
      BY <3>1, <2>r, <1>t, <1>c, <1>d, <1>l, <1>h, CapValue
    <3>2. CASE state # sync[2] /\ cnt = DbMax
      BY <3>2, <2>r, <1>t, <1>c, <1>d, <1>l, <1>h, CapValue
    <3>3. CASE state # sync[2] /\ cnt # DbMax
      BY <3>3, <2>r, <1>t, <1>c, <1>d, <1>l, <1>h, CapValue
    <3> QED
      BY <3>1, <3>2, <3>3
  <2>3. Rest'
    <3> SUFFICES ASSUME state' = 1, ~(high' >= Period) PROVE rested'
      BY <1>p DEF Rest
    <3>1. ~(state # sync[2] /\ cnt = DbMax /\ state = 1)
      BY <1>d
    <3>2. rested
      <4>1. CASE state = 1
        BY <4>1, <1>3 DEF Rest
      <4>2. CASE state = 0
        <5>1. high >= Period
          BY <4>2, <2>r, <1>t, <1>d, CapValue
        <5> QED
          BY <5>1, <1>3 DEF Rest
      <4> QED
        BY <4>1, <4>2, <1>t
    <3> QED
      BY <3>1, <3>2, <1>p
  <2> QED
    BY <1>1, <2>1, <2>2, <2>3 DEF DebounceInv
<1> QED
  BY <1>2, <1>3 DEF DebounceInv

-----------------------------------------------------------------------------
LEMMA DebounceStep == DebounceInv /\ [Next]_vars => DebounceInv'
<1> SUFFICES ASSUME DebounceInv, [Next]_vars PROVE DebounceInv'
  OBVIOUS
<1>1. CASE Posedge
  BY <1>1, DebouncePosedgeKeeps DEF Posedge
<1>2. CASE UNCHANGED inputVars
  BY <1>2 DEF inputVars, debounceVars, DebounceInv, InputTypes, PowerUp, Runs, Counting, Rest, Idle
<1> QED
  BY <1>1, <1>2 DEF Next, Select, ClockUp, ClockDown, Deselect, HostStep, vars

LEMMA DebounceInvPulses == DebounceInv => OnePulsePerClosing
<1> SUFFICES ASSUME DebounceInv PROVE OnePulsePerClosing
  OBVIOUS
<1>t. state \in {0, 1} /\ sync[2] \in {0, 1} /\ cnt \in 0 .. DbMax /\ low \in 0 .. Cap /\ high \in 0 .. Cap
  BY DEF DebounceInv, InputTypes
<1>1. CASE PowerUp
  <2>1. rested /\ low \in {0, 1} /\ cnt = low
    BY <1>1 DEF PowerUp
  <2>2. ~Pulse /\ low # Cap
    BY <2>1, CapValue DEF Pulse, Max
  <2> QED
    BY <2>2 DEF OnePulsePerClosing, NoGlitch, OncePerClosing, ClosingSeen
<1>2. CASE Runs /\ Counting /\ Rest
  <2>r. /\ sync[2] = 1 => low = 0
        /\ state # sync[2] /\ state = 1 => cnt = low - 1
    BY <1>2 DEF Runs, Counting, Idle
  <2>1. Pulse => low >= Period
    BY <2>r, <1>t, CapValue DEF Pulse, Max, Idle
  <2>2. Pulse => rested
    BY <1>2 DEF Rest, Pulse
  <2>3. low = Cap => state = 0
    BY <2>r, <1>t, CapValue
  <2> QED
    BY <2>1, <2>2, <2>3 DEF OnePulsePerClosing, NoGlitch, OncePerClosing, ClosingSeen
<1> QED
  BY <1>1, <1>2 DEF DebounceInv

\* Whatever the contact does, bouncing included, a closing that lasts makes one
\* pulse and nothing else makes one: for every width of the counter above one bit.
THEOREM OnePulseAlways == Spec => []OnePulsePerClosing
<1>1. Spec => []DebounceInv
  BY DebounceInitial, DebounceStep, PTL DEF Spec
<1> QED
  BY <1>1, DebounceInvPulses, PTL

-----------------------------------------------------------------------------
(***************************************************************************)
(* The accumulator.                                                        *)
(***************************************************************************)

CountInv == pulseCnt \in 0 .. (Words - 1)

LEMMA OneType == One(Pulse) \in {0, 1}
  BY DEF One

\* Without a pulse the accumulator keeps its value.
LEMMA CountKept ==
    ASSUME NEW c \in 0 .. (Words - 1)
    PROVE  (c + 0) % Words = c
  BY WordsAssumption

LEMMA CountNextType ==
    ASSUME NEW c \in 0 .. (Words - 1), NEW d \in {0, 1}
    PROVE  (c + d) % Words \in 0 .. (Words - 1)
  BY WordsAssumption

LEMMA CountStep == CountInv /\ [Next]_vars => CountInv'
<1> SUFFICES ASSUME CountInv, [Next]_vars PROVE CountInv'
  OBVIOUS
<1>1. CASE Posedge
  <2>1. pulseCnt' = IF CsnDown THEN One(Pulse) ELSE (pulseCnt + One(Pulse)) % Words
    BY <1>1 DEF Posedge, Restart
  <2>2. One(Pulse) \in 0 .. (Words - 1)
    BY OneType, WordsAssumption
  <2> QED
    BY <2>1, <2>2, OneType, CountNextType DEF CountInv
<1>2. CASE UNCHANGED pulseCnt
  BY <1>2 DEF CountInv
<1> QED
  BY <1>1, <1>2 DEF Next, Select, ClockUp, ClockDown, Deselect, HostStep, vars

LEMMA AccumulatorStep == CountInv /\ [Next]_vars => [Acc!AccNext]_(Acc!accVars)
<1> SUFFICES ASSUME CountInv, [Next]_vars PROVE [Acc!AccNext]_(Acc!accVars)
  OBVIOUS
<1>1. CASE Posedge /\ CsnDown
  <2>1. word' = pulseCnt /\ pulseCnt' = One(Pulse)
    BY <1>1 DEF Posedge, Restart
  <2>2. Acc!ReadOut(One(Pulse))
    BY <2>1 DEF Acc!ReadOut
  <2> QED
    BY <2>2, OneType DEF Acc!AccNext
<1>2. CASE Posedge /\ ~CsnDown
  <2>1. word' = word /\ pulseCnt' = (pulseCnt + One(Pulse)) % Words
    BY <1>2 DEF Posedge
  <2>2. CASE Pulse
    BY <2>1, <2>2 DEF One, Acc!Blip, Acc!AccNext
  <2>3. CASE ~Pulse
    <3>1. pulseCnt' = pulseCnt
      BY <2>1, <2>3, CountKept DEF One, CountInv
    <3> QED
      BY <2>1, <3>1 DEF Acc!accVars
  <2> QED
    BY <2>2, <2>3
<1>3. CASE UNCHANGED <<pulseCnt, word>>
  BY <1>3 DEF Acc!accVars
<1> QED
  BY <1>1, <1>2, <1>3 DEF Next, Select, ClockUp, ClockDown, Deselect, HostStep, vars

\* Whenever the contact closes and whenever the host reads, also at the same
\* clock, the device is the accumulator that WaterLog takes it for.
THEOREM MeterIsAccumulator == Spec => ImplementsAccumulator
<1>1. Init => CountInv /\ Acc!AccInit
  BY WordsAssumption DEF Init, CountInv, Acc!AccInit
<1>2. CountInv /\ CountInv' /\ [Next]_vars => [Acc!AccNext]_(Acc!accVars)
  BY AccumulatorStep
<1> QED
  BY <1>1, <1>2, CountStep, PTL DEF Spec, ImplementsAccumulator, Acc!AccSpec

-----------------------------------------------------------------------------
(***************************************************************************)
(* The number a string of bits stands for.  The function is recursive: that *)
(* it exists, and that there is only one, is shown by induction on the     *)
(* length.                                                                 *)
(***************************************************************************)

\* A set of naturals that is not empty has a least member; one that holds 0 and
\* the successors of its members is all of them.
LEMMA LeastNat ==
    ASSUME NEW S \in SUBSET Nat, S # {}
    PROVE  \E n \in S : \A m \in S : n <= m
<1>1. IsWellFoundedOn(OpToRel(<, Nat), Nat)
  BY NatLessThanWellFounded
<1>2. PICK n \in S : \A m \in S : ~ (<<m, n>> \in OpToRel(<, Nat))
  BY <1>1, WFMin
<1>3. OpToRel(<, Nat) = {p \in Nat \X Nat : p[1] < p[2]}
  BY DEF OpToRel
<1>4. \A m \in S : ~ (m < n)
  BY <1>2, <1>3
<1> QED
  BY <1>4

LEMMA Induct ==
    ASSUME NEW S \in SUBSET Nat, 0 \in S, \A n \in S : n + 1 \in S
    PROVE  S = Nat
<1> SUFFICES ASSUME S # Nat PROVE FALSE
  OBVIOUS
<1>1. PICK n \in Nat \ S : \A m \in Nat \ S : n <= m
  BY LeastNat
<1>2. n # 0 /\ n - 1 \in Nat /\ n - 1 \in S
  BY <1>1
<1> QED
  BY <1>1, <1>2

\* The recursive function of Number, over the first n bits of b.
IsNum(f, b, n) == f = [i \in 0 .. n |-> IF i = 0 THEN 0 ELSE 2 * f[i - 1] + b[i]]

LEMMA IsNumValue ==
    ASSUME NEW f, NEW b, NEW n \in Nat, IsNum(f, b, n)
    PROVE  f[0] = 0 /\ \A i \in 1 .. n : f[i] = 2 * f[i - 1] + b[i]
<1> DEFINE g == [i \in 0 .. n |-> IF i = 0 THEN 0 ELSE 2 * f[i - 1] + b[i]]
<1>1. f = g
  BY DEF IsNum
<1>2. g[0] = 0 /\ \A i \in 1 .. n : g[i] = 2 * f[i - 1] + b[i]
  OBVIOUS
<1> QED
  BY <1>1, <1>2

LEMMA NumUnique ==
    ASSUME NEW f, NEW g, NEW b, NEW n \in Nat, IsNum(f, b, n), IsNum(g, b, n)
    PROVE  f[n] = g[n]
<1> DEFINE S == {i \in Nat : i <= n => f[i] = g[i]}
<1>1. 0 \in S
  BY IsNumValue
<1>2. \A i \in S : i + 1 \in S
  <2> SUFFICES ASSUME NEW i \in S, i + 1 <= n PROVE f[i + 1] = g[i + 1]
    OBVIOUS
  <2>1. i \in Nat /\ i + 1 \in 1 .. n /\ (i + 1) - 1 = i /\ f[i] = g[i]
    OBVIOUS
  <2>2. f[i + 1] = 2 * f[(i + 1) - 1] + b[i + 1] /\ g[i + 1] = 2 * g[(i + 1) - 1] + b[i + 1]
    BY <2>1, IsNumValue
  <2> QED
    BY <2>1, <2>2, Zenon
<1> HIDE DEF S
<1>3. S \in SUBSET Nat
  BY DEF S
<1>4. S = Nat
  BY <1>1, <1>2, <1>3, Induct
<1> QED
  BY <1>4 DEF S

\* One digit more.
LEMMA NumExtend ==
    ASSUME NEW f, NEW b, NEW c, NEW n \in Nat, IsNum(f, b, n), \A i \in 1 .. n : c[i] = b[i]
    PROVE  IsNum([i \in 0 .. (n + 1) |-> IF i <= n THEN f[i] ELSE 2 * f[n] + c[n + 1]], c, n + 1)
<1> DEFINE g == [i \in 0 .. (n + 1) |-> IF i <= n THEN f[i] ELSE 2 * f[n] + c[n + 1]]
           h == [i \in 0 .. (n + 1) |-> IF i = 0 THEN 0 ELSE 2 * g[i - 1] + c[i]]
<1>1. ASSUME NEW i \in 0 .. (n + 1) PROVE g[i] = h[i]
  <2>1. CASE i = 0
    BY <2>1, IsNumValue
  <2>2. CASE i \in 1 .. n
    <3>1. f[i] = 2 * f[i - 1] + b[i]
      BY <2>2, IsNumValue
    <3>2. g[i] = f[i] /\ g[i - 1] = f[i - 1] /\ c[i] = b[i] /\ h[i] = 2 * g[i - 1] + c[i]
      BY <2>2
    <3> QED
      BY <3>1, <3>2, Zenon
  <2>3. CASE i = n + 1
    <3>1. g[i] = 2 * f[n] + c[n + 1] /\ g[i - 1] = f[n] /\ h[i] = 2 * g[i - 1] + c[i]
      BY <2>3
    <3> QED
      BY <2>3, <3>1, Zenon
  <2> QED
    BY <2>1, <2>2, <2>3
<1>2. g = h
  <2> HIDE DEF g
  <2>1. g = [i \in 0 .. (n + 1) |-> g[i]]
    BY DEF g
  <2> HIDE DEF h
  <2>2. h = [i \in 0 .. (n + 1) |-> h[i]]
    BY DEF h
  <2> QED
    BY <1>1, <2>1, <2>2, Zenon
<1> QED
  BY <1>2, Zenon DEF IsNum

LEMMA NumExists ==
    ASSUME NEW b, NEW n \in Nat
    PROVE  \E f : IsNum(f, b, n)
<1> DEFINE S == {k \in Nat : \E f : IsNum(f, b, k)}
<1>1. 0 \in S
  <2>1. [i \in 0 .. 0 |-> 0] = [i \in 0 .. 0 |-> IF i = 0 THEN 0 ELSE 2 * [j \in 0 .. 0 |-> 0][i - 1] + b[i]]
    OBVIOUS
  <2>2. IsNum([i \in 0 .. 0 |-> 0], b, 0)
    BY <2>1, Zenon DEF IsNum
  <2> QED
    BY <2>2
<1>2. ASSUME NEW k \in S PROVE k + 1 \in S
  <2>1. PICK f : IsNum(f, b, k)
    OBVIOUS
  <2>2. \E g : IsNum(g, b, k + 1)
    BY <2>1, NumExtend, Zenon
  <2> QED
    BY <2>2
<1> HIDE DEF S
<1>3. S \in SUBSET Nat
  BY DEF S
<1>4. S = Nat
  BY <1>1, <1>2, <1>3, Induct
<1> QED
  BY <1>4 DEF S

LEMMA NumberIs ==
    ASSUME NEW b, NEW f, Len(b) \in Nat, IsNum(f, b, Len(b))
    PROVE  Number(b) = f[Len(b)]
<1> DEFINE num == CHOOSE g : g = [i \in 0 .. Len(b) |-> IF i = 0 THEN 0 ELSE 2 * g[i - 1] + b[i]]
<1>1. num = [i \in 0 .. Len(b) |-> IF i = 0 THEN 0 ELSE 2 * num[i - 1] + b[i]]
  BY Zenon DEF IsNum
<1>2. Number(b) = num[Len(b)]
  BY DEF Number
<1>3. IsNum(num, b, Len(b))
  BY <1>1, Zenon DEF IsNum
<1> HIDE DEF num
<1>4. num[Len(b)] = f[Len(b)]
  BY <1>3, NumUnique
<1> QED
  BY <1>2, <1>4

LEMMA NumberEmpty == Number(<<>>) = 0
<1>1. PICK f : IsNum(f, <<>>, 0)
  BY NumExists
<1> QED
  BY <1>1, NumberIs, IsNumValue

LEMMA NumberAppend ==
    ASSUME NEW b \in Seq({0, 1}), NEW x \in {0, 1}
    PROVE  Number(Append(b, x)) = 2 * Number(b) + x
<1> DEFINE n == Len(b)
           c == Append(b, x)
<1>1. n \in Nat /\ Len(c) = n + 1 /\ c[n + 1] = x /\ \A i \in 1 .. n : c[i] = b[i]
  OBVIOUS
<1> HIDE DEF n, c
<1>2. PICK f : IsNum(f, b, n)
  BY <1>1, NumExists
<1> DEFINE g == [i \in 0 .. (n + 1) |-> IF i <= n THEN f[i] ELSE 2 * f[n] + c[n + 1]]
<1>3. IsNum(g, c, n + 1)
  BY <1>1, <1>2, NumExtend
<1>4. g[n + 1] = 2 * f[n] + x
  BY <1>1
<1>5. Number(b) = f[n]
  BY <1>1, <1>2, NumberIs DEF n
<1> HIDE DEF g
<1>6. Number(c) = g[n + 1]
  BY <1>1, <1>3, NumberIs
<1> QED
  BY <1>4, <1>5, <1>6 DEF c

-----------------------------------------------------------------------------
(***************************************************************************)
(* Quotients, remainders and the register they stand for.                  *)
(***************************************************************************)

LEMMA DivModOf ==
    ASSUME NEW a \in Nat, NEW b \in Nat \ {0}
    PROVE  /\ a \div b \in Nat /\ a % b \in 0 .. (b - 1)
           /\ a = b * (a \div b) + (a % b)
  OBVIOUS

LEMMA TimesMore ==
    ASSUME NEW b \in Nat, NEW x \in Int, NEW y \in Int, x < y
    PROVE  b * x + b <= b * y
<1>1. x + 1 <= y
  OBVIOUS
<1>2. PICK d \in Nat : y = x + 1 + d
  <2>1. y - x - 1 \in Nat /\ y = x + 1 + (y - x - 1)
    BY <1>1
  <2> QED
    BY <2>1
<1>3. b * y = b * x + b + b * d
  BY <1>2
<1>4. b * d \in Nat
  BY <1>2
<1> QED
  BY <1>3, <1>4

\* A quotient and a remainder are determined by their number.
LEMMA SplitUnique ==
    ASSUME NEW b \in Nat, NEW x \in Int, NEW y \in Int,
           NEW r \in 0 .. (b - 1), NEW s \in 0 .. (b - 1), b * x + r = b * y + s
    PROVE  x = y /\ r = s
<1>1. b * x \in Int /\ b * y \in Int
  OBVIOUS
<1>2. ~ (x < y)
  <2> SUFFICES ASSUME x < y PROVE FALSE
    OBVIOUS
  <2>1. b * x + b <= b * y
    BY TimesMore
  <2> QED
    BY <1>1, <2>1
<1>3. ~ (y < x)
  <2> SUFFICES ASSUME y < x PROVE FALSE
    OBVIOUS
  <2>1. b * y + b <= b * x
    BY TimesMore
  <2> QED
    BY <1>1, <2>1
<1>4. x = y
  BY <1>2, <1>3
<1> QED
  BY <1>1, <1>4

LEMMA DivIs ==
    ASSUME NEW b \in Nat \ {0}, NEW q \in Nat, NEW r \in 0 .. (b - 1)
    PROVE  (b * q + r) \div b = q /\ (b * q + r) % b = r
<1> DEFINE a == b * q + r
<1>1. a \in Nat
  OBVIOUS
<1> HIDE DEF a
<1>2. a \div b \in Nat /\ a % b \in 0 .. (b - 1) /\ a = b * (a \div b) + (a % b)
  BY <1>1, DivModOf
<1>3. a = b * q + r
  BY DEF a
<1>4. a \div b = q /\ a % b = r
  BY <1>2, <1>3, SplitUnique
<1> QED
  BY <1>4 DEF a

\* One more digit of a quotient.
LEMMA HalveDivisor ==
    ASSUME NEW a \in Nat, NEW p \in Nat \ {0}
    PROVE  a \div p = 2 * (a \div (2 * p)) + ((a \div p) % 2)
<1> DEFINE q == a \div p
           s == a % p
           d == q % 2
           e == q \div 2
<1>1. q \in Nat /\ s \in 0 .. (p - 1) /\ a = p * q + s
  BY DivModOf
<1> HIDE DEF q, s
<1>2. d \in {0, 1} /\ e \in Nat /\ q = 2 * e + d
  BY <1>1
<1> HIDE DEF d, e
<1>3. p * (2 * e + d) = 2 * (p * e) + p * d /\ (2 * p) * e = 2 * (p * e)
  BY <1>2
<1> DEFINE u == p * e
           v == p * d
<1>4. u \in Nat /\ v \in Nat
  BY <1>2
<1>5. v + s \in 0 .. (2 * p - 1)
  <2>1. CASE d = 0
    BY <2>1, <1>1
  <2>2. CASE d = 1
    BY <2>2, <1>1
  <2> QED
    BY <1>2, <2>1, <2>2
<1>6. p * q = 2 * u + v /\ (2 * p) * e = 2 * u
  BY <1>2, <1>3, Zenon
<1>7. a = (2 * p) * e + (v + s)
  <2> DEFINE pq == p * q
             pe == (2 * p) * e
  <2>1. a = pq + s /\ pq = 2 * u + v /\ pe = 2 * u
    BY <1>1, <1>6
  <2> HIDE DEF pq, pe, u, v
  <2>2. a = pe + (v + s)
    BY <1>1, <1>4, <2>1
  <2> QED
    BY <2>2 DEF pe
<1> HIDE DEF v
<1>8. a \div (2 * p) = e
  BY <1>2, <1>5, <1>7, DivIs, 2 * p \in Nat \ {0}
<1>9. q = 2 * (a \div (2 * p)) + d
  BY <1>2, <1>8
<1> QED
  BY <1>9, Zenon DEF q, d

LEMMA AddModulo ==
    ASSUME NEW m \in Nat \ {0}, NEW a \in Nat, NEW b \in Nat
    PROVE  ((a % m) + b) % m = (a + b) % m
<1> DEFINE q == a \div m
           s == a % m
           c == s + b
           e == c \div m
           r == c % m
<1>1. q \in Nat /\ s \in 0 .. (m - 1) /\ a = m * q + s
  BY DivModOf
<1> HIDE DEF q, s
<1>2. c \in Nat
  BY <1>1
<1>3. e \in Nat /\ r \in 0 .. (m - 1) /\ c = m * e + r
  BY <1>2, DivModOf
<1>4. c = s + b
  OBVIOUS
<1> HIDE DEF c, e, r
<1>5. m * (q + e) = m * q + m * e /\ m * q \in Nat /\ m * e \in Nat /\ q + e \in Nat
  BY <1>1, <1>3
<1>6. a + b = m * (q + e) + r
  BY <1>1, <1>3, <1>4, <1>5
<1>7. (a + b) % m = r
  BY <1>3, <1>5, <1>6, DivIs
<1> QED
  BY <1>7, Zenon DEF r, c, s

\* A digit shifted into a register of the words w = 2 * h moves the top bit out.
LEMMA ShiftIn ==
    ASSUME NEW h \in Nat \ {0}, NEW x \in 0 .. (2 * h - 1), NEW b \in {0, 1}
    PROVE  /\ x \div h \in {0, 1}
           /\ (2 * x + b) % (2 * h) \in 0 .. (2 * h - 1)
           /\ (x \div h) * (2 * h) + ((2 * x + b) % (2 * h)) = 2 * x + b
<1> DEFINE q == x \div h
           s == x % h
<1>0. x \in Nat
  OBVIOUS
<1>1. q \in Nat /\ s \in 0 .. (h - 1) /\ x = h * q + s
  BY <1>0, DivModOf
<1> HIDE DEF q, s
<1>2. q \in {0, 1}
  <2> SUFFICES ASSUME q > 1 PROVE FALSE
    BY <1>1
  <2>1. h * 1 + h <= h * q
    BY <1>1, TimesMore
  <2>2. h * q \in Nat
    BY <1>1
  <2> QED
    BY <1>1, <2>1, <2>2
<1>3. 2 * x + b = (2 * h) * q + (2 * s + b) /\ q * (2 * h) = (2 * h) * q
  BY <1>1, <1>2
<1>4. 2 * s + b \in 0 .. (2 * h - 1)
  BY <1>1
<1>5. (2 * x + b) % (2 * h) = 2 * s + b
  BY <1>1, <1>3, <1>4, DivIs, 2 * h \in Nat \ {0}
<1> QED
  BY <1>2, <1>3, <1>4, <1>5 DEF q

-----------------------------------------------------------------------------
(***************************************************************************)
(* A transaction.  The bits the host has read, followed by the shift       *)
(* register, are one number: the count it was loaded with, followed by as  *)
(* much of the pattern as has been sent.  A bit on its way through the     *)
(* synchronisers is taken as shifted in, a chip select on its way as a     *)
(* count still to be loaded.                                               *)
(***************************************************************************)
\* What has come through the three stages of a synchroniser since its line changed.
Spread(old, new, h) ==
    << IF h >= 1 THEN new ELSE old, IF h >= 2 THEN new ELSE old, IF h >= 3 THEN new ELSE old >>

Got == Len(bits)

ReadTypes ==
    /\ csn \in {0, 1} /\ sclk \in {0, 1} /\ mosi \in {0, 1} /\ mosiSmp \in {0, 1}
    /\ bits \in Seq({0, 1}) /\ Got <= 2 * Width /\ hold \in 0 .. Half
    /\ {shift, pulseCnt, word, given, counted} \subseteq 0 .. (Words - 1)

LinesOK ==
    /\ csn = 1 => sclk = 0 /\ clkSync = <<0, 0, 0>> /\ csnSync = Spread(0, 1, hold)
    /\ csn = 0 /\ Got = 0 => sclk = 0 /\ clkSync = <<0, 0, 0>> /\ csnSync = Spread(1, 0, hold)
    /\ csn = 0 /\ Got > 0 =>
          csnSync = <<0, 0, 0>> /\ clkSync = Spread(1 - sclk, sclk, hold)

\* The next bit waits on the line; the last one has been sampled in time.
MosiOK == csn = 0 =>
    /\ sclk = 0 /\ Got < 2 * Width => mosi = PatternBit(Got + 1)
    /\ Got > 0 =>
          /\ sclk = 1 => mosi = PatternBit(Got)
          /\ (sclk = 1 /\ hold >= 3) \/ (sclk = 0 /\ hold < 3) => mosiSmp = PatternBit(Got)

\* The last bit sent has still to be shifted in, the count still to be loaded.
Pending == csn = 0 /\ Got > 0 /\ (sclk = 1 \/ hold < 3)
Loading == csn = 0 /\ Got = 0 /\ hold < 3

ShiftedIn(s, k) == (2 * s + PatternBit(k)) % Words
Settled == IF Pending THEN ShiftedIn(shift, Got) ELSE shift

\* The bits read and the register are one number that takes in the pattern from
\* the right: the count first, the pattern's first word after it.
SentSoFar(k) == Pattern \div 2 ^ (2 * Width - k)
FirstWord(b, s, w) == Len(b) <= Width =>
    Number(b) \in Nat /\ Number(b) * Words + s = 2 ^ Len(b) * w + SentSoFar(Len(b))
Second(b) == SubSeq(b, Width + 1, Len(b))
SecondWord(b, s, w) == Len(b) >= Width =>
    /\ Number(SubSeq(b, 1, Width)) = w /\ Number(Second(b)) \in Nat
    /\ \E r \in 0 .. (2 ^ (Len(b) - Width) - 1) :
          Number(Second(b)) * Words + s = 2 ^ (Len(b) - Width) * Sent + r

DataOK == csn = 0 /\ ~Loading => FirstWord(bits, Settled, word) /\ SecondWord(bits, Settled, word)

AccountOK ==
    /\ csn = 1 \/ Loading => (given + pulseCnt) % Words = counted
    /\ ~(csn = 1 \/ Loading) => (given + word + pulseCnt) % Words = counted

ReadInv == ReadTypes /\ LinesOK /\ MosiOK /\ DataOK /\ AccountOK /\ EchoIsSent

-----------------------------------------------------------------------------
LEMMA WidthFacts ==
    /\ Width \in Nat /\ Width >= 1 /\ Half \in Nat /\ Half >= 3
    /\ Pattern \in Nat /\ Pattern < 2 ^ (2 * Width)
<1>1. 2 * Width \in 0 .. 2 * Width
  BY WidthAssumption
<1>2. 2 ^ (2 * Width) \in Nat
  BY <1>1, PowersAssumption
<1> QED
  BY <1>2, WidthAssumption, HostAssumption

LEMMA PowerFacts ==
    /\ 2 ^ 0 = 1
    /\ \A k \in 0 .. 2 * Width : 2 ^ k \in Nat \ {0}
    /\ \A k \in 0 .. (2 * Width - 1) : 2 ^ (k + 1) = 2 * 2 ^ k
<1>1. \A k \in 0 .. 2 * Width : 2 ^ k \in Nat \ {0}
  BY PowersAssumption
<1>2. ASSUME NEW k \in 0 .. (2 * Width - 1) PROVE 2 ^ (k + 1) = 2 * 2 ^ k
  <2>1. k \in 0 .. 2 * Width
    BY WidthFacts
  <2> QED
    BY <2>1, PowersAssumption
<1>3. 2 ^ 0 = 1
  OBVIOUS
<1> QED
  BY <1>1, <1>2, <1>3

LEMMA HalfWord == \E h \in Nat \ {0} : Words = 2 * h /\ Words \div 2 = h
<1> DEFINE h == 2 ^ (Width - 1)
<1>1. Width - 1 \in 0 .. (2 * Width - 1) /\ Width - 1 \in 0 .. 2 * Width /\ (Width - 1) + 1 = Width
  BY WidthFacts
<1>2. h \in Nat \ {0} /\ 2 ^ ((Width - 1) + 1) = 2 * h
  BY <1>1, PowerFacts
<1>3. Words = 2 * h
  BY <1>1, <1>2 DEF Words
<1> HIDE DEF h
<1> QED
  BY <1>2, <1>3

LEMMA PatternBitType == ASSUME NEW k \in 0 .. 2 * Width PROVE PatternBit(k) \in {0, 1}
<1> DEFINE p == 2 ^ (2 * Width - k)
           q == Pattern \div p
<1>1. 2 * Width - k \in 0 .. 2 * Width
  BY WidthFacts
<1>2. p \in Nat \ {0}
  BY <1>1, PowerFacts
<1> HIDE DEF p
<1>3. q \in Nat
  BY <1>2, WidthFacts, DivModOf
<1> HIDE DEF q
<1>4. q % 2 \in {0, 1}
  BY <1>3
<1> QED
  BY <1>4 DEF PatternBit, q, p

LEMMA SentStart == SentSoFar(0) = 0
<1> DEFINE p == 2 ^ (2 * Width)
<1>0. 2 * Width \in 0 .. 2 * Width /\ 2 * Width - 0 = 2 * Width
  BY WidthFacts
<1>1. p \in Nat \ {0} /\ Pattern \in 0 .. (p - 1)
  BY <1>0, PowerFacts, WidthFacts
<1> HIDE DEF p
<1>2. Pattern = p * 0 + Pattern
  BY <1>1
<1>3. Pattern \div p = 0
  BY <1>1, <1>2, DivIs
<1> QED
  BY <1>0, <1>3 DEF SentSoFar, p

LEMMA SentWord == SentSoFar(Width) = Sent
<1>1. 2 * Width - Width = Width
  BY WidthFacts
<1> QED
  BY <1>1 DEF SentSoFar, Sent, Words

LEMMA SentNext ==
    ASSUME NEW k \in 0 .. (2 * Width - 1)
    PROVE  SentSoFar(k + 1) = 2 * SentSoFar(k) + PatternBit(k + 1)
<1> DEFINE j == 2 * Width - (k + 1)
           p == 2 ^ j
<1>1. j \in 0 .. (2 * Width - 1) /\ j \in 0 .. 2 * Width /\ j + 1 = 2 * Width - k
  BY WidthFacts
<1> HIDE DEF j
<1>2. p \in Nat \ {0} /\ 2 ^ (2 * Width - k) = 2 * p
  BY <1>1, PowerFacts
<1> HIDE DEF p
<1>3. Pattern \div p = 2 * (Pattern \div (2 * p)) + ((Pattern \div p) % 2)
  BY <1>2, WidthFacts, HalveDivisor
<1>4. SentSoFar(k + 1) = Pattern \div p /\ PatternBit(k + 1) = (Pattern \div p) % 2
  BY DEF SentSoFar, PatternBit, p, j
<1>5. SentSoFar(k) = Pattern \div (2 * p)
  BY <1>2 DEF SentSoFar
<1> QED
  BY <1>3, <1>4, <1>5, Zenon

LEMMA SentType ==
    ASSUME NEW k \in 0 .. 2 * Width
    PROVE  SentSoFar(k) \in Nat
<1> DEFINE p == 2 ^ (2 * Width - k)
<1>1. 2 * Width - k \in 0 .. 2 * Width
  BY WidthFacts
<1>2. p \in Nat \ {0}
  BY <1>1, PowerFacts
<1> HIDE DEF p
<1>3. Pattern \div p \in Nat
  BY <1>2, WidthFacts, DivModOf
<1> QED
  BY <1>3 DEF SentSoFar, p

\* Only the bits that are sent first are in a word.
LEMMA SentBound == Sent \in 0 .. (Words - 1)
<1> DEFINE S == {i \in Nat : i <= 2 * Width => SentSoFar(i) < 2 ^ i}
<1>1. 0 \in S
  BY SentStart, PowerFacts
<1>2. ASSUME NEW i \in S PROVE i + 1 \in S
  <2> SUFFICES ASSUME i + 1 <= 2 * Width PROVE SentSoFar(i + 1) < 2 ^ (i + 1)
    OBVIOUS
  <2>1. i \in 0 .. (2 * Width - 1) /\ i \in 0 .. 2 * Width /\ i + 1 \in 0 .. 2 * Width
    BY WidthFacts
  <2>2. SentSoFar(i) \in Nat /\ 2 ^ i \in Nat /\ SentSoFar(i) < 2 ^ i
    BY <2>1, SentType, PowerFacts
  <2>3. SentSoFar(i + 1) = 2 * SentSoFar(i) + PatternBit(i + 1) /\ 2 ^ (i + 1) = 2 * 2 ^ i
    BY <2>1, SentNext, PowerFacts
  <2>4. PatternBit(i + 1) \in {0, 1}
    BY <2>1, PatternBitType
  <2> QED
    BY <2>2, <2>3, <2>4
<1> HIDE DEF S
<1>3. S \in SUBSET Nat
  BY DEF S
<1>4. S = Nat
  BY <1>1, <1>2, <1>3, Induct
<1>5. Width \in 0 .. 2 * Width
  BY WidthFacts
<1>6. SentSoFar(Width) < 2 ^ Width /\ SentSoFar(Width) \in Nat /\ 2 ^ Width \in Nat
  BY <1>4, <1>5, SentType, PowerFacts DEF S
<1> QED
  BY <1>6, SentWord DEF Words

-----------------------------------------------------------------------------
LEMMA ShiftFacts ==
    ASSUME NEW s \in 0 .. (Words - 1), NEW k \in 0 .. 2 * Width
    PROVE  /\ s \div (Words \div 2) \in {0, 1} /\ ShiftedIn(s, k) \in 0 .. (Words - 1)
           /\ (s \div (Words \div 2)) * Words + ShiftedIn(s, k) = 2 * s + PatternBit(k)
<1>1. PICK h \in Nat \ {0} : Words = 2 * h /\ Words \div 2 = h
  BY HalfWord
<1>2. s \in 0 .. (2 * h - 1) /\ PatternBit(k) \in {0, 1}
  BY <1>1, PatternBitType
<1>3. /\ s \div h \in {0, 1} /\ (2 * s + PatternBit(k)) % (2 * h) \in 0 .. (2 * h - 1)
      /\ (s \div h) * (2 * h) + ((2 * s + PatternBit(k)) % (2 * h)) = 2 * s + PatternBit(k)
  BY <1>2, ShiftIn
<1> QED
  BY <1>1, <1>3, Zenon DEF ShiftedIn

\* Two numbers of one base, one more digit each.
LEMMA OneMoreDigit ==
    ASSUME NEW w \in Nat, NEW m \in Nat, NEW s \in Nat, NEW x \in {0, 1}, NEW y \in Nat,
           NEW d \in {0, 1}, NEW e \in Nat, NEW t \in Nat, NEW v \in Nat,
           m * w + s = e * v + t, x * w + y = 2 * s + d
    PROVE  (2 * m + x) * w + y = (2 * e) * v + (2 * t + d)
<1>1. (2 * m + x) * w = 2 * (m * w) + x * w /\ (2 * e) * v = 2 * (e * v)
  BY SMT
<1> DEFINE mw == m * w
           xw == x * w
           ev == e * v
           l == (2 * m + x) * w
           r == (2 * e) * v
<1>2. mw \in Nat /\ xw \in Nat /\ ev \in Nat
  OBVIOUS
<1>3. mw + s = ev + t /\ xw + y = 2 * s + d /\ l = 2 * mw + xw /\ r = 2 * ev
  BY <1>1
<1> HIDE DEF mw, xw, ev, l, r
<1>4. l + y = r + (2 * t + d)
  BY <1>2, <1>3
<1> QED
  BY <1>4 DEF l, r

LEMMA AppendFacts ==
    ASSUME NEW b \in Seq({0, 1}), NEW x \in {0, 1}
    PROVE  /\ Append(b, x) \in Seq({0, 1}) /\ Len(Append(b, x)) = Len(b) + 1
           /\ Len(b) \in Nat
           /\ SubSeq(b, 1, Len(b)) = b
  OBVIOUS

LEMMA FirstWordStep ==
    ASSUME NEW b \in Seq({0, 1}), Len(b) < Width, NEW s \in 0 .. (Words - 1),
           NEW w \in 0 .. (Words - 1), FirstWord(b, s, w)
    PROVE  FirstWord(Append(b, s \div (Words \div 2)), ShiftedIn(s, Len(b) + 1), w)
<1> DEFINE k == Len(b)
           x == s \div (Words \div 2)
           y == ShiftedIn(s, k + 1)
           c == Append(b, x)
<1>1. k \in 0 .. (2 * Width - 1) /\ k + 1 \in 0 .. 2 * Width /\ k \in 0 .. 2 * Width
  BY WidthFacts
<1>2. x \in {0, 1} /\ y \in 0 .. (Words - 1) /\ x * Words + y = 2 * s + PatternBit(k + 1)
  BY <1>1, ShiftFacts, Zenon
<1>3. c \in Seq({0, 1}) /\ Len(c) = k + 1
  BY <1>2, AppendFacts
<1>4. Number(c) = 2 * Number(b) + x
  BY <1>2, NumberAppend
<1>5. Number(b) \in Nat /\ Number(b) * Words + s = 2 ^ k * w + SentSoFar(k)
  BY WidthFacts DEF FirstWord
<1>6. /\ PatternBit(k + 1) \in {0, 1} /\ 2 ^ k \in Nat /\ SentSoFar(k) \in Nat
      /\ Words \in Nat /\ s \in Nat /\ y \in Nat /\ w \in Nat
  BY <1>1, <1>2, PatternBitType, PowerFacts, SentType, WordsAssumption
<1>7. 2 ^ (k + 1) = 2 * 2 ^ k /\ SentSoFar(k + 1) = 2 * SentSoFar(k) + PatternBit(k + 1)
  BY <1>1, PowerFacts, SentNext
<1> DEFINE m == Number(b)
           e == 2 ^ k
           t == SentSoFar(k)
           d == PatternBit(k + 1)
<1> HIDE DEF k, x, y, c, m, e, t, d
<1>8. (2 * m + x) * Words + y = (2 * e) * w + (2 * t + d)
  <2>1. m \in Nat /\ m * Words + s = e * w + t /\ x * Words + y = 2 * s + d
    BY <1>2, <1>5, Zenon DEF m, e, t, d
  <2>2. d \in {0, 1} /\ e \in Nat /\ t \in Nat
    BY <1>6, Zenon DEF d, e, t
  <2> QED
    BY <1>2, <1>6, <2>1, <2>2, OneMoreDigit
<1>9. Number(c) * Words + y = 2 ^ Len(c) * w + SentSoFar(Len(c))
  BY <1>3, <1>4, <1>7, <1>8, Zenon DEF m, e, t, d
<1>10. Number(c) \in Nat
  BY <1>2, <1>4, <1>5
<1>11. FirstWord(c, y, w)
  BY <1>9, <1>10, Zenon DEF FirstWord
<1> QED
  BY <1>11, Zenon DEF c, y, x, k

\* At the end of the first word the count has gone out and the pattern has come in.
LEMMA FirstWordEnd ==
    ASSUME NEW b \in Seq({0, 1}), Len(b) = Width, NEW s \in 0 .. (Words - 1),
           NEW w \in 0 .. (Words - 1), FirstWord(b, s, w)
    PROVE  SecondWord(b, s, w)
<1>1. Number(b) \in Nat /\ Number(b) * Words + s = Words * w + Sent
  BY SentWord, WidthFacts DEF FirstWord, Words
<1>2. /\ Sent \in 0 .. (Words - 1) /\ Words \in Nat /\ Words > 1
      /\ Number(b) * Words = Words * Number(b)
  BY <1>1, SentBound, WordsAssumption
<1>3. Number(b) = w /\ s = Sent
  BY <1>1, <1>2, SplitUnique
<1>4. SubSeq(b, 1, Width) = b
  BY AppendFacts
<1>5. Second(b) = <<>>
  BY WidthFacts DEF Second
<1>6. Len(b) - Width = 0 /\ 2 ^ 0 = 1
  BY WidthFacts, PowerFacts
<1>7. Number(Second(b)) = 0
  BY <1>5, NumberEmpty
<1>8. 0 * Words + s = 1 * Sent + 0 /\ 0 \in 0 .. (1 - 1) /\ 0 \in Nat
  BY <1>2, <1>3
<1>9. /\ Number(Second(b)) \in Nat /\ 0 \in 0 .. (2 ^ (Len(b) - Width) - 1)
      /\ Number(Second(b)) * Words + s = 2 ^ (Len(b) - Width) * Sent + 0
  BY <1>6, <1>7, <1>8, Zenon
<1> QED
  BY <1>3, <1>4, <1>9, Zenon DEF SecondWord

LEMMA SecondAppend ==
    ASSUME NEW b \in Seq({0, 1}), NEW x \in {0, 1}, Len(b) >= Width
    PROVE  /\ SubSeq(Append(b, x), 1, Width) = SubSeq(b, 1, Width)
           /\ Second(Append(b, x)) = Append(Second(b), x) /\ Second(b) \in Seq({0, 1})
<1> DEFINE n == Len(b)
           c == Append(b, x)
<1>1. n \in Nat /\ Len(c) = n + 1 /\ c[n + 1] = x /\ (\A i \in 1 .. n : c[i] = b[i]) /\ Width \in Nat
      /\ n >= Width /\ c \in Seq({0, 1})
  BY WidthFacts
<1>2. \A i \in 1 .. Width : c[i] = b[i]
  BY <1>1
<1>3. SubSeq(c, 1, Width) = [i \in 1 .. Width |-> c[i]] /\ SubSeq(b, 1, Width) = [i \in 1 .. Width |-> b[i]]
  BY <1>1
<1>4. SubSeq(c, 1, Width) = SubSeq(b, 1, Width)
  BY <1>2, <1>3, Zenon
<1>5. /\ Second(b) \in Seq({0, 1}) /\ Len(Second(b)) = n - Width
      /\ \A i \in 1 .. (n - Width) : Second(b)[i] = b[i + Width]
  BY <1>1 DEF Second
<1>6. /\ Second(c) \in Seq({0, 1}) /\ Len(Second(c)) = n + 1 - Width
      /\ \A i \in 1 .. (n + 1 - Width) : Second(c)[i] = c[i + Width]
  BY <1>1 DEF Second
<1> DEFINE q == Second(b)
           r == Second(c)
           z == Append(q, x)
<1>7. z \in Seq({0, 1}) /\ Len(z) = n - Width + 1 /\ z[n - Width + 1] = x
      /\ \A i \in 1 .. (n - Width) : z[i] = q[i]
  BY <1>1, <1>5
<1> HIDE DEF n, c, q, r, z
<1>8. ASSUME NEW i \in 1 .. (n + 1 - Width)
      PROVE  r[i] = z[i]
  <2>1. r[i] = c[i + Width]
    BY <1>6 DEF r
  <2>2. CASE i = n - Width + 1
    <3>1. i + Width = n + 1
      BY <2>2, <1>1
    <3> QED
      BY <2>1, <2>2, <3>1, <1>1, <1>7, Zenon
  <2>3. CASE i # n - Width + 1
    <3>1. i \in 1 .. (n - Width) /\ i + Width \in 1 .. n
      BY <2>3, <1>1
    <3>2. q[i] = b[i + Width]
      BY <3>1, <1>5 DEF q
    <3> QED
      BY <2>1, <3>1, <3>2, <1>1, <1>7, Zenon
  <2> QED
    BY <2>2, <2>3
<1>9. n + 1 - Width = n - Width + 1
  BY <1>1
<1>10. r = z
  <2>1. r = [i \in 1 .. (n + 1 - Width) |-> r[i]]
    BY <1>6 DEF r
  <2>2. z = [i \in 1 .. (n + 1 - Width) |-> z[i]]
    BY <1>7, <1>9
  <2> QED
    BY <1>8, <2>1, <2>2, Zenon
<1> QED
  BY <1>4, <1>5, <1>10, Zenon DEF c, q, r, z

LEMMA SecondWordStep ==
    ASSUME NEW b \in Seq({0, 1}), Len(b) >= Width, Len(b) < 2 * Width, NEW s \in 0 .. (Words - 1),
           NEW w \in 0 .. (Words - 1), SecondWord(b, s, w)
    PROVE  SecondWord(Append(b, s \div (Words \div 2)), ShiftedIn(s, Len(b) + 1), w)
<1> DEFINE k == Len(b)
           x == s \div (Words \div 2)
           y == ShiftedIn(s, k + 1)
           c == Append(b, x)
           j == k - Width
           m == Number(Second(b))
           d == PatternBit(k + 1)
<1>1. k \in 0 .. (2 * Width - 1) /\ k + 1 \in 0 .. 2 * Width /\ j \in 0 .. (2 * Width - 1) /\ j \in 0 .. 2 * Width
      /\ (k + 1) - Width = j + 1
  BY WidthFacts
<1>2. x \in {0, 1} /\ y \in 0 .. (Words - 1) /\ x * Words + y = 2 * s + d
  BY <1>1, ShiftFacts, Zenon
<1>3. c \in Seq({0, 1}) /\ Len(c) = k + 1
  BY <1>2, AppendFacts
<1>4. SubSeq(c, 1, Width) = SubSeq(b, 1, Width) /\ Second(c) = Append(Second(b), x) /\ Second(b) \in Seq({0, 1})
  BY <1>2, SecondAppend
<1>5. Number(Second(c)) = 2 * m + x
  BY <1>2, <1>4, NumberAppend
<1>6. Number(SubSeq(b, 1, Width)) = w /\ m \in Nat
  BY DEF SecondWord
<1>7. PICK r \in 0 .. (2 ^ j - 1) : m * Words + s = 2 ^ j * Sent + r
  BY DEF SecondWord
<1>8. /\ d \in {0, 1} /\ 2 ^ j \in Nat /\ Sent \in Nat /\ Words \in Nat /\ s \in Nat /\ y \in Nat
  BY <1>1, <1>2, PatternBitType, PowerFacts, SentBound, WordsAssumption
<1>9. 2 ^ (j + 1) = 2 * 2 ^ j
  BY <1>1, PowerFacts
<1> HIDE DEF k, x, y, c, j, m, d
<1>10. r \in Nat
  BY <1>7
<1>11. (2 * m + x) * Words + y = (2 * 2 ^ j) * Sent + (2 * r + d)
  BY <1>2, <1>6, <1>7, <1>8, <1>10, OneMoreDigit
<1>12. 2 * r + d \in 0 .. (2 ^ (j + 1) - 1)
  BY <1>7, <1>8, <1>9
<1>13. Number(Second(c)) \in Nat
  BY <1>2, <1>5, <1>6
<1>14. Len(c) - Width = j + 1
  BY <1>1, <1>3
<1>15. /\ Number(Second(c)) * Words + y = 2 ^ (Len(c) - Width) * Sent + (2 * r + d)
       /\ 2 * r + d \in 0 .. (2 ^ (Len(c) - Width) - 1)
  BY <1>5, <1>9, <1>11, <1>12, <1>14, Zenon
<1>16. Number(SubSeq(c, 1, Width)) = w
  BY <1>4, <1>6, Zenon
<1>17. SecondWord(c, y, w)
  BY <1>13, <1>15, <1>16, Zenon DEF SecondWord
<1> QED
  BY <1>17, Zenon DEF c, y, x, k

\* At the end of the second word the pattern's first word has gone out.
LEMMA SecondWordEnd ==
    ASSUME NEW b \in Seq({0, 1}), Len(b) = 2 * Width, NEW s \in 0 .. (Words - 1),
           NEW w \in 0 .. (Words - 1), SecondWord(b, s, w)
    PROVE  Number(SubSeq(b, Width + 1, 2 * Width)) = Sent
<1>1. Len(b) >= Width /\ Len(b) - Width = Width /\ Words \in Nat /\ Words > 1
  BY WidthFacts, WordsAssumption
<1>2. Number(Second(b)) \in Nat
  BY <1>1 DEF SecondWord
<1> DEFINE m == Number(Second(b))
<1>3. PICK r \in 0 .. (Words - 1) : m * Words + s = Words * Sent + r
  BY <1>1 DEF SecondWord, Words
<1> HIDE DEF m
<1>4. Sent \in 0 .. (Words - 1) /\ m \in Nat
  BY <1>2, SentBound DEF m
<1>5. m * Words = Words * m
  BY <1>1, <1>4
<1>6. m = Sent
  <2>1. Words * m + s = Words * Sent + r
    BY <1>3, <1>5
  <2> QED
    BY <1>1, <1>4, <2>1, SplitUnique
<1> QED
  BY <1>6 DEF Second, m

-----------------------------------------------------------------------------
\* A posedge moves the synchronisers one stage on.
LEMMA SpreadStep ==
    ASSUME NEW a \in {0, 1}, NEW b \in {0, 1}, NEW h \in Nat, NEW g \in Nat,
           g = IF h < Half THEN h + 1 ELSE h
    PROVE  <<b, Spread(a, b, h)[1], Spread(a, b, h)[2]>> = Spread(a, b, g)
<1>1. Spread(a, b, h)[1] = (IF h >= 1 THEN b ELSE a) /\ Spread(a, b, h)[2] = IF h >= 2 THEN b ELSE a
  BY DEF Spread
<1>2. (g >= 1) /\ (g >= 2 <=> h >= 1) /\ (g >= 3 <=> h >= 2)
  BY WidthFacts
<1> QED
  BY <1>1, <1>2 DEF Spread

\* When the edges of the host have come through.
LEMMA Edges ==
    ASSUME ReadTypes, LinesOK
    PROVE  /\ CsnDown <=> csn = 0 /\ Got = 0 /\ hold = 2
           /\ ClkDown <=> csn = 0 /\ Got > 0 /\ sclk = 0 /\ hold = 2
           /\ ClkUp <=> csn = 0 /\ Got > 0 /\ sclk = 1 /\ hold = 2
<1>0. hold \in Nat /\ csn \in {0, 1} /\ sclk \in {0, 1} /\ Got \in Nat
  BY WidthFacts DEF ReadTypes, Got
<1>1. ASSUME NEW a \in {0, 1}, NEW b \in {0, 1}
      PROVE  /\ Spread(a, b, hold)[3] = (IF hold >= 3 THEN b ELSE a)
             /\ Spread(a, b, hold)[2] = (IF hold >= 2 THEN b ELSE a)
  BY DEF Spread
<1>2. CASE csn = 1
  <2>1. clkSync[2] = 0 /\ clkSync[3] = 0
    BY <1>2 DEF LinesOK
  <2>2. csnSync = Spread(0, 1, hold)
    BY <1>2 DEF LinesOK
  <2>3. csnSync[3] = (IF hold >= 3 THEN 1 ELSE 0) /\ csnSync[2] = (IF hold >= 2 THEN 1 ELSE 0)
    BY <1>1, <2>2
  <2> QED
    BY <1>0, <1>2, <2>1, <2>3 DEF CsnDown, ClkDown, ClkUp
<1>3. CASE csn = 0 /\ Got = 0
  <2>1. clkSync[2] = 0 /\ clkSync[3] = 0
    BY <1>3 DEF LinesOK
  <2>2. csnSync = Spread(1, 0, hold)
    BY <1>3 DEF LinesOK
  <2>3. csnSync[3] = (IF hold >= 3 THEN 0 ELSE 1) /\ csnSync[2] = (IF hold >= 2 THEN 0 ELSE 1)
    BY <1>1, <2>2
  <2> QED
    BY <1>0, <1>3, <2>1, <2>3 DEF CsnDown, ClkDown, ClkUp
<1>4. CASE csn = 0 /\ Got > 0
  <2>1. csnSync[2] = 0 /\ csnSync[3] = 0
    BY <1>4 DEF LinesOK
  <2>2. clkSync = Spread(1 - sclk, sclk, hold) /\ 1 - sclk \in {0, 1}
    BY <1>0, <1>4 DEF LinesOK
  <2>3. clkSync[3] = (IF hold >= 3 THEN sclk ELSE 1 - sclk) /\ clkSync[2] = (IF hold >= 2 THEN sclk ELSE 1 - sclk)
    BY <1>0, <1>1, <2>2
  <2>4. ~CsnDown
    BY <2>1 DEF CsnDown
  <2>5. ClkDown <=> sclk = 0 /\ hold = 2
    BY <1>0, <2>3 DEF ClkDown
  <2>6. ClkUp <=> sclk = 1 /\ hold = 2
    BY <1>0, <2>3 DEF ClkUp
  <2> QED
    BY <1>0, <1>4, <2>4, <2>5, <2>6
<1> QED
  BY <1>0, <1>2, <1>3, <1>4

-----------------------------------------------------------------------------
LEMMA ReadInitial == Init => ReadInv
<1> SUFFICES ASSUME Init PROVE ReadInv
  OBVIOUS
<1>1. /\ sclk = 0 /\ mosi = 0 /\ csn = 1 /\ shift = 0 /\ mosiSmp = 0
      /\ clkSync = <<0, 0, 0>> /\ csnSync = <<0, 0, 0>> /\ pulseCnt = 0
      /\ hold = 0 /\ bits = <<>> /\ counted = 0 /\ word = 0 /\ given = 0
  BY DEF Init
<1>2. Got = 0 /\ bits \in Seq({0, 1}) /\ Words \in Nat /\ Words > 1
  BY <1>1, WordsAssumption DEF Got
<1>3. ReadTypes
  BY <1>1, <1>2, WidthFacts DEF ReadTypes
<1>4. LinesOK
  <2>1. csnSync = Spread(0, 1, hold)
    BY <1>1 DEF Spread
  <2> QED
    BY <1>1, <2>1 DEF LinesOK
<1>5. MosiOK /\ DataOK
  BY <1>1 DEF MosiOK, DataOK
<1>6. AccountOK
  BY <1>1, <1>2 DEF AccountOK
<1>7. EchoIsSent
  BY <1>2, WidthFacts DEF EchoIsSent, Got
<1> QED
  BY <1>3, <1>4, <1>5, <1>6, <1>7 DEF ReadInv

LEMMA PosedgeReads == ReadInv /\ Posedge => ReadInv'
<1> SUFFICES ASSUME ReadInv, Posedge PROVE ReadInv'
  OBVIOUS
<1>0. ReadTypes /\ LinesOK /\ MosiOK /\ DataOK /\ AccountOK /\ EchoIsSent
  BY DEF ReadInv
<1>t. /\ csn \in {0, 1} /\ sclk \in {0, 1} /\ mosi \in {0, 1} /\ mosiSmp \in {0, 1}
      /\ bits \in Seq({0, 1}) /\ Got \in Nat /\ Got <= 2 * Width /\ hold \in 0 .. Half /\ hold \in Nat
      /\ shift \in 0 .. (Words - 1) /\ pulseCnt \in 0 .. (Words - 1) /\ word \in 0 .. (Words - 1)
      /\ given \in 0 .. (Words - 1) /\ counted \in 0 .. (Words - 1)
      /\ Words \in Nat /\ Words > 1 /\ Half >= 3 /\ Half \in Nat
  BY <1>0, WidthFacts, WordsAssumption DEF ReadTypes, Got
<1>u. csn' = csn /\ sclk' = sclk /\ mosi' = mosi /\ bits' = bits /\ given' = given
  BY DEF Posedge, spiLines
<1>g. Got' = Got
  BY <1>u DEF Got
<1>h. hold' = IF hold < Half THEN hold + 1 ELSE hold
  BY DEF Posedge
<1>s. /\ clkSync' = <<sclk, clkSync[1], clkSync[2]>> /\ csnSync' = <<csn, csnSync[1], csnSync[2]>>
      /\ mosiSmp' = IF ClkUp THEN mosi ELSE mosiSmp
      /\ shift' = IF CsnDown THEN pulseCnt ELSE IF ClkDown THEN (2 * shift + mosiSmp) % Words ELSE shift
  BY DEF Posedge, SpiPosedge, BitIn
<1>c. /\ pulseCnt' = IF CsnDown THEN One(Pulse) ELSE (pulseCnt + One(Pulse)) % Words
      /\ word' = IF CsnDown THEN pulseCnt ELSE word
      /\ counted' = (counted + One(Pulse)) % Words
  BY DEF Posedge, Restart
<1>e. /\ CsnDown <=> csn = 0 /\ Got = 0 /\ hold = 2
      /\ ClkDown <=> csn = 0 /\ Got > 0 /\ sclk = 0 /\ hold = 2
      /\ ClkUp <=> csn = 0 /\ Got > 0 /\ sclk = 1 /\ hold = 2
  BY <1>0, Edges
<1>o. One(Pulse) \in {0, 1}
  BY OneType
<1>k. Got \in 0 .. 2 * Width
  BY <1>t, WidthFacts
<1>b. PatternBit(Got) \in {0, 1}
  BY <1>k, PatternBitType
<1>i. ShiftedIn(shift, Got) \in 0 .. (Words - 1)
  BY <1>t, <1>k, ShiftFacts
<1>j. hold' \in 0 .. Half /\ hold' \in Nat
  BY <1>t, <1>h
\* The bit in the sampling flip-flop is the one that is due.
<1>d. ClkDown => (2 * shift + mosiSmp) % Words = ShiftedIn(shift, Got)
  <2>1. ClkDown => mosiSmp = PatternBit(Got)
    BY <1>0, <1>e, <1>t DEF MosiOK
  <2> QED
    BY <2>1, Zenon DEF ShiftedIn
<1>1. ReadTypes'
  <2>1. shift' \in 0 .. (Words - 1)
    BY <1>t, <1>s, <1>d, <1>i, Zenon
  <2>2. mosiSmp' \in {0, 1}
    BY <1>t, <1>s
  <2>3. pulseCnt' \in 0 .. (Words - 1) /\ counted' \in 0 .. (Words - 1)
    <3>1. One(Pulse) \in 0 .. (Words - 1)
      BY <1>o, <1>t
    <3>2. (pulseCnt + One(Pulse)) % Words \in 0 .. (Words - 1)
      BY <1>o, <1>t, CountNextType
    <3>3. (counted + One(Pulse)) % Words \in 0 .. (Words - 1)
      BY <1>o, <1>t, CountNextType
    <3> QED
      BY <1>c, <3>1, <3>2, <3>3, Zenon
  <2>4. word' \in 0 .. (Words - 1)
    BY <1>t, <1>c
  <2>5. {shift, pulseCnt, word, given, counted}' \subseteq 0 .. (Words - 1)
    BY <2>1, <2>3, <2>4, <1>t, <1>u
  <2> QED
    BY <2>2, <2>5, <1>t, <1>u, <1>g, <1>j DEF ReadTypes
<1>2. LinesOK'
  <2>1. ASSUME csn = 1 PROVE sclk' = 0 /\ clkSync' = <<0, 0, 0>> /\ csnSync' = Spread(0, 1, hold')
    <3>1. sclk = 0 /\ clkSync = <<0, 0, 0>> /\ csnSync = Spread(0, 1, hold)
      BY <1>0, <2>1 DEF LinesOK
    <3>2. csnSync' = <<1, Spread(0, 1, hold)[1], Spread(0, 1, hold)[2]>>
      BY <1>s, <2>1, <3>1, Zenon
    <3>3. csnSync' = Spread(0, 1, hold')
      BY <1>t, <1>h, <1>j, <3>2, SpreadStep
    <3> QED
      BY <1>u, <1>s, <3>1, <3>3
  <2>2. ASSUME csn = 0, Got = 0 PROVE sclk' = 0 /\ clkSync' = <<0, 0, 0>> /\ csnSync' = Spread(1, 0, hold')
    <3>1. sclk = 0 /\ clkSync = <<0, 0, 0>> /\ csnSync = Spread(1, 0, hold)
      BY <1>0, <2>2 DEF LinesOK
    <3>2. csnSync' = <<0, Spread(1, 0, hold)[1], Spread(1, 0, hold)[2]>>
      BY <1>s, <2>2, <3>1, Zenon
    <3>3. csnSync' = Spread(1, 0, hold')
      BY <1>t, <1>h, <1>j, <3>2, SpreadStep
    <3> QED
      BY <1>u, <1>s, <3>1, <3>3
  <2>3. ASSUME csn = 0, Got > 0 PROVE csnSync' = <<0, 0, 0>> /\ clkSync' = Spread(1 - sclk, sclk, hold')
    <3>1. csnSync = <<0, 0, 0>> /\ clkSync = Spread(1 - sclk, sclk, hold) /\ 1 - sclk \in {0, 1}
      BY <1>0, <1>t, <2>3 DEF LinesOK
    <3>2. clkSync' = <<sclk, Spread(1 - sclk, sclk, hold)[1], Spread(1 - sclk, sclk, hold)[2]>>
      BY <1>s, <3>1, Zenon
    <3>3. clkSync' = Spread(1 - sclk, sclk, hold')
      BY <1>t, <1>h, <1>j, <3>1, <3>2, SpreadStep
    <3> QED
      BY <2>3, <1>s, <3>1, <3>3
  <2> QED
    BY <2>1, <2>2, <2>3, <1>u, <1>g, Zenon DEF LinesOK
<1>3. MosiOK'
  <2> SUFFICES ASSUME csn = 0
               PROVE  /\ sclk = 0 /\ Got < 2 * Width => mosi = PatternBit(Got + 1)
                      /\ Got > 0 =>
                            /\ sclk = 1 => mosi = PatternBit(Got)
                            /\ (sclk = 1 /\ hold' >= 3) \/ (sclk = 0 /\ hold' < 3) => mosiSmp' = PatternBit(Got)
    BY <1>u, <1>g, Zenon DEF MosiOK
  <2>1. /\ sclk = 0 /\ Got < 2 * Width => mosi = PatternBit(Got + 1)
        /\ Got > 0 =>
              /\ sclk = 1 => mosi = PatternBit(Got)
              /\ (sclk = 1 /\ hold >= 3) \/ (sclk = 0 /\ hold < 3) => mosiSmp = PatternBit(Got)
    BY <1>0 DEF MosiOK
  <2> QED
    BY <2>1, <1>s, <1>e, <1>h, <1>t
<1>4. DataOK'
  <2> SUFFICES ASSUME csn = 0, ~Loading'
               PROVE  FirstWord(bits, Settled', word') /\ SecondWord(bits, Settled', word')
    BY <1>u, Zenon DEF DataOK
  <2>1. CASE CsnDown
    <3>1. Got = 0 /\ word' = pulseCnt /\ shift' = pulseCnt
      BY <2>1, <1>c, <1>s, <1>e
    <3>2. Settled' = pulseCnt
      BY <3>1, <1>g DEF Settled, Pending
    <3>3. bits = <<>> /\ Len(bits) = 0
      BY <3>1, <1>t DEF Got
    <3>4. Number(bits) = 0
      BY <3>3, NumberEmpty
    <3>5. 0 * Words + pulseCnt = 1 * pulseCnt + 0 /\ 0 \in Nat
      BY <1>t
    <3>6. Number(bits) * Words + pulseCnt = 2 ^ Len(bits) * pulseCnt + SentSoFar(Len(bits))
      BY <3>3, <3>4, <3>5, SentStart, PowerFacts, Zenon
    <3>7. FirstWord(bits, pulseCnt, pulseCnt)
      BY <3>4, <3>5, <3>6, Zenon DEF FirstWord
    <3>8. ~(Len(bits) >= Width)
      BY <3>3, WidthFacts
    <3>9. SecondWord(bits, pulseCnt, pulseCnt)
      BY <3>8, Zenon DEF SecondWord
    <3> QED
      BY <3>1, <3>2, <3>7, <3>9, Zenon
  <2>2. CASE ~CsnDown
    <3>1. word' = word
      BY <2>2, <1>c
    <3>2. ~Loading
      BY <2>2, <1>u, <1>g, <1>h, <1>t, <1>e DEF Loading
    <3>3. Settled' = Settled
      <4>1. CASE ClkDown
        <5>1. Pending /\ ~Pending'
          BY <4>1, <1>e, <1>h, <1>t, <1>u, <1>g DEF Pending
        <5>2. shift' = ShiftedIn(shift, Got)
          BY <2>2, <4>1, <1>s, <1>d, Zenon
        <5>3. Settled = ShiftedIn(shift, Got) /\ Settled' = shift'
          BY <5>1, Zenon DEF Settled
        <5> QED
          BY <5>2, <5>3, Zenon
      <4>2. CASE ~ClkDown
        <5>1. Pending' <=> Pending
          BY <4>2, <1>e, <1>h, <1>t, <1>u, <1>g DEF Pending
        <5>2. shift' = shift
          BY <2>2, <4>2, <1>s
        <5> QED
          BY <5>1, <5>2, <1>g, Zenon DEF Settled
      <4> QED
        BY <4>1, <4>2
    <3>4. FirstWord(bits, Settled, word) /\ SecondWord(bits, Settled, word)
      BY <1>0, <3>2, Zenon DEF DataOK
    <3> QED
      BY <3>1, <3>3, <3>4, Zenon
  <2> QED
    BY <2>1, <2>2
<1>5. AccountOK'
  <2> DEFINE p == One(Pulse)
             a == given + pulseCnt
             b == given + word + pulseCnt
  <2>0. Words \in Nat \ {0} /\ p \in Nat /\ a \in Nat /\ b \in Nat /\ given + word \in Nat /\ pulseCnt + p \in Nat
    BY <1>t, <1>o
  <2>1. CASE CsnDown
    <3>1. Loading /\ csn = 0 /\ ~Loading'
      BY <2>1, <1>e, <1>h, <1>t, <1>u, <1>g DEF Loading
    <3>2. a % Words = counted
      BY <1>0, <3>1, Zenon DEF AccountOK
    <3>3. ((a % Words) + p) % Words = (a + p) % Words
      BY <2>0, AddModulo
    <3>4. given' + word' + pulseCnt' = a + p
      <4>1. given' = given /\ word' = pulseCnt /\ pulseCnt' = p
        BY <2>1, <1>c, <1>u
      <4> QED
        BY <4>1
    <3>5. (given' + word' + pulseCnt') % Words = counted'
      BY <3>2, <3>3, <3>4, <1>c, Zenon
    <3>6. csn' # 1
      BY <3>1, <1>u
    <3> QED
      BY <3>1, <3>5, <3>6, Zenon DEF AccountOK
  <2>2. CASE ~CsnDown
    <3>1. Loading' <=> Loading
      BY <2>2, <1>e, <1>h, <1>t, <1>u, <1>g DEF Loading
    <3>2. pulseCnt' = (pulseCnt + p) % Words /\ word' = word /\ counted' = (counted + p) % Words
      BY <2>2, <1>c
    <3>3. ASSUME NEW x \in Nat
          PROVE  (x + ((pulseCnt + p) % Words)) % Words = (((x + pulseCnt) % Words) + p) % Words
      <4> DEFINE q == pulseCnt + p
                 r == q % Words
                 y == x + pulseCnt
      <4>0. q \in Nat /\ y \in Nat
        BY <2>0, <1>t
      <4> HIDE DEF q, y
      <4>1. r \in Nat
        BY <2>0, <4>0
      <4> HIDE DEF r
      <4>2. (r + x) % Words = (q + x) % Words
        BY <2>0, <4>0, AddModulo DEF r
      <4>3. ((y % Words) + p) % Words = (y + p) % Words
        BY <2>0, <4>0, AddModulo
      <4>4. q + x = y + p /\ x + r = r + x
        BY <2>0, <4>0, <4>1, <1>t DEF q, y
      <4> HIDE DEF p
      <4>5. (x + r) % Words = ((y % Words) + p) % Words
        BY <4>2, <4>3, <4>4, Zenon
      <4> QED
        BY <4>5, Zenon DEF q, r, y
    <3>4. (given + pulseCnt') % Words = ((a % Words) + p) % Words
      BY <3>2, <3>3, <1>t
    <3>5. ((given + word) + pulseCnt') % Words = ((((given + word) + pulseCnt) % Words) + p) % Words
      BY <2>0, <3>2, <3>3, Zenon
    <3>6. CASE csn = 1 \/ Loading
      <4>1. a % Words = counted
        BY <1>0, <3>6, Zenon DEF AccountOK
      <4>2. (given' + pulseCnt') % Words = counted'
        BY <4>1, <3>2, <3>4, <1>u, Zenon
      <4> QED
        BY <3>1, <3>6, <4>2, <1>u, Zenon DEF AccountOK
    <3>7. CASE ~(csn = 1 \/ Loading)
      <4>1. b % Words = counted
        BY <1>0, <3>7, Zenon DEF AccountOK
      <4>2. (given' + word' + pulseCnt') % Words = counted'
        BY <4>1, <3>2, <3>5, <1>u, Zenon
      <4> QED
        BY <3>1, <3>7, <4>2, <1>u, Zenon DEF AccountOK
    <3> QED
      BY <3>6, <3>7
  <2> QED
    BY <2>1, <2>2
<1>6. EchoIsSent'
  BY <1>0, <1>u DEF EchoIsSent, Echo
<1> QED
  BY <1>1, <1>2, <1>3, <1>4, <1>5, <1>6 DEF ReadInv

-----------------------------------------------------------------------------
\* What the host finds when it moves its lines: the synchronisers have settled.
LEMMA HostFacts ==
    ASSUME ReadInv, HostStep
    PROVE  /\ hold = Half /\ hold' = 0 /\ Half >= 3
           /\ shift' = shift /\ mosiSmp' = mosiSmp /\ clkSync' = clkSync /\ csnSync' = csnSync
           /\ pulseCnt' = pulseCnt /\ counted' = counted /\ word' = word
           /\ \A a \in {0, 1}, b \in {0, 1} : Spread(a, b, hold) = Spread(b, a, 0)
<1>1. hold = Half /\ hold' = 0 /\ Half >= 3
  BY WidthFacts DEF HostStep
<1>2. /\ shift' = shift /\ mosiSmp' = mosiSmp /\ clkSync' = clkSync /\ csnSync' = csnSync
      /\ pulseCnt' = pulseCnt /\ counted' = counted /\ word' = word
  BY DEF HostStep, spiRegs
<1>3. ASSUME NEW a \in {0, 1}, NEW b \in {0, 1} PROVE Spread(a, b, hold) = Spread(b, a, 0)
  BY <1>1, WidthFacts DEF Spread
<1> QED
  BY <1>1, <1>2, <1>3

LEMMA SelectReads == ReadInv /\ Select => ReadInv'
<1> SUFFICES ASSUME ReadInv, Select PROVE ReadInv'
  OBVIOUS
<1>0. ReadTypes /\ LinesOK /\ AccountOK /\ EchoIsSent
  BY DEF ReadInv
<1>1. csn = 1 /\ csn' = 0 /\ mosi' = PatternBit(1) /\ bits' = <<>> /\ sclk' = sclk /\ given' = given
  BY DEF Select
<1>2. /\ hold = Half /\ hold' = 0 /\ Half >= 3
      /\ shift' = shift /\ mosiSmp' = mosiSmp /\ clkSync' = clkSync /\ csnSync' = csnSync
      /\ pulseCnt' = pulseCnt /\ counted' = counted /\ word' = word
      /\ \A a \in {0, 1}, b \in {0, 1} : Spread(a, b, hold) = Spread(b, a, 0)
  BY HostFacts DEF Select
<1>3. Got' = 0 /\ bits' \in Seq({0, 1})
  BY <1>1 DEF Got
<1>4. sclk = 0 /\ clkSync = <<0, 0, 0>> /\ csnSync = Spread(0, 1, hold)
  BY <1>0, <1>1 DEF LinesOK
<1>5. ReadTypes'
  <2>1. PatternBit(1) \in {0, 1}
    BY WidthFacts, PatternBitType
  <2> QED
    BY <1>0, <1>1, <1>2, <1>3, <2>1, WidthFacts DEF ReadTypes
<1>6. LinesOK'
  <2>1. csnSync' = Spread(1, 0, 0)
    BY <1>2, <1>4
  <2> QED
    BY <1>1, <1>2, <1>3, <1>4, <2>1 DEF LinesOK
<1>7. MosiOK'
  BY <1>1, <1>3, <1>4 DEF MosiOK
<1>8. Loading' /\ DataOK'
  BY <1>1, <1>2, <1>3 DEF Loading, DataOK
<1>9. AccountOK'
  BY <1>0, <1>1, <1>2, <1>8, Zenon DEF AccountOK
<1>10. EchoIsSent'
  BY <1>3, WidthFacts DEF EchoIsSent, Got
<1> QED
  BY <1>5, <1>6, <1>7, <1>8, <1>9, <1>10 DEF ReadInv

LEMMA ClockUpReads == ReadInv /\ ClockUp => ReadInv'
<1> SUFFICES ASSUME ReadInv, ClockUp PROVE ReadInv'
  OBVIOUS
<1>0. ReadTypes /\ LinesOK /\ MosiOK /\ DataOK /\ AccountOK
  BY DEF ReadInv
<1>1. /\ csn = 0 /\ sclk = 0 /\ Got < 2 * Width
      /\ sclk' = 1 /\ bits' = Append(bits, shift \div (Words \div 2))
      /\ mosi' = mosi /\ csn' = csn /\ given' = given
  BY DEF ClockUp, Got, Miso
<1>2. /\ hold = Half /\ hold' = 0 /\ Half >= 3
      /\ shift' = shift /\ mosiSmp' = mosiSmp /\ clkSync' = clkSync /\ csnSync' = csnSync
      /\ pulseCnt' = pulseCnt /\ counted' = counted /\ word' = word
      /\ \A a \in {0, 1}, b \in {0, 1} : Spread(a, b, hold) = Spread(b, a, 0)
  BY HostFacts DEF ClockUp
<1>t. /\ bits \in Seq({0, 1}) /\ Got \in Nat /\ shift \in 0 .. (Words - 1) /\ word \in 0 .. (Words - 1)
      /\ Len(bits) = Got
  BY <1>0 DEF ReadTypes, Got
<1>3. /\ shift \div (Words \div 2) \in {0, 1} /\ ShiftedIn(shift, Got + 1) \in 0 .. (Words - 1)
  <2>1. Got + 1 \in 0 .. 2 * Width
    BY <1>t, <1>1, WidthFacts
  <2> QED
    BY <1>t, <2>1, ShiftFacts
<1>4. bits' \in Seq({0, 1}) /\ Got' = Got + 1 /\ Got' > 0 /\ Got' <= 2 * Width
  <2>1. bits' \in Seq({0, 1}) /\ Got' = Got + 1
    BY <1>1, <1>3, <1>t, AppendFacts DEF Got
  <2> QED
    BY <2>1, <1>t, <1>1, WidthFacts
<1>5. ReadTypes'
  BY <1>0, <1>1, <1>2, <1>4, WidthFacts DEF ReadTypes
<1>6. LinesOK'
  <2>1. csnSync' = <<0, 0, 0>> /\ clkSync' = Spread(0, 1, 0)
    <3>1. CASE Got = 0
      <4>1. clkSync = <<0, 0, 0>> /\ csnSync = Spread(1, 0, hold)
        BY <1>0, <1>1, <3>1 DEF LinesOK
      <4>2. Spread(1, 0, hold) = <<0, 0, 0>> /\ Spread(0, 1, 0) = <<0, 0, 0>>
        BY <1>2 DEF Spread
      <4> QED
        BY <1>2, <4>1, <4>2
    <3>2. CASE Got > 0
      <4>1. csnSync = <<0, 0, 0>> /\ clkSync = Spread(1 - sclk, sclk, hold)
        BY <1>0, <1>1, <3>2 DEF LinesOK
      <4>2. clkSync = Spread(1, 0, hold)
        BY <1>1, <4>1
      <4> QED
        BY <1>2, <4>1, <4>2
    <3> QED
      BY <3>1, <3>2, <1>t
  <2>2. 1 - sclk' = 0
    BY <1>1
  <2> QED
    BY <1>1, <1>2, <1>4, <2>1, <2>2 DEF LinesOK
<1>7. MosiOK'
  <2>1. mosi = PatternBit(Got + 1)
    BY <1>0, <1>1 DEF MosiOK
  <2> QED
    BY <1>1, <1>2, <1>4, <2>1 DEF MosiOK
<1>8. ~Loading /\ ~Loading'
  BY <1>1, <1>2, <1>4, WidthFacts DEF Loading
<1>9. /\ FirstWord(bits', ShiftedIn(shift, Got + 1), word)
      /\ SecondWord(bits', ShiftedIn(shift, Got + 1), word)
  <2>1. Settled = shift
    BY <1>1, <1>2, WidthFacts DEF Settled, Pending
  <2>2. FirstWord(bits, shift, word) /\ SecondWord(bits, shift, word)
    BY <1>0, <1>1, <1>8, <2>1 DEF DataOK
  <2>3. CASE Got < Width
    <3>1. FirstWord(bits', ShiftedIn(shift, Got + 1), word)
      BY <1>1, <1>t, <2>2, <2>3, FirstWordStep
    <3>2. CASE Got + 1 = Width
      <4>1. Len(bits') = Width
        BY <1>4, <3>2 DEF Got
      <4> QED
        BY <1>3, <1>4, <1>t, <3>1, <4>1, FirstWordEnd
    <3>3. CASE Got + 1 # Width
      <4>1. ~(Len(bits') >= Width)
        BY <1>4, <1>t, <2>3, <3>3, WidthFacts DEF Got
      <4> QED
        BY <3>1, <4>1 DEF SecondWord
    <3> QED
      BY <3>2, <3>3
  <2>4. CASE Got >= Width
    <3>1. SecondWord(bits', ShiftedIn(shift, Got + 1), word)
      BY <1>1, <1>t, <2>2, <2>4, SecondWordStep
    <3>2. ~(Len(bits') <= Width)
      BY <1>4, <1>t, <2>4, WidthFacts DEF Got
    <3> QED
      BY <3>1, <3>2 DEF FirstWord
  <2> QED
    BY <2>3, <2>4, <1>t, WidthFacts
<1>10. DataOK'
  <2>1. Settled' = ShiftedIn(shift, Got + 1)
    <3>1. Pending'
      BY <1>1, <1>4 DEF Pending
    <3>2. Settled' = ShiftedIn(shift', Got')
      BY <3>1, Zenon DEF Settled
    <3> QED
      BY <3>2, <1>2, <1>4, Zenon
  <2> QED
    BY <1>2, <1>9, <2>1, Zenon DEF DataOK
<1>11. AccountOK'
  BY <1>0, <1>1, <1>2, <1>8, Zenon DEF AccountOK
<1>12. EchoIsSent'
  <2> SUFFICES ASSUME Len(bits') = 2 * Width PROVE Echo' = Sent
    BY DEF EchoIsSent
  <2>1. Number(SubSeq(bits', Width + 1, 2 * Width)) = Sent
    BY <1>3, <1>4, <1>t, <1>9, SecondWordEnd
  <2> QED
    BY <2>1 DEF Echo
<1> QED
  BY <1>5, <1>6, <1>7, <1>10, <1>11, <1>12 DEF ReadInv

LEMMA ClockDownReads == ReadInv /\ ClockDown => ReadInv'
<1> SUFFICES ASSUME ReadInv, ClockDown PROVE ReadInv'
  OBVIOUS
<1>0. ReadTypes /\ LinesOK /\ MosiOK /\ DataOK /\ AccountOK /\ EchoIsSent
  BY DEF ReadInv
<1>1. /\ sclk = 1 /\ sclk' = 0 /\ csn' = csn /\ bits' = bits /\ given' = given
      /\ mosi' = IF Got < 2 * Width THEN PatternBit(Got + 1) ELSE mosi
  BY DEF ClockDown, Got
<1>2. /\ hold = Half /\ hold' = 0 /\ Half >= 3
      /\ shift' = shift /\ mosiSmp' = mosiSmp /\ clkSync' = clkSync /\ csnSync' = csnSync
      /\ pulseCnt' = pulseCnt /\ counted' = counted /\ word' = word
      /\ \A a \in {0, 1}, b \in {0, 1} : Spread(a, b, hold) = Spread(b, a, 0)
  BY HostFacts DEF ClockDown
<1>t. /\ bits \in Seq({0, 1}) /\ Got \in Nat /\ csn \in {0, 1} /\ mosi \in {0, 1}
  BY <1>0 DEF ReadTypes, Got
<1>3. csn = 0 /\ Got > 0
  BY <1>0, <1>1, <1>t DEF LinesOK
<1>g. Got' = Got
  BY <1>1 DEF Got
<1>5. ReadTypes'
  <2>1. Got < 2 * Width => PatternBit(Got + 1) \in {0, 1}
    <3>1. Got < 2 * Width => Got + 1 \in 0 .. 2 * Width
      BY <1>t, WidthFacts
    <3> QED
      BY <3>1, PatternBitType
  <2>2. mosi' \in {0, 1}
    BY <1>1, <1>t, <2>1
  <2> QED
    BY <1>0, <1>1, <1>2, <1>g, <2>2, WidthFacts DEF ReadTypes
<1>6. LinesOK'
  <2>1. csnSync = <<0, 0, 0>> /\ clkSync = Spread(1 - sclk, sclk, hold)
    BY <1>0, <1>3 DEF LinesOK
  <2>2. clkSync = Spread(0, 1, hold)
    BY <1>1, <2>1
  <2>3. clkSync' = Spread(1, 0, 0) /\ 1 - sclk' = 1
    BY <1>1, <1>2, <2>2
  <2> QED
    BY <1>1, <1>2, <1>3, <1>g, <2>1, <2>3 DEF LinesOK
<1>7. MosiOK'
  <2>1. mosiSmp = PatternBit(Got)
    BY <1>0, <1>1, <1>2, <1>3 DEF MosiOK
  <2> QED
    BY <1>1, <1>2, <1>3, <1>g, <2>1 DEF MosiOK
<1>8. ~Loading /\ ~Loading'
  BY <1>1, <1>2, <1>3, <1>g DEF Loading
<1>9. Settled' = Settled
  <2>1. Pending /\ Pending'
    BY <1>1, <1>2, <1>3, <1>g DEF Pending
  <2>2. Settled = ShiftedIn(shift, Got) /\ Settled' = ShiftedIn(shift', Got')
    BY <2>1, Zenon DEF Settled
  <2> QED
    BY <2>2, <1>2, <1>g, Zenon
<1>10. DataOK'
  <2>1. FirstWord(bits, Settled, word) /\ SecondWord(bits, Settled, word)
    BY <1>0, <1>3, <1>8, Zenon DEF DataOK
  <2> QED
    BY <1>1, <1>2, <1>9, <2>1, Zenon DEF DataOK
<1>11. AccountOK'
  BY <1>0, <1>1, <1>2, <1>8, Zenon DEF AccountOK
<1>12. EchoIsSent'
  BY <1>0, <1>1 DEF EchoIsSent, Echo
<1> QED
  BY <1>5, <1>6, <1>7, <1>10, <1>11, <1>12 DEF ReadInv

LEMMA DeselectReads == ReadInv /\ Deselect => ReadInv'
<1> SUFFICES ASSUME ReadInv, Deselect PROVE ReadInv'
  OBVIOUS
<1>0. ReadTypes /\ LinesOK /\ DataOK /\ AccountOK /\ EchoIsSent
  BY DEF ReadInv
<1>1. /\ csn = 0 /\ sclk = 0 /\ Got = 2 * Width /\ Got > 0 /\ Len(bits) = Got /\ Len(bits) >= Width
      /\ csn' = 1 /\ given' = (given + Count) % Words
      /\ sclk' = sclk /\ mosi' = mosi /\ bits' = bits
  BY WidthFacts DEF Deselect, Got
<1>2. /\ hold = Half /\ hold' = 0 /\ Half >= 3
      /\ shift' = shift /\ mosiSmp' = mosiSmp /\ clkSync' = clkSync /\ csnSync' = csnSync
      /\ pulseCnt' = pulseCnt /\ counted' = counted /\ word' = word
      /\ \A a \in {0, 1}, b \in {0, 1} : Spread(a, b, hold) = Spread(b, a, 0)
  BY HostFacts DEF Deselect
<1>t. /\ Words \in Nat \ {0} /\ word \in Nat /\ given \in Nat /\ pulseCnt \in Nat
  BY <1>0, WordsAssumption DEF ReadTypes
<1>3. ~Loading
  BY <1>1 DEF Loading
<1>4. Count = word
  BY <1>0, <1>1, <1>3 DEF DataOK, SecondWord, Count
<1>5. ReadTypes'
  <2>1. given + word \in Nat
    BY <1>t
  <2>2. given' \in 0 .. (Words - 1)
    BY <1>1, <1>4, <1>t, <2>1, DivModOf
  <2> QED
    BY <1>0, <1>1, <1>2, <2>2, WidthFacts DEF ReadTypes, Got
<1>6. LinesOK'
  <2>1. csnSync = <<0, 0, 0>> /\ clkSync = Spread(1 - sclk, sclk, hold)
    BY <1>0, <1>1 DEF LinesOK
  <2>2. clkSync = Spread(1, 0, hold)
    BY <1>1, <2>1
  <2>3. Spread(1, 0, hold) = <<0, 0, 0>> /\ Spread(0, 1, 0) = <<0, 0, 0>>
    BY <1>2 DEF Spread
  <2> QED
    BY <1>1, <1>2, <2>1, <2>2, <2>3 DEF LinesOK
<1>7. MosiOK' /\ DataOK'
  BY <1>1 DEF MosiOK, DataOK
<1>8. AccountOK'
  <2>1. (given + word + pulseCnt) % Words = counted
    BY <1>0, <1>1, <1>3 DEF AccountOK
  <2>2. given + word \in Nat
    BY <1>t
  <2>3. (((given + word) % Words) + pulseCnt) % Words = (given + word + pulseCnt) % Words
    BY <1>t, <2>2, AddModulo
  <2>4. given' = (given + word) % Words
    BY <1>1, <1>4
  <2> QED
    BY <1>1, <1>2, <2>1, <2>3, <2>4, Zenon DEF AccountOK
<1>9. EchoIsSent'
  BY <1>0, <1>1 DEF EchoIsSent, Echo
<1> QED
  BY <1>5, <1>6, <1>7, <1>8, <1>9 DEF ReadInv

LEMMA ReadStep == ReadInv /\ [Next]_vars => ReadInv'
<1> SUFFICES ASSUME ReadInv, [Next]_vars PROVE ReadInv'
  OBVIOUS
<1>1. CASE UNCHANGED vars
  <2>1. /\ UNCHANGED <<csn, sclk, mosi, mosiSmp, clkSync, csnSync, shift, bits, hold>>
        /\ UNCHANGED <<pulseCnt, word, given, counted>>
    BY <1>1 DEF vars, spiLines, spiRegs, hostVars
  <2>2. ReadTypes' /\ LinesOK' /\ MosiOK'
    BY <2>1 DEF ReadInv, ReadTypes, LinesOK, MosiOK, Got
  <2>3. DataOK' /\ AccountOK' /\ EchoIsSent'
    BY <2>1, Zenon DEF ReadInv, DataOK, AccountOK, EchoIsSent, Echo, Loading, Settled, Pending, Got
  <2> QED
    BY <2>2, <2>3 DEF ReadInv
<1> QED
  BY <1>1, PosedgeReads, SelectReads, ClockUpReads, ClockDownReads, DeselectReads DEF Next

\* Whatever moment of a transaction a pulse comes at, and however far apart the
\* host's edges are beyond three clocks: no pulse is lost or counted twice, and the
\* second word read is the first word sent, for every width and every pattern.
THEOREM ReadsAreTrueAlways == Spec => []ReadsAreTrue
<1>1. Spec => []ReadInv
  BY ReadInitial, ReadStep, PTL DEF Spec
<1>2. ReadInv => ReadsAreTrue
  BY Zenon DEF ReadInv, AccountOK, ReadsAreTrue, NoPulseLost
<1> QED
  BY <1>1, <1>2, PTL

=============================================================================
