--------------------------- MODULE H26xStreamProofs ---------------------------
(***************************************************************************)
(* Proofs about H26xStream: every push sends whole runs of fragments, and  *)
(* what the receiver puts together from them is a unit that was pushed.    *)
(*                                                                         *)
(* First numbers and the scan for start codes; then the sender, one lemma  *)
(* per function, up to PushFrameSends; the receiver's table; pushes whose  *)
(* packets keep their order (Ordered) and pushes with one unit in          *)
(* fragments, whose packets may come in any order (AnyOrder); at last the  *)
(* invariant of the stream, StreamInv.                                     *)
(***************************************************************************)
EXTENDS H26xStream, FiniteSetTheorems, SequenceTheorems, WellFoundedInduction,
        TLAPS

\* The sizes are positive.
LEMMA SpaceIs == SeqSpace \in Nat \ {0} /\ PayloadSize \in Nat \ {0}
  BY SenderAssumption

-----------------------------------------------------------------------------
(***************************************************************************)
(* Natural numbers and sequences.                                          *)
(***************************************************************************)

\* A function on 1 .. n into X is a sequence over X of length n.
LEMMA MakesSeq ==
    ASSUME NEW n \in Nat, NEW f, NEW X, f = [i \in 1 .. n |-> f[i]], \A i \in 1 .. n : f[i] \in X
    PROVE  f \in Seq(X) /\ Len(f) = n
<1>1. f \in Seq(X)
  BY SMT
<1>2. DOMAIN f = 1 .. n
  OBVIOUS
<1>3. DOMAIN f = 1 .. Len(f) /\ Len(f) \in Nat
  BY <1>1
<1> QED
  BY <1>1, <1>2, <1>3

\* A non-empty set of naturals has a least element.
LEMMA LeastNat ==
    ASSUME NEW S \in SUBSET Nat, S # {}
    PROVE  \E n \in S : \A m \in S : n <= m
<1>1. IsWellFoundedOn(OpToRel(<, Nat), Nat)
  BY NatLessThanWellFounded
<1>2. PICK n \in S : \A m \in S : ~ (<<m, n>> \in OpToRel(<, Nat))
  BY <1>1, WFMin
<1>3. OpToRel(<, Nat) = {p \in Nat \X Nat : p[1] < p[2]}
  BY DEF OpToRel
<1>4. \A m \in S : ~ (m < n)
  BY <1>2, <1>3
<1> QED
  BY <1>4

\* Induction up to a bound, for a set of numbers.
LEMMA UpTo ==
    ASSUME NEW N \in Nat, NEW S, 0 \in S, \A n \in 0 .. N - 1 : n \in S => n + 1 \in S
    PROVE  \A n \in 0 .. N : n \in S
<1> DEFINE T == {n \in 0 .. N : n \notin S}
<1> SUFFICES ASSUME T # {} PROVE FALSE
  OBVIOUS
<1>1. T \in SUBSET Nat
  OBVIOUS
<1>2. PICK n \in T : \A m \in T : n <= m
  <2> HIDE DEF T
  <2> QED BY <1>1, LeastNat
<1>3. n \in 0 .. N /\ n # 0 /\ n \notin S
  BY <1>2
<1>4. n - 1 \in 0 .. N - 1
  BY <1>3
<1>5. n - 1 \in S
  BY <1>2, <1>3, <1>4
<1>6. (n - 1) + 1 \in S
  BY <1>4, <1>5
<1> QED
  BY <1>3, <1>6

\* Induction down from a bound: what holds of all greater numbers passes to the next.
LEMMA DownFrom ==
    ASSUME NEW N \in Nat, NEW S,
           \A n \in 0 .. N : (\A m \in 0 .. N : n < m => m \in S) => n \in S
    PROVE  \A n \in 0 .. N : n \in S
<1> DEFINE T == {k \in 0 .. N : N - k \notin S}
<1>1. T \in SUBSET Nat
  OBVIOUS
<1>2. ASSUME T # {} PROVE FALSE
  <2>1. PICK k \in T : \A m \in T : k <= m
    <3> HIDE DEF T
    <3> QED BY <1>1, <1>2, LeastNat
  <2>2. N - k \in 0 .. N /\ N - k \notin S
    BY <2>1
  <2>3. PICK m \in 0 .. N : N - k < m /\ m \notin S
    BY <2>2
  <2>4. N - m \in T /\ N - m < k
    <3>1. N - m \in 0 .. N /\ N - (N - m) = m
      BY <2>3
    <3> QED BY <3>1, <2>1, <2>3
  <2> QED BY <2>1, <2>4
<1>3. ASSUME NEW n \in 0 .. N PROVE n \in S
  <2>1. N - n \in 0 .. N /\ N - (N - n) = n
    OBVIOUS
  <2>2. n \notin S => N - n \in T
    BY <2>1
  <2> HIDE DEF T
  <2> QED BY <1>2, <2>2
<1> QED BY <1>3

-----------------------------------------------------------------------------
(***************************************************************************)
(* The scan for start codes goes forward, and so does the cut of a frame.  *)
(***************************************************************************)

Found == [step : 1 .. 4, len : {3, 4}]

\* What one step of the scan for a start code says.
LEMMA HitIs ==
    ASSUME NEW prev, NEW w
    PROVE  Hit(prev, w) = NoHit \/ Hit(prev, w) \in Found
<1>1. FindH26xStart(prev, w) = NoHit \/ FindH26xStart(prev, w) \in Found
  BY DEF FindH26xStart, Found
<1>2. AcrossWords(prev, w) = NoHit \/ AcrossWords(prev, w) \in Found
  BY DEF AcrossWords, Found
<1> QED
  BY <1>1, <1>2 DEF Hit

\* find_h26x_start_code: where the next start code is, or that there is none.
LEMMA FindIs ==
    ASSUME NEW d, Len(d) \in Nat, NEW o \in 0 .. Len(d)
    PROVE  \/ FindStartCode(d, o) = NotFound
           \/ /\ FindStartCode(d, o) \in [offset : o + 1 .. Len(d) - 1, len : {3, 4}]
              /\ FindStartCode(d, o) # NotFound
<1> DEFINE prev(i) == IF i = o THEN NoZeros ELSE Word(d, i - 4)
           hits == {i \in o .. Len(d) : /\ (i - o) % 4 = 0 /\ i + 8 < Len(d)
                                        /\ Hit(prev(i), Word(d, i)) # NoHit}
           i == Min(hits)
           h == Hit(prev(i), Word(d, i))
<1>1. FindStartCode(d, o) = IF hits = {} THEN NotFound ELSE [offset |-> i + h.step, len |-> h.len]
  BY DEF FindStartCode
<1>2. ASSUME hits # {} PROVE i \in hits
  <2>1. hits \in SUBSET Nat
    OBVIOUS
  <2> HIDE DEF hits
  <2>2. PICK n \in hits : \A m \in hits : n <= m
    BY <1>2, <2>1, LeastNat
  <2> QED BY <2>2 DEF Min
<1>3. ASSUME hits # {} PROVE i \in o .. Len(d) /\ i + 8 < Len(d) /\ h \in Found
  <2>1. i \in o .. Len(d) /\ i + 8 < Len(d) /\ Hit(prev(i), Word(d, i)) # NoHit
    BY <1>2, <1>3
  <2>2. h = NoHit \/ h \in Found
    BY HitIs
  <2> QED BY <2>1, <2>2
<1> HIDE DEF hits, i, h
<1>4. ASSUME hits # {} PROVE i + h.step \in o + 1 .. Len(d) - 1 /\ h.len \in {3, 4}
  BY <1>3, <1>4 DEF Found
<1> QED
  BY <1>1, <1>4 DEF NotFound

CutUnits == [from : Nat, to : Int]

\* The function CutFrame is defined by exists.
RestOf(d, m, g) ==
    g = [o \in m .. Len(d) |->
            IF FindStartCode(d, o) = NotFound THEN <<[from |-> o, to |-> Len(d)]>>
            ELSE <<[from |-> o, to |-> FindStartCode(d, o).offset - FindStartCode(d, o).len]>>
                    \o g[FindStartCode(d, o).offset]]

\* The recursion of the scan has a value at every byte.
LEMMA RestExists ==
    ASSUME NEW d, Len(d) \in Nat
    PROVE  \E g : RestOf(d, 0, g)
<1> DEFINE N == Len(d)
           S == {m \in 0 .. N : \E g : RestOf(d, m, g)}
           c(o) == FindStartCode(d, o)
           V(o, g) == IF c(o) = NotFound THEN <<[from |-> o, to |-> N]>>
                      ELSE <<[from |-> o, to |-> c(o).offset - c(o).len]>> \o g[c(o).offset]
<1>1. \A o \in 0 .. N : c(o) # NotFound => c(o).offset \in o + 1 .. N
  BY FindIs
<1>2. ASSUME NEW n \in 0 .. N, \A m \in 0 .. N : n < m => m \in S
      PROVE  n \in S
  <2>1. PICK g : n < N => RestOf(d, n + 1, g)
    <3>1. CASE n < N
      <4>1. n + 1 \in 0 .. N /\ n < n + 1
        BY <3>1
      <4>2. n + 1 \in S
        BY <4>1, <1>2
      <4> QED BY <4>2
    <3>2. CASE ~ (n < N)
      BY <3>2
    <3> QED BY <3>1, <3>2
  <2> DEFINE h == [o \in n .. N |-> IF o = n THEN V(n, g) ELSE g[o]]
  <2>2. ASSUME NEW o \in n .. N PROVE h[o] = V(o, h)
    <3>1. c(o) # NotFound => c(o).offset \in o + 1 .. N
      BY <1>1
    <3>2. c(o) # NotFound => h[c(o).offset] = g[c(o).offset]
      BY <3>1
    <3>3. o # n => g[o] = V(o, g)
      <4> SUFFICES ASSUME o # n PROVE g[o] = V(o, g)
        OBVIOUS
      <4>1. n < N /\ o \in n + 1 .. N
        OBVIOUS
      <4>2. g = [x \in n + 1 .. N |-> V(x, g)]
        BY <2>1, <4>1 DEF RestOf
      <4> HIDE DEF V
      <4> QED BY <4>1, <4>2
    <3> QED BY <3>2, <3>3
  <2>3. h = [o \in n .. N |-> V(o, h)]
    <3> DEFINE k == [o \in n .. N |-> V(o, h)]
    <3>1. \A o \in n .. N : h[o] = k[o]
      BY <2>2
    <3> QED BY <3>1
  <2>4. RestOf(d, n, h)
    BY <2>3 DEF RestOf
  <2> QED BY <2>4
<1> HIDE DEF S
<1>3. \A n \in 0 .. N : n \in S
  BY <1>2, DownFrom
<1> QED
  BY <1>3 DEF S

\* One unit after the other, each inside the frame.
Forward(q, d, o) ==
    /\ q \in Seq(CutUnits) /\ q # <<>> /\ q[1].from = o
    /\ \A i \in 1 .. Len(q) : q[i].from \in o .. Len(d) - 1
    /\ \A i, j \in 1 .. Len(q) : i < j => q[i].from < q[j].from

LEMMA ForwardCons ==
    ASSUME NEW d, Len(d) \in Nat, NEW o \in Nat, NEW to \in Int, NEW p \in o + 1 .. Len(d) - 1,
           NEW q, Forward(q, d, p)
    PROVE  Forward(<<[from |-> o, to |-> to]>> \o q, d, o)
<1> DEFINE x == [from |-> o, to |-> to]
           r == <<x>> \o q
<1>1. x \in CutUnits /\ q \in Seq(CutUnits)
  BY DEF CutUnits, Forward
<1>2. r \in Seq(CutUnits) /\ Len(r) = Len(q) + 1
  BY <1>1
<1>3. r[1] = x /\ \A i \in 2 .. Len(r) : i - 1 \in 1 .. Len(q) /\ r[i] = q[i - 1]
  BY <1>1
<1>4. \A i \in 1 .. Len(q) : q[i].from \in p .. Len(d) - 1
  BY DEF Forward
<1>5. \A i, j \in 1 .. Len(q) : i < j => q[i].from < q[j].from
  BY DEF Forward
<1>6. x.from = o
  OBVIOUS
<1>7. Len(q) \in Nat
  BY <1>1
<1> HIDE DEF r, x
<1>8. ASSUME NEW i \in 1 .. Len(r) PROVE r[i].from \in o .. Len(d) - 1
  <2>1. CASE i = 1
    BY <2>1, <1>3, <1>6
  <2>2. CASE i # 1
    <3>1. i - 1 \in 1 .. Len(q) /\ r[i] = q[i - 1]
      BY <2>2, <1>2, <1>3, <1>7
    <3>2. q[i - 1].from \in p .. Len(d) - 1
      BY <3>1, <1>4
    <3> QED BY <3>1, <3>2
  <2> QED BY <2>1, <2>2
<1>9. ASSUME NEW i \in 1 .. Len(r), NEW j \in 1 .. Len(r), i < j PROVE r[i].from < r[j].from
  <2>1. j - 1 \in 1 .. Len(q) /\ r[j] = q[j - 1]
    BY <1>2, <1>3, <1>7, <1>9
  <2>2. q[j - 1].from \in p .. Len(d) - 1
    BY <2>1, <1>4
  <2>3. CASE i = 1
    BY <2>1, <2>2, <2>3, <1>3, <1>6
  <2>4. CASE i # 1
    <3>1. i - 1 \in 1 .. Len(q) /\ r[i] = q[i - 1] /\ i - 1 < j - 1
      BY <2>4, <1>2, <1>3, <1>7, <1>9
    <3> QED BY <3>1, <2>1, <1>5
  <2> QED BY <2>3, <2>4
<1>10. r # <<>>
  BY <1>2, <1>7
<1> QED
  BY <1>2, <1>3, <1>6, <1>8, <1>9, <1>10 DEF Forward, r, x

LEMMA CutFrameIs ==
    ASSUME NEW d, Len(d) \in Nat \ {0}
    PROVE  \E o \in 0 .. Len(d) - 1 : Forward(CutFrame(d), d, o)
<1> DEFINE N == Len(d)
           c(o) == FindStartCode(d, o)
           rest == CHOOSE g : RestOf(d, 0, g)
           S == {o \in 0 .. N : o < N => Forward(rest[o], d, o)}
<1>1. CutFrame(d) = rest[c(0).offset]
  BY DEF CutFrame, RestOf
<1>2. RestOf(d, 0, rest)
  BY RestExists
<1> HIDE DEF rest
<1>3. \A o \in 0 .. N : rest[o] = IF c(o) = NotFound THEN <<[from |-> o, to |-> N]>>
                      ELSE <<[from |-> o, to |-> c(o).offset - c(o).len]>> \o rest[c(o).offset]
  BY <1>2 DEF RestOf
<1>4. \A o \in 0 .. N : c(o) # NotFound => c(o).offset \in o + 1 .. N - 1 /\ c(o).len \in {3, 4}
  BY FindIs
<1>5. ASSUME NEW o \in 0 .. N, \A m \in 0 .. N : o < m => m \in S
      PROVE  o \in S
  <2> SUFFICES ASSUME o < N PROVE Forward(rest[o], d, o)
    OBVIOUS
  <2>1. CASE c(o) = NotFound
    <3>1. rest[o] = <<[from |-> o, to |-> N]>>
      BY <1>3, <2>1
    <3>2. [from |-> o, to |-> N] \in CutUnits
      BY DEF CutUnits
    <3> DEFINE x == [from |-> o, to |-> N]
    <3>3. x.from = o
      OBVIOUS
    <3> HIDE DEF x
    <3>4. <<x>> \in Seq(CutUnits) /\ Len(<<x>>) = 1 /\ <<x>>[1] = x /\ <<x>> # <<>>
      BY <3>2 DEF x
    <3>5. \A i \in 1 .. 1 : <<x>>[i].from \in o .. N - 1
      BY <3>3, <3>4
    <3> QED BY <3>1, <3>3, <3>4, <3>5 DEF Forward, x
  <2>2. CASE c(o) # NotFound
    <3>1. c(o).offset \in o + 1 .. N - 1 /\ c(o).len \in {3, 4}
      BY <1>4, <2>2
    <3>2. Forward(rest[c(o).offset], d, c(o).offset)
      BY <1>5, <3>1
    <3>3. rest[o] = <<[from |-> o, to |-> c(o).offset - c(o).len]>> \o rest[c(o).offset]
      BY <1>3, <2>2
    <3>4. c(o).offset - c(o).len \in Int
      BY <3>1
    <3> DEFINE p == c(o).offset
               to == p - c(o).len
    <3>5. p \in o + 1 .. Len(d) - 1 /\ to \in Int /\ Forward(rest[p], d, p) /\ o \in Nat
      BY <3>1, <3>2, <3>4
    <3> HIDE DEF p, to
    <3>6. Forward(<<[from |-> o, to |-> to]>> \o rest[p], d, o)
      BY <3>5, ForwardCons
    <3> QED BY <3>3, <3>6 DEF p, to
  <2> QED BY <2>1, <2>2
<1>6. \A o \in 0 .. N : o \in S
  <2> HIDE DEF S
  <2> QED BY <1>5, DownFrom
<1>7. c(0).offset \in 0 .. N - 1
  <2>1. CASE c(0) = NotFound
    BY <2>1 DEF NotFound
  <2>2. CASE c(0) # NotFound
    BY <2>2, <1>4
  <2> QED BY <2>1, <2>2
<1>8. Forward(rest[c(0).offset], d, c(0).offset)
  BY <1>6, <1>7
<1> QED
  BY <1>1, <1>7, <1>8

\* The units of a frame, in order.
LEMMA CutIs ==
    ASSUME NEW k \in DOMAIN Frames
    PROVE  /\ Frames[k] \in Seq(Nat) /\ Len(Frames[k]) >= 8
           /\ \E o \in 0 .. Len(Frames[k]) - 1 : Forward(Cut[k], Frames[k], o)
<1>1. Frames \in Seq(Seq(Nat)) /\ Frames[k] \in Seq(Nat) /\ Len(Frames[k]) >= 8
  BY SenderAssumption
<1>2. \E o \in 0 .. Len(Frames[k]) - 1 : Forward(CutFrame(Frames[k]), Frames[k], o)
  <2>1. Len(Frames[k]) \in Nat \ {0}
    BY <1>1
  <2> QED BY <2>1, CutFrameIs
<1> DEFINE f == [x \in DOMAIN Frames |-> CutFrame(Frames[x])]
           X == {CutFrame(Frames[x]) : x \in DOMAIN Frames}
<1>3. DOMAIN Frames = 1 .. Len(Frames) /\ Len(Frames) \in Nat
  BY <1>1
<1>4. f \in Seq(X)
  BY <1>3
<1>5. <<>> \o f = f
  <2> HIDE DEF f, X
  <2> QED BY <1>4
<1>6. Cut[k] = CutFrame(Frames[k])
  BY <1>5 DEF Cut
<1> QED
  BY <1>1, <1>2, <1>6

\* The remainder below twice the divisor.
LEMMA ModValue ==
    ASSUME NEW n \in Nat \ {0}, NEW a \in Nat
    PROVE  a % n \in 0 .. n - 1 /\ (a < n => a % n = a) /\ (a >= n /\ a < 2 * n => a % n = a - n)
<1>1. a \div n \in Int /\ a % n \in 0 .. n - 1 /\ a = n * (a \div n) + (a % n)
  BY SMTT(30)
<1> DEFINE q == a \div n
           r == a % n
<1>2. q \in Int /\ r \in 0 .. n - 1 /\ a = n * q + r
  BY <1>1
<1> HIDE DEF q, r
<1>3. q <= -1 => n * q <= -n
  BY <1>2
<1>4. q >= 2 => n * q >= 2 * n
  BY <1>2
<1>5. q = 0 => a = r
  BY <1>2
<1>6. q = 1 => a = n + r
  BY <1>2
<1>7. q >= 1 => n * q >= n
  BY <1>2
<1> QED
  BY <1>2, <1>3, <1>4, <1>5, <1>6, <1>7 DEF q, r

\* The remainder of the successor.
LEMMA ModNext ==
    ASSUME NEW n \in Nat \ {0}, NEW a \in Nat
    PROVE  ((a % n) + 1) % n = (a + 1) % n
<1>1. a \div n \in Int /\ a % n \in 0 .. n - 1 /\ a = n * (a \div n) + (a % n)
  BY SMTT(30)
<1>2. (a + 1) \div n \in Int /\ (a + 1) % n \in 0 .. n - 1 /\ a + 1 = n * ((a + 1) \div n) + ((a + 1) % n)
  <2>1. \A c \in Nat : c \div n \in Int /\ c % n \in 0 .. n - 1 /\ c = n * (c \div n) + (c % n)
    BY SMTT(30)
  <2> QED BY <2>1
<1> DEFINE q == a \div n
           r == a % n
           p == (a + 1) \div n
           x == (a + 1) % n
<1>3. q \in Int /\ r \in 0 .. n - 1 /\ a = n * q + r /\ p \in Int /\ x \in 0 .. n - 1 /\ a + 1 = n * p + x
  BY <1>1, <1>2
<1> HIDE DEF q, r, p, x
<1>4. n * p + x = n * q + r + 1
  BY <1>3
<1>5. n * (p - q) = r + 1 - x
  <2>1. n * (p - q) = n * p - n * q
    BY <1>3
  <2> QED BY <2>1, <1>3, <1>4
<1>6. p - q <= -1 => n * (p - q) <= -n
  BY <1>3
<1>7. p - q >= 2 => n * (p - q) >= 2 * n
  BY <1>3
<1>8. p - q = 0 \/ p - q = 1
  BY <1>3, <1>5, <1>6, <1>7
<1>9. CASE p - q = 0
  <2>1. x = r + 1
    BY <1>9, <1>5, <1>3
  <2>2. (r + 1) % n = r + 1
    <3>1. r + 1 \in Nat /\ r + 1 < n
      BY <2>1, <1>3
    <3> QED BY <3>1, ModValue
  <2> QED BY <2>1, <2>2 DEF r, x
<1>10. CASE p - q = 1
  <2>1. x = r + 1 - n
    BY <1>10, <1>5, <1>3
  <2>2. r + 1 = n
    BY <2>1, <1>3
  <2>3. (r + 1) % n = 0
    BY <2>2, ModValue
  <2> QED BY <2>1, <2>2, <2>3 DEF r, x
<1> QED
  BY <1>8, <1>9, <1>10

\* A function defined by recursion on numbers up to a bound exists.
Iterates(f, N, X, x0, step) ==
    f \in [0 .. N -> X] /\ f[0] = x0 /\ \A n \in 1 .. N : f[n] = step[n][f[n - 1]]

LEMMA Recursion ==
    ASSUME NEW N \in Nat, NEW X, NEW x0 \in X, NEW step \in [1 .. N -> [X -> X]]
    PROVE  \E f : Iterates(f, N, X, x0, step)
<1> DEFINE Is(f, m) == /\ f \in [0 .. m -> X] /\ f[0] = x0
                       /\ \A n \in 1 .. m : f[n] = step[n][f[n - 1]]
           S == {m \in 0 .. N : \E f : Is(f, m)}
<1>1. 0 \in S
  <2> DEFINE g == [n \in 0 .. 0 |-> x0]
  <2>2. g \in [0 .. 0 -> X] /\ g[0] = x0
    OBVIOUS
  <2>3. \A n \in 1 .. 0 : g[n] = step[n][g[n - 1]]
    <3>1. 1 .. 0 = {}
      OBVIOUS
    <3> HIDE DEF g
    <3> QED BY <3>1
  <2>1. Is(g, 0)
    <3> HIDE DEF g
    <3> QED BY <2>2, <2>3
  <2>4. 0 \in 0 .. N
    OBVIOUS
  <2> HIDE DEF g, Is
  <2> QED BY <2>1, <2>4
<1>2. ASSUME NEW m \in 0 .. N - 1, m \in S PROVE m + 1 \in S
  <2>1. PICK f : Is(f, m)
    BY <1>2
  <2> DEFINE y == step[m + 1][f[m]]
             g == [n \in 0 .. m + 1 |-> IF n = m + 1 THEN y ELSE f[n]]
  <2>2. y \in X
    <3>1. f[m] \in X /\ m + 1 \in 1 .. N
      BY <2>1
    <3>2. step[m + 1] \in [X -> X]
      BY <3>1
    <3> QED BY <3>1, <3>2
  <2>3. \A n \in 0 .. m : f[n] \in X
    BY <2>1
  <2> HIDE DEF y
  <2>4. g \in [0 .. m + 1 -> X]
    BY <2>2, <2>3
  <2>5. g[0] = x0
    BY <2>1
  <2>6. ASSUME NEW n \in 1 .. m + 1 PROVE g[n] = step[n][g[n - 1]]
    <3>1. n - 1 \in 0 .. m /\ g[n - 1] = f[n - 1]
      BY <2>6
    <3>2. CASE n = m + 1
      <4>1. n - 1 = m /\ g[n] = y
        BY <3>2
      <4> QED BY <3>1, <3>2, <4>1 DEF y
    <3>3. CASE n # m + 1
      <4>1. n \in 1 .. m /\ g[n] = f[n]
        BY <3>3
      <4>2. f[n] = step[n][f[n - 1]]
        BY <4>1, <2>1
      <4> HIDE DEF g
      <4> QED BY <4>1, <4>2, <3>1
    <3> QED BY <3>2, <3>3
  <2>7. Is(g, m + 1)
    <3> HIDE DEF g
    <3> QED BY <2>4, <2>5, <2>6
  <2>8. m + 1 \in 0 .. N
    OBVIOUS
  <2> HIDE DEF Is, g
  <2> QED BY <2>7, <2>8
<1>3. N \in S
  <2> HIDE DEF S
  <2>1. \A n \in 0 .. N : n \in S
    BY <1>1, <1>2, UpTo
  <2> QED BY <2>1
<1> QED
  BY <1>3 DEF Iterates

-----------------------------------------------------------------------------
(***************************************************************************)
(* The sender's state.                                                     *)
(***************************************************************************)

NalUnits == [ts : Nat, type : Nat, from : Nat, to : Int, frags : Nat]
Loads == [kind : {"single", "aggregate", "spoilt", "fragment"}, units : Seq(NalUnits), part : Nat]
Numbers == 0 .. SeqSpace - 1
Headers == [seq : Numbers, ts : Nat]
Wires == [seq : Numbers, ts : Nat, load : Loads]
Queue == [h : Nat, load : Loads]
Returns == {"RTP_OK", "RTP_INVALID_VALUE", "RTP_NOT_READY", "crash"}

Senders ==
    [fmt : Formats, seq : Numbers, open : BOOLEAN, packets : Seq(Queue), headers : Seq(Headers),
     used : Nat, queued : BOOLEAN, nalus : Seq(NalUnits), made : BOOLEAN, out : Seq(Wires),
     ret : Returns]

\* A fragment of a unit of push t.
Own(p, t) == p.load.kind = "fragment" /\ p.load.units[1].ts = t

UnitOf(p) == p.load.units[1]
NextNumber(n) == (n + 1) % SeqSpace

\* The fragments of push t in a sequence of packets: one unit after the other,
\* each whole, in order, with consecutive numbers, and no unit twice.
Runs(q, t) ==
    /\ \A i \in DOMAIN q : Own(q[i], t) =>
          LET u == UnitOf(q[i])
              k == q[i].load.part
          IN  /\ q[i].ts = t
              /\ k < u.frags => /\ i + 1 \in DOMAIN q
                                /\ q[i + 1] = [seq |-> NextNumber(q[i].seq), ts |-> t, load |-> Part(u, k + 1)]
              /\ k > 1 => i - 1 \in DOMAIN q /\ q[i - 1].load = Part(u, k - 1)
    /\ \A i, j \in DOMAIN q : Own(q[i], t) /\ Own(q[j], t) /\ q[i].load = q[j].load => i = j

\* The same of packets in the transaction.
QueuedRuns(q, t) ==
    /\ \A i \in DOMAIN q : Own(q[i], t) =>
          LET u == UnitOf(q[i])
              k == q[i].load.part
          IN  /\ k < u.frags => i + 1 \in DOMAIN q /\ q[i + 1] = [h |-> q[i].h + 1, load |-> Part(u, k + 1)]
              /\ k > 1 => i - 1 \in DOMAIN q /\ q[i - 1].load = Part(u, k - 1)
    /\ \A i, j \in DOMAIN q : Own(q[i], t) /\ Own(q[j], t) /\ q[i].load = q[j].load => i = j

FragmentOK(l) ==
    l.kind = "fragment" =>
        /\ l = Part(l.units[1], l.part)
        /\ l.units[1].frags >= 2 /\ l.part \in 1 .. l.units[1].frags

\* In push t, which began with number b, and of whose units those before byte f
\* are done.
HeadersIn(s, t, b) ==
    /\ s.used <= Len(s.headers) /\ s.seq = (b + s.used) % SeqSpace
    /\ \A i \in DOMAIN s.headers : s.headers[i].ts \in 1 .. t
    /\ \A i \in 1 .. s.used : s.headers[i] = [seq |-> (b + (i - 1)) % SeqSpace, ts |-> t]

PacketsIn(s, t, f) ==
    \A i \in DOMAIN s.packets :
        LET p == s.packets[i] IN
        /\ p.h \in 1 .. Len(s.headers) /\ FragmentOK(p.load)
        /\ p.load.kind = "fragment" => UnitOf(p).ts <= t
        /\ Own(p, t) => p.h <= s.used /\ UnitOf(p).from < f

OutIn(s, t) ==
    /\ s.out # <<>> => ~s.open
    /\ \A i \in DOMAIN s.out : FragmentOK(s.out[i].load) /\ s.out[i].ts \in 1 .. t
    /\ Runs(s.out, t)

Pushing(s, t, b, f) ==
    /\ s \in Senders /\ HeadersIn(s, t, b) /\ PacketsIn(s, t, f)
    /\ QueuedRuns(s.packets, t) /\ OutIn(s, t)

\* Between pushes.
Resting(s, t) ==
    /\ s \in Senders
    /\ \A i \in DOMAIN s.headers : s.headers[i].ts \in 1 .. t
    /\ \A i \in DOMAIN s.packets :
          LET p == s.packets[i] IN
          /\ p.h \in 1 .. Len(s.headers) /\ FragmentOK(p.load)
          /\ p.load.kind = "fragment" => UnitOf(p).ts <= t

LEMMA PushingRests ==
    ASSUME NEW s, NEW t, NEW b, NEW f, Pushing(s, t, b, f)
    PROVE  Resting(s, t)
  BY DEF Pushing, HeadersIn, PacketsIn, Resting

\* Fragment k of unit u is a load.
LEMMA PartIs ==
    ASSUME NEW u \in NalUnits, NEW k \in Nat
    PROVE  /\ Part(u, k) \in Loads /\ Part(u, k).kind = "fragment"
           /\ Part(u, k).units = <<u>> /\ Part(u, k).units[1] = u /\ Part(u, k).part = k
  BY DEF Part, Loads

\* Single units and aggregates are loads, and no fragments.
LEMMA UnitsIs ==
    ASSUME NEW q \in Seq(NalUnits)
    PROVE  /\ Units(q) \in Loads /\ Units(q).kind # "fragment"
           /\ Aggregate(q) \in Loads /\ Aggregate(q).kind # "fragment"
  BY DEF Units, Aggregate, Loads

\* A spoilt load is a load; fragments are not spoilt.
LEMMA SpoiltIs ==
    ASSUME NEW l \in Loads
    PROVE  /\ Spoilt(l) \in Loads
           /\ l.kind = "fragment" => Spoilt(l) = l
           /\ l.kind # "fragment" => Spoilt(l).kind # "fragment"
  BY DEF Spoilt, Loads

\* What a step leaves of the conditions when it changes none of the fields.
LEMMA SameQueue ==
    ASSUME NEW s, NEW r, NEW t, NEW b, NEW f, Pushing(s, t, b, f), r \in Senders,
           r.headers = s.headers, r.used = s.used, r.seq = s.seq, r.packets = s.packets,
           r.out = s.out, r.open => s.open
    PROVE  Pushing(r, t, b, f)
  BY DEF Pushing, HeadersIn, PacketsIn, OutIn

LEMMA LaterUnits ==
    ASSUME NEW s \in Senders, NEW t, NEW b, NEW f \in Nat, NEW g \in Nat, f <= g, Pushing(s, t, b, f)
    PROVE  Pushing(s, t, b, g)
<1>1. PacketsIn(s, t, g)
  <2> SUFFICES ASSUME NEW i \in DOMAIN s.packets
               PROVE  LET p == s.packets[i] IN
                      /\ p.h \in 1 .. Len(s.headers) /\ FragmentOK(p.load)
                      /\ p.load.kind = "fragment" => UnitOf(p).ts <= t
                      /\ Own(p, t) => p.h <= s.used /\ UnitOf(p).from < g
    BY DEF PacketsIn
  <2> DEFINE p == s.packets[i]
  <2>1. /\ p.h \in 1 .. Len(s.headers) /\ FragmentOK(p.load)
        /\ p.load.kind = "fragment" => UnitOf(p).ts <= t
        /\ Own(p, t) => p.h <= s.used /\ UnitOf(p).from < f
    BY DEF Pushing, PacketsIn
  <2>2. Own(p, t) => UnitOf(p).from \in Nat
    <3>1. p \in Queue
      BY DEF Senders
    <3>2. p.load \in Loads
      BY <3>1 DEF Queue
    <3>3. p.load.units \in Seq(NalUnits)
      BY <3>2 DEF Loads
    <3> SUFFICES ASSUME Own(p, t) PROVE UnitOf(p) \in NalUnits
      BY DEF NalUnits
    <3> DEFINE u == p.load.units[1]
               k == p.load.part
    <3>4. p.load = [kind |-> "fragment", units |-> <<u>>, part |-> k]
      BY <2>1 DEF Own, FragmentOK, Part
    <3> HIDE DEF u, k
    <3>5. p.load.units = <<u>>
      BY <3>4
    <3>6. Len(p.load.units) = 1
      BY <3>5
    <3> QED BY <3>3, <3>6 DEF UnitOf
  <2> HIDE DEF p
  <2> QED BY <2>1, <2>2 DEF p
<1> QED
  BY <1>1 DEF Pushing

\* A fragment carries one unit, and says which part of it.
LEMMA FragmentIs ==
    ASSUME NEW l \in Loads, FragmentOK(l), l.kind = "fragment"
    PROVE  /\ l.units[1] \in NalUnits /\ l.units = <<l.units[1]>>
           /\ l.units[1].frags \in Nat /\ l.part \in Nat
           /\ l.part \in 1 .. l.units[1].frags /\ l.units[1].frags >= 2
           /\ l = Part(l.units[1], l.part)
<1> DEFINE u == l.units[1]
           k == l.part
<1>1. l = Part(u, k) /\ u.frags >= 2 /\ k \in 1 .. u.frags
  BY DEF FragmentOK
<1>2. l.units \in Seq(NalUnits) /\ k \in Nat
  BY DEF Loads
<1> HIDE DEF u, k
<1>3. l.units = <<u>>
  BY <1>1 DEF Part
<1>4. Len(l.units) = 1
  BY <1>3
<1>5. u \in NalUnits
  BY <1>2, <1>4 DEF u
<1>6. u.frags \in Nat
  BY <1>5 DEF NalUnits
<1> QED
  BY <1>1, <1>2, <1>3, <1>5, <1>6 DEF u, k

\* Packet i of the transaction.
LEMMA PacketIs ==
    ASSUME NEW s \in Senders, NEW i \in DOMAIN s.packets
    PROVE  /\ s.packets[i] \in Queue /\ s.packets[i].h \in Nat /\ s.packets[i].load \in Loads
           /\ i \in 1 .. Len(s.packets) /\ Len(s.packets) \in Nat
<1>1. s.packets \in Seq(Queue)
  BY DEF Senders
<1>2. s.packets[i] \in Queue /\ i \in 1 .. Len(s.packets) /\ Len(s.packets) \in Nat
  BY <1>1
<1> QED
  BY <1>2 DEF Queue

\* What the sender holds is typed.
LEMMA SenderIs ==
    ASSUME NEW s \in Senders
    PROVE  /\ s.packets \in Seq(Queue) /\ s.headers \in Seq(Headers) /\ s.out \in Seq(Wires)
           /\ s.nalus \in Seq(NalUnits) /\ s.used \in Nat /\ s.seq \in Numbers
           /\ s.fmt \in Formats /\ s.open \in BOOLEAN
           /\ DOMAIN s.packets = 1 .. Len(s.packets) /\ Len(s.packets) \in Nat
           /\ DOMAIN s.headers = 1 .. Len(s.headers) /\ Len(s.headers) \in Nat
           /\ DOMAIN s.out = 1 .. Len(s.out) /\ Len(s.out) \in Nat
<1>1. /\ s.packets \in Seq(Queue) /\ s.headers \in Seq(Headers) /\ s.out \in Seq(Wires)
      /\ s.nalus \in Seq(NalUnits) /\ s.used \in Nat /\ s.seq \in Numbers
      /\ s.fmt \in Formats /\ s.open \in BOOLEAN
  BY DEF Senders
<1> QED
  BY <1>1

\* A push that crashes leaves what was to be sent.
LEMMA CrashIs ==
    ASSUME NEW s \in Senders
    PROVE  /\ Crash(s) \in Senders /\ Crash(s).ret = "crash"
           /\ Crash(s).headers = s.headers /\ Crash(s).used = s.used /\ Crash(s).seq = s.seq
           /\ Crash(s).packets = s.packets /\ Crash(s).out = s.out /\ Crash(s).open = s.open
           /\ Crash(s).fmt = s.fmt
  BY DEF Crash, Senders, Returns

\* Storing a packet at its place in the transaction.
LEMMA PutAtIs ==
    ASSUME NEW X, NEW q \in Seq(X), NEW i \in Nat \ {0}, NEW x \in X
    PROVE  /\ PutAt(q, i, x) \in Seq(X) /\ Len(PutAt(q, i, x)) >= Len(q)
           /\ i <= Len(q) + 1 =>
                 /\ Len(PutAt(q, i, x)) >= i
                 /\ \A j \in 1 .. Len(PutAt(q, i, x)) :
                       PutAt(q, i, x)[j] = IF j = i THEN x ELSE q[j]
                 /\ \A j \in 1 .. Len(PutAt(q, i, x)) : j # i => j \in 1 .. Len(q)
<1>1. CASE i <= Len(q)
  <2> DEFINE r == [q EXCEPT ![i] = x]
  <2>1. r \in Seq(X) /\ Len(r) = Len(q)
    BY <1>1
  <2>2. \A j \in 1 .. Len(r) : r[j] = IF j = i THEN x ELSE q[j]
    BY <1>1, <2>1
  <2>3. PutAt(q, i, x) = r /\ Len(q) \in Nat
    BY <1>1 DEF PutAt
  <2> HIDE DEF r
  <2> QED BY <2>1, <2>2, <2>3, <1>1
<1>2. CASE ~ (i <= Len(q))
  <2> DEFINE r == Append(q, x)
  <2>1. r \in Seq(X) /\ Len(r) = Len(q) + 1 /\ Len(q) \in Nat
    OBVIOUS
  <2>2. \A j \in 1 .. Len(q) : r[j] = q[j]
    OBVIOUS
  <2>3. r[Len(q) + 1] = x
    OBVIOUS
  <2>4. PutAt(q, i, x) = r
    BY <1>2 DEF PutAt
  <2> HIDE DEF r
  <2>5. i <= Len(q) + 1 => i = Len(q) + 1
    BY <1>2, <2>1
  <2> QED BY <2>1, <2>2, <2>3, <2>4, <2>5
<1> QED
  BY <1>1, <1>2

\* One more packet in the transaction.
Enqueued(r, s, t, l) ==
    /\ r.fmt = s.fmt /\ r.seq = NextNumber(s.seq) /\ r.open = s.open /\ r.used = s.used + 1
    /\ r.out = s.out /\ r.ret = s.ret
    /\ r.packets = Append(s.packets, [h |-> s.used + 1, load |-> l])
    /\ Len(r.headers) >= Len(s.headers) /\ Len(r.headers) >= s.used + 1
    /\ \A j \in 1 .. Len(r.headers) :
          r.headers[j] = IF j = s.used + 1 THEN [seq |-> s.seq, ts |-> t] ELSE s.headers[j]
    /\ \A j \in 1 .. Len(r.headers) : j # s.used + 1 => j \in 1 .. Len(s.headers)

\* enqueue_message: the message gets the next header, with the next number.
LEMMA EnqueueIs ==
    ASSUME NEW s \in Senders, NEW t \in Nat, NEW l \in Loads,
           NEW r, r = EnqueueMessage(s, t, l)
    PROVE  /\ r \in Senders
           /\ ~ s.open => r = Crash(s)
           /\ s.open /\ s.used <= Len(s.headers) => Enqueued(r, s, t, l)
<1>1. CASE ~ s.open
  BY <1>1, CrashIs DEF EnqueueMessage
<1>2. CASE s.open
  <2> DEFINE x == [seq |-> s.seq, ts |-> t]
             hs == PutAt(s.headers, s.used + 1, x)
             ps == Append(s.packets, [h |-> s.used + 1, load |-> l])
             n == (s.seq + 1) % SeqSpace
  <2>1. r = [s EXCEPT !.headers = hs, !.packets = ps, !.used = s.used + 1, !.seq = n]
    BY <1>2 DEF EnqueueMessage
  <2>2. /\ s.headers \in Seq(Headers) /\ s.packets \in Seq(Queue) /\ s.used \in Nat /\ s.seq \in Numbers
        /\ Len(s.headers) \in Nat
    BY SenderIs
  <2>3. x \in Headers /\ s.used + 1 \in Nat \ {0}
    BY <2>2 DEF Headers
  <2>4. hs \in Seq(Headers)
    BY <2>2, <2>3, PutAtIs
  <2>5. ps \in Seq(Queue)
    <3>1. [h |-> s.used + 1, load |-> l] \in Queue
      BY <2>2 DEF Queue
    <3> QED BY <2>2, <3>1
  <2>6. n \in Numbers
    <3>1. s.seq + 1 \in Nat
      BY <2>2, SpaceIs DEF Numbers
    <3>2. n \in 0 .. SeqSpace - 1
      BY <3>1, SpaceIs, ModValue
    <3> QED BY <3>2 DEF Numbers
  <2>7. s.used <= Len(s.headers) =>
          /\ Len(hs) >= Len(s.headers) /\ Len(hs) >= s.used + 1
          /\ \A j \in 1 .. Len(hs) : hs[j] = IF j = s.used + 1 THEN x ELSE s.headers[j]
          /\ \A j \in 1 .. Len(hs) : j # s.used + 1 => j \in 1 .. Len(s.headers)
    <3> SUFFICES ASSUME s.used <= Len(s.headers)
                 PROVE  /\ Len(hs) >= Len(s.headers) /\ Len(hs) >= s.used + 1
                        /\ \A j \in 1 .. Len(hs) : hs[j] = IF j = s.used + 1 THEN x ELSE s.headers[j]
                        /\ \A j \in 1 .. Len(hs) : j # s.used + 1 => j \in 1 .. Len(s.headers)
      OBVIOUS
    <3>1. s.used + 1 <= Len(s.headers) + 1
      BY <2>2
    <3> DEFINE i == s.used + 1
               q == s.headers
    <3>2. i <= Len(q) + 1 /\ i \in Nat \ {0} /\ q \in Seq(Headers) /\ x \in Headers
      BY <3>1, <2>2, <2>3
    <3>3. hs = PutAt(q, i, x)
      OBVIOUS
    <3> HIDE DEF x, hs, i, q
    <3>4. /\ Len(hs) >= Len(q) /\ Len(hs) >= i
          /\ \A j \in 1 .. Len(hs) : hs[j] = IF j = i THEN x ELSE q[j]
          /\ \A j \in 1 .. Len(hs) : j # i => j \in 1 .. Len(q)
      <4> DEFINE p == PutAt(q, i, x)
      <4>1. i <= Len(q) + 1 =>
                 /\ Len(PutAt(q, i, x)) >= i
                 /\ \A j \in 1 .. Len(PutAt(q, i, x)) :
                       PutAt(q, i, x)[j] = IF j = i THEN x ELSE q[j]
                 /\ \A j \in 1 .. Len(PutAt(q, i, x)) : j # i => j \in 1 .. Len(q)
        BY ONLY <3>2, PutAtIs
      <4>2. Len(PutAt(q, i, x)) >= Len(q)
        BY ONLY <3>2, PutAtIs
      <4> QED BY ONLY <4>1, <4>2, <3>2, <3>3
    <3> QED BY <3>4 DEF i, q
  <2>8. s.used + 1 \in Nat
    BY <2>2
  <2>9. x = [seq |-> s.seq, ts |-> t] /\ ps = Append(s.packets, [h |-> s.used + 1, load |-> l])
        /\ n = NextNumber(s.seq)
    BY DEF NextNumber
  <2> HIDE DEF hs, ps, n, x
  <2>10. r \in Senders
    BY <2>1, <2>4, <2>5, <2>6, <2>8 DEF Senders
  <2>11. /\ r.fmt = s.fmt /\ r.seq = n /\ r.open = s.open /\ r.used = s.used + 1
         /\ r.out = s.out /\ r.ret = s.ret /\ r.packets = ps /\ r.headers = hs
    BY <2>1 DEF Senders
  <2> QED BY <1>2, <2>7, <2>9, <2>10, <2>11 DEF Enqueued
<1> QED
  BY <1>1, <1>2

\* The headers of a push after one more.
LEMMA HeadersGrow ==
    ASSUME NEW s \in Senders, NEW t \in Nat \ {0}, NEW b \in Numbers, HeadersIn(s, t, b),
           NEW l \in Loads, s.open, NEW r, r = EnqueueMessage(s, t, l)
    PROVE  HeadersIn(r, t, b)
<1>1. /\ r.seq = NextNumber(s.seq) /\ r.used = s.used + 1
      /\ Len(r.headers) >= Len(s.headers) /\ Len(r.headers) >= s.used + 1
      /\ \A j \in 1 .. Len(r.headers) :
            r.headers[j] = IF j = s.used + 1 THEN [seq |-> s.seq, ts |-> t] ELSE s.headers[j]
      /\ \A j \in 1 .. Len(r.headers) : j # s.used + 1 => j \in 1 .. Len(s.headers)
      /\ r \in Senders
  <2>1. s.used <= Len(s.headers) /\ t \in Nat
    BY DEF HeadersIn
  <2>2. r \in Senders /\ Enqueued(r, s, t, l)
    BY <2>1, EnqueueIs
  <2> QED BY <2>2 DEF Enqueued
<1>2. /\ s.used \in Nat /\ Len(s.headers) \in Nat /\ DOMAIN s.headers = 1 .. Len(s.headers)
      /\ DOMAIN r.headers = 1 .. Len(r.headers) /\ Len(r.headers) \in Nat
  BY <1>1, SenderIs
<1>3. r.seq = (b + r.used) % SeqSpace
  <2>1. s.seq = (b + s.used) % SeqSpace /\ b + s.used \in Nat
    BY <1>2 DEF HeadersIn, Numbers
  <2>2. NextNumber(s.seq) = (b + s.used + 1) % SeqSpace
    BY <2>1, ModNext, SpaceIs DEF NextNumber
  <2>3. b + s.used + 1 = b + r.used
    BY <1>1, <1>2, <2>1 DEF Numbers
  <2> QED BY <2>2, <2>3, <1>1
<1>4. ASSUME NEW i \in DOMAIN r.headers PROVE r.headers[i].ts \in 1 .. t
  <2>1. i \in 1 .. Len(r.headers)
    BY <1>2
  <2>2. CASE i = s.used + 1
    <3>1. r.headers[i] = [seq |-> s.seq, ts |-> t]
      BY <1>1, <2>1, <2>2
    <3> QED BY <3>1
  <2>3. CASE i # s.used + 1
    <3>1. i \in 1 .. Len(s.headers) /\ r.headers[i] = s.headers[i]
      BY <1>1, <2>1, <2>3
    <3>2. s.headers[i].ts \in 1 .. t
      BY <3>1, <1>2 DEF HeadersIn
    <3> QED BY <3>1, <3>2
  <2> QED BY <2>2, <2>3
<1>5. ASSUME NEW i \in 1 .. r.used PROVE r.headers[i] = [seq |-> (b + (i - 1)) % SeqSpace, ts |-> t]
  <2>1. i \in 1 .. Len(r.headers)
    BY <1>1, <1>2
  <2>2. CASE i = s.used + 1
    <3>1. r.headers[i] = [seq |-> s.seq, ts |-> t]
      BY <1>1, <2>1, <2>2
    <3>2. i - 1 = s.used
      BY <2>2, <1>2
    <3>3. s.seq = (b + s.used) % SeqSpace
      BY DEF HeadersIn
    <3> QED BY <3>1, <3>2, <3>3
  <2>3. CASE i # s.used + 1
    <3>1. r.headers[i] = s.headers[i]
      BY <1>1, <2>1, <2>3
    <3>2. i \in 1 .. s.used
      BY <1>1, <1>2, <2>3
    <3> QED BY <3>1, <3>2 DEF HeadersIn
  <2> QED BY <2>2, <2>3
<1>6. r.used <= Len(r.headers)
  BY <1>1
<1> QED
  BY <1>3, <1>4, <1>5, <1>6 DEF HeadersIn

\* Packets of other kinds do not disturb the runs of fragments.
LEMMA EnqueueOther ==
    ASSUME NEW s, NEW t \in Nat \ {0}, NEW b \in Numbers, NEW f, Pushing(s, t, b, f),
           NEW l \in Loads, l.kind # "fragment", NEW r, r = EnqueueMessage(s, t, l)
    PROVE  Pushing(r, t, b, f)
<1>1. s \in Senders /\ HeadersIn(s, t, b) /\ PacketsIn(s, t, f) /\ QueuedRuns(s.packets, t) /\ OutIn(s, t)
  BY DEF Pushing
<1>2. t \in Nat
  OBVIOUS
<1>3. CASE ~ s.open
  <2>1. r = Crash(s)
    BY <1>1, <1>2, <1>3, EnqueueIs
  <2>2. /\ r \in Senders /\ r.headers = s.headers /\ r.used = s.used /\ r.seq = s.seq
        /\ r.packets = s.packets /\ r.out = s.out /\ (r.open => s.open)
    BY <2>1, <1>1, CrashIs
  <2> QED BY <2>2, SameQueue
<1>4. CASE s.open
  <2>1. s.used <= Len(s.headers)
    BY <1>1 DEF HeadersIn
  <2>2. r \in Senders /\ Enqueued(r, s, t, l)
    BY <1>1, <1>2, <1>4, <2>1, EnqueueIs
  <2>3. HeadersIn(r, t, b)
    BY <1>1, <1>4, HeadersGrow
  <2> DEFINE x == [h |-> s.used + 1, load |-> l]
             q == s.packets
             p == r.packets
  <2>4. /\ q \in Seq(Queue) /\ p \in Seq(Queue) /\ DOMAIN q = 1 .. Len(q) /\ Len(q) \in Nat
        /\ DOMAIN p = 1 .. Len(p) /\ s.used \in Nat /\ DOMAIN r.headers = 1 .. Len(r.headers)
        /\ Len(r.headers) \in Nat /\ Len(s.headers) \in Nat
    BY <1>1, <2>2, SenderIs
  <2>5. p = Append(q, x)
    BY <2>2 DEF Enqueued
  <2>6. x.h = s.used + 1 /\ x.load = l
    OBVIOUS
  <2>7. Len(p) = Len(q) + 1 /\ p[Len(q) + 1] = x /\ \A i \in 1 .. Len(q) : p[i] = q[i]
    <3> HIDE DEF x, q, p
    <3>1. x \in Queue
      BY <1>1, <2>4, <2>6 DEF x, Queue
    <3> QED BY <2>4, <2>5, <3>1
  <2>8. ~ Own(x, t)
    BY <2>6 DEF Own
  <2>9. Len(r.headers) >= Len(s.headers) /\ Len(r.headers) >= s.used + 1 /\ r.used = s.used + 1
    BY <2>2 DEF Enqueued
  <2> HIDE DEF x
  <2>10. PacketsIn(r, t, f)
    <3> SUFFICES ASSUME NEW i \in DOMAIN p
                 PROVE  /\ p[i].h \in 1 .. Len(r.headers) /\ FragmentOK(p[i].load)
                        /\ p[i].load.kind = "fragment" => UnitOf(p[i]).ts <= t
                        /\ Own(p[i], t) => p[i].h <= r.used /\ UnitOf(p[i]).from < f
      BY DEF PacketsIn
    <3>1. CASE i = Len(q) + 1
      <4>1. p[i] = x
        BY <3>1, <2>7
      <4>2. FragmentOK(x.load) /\ x.load.kind # "fragment"
        BY <2>6 DEF FragmentOK
      <4>3. x.h \in 1 .. Len(r.headers)
        BY <2>4, <2>6, <2>9
      <4> QED BY <4>1, <4>2, <4>3, <2>8
    <3>2. CASE i # Len(q) + 1
      <4>1. i \in DOMAIN q /\ p[i] = q[i]
        BY <3>2, <2>4, <2>7
      <4>2. /\ q[i].h \in 1 .. Len(s.headers) /\ FragmentOK(q[i].load)
            /\ q[i].load.kind = "fragment" => UnitOf(q[i]).ts <= t
            /\ Own(q[i], t) => q[i].h <= s.used /\ UnitOf(q[i]).from < f
        BY <4>1, <1>1 DEF PacketsIn
      <4>3. q[i].h \in 1 .. Len(r.headers)
        BY <4>2, <2>4, <2>9
      <4>4. Own(q[i], t) => q[i].h <= r.used
        BY <4>2, <2>4, <2>9
      <4> QED BY <4>1, <4>2, <4>3, <4>4
    <3> QED BY <3>1, <3>2
  <2>11. \A i \in DOMAIN p : Own(p[i], t) => i \in DOMAIN q /\ p[i] = q[i]
    <3> SUFFICES ASSUME NEW i \in DOMAIN p, Own(p[i], t) PROVE i \in DOMAIN q /\ p[i] = q[i]
      OBVIOUS
    <3>1. i # Len(q) + 1
      BY <2>7, <2>8
    <3> QED BY <3>1, <2>4, <2>7
  <2>12. \A i \in DOMAIN q : i \in DOMAIN p /\ p[i] = q[i]
    BY <2>4, <2>7
  <2> HIDE DEF p, q
  <2>13. QueuedRuns(p, t)
    BY <2>11, <2>12, <1>1 DEF QueuedRuns, q
  <2>14. OutIn(r, t)
    <3>1. r.out = s.out /\ r.open = s.open
      BY <2>2 DEF Enqueued
    <3> QED BY <3>1, <1>1 DEF OutIn
  <2> QED BY <2>2, <2>3, <2>10, <2>13, <2>14 DEF Pushing, p
<1> QED
  BY <1>3, <1>4


\* clear_aggregation_info and the loads it spoils.
LEMMA SpoiltPacketsIs ==
    ASSUME NEW q \in Seq(Queue)
    PROVE  /\ SpoiltPackets(q) \in Seq(Queue) /\ DOMAIN SpoiltPackets(q) = DOMAIN q
           /\ \A i \in DOMAIN q : /\ SpoiltPackets(q)[i].h = q[i].h
                                  /\ SpoiltPackets(q)[i].load = Spoilt(q[i].load)
                                  /\ q[i].load.kind = "fragment" => SpoiltPackets(q)[i] = q[i]
<1>1. DOMAIN q = 1 .. Len(q) /\ Len(q) \in Nat
  OBVIOUS
<1>2. ASSUME NEW i \in DOMAIN q
      PROVE  /\ SpoiltPackets(q)[i] = [h |-> q[i].h, load |-> Spoilt(q[i].load)]
             /\ SpoiltPackets(q)[i] \in Queue
             /\ q[i].load.kind = "fragment" => SpoiltPackets(q)[i] = q[i]
  <2> DEFINE x == q[i]
  <2>1. x \in Queue
    BY <1>1
  <2>2. SpoiltPackets(q)[i] = [h |-> x.h, load |-> Spoilt(x.load)]
    BY DEF SpoiltPackets
  <2> HIDE DEF x
  <2>3. x = [h |-> x.h, load |-> x.load] /\ x.h \in Nat /\ x.load \in Loads
    BY <2>1 DEF Queue

  <2>5. Spoilt(x.load) \in Loads /\ (x.load.kind = "fragment" => Spoilt(x.load) = x.load)
    BY <2>3, SpoiltIs
  <2>6. [h |-> x.h, load |-> Spoilt(x.load)] \in Queue
    BY <2>3, <2>5 DEF Queue
  <2>7. x.load.kind = "fragment" => [h |-> x.h, load |-> Spoilt(x.load)] = x
    BY <2>3, <2>5
  <2> QED BY <2>2, <2>6, <2>7 DEF x
<1>3. DOMAIN SpoiltPackets(q) = DOMAIN q
  BY DEF SpoiltPackets
<1>4. SpoiltPackets(q) \in Seq(Queue)
  <2> DEFINE g == SpoiltPackets(q)
  <2>1. g = [i \in 1 .. Len(q) |-> g[i]]
    BY <1>1 DEF SpoiltPackets
  <2>2. \A i \in 1 .. Len(q) : g[i] \in Queue
    BY <1>1, <1>2
  <2> HIDE DEF g
  <2>3. g \in Seq(Queue)
    BY <1>1, <2>1, <2>2
  <2> QED BY <2>3 DEF g
<1> QED
  BY <1>2, <1>3, <1>4

LEMMA SpoilKeeps ==
    ASSUME NEW s, NEW t \in Nat \ {0}, NEW b \in Numbers, NEW f, Pushing(s, t, b, f),
           NEW r \in Senders, r.headers = s.headers, r.used = s.used, r.seq = s.seq,
           r.packets = SpoiltPackets(s.packets), r.out = s.out, r.open = s.open
    PROVE  Pushing(r, t, b, f)
<1> DEFINE q == s.packets
           p == r.packets
<1>1. s \in Senders /\ HeadersIn(s, t, b) /\ PacketsIn(s, t, f) /\ QueuedRuns(q, t) /\ OutIn(s, t)
  BY DEF Pushing
<1>2. q \in Seq(Queue) /\ DOMAIN q = 1 .. Len(q)
  BY <1>1, SenderIs
<1>3. /\ DOMAIN p = DOMAIN q
      /\ \A i \in DOMAIN q : /\ p[i].h = q[i].h /\ p[i].load = Spoilt(q[i].load)
                             /\ q[i].load.kind = "fragment" => p[i] = q[i]
  BY <1>2, SpoiltPacketsIs
<1>4. ASSUME NEW i \in DOMAIN q
      PROVE  /\ p[i].load.kind = "fragment" => q[i].load.kind = "fragment"
             /\ Own(p[i], t) => Own(q[i], t)
             /\ p[i].load.kind = "fragment" => p[i] = q[i]
  <2>1. q[i].load \in Loads
    BY <1>1, PacketIs
  <2>2. q[i].load.kind # "fragment" => p[i].load.kind # "fragment"
    BY <2>1, <1>3, SpoiltIs
  <2> QED BY <2>2, <1>3 DEF Own
<1>5. PacketsIn(r, t, f)
  <2> SUFFICES ASSUME NEW i \in DOMAIN p
               PROVE  /\ p[i].h \in 1 .. Len(r.headers) /\ FragmentOK(p[i].load)
                      /\ p[i].load.kind = "fragment" => UnitOf(p[i]).ts <= t
                      /\ Own(p[i], t) => p[i].h <= r.used /\ UnitOf(p[i]).from < f
    BY DEF PacketsIn
  <2>1. i \in DOMAIN q /\ p[i].h = q[i].h
    BY <1>3
  <2>2. /\ q[i].h \in 1 .. Len(s.headers) /\ FragmentOK(q[i].load)
        /\ q[i].load.kind = "fragment" => UnitOf(q[i]).ts <= t
        /\ Own(q[i], t) => q[i].h <= s.used /\ UnitOf(q[i]).from < f
    BY <2>1, <1>1 DEF PacketsIn
  <2>3. CASE p[i].load.kind = "fragment"
    <3>1. p[i] = q[i]
      BY <2>1, <2>3, <1>4
    <3> HIDE DEF p, q
    <3> QED BY <3>1, <2>2
  <2>4. CASE p[i].load.kind # "fragment"
    <3> HIDE DEF p, q
    <3> QED BY <2>1, <2>2, <2>4 DEF FragmentOK, Own
  <2> QED BY <2>3, <2>4
<1>6. \A i \in DOMAIN p : Own(p[i], t) => i \in DOMAIN q /\ p[i] = q[i]
  BY <1>3, <1>4 DEF Own
<1>7. \A i \in DOMAIN q : Own(q[i], t) => i \in DOMAIN p /\ p[i] = q[i]
  BY <1>3 DEF Own
<1> HIDE DEF p, q
<1>8. QueuedRuns(p, t)
  <2>1. ASSUME NEW i \in DOMAIN p, Own(p[i], t)
        PROVE  LET u == UnitOf(p[i])
                   k == p[i].load.part
               IN  /\ k < u.frags => i + 1 \in DOMAIN p /\ p[i + 1] = [h |-> p[i].h + 1, load |-> Part(u, k + 1)]
                   /\ k > 1 => i - 1 \in DOMAIN p /\ p[i - 1].load = Part(u, k - 1)
    <3> DEFINE u == UnitOf(q[i])
               k == q[i].load.part
    <3>1. i \in DOMAIN q /\ p[i] = q[i] /\ Own(q[i], t)
      BY <2>1, <1>6
    <3>2. /\ k < u.frags => i + 1 \in DOMAIN q /\ q[i + 1] = [h |-> q[i].h + 1, load |-> Part(u, k + 1)]
          /\ k > 1 => i - 1 \in DOMAIN q /\ q[i - 1].load = Part(u, k - 1)
      BY <3>1, <1>1 DEF QueuedRuns
    <3> HIDE DEF u, k
    <3>3. \A j \in DOMAIN q : q[j].load.kind = "fragment" => j \in DOMAIN p /\ p[j] = q[j]
      BY <1>3
    <3>4. \A x, y, h : Part(x, y).kind = "fragment" /\ [h |-> h, load |-> Part(x, y)].load = Part(x, y)
      BY DEF Part
    <3>5. k < u.frags => i + 1 \in DOMAIN p /\ p[i + 1] = [h |-> q[i].h + 1, load |-> Part(u, k + 1)]
      BY <3>2, <3>3, <3>4
    <3>6. k > 1 => i - 1 \in DOMAIN p /\ p[i - 1].load = Part(u, k - 1)
      BY <3>2, <3>3, <3>4
    <3> QED BY <3>1, <3>5, <3>6 DEF u, k
  <2>2. \A i, j \in DOMAIN p : Own(p[i], t) /\ Own(p[j], t) /\ p[i].load = p[j].load => i = j
    BY <1>6, <1>1 DEF QueuedRuns
  <2> QED BY <2>1, <2>2 DEF QueuedRuns
<1>9. HeadersIn(r, t, b) /\ OutIn(r, t)
  BY <1>1 DEF HeadersIn, OutIn
<1> QED
  BY <1>5, <1>8, <1>9 DEF Pushing, p

\* What sendmmsg is given.
Datagrams(s) ==
    [i \in DOMAIN s.packets |->
        [seq |-> s.headers[s.packets[i].h].seq, ts |-> s.headers[s.packets[i].h].ts,
         load |-> s.packets[i].load]]

\* What is sent are the packets of the transaction under their headers.
LEMMA DatagramsAre ==
    ASSUME NEW s, NEW t \in Nat \ {0}, NEW b \in Numbers, NEW f, Pushing(s, t, b, f)
    PROVE  /\ Datagrams(s) \in Seq(Wires)
           /\ \A i \in DOMAIN Datagrams(s) :
                 FragmentOK(Datagrams(s)[i].load) /\ Datagrams(s)[i].ts \in 1 .. t
           /\ Runs(Datagrams(s), t)
<1> DEFINE q == s.packets
           p == Datagrams(s)
           hs == s.headers
<1>1. s \in Senders /\ HeadersIn(s, t, b) /\ PacketsIn(s, t, f) /\ QueuedRuns(q, t)
  BY DEF Pushing
<1>2. /\ q \in Seq(Queue) /\ DOMAIN q = 1 .. Len(q) /\ Len(q) \in Nat
      /\ hs \in Seq(Headers) /\ DOMAIN hs = 1 .. Len(hs) /\ s.used \in Nat
  BY <1>1, SenderIs
<1>3. DOMAIN p = DOMAIN q
  BY DEF Datagrams
<1>4. ASSUME NEW i \in DOMAIN q
      PROVE  /\ p[i] = [seq |-> hs[q[i].h].seq, ts |-> hs[q[i].h].ts, load |-> q[i].load]
             /\ p[i] \in Wires /\ FragmentOK(p[i].load) /\ p[i].ts \in 1 .. t
             /\ Own(p[i], t) <=> Own(q[i], t)
             /\ p[i].load = q[i].load
             /\ Own(q[i], t) => /\ q[i].h \in 1 .. s.used
                                /\ p[i].seq = (b + (q[i].h - 1)) % SeqSpace /\ p[i].ts = t
  <2>1. p[i] = [seq |-> hs[q[i].h].seq, ts |-> hs[q[i].h].ts, load |-> q[i].load]
    BY DEF Datagrams
  <2>2. q[i].h \in 1 .. Len(hs) /\ FragmentOK(q[i].load) /\ (Own(q[i], t) => q[i].h <= s.used)
    BY <1>1 DEF PacketsIn
  <2>3. q[i].load \in Loads /\ q[i].h \in Nat
    BY <1>1, PacketIs
  <2> DEFINE x == hs[q[i].h]
  <2>4. x \in Headers
    BY <2>2, <1>2
  <2>5. x.ts \in 1 .. t
    BY <2>2, <1>1, <1>2 DEF HeadersIn
  <2>6. Own(q[i], t) => q[i].h \in 1 .. s.used
    BY <2>2, <2>3, <1>2
  <2>7. Own(q[i], t) => x = [seq |-> (b + (q[i].h - 1)) % SeqSpace, ts |-> t]
    BY <2>6, <1>1 DEF HeadersIn
  <2> HIDE DEF x, p, q, hs
  <2>8. x.seq \in Numbers /\ x.ts \in Nat
    BY <2>4 DEF Headers
  <2>9. p[i] = [seq |-> x.seq, ts |-> x.ts, load |-> q[i].load]
    BY <2>1 DEF x
  <2>10. p[i].seq = x.seq /\ p[i].ts = x.ts /\ p[i].load = q[i].load
    BY <2>9
  <2>11. p[i] \in Wires
    BY <2>8, <2>9, <2>3 DEF Wires
  <2>12. Own(p[i], t) <=> Own(q[i], t)
    BY <2>10 DEF Own
  <2>13. Own(q[i], t) => p[i].seq = (b + (q[i].h - 1)) % SeqSpace /\ p[i].ts = t
    BY <2>7, <2>10
  <2> QED BY <2>1, <2>2, <2>5, <2>6, <2>10, <2>11, <2>12, <2>13
<1>5. p \in Seq(Wires)
  <2>1. p = [i \in 1 .. Len(q) |-> p[i]]
    BY <1>2 DEF Datagrams
  <2>2. \A i \in 1 .. Len(q) : p[i] \in Wires
    BY <1>2, <1>4
  <2> HIDE DEF p
  <2> QED BY <1>2, <2>1, <2>2, MakesSeq
<1> HIDE DEF p, q
<1>6. ASSUME NEW i \in DOMAIN p, Own(p[i], t)
      PROVE  LET u == UnitOf(p[i])
                 k == p[i].load.part
             IN  /\ p[i].ts = t
                 /\ k < u.frags => i + 1 \in DOMAIN p
                       /\ p[i + 1] = [seq |-> NextNumber(p[i].seq), ts |-> t, load |-> Part(u, k + 1)]
                 /\ k > 1 => i - 1 \in DOMAIN p /\ p[i - 1].load = Part(u, k - 1)
  <2> DEFINE u == UnitOf(q[i])
             k == q[i].load.part
  <2>1. i \in DOMAIN q /\ Own(q[i], t)
    BY <1>3, <1>4, <1>6
  <2>2. p[i].load = q[i].load /\ p[i].ts = t
    BY <2>1, <1>4
  <2>3. UnitOf(p[i]) = u /\ p[i].load.part = k
    BY <2>2 DEF UnitOf
  <2>4. /\ k < u.frags => i + 1 \in DOMAIN q /\ q[i + 1] = [h |-> q[i].h + 1, load |-> Part(u, k + 1)]
        /\ k > 1 => i - 1 \in DOMAIN q /\ q[i - 1].load = Part(u, k - 1)
    BY <2>1, <1>1 DEF QueuedRuns
  <2>5. u.ts = t
    BY <2>1 DEF Own, UnitOf
  <2> HIDE DEF u, k
  <2>6. ASSUME k < u.frags
        PROVE  i + 1 \in DOMAIN p
               /\ p[i + 1] = [seq |-> NextNumber(p[i].seq), ts |-> t, load |-> Part(u, k + 1)]
    <3>1. i + 1 \in DOMAIN q /\ q[i + 1] = [h |-> q[i].h + 1, load |-> Part(u, k + 1)]
      BY <2>4, <2>6
    <3>2. q[i + 1].load = Part(u, k + 1) /\ q[i + 1].h = q[i].h + 1
      BY <3>1
    <3>3. Own(q[i + 1], t)
      BY <3>2, <2>5 DEF Own, Part
    <3>4. /\ p[i + 1] = [seq |-> hs[q[i + 1].h].seq, ts |-> hs[q[i + 1].h].ts, load |-> q[i + 1].load]
          /\ q[i + 1].h \in 1 .. s.used /\ p[i + 1].seq = (b + (q[i + 1].h - 1)) % SeqSpace
          /\ p[i + 1].ts = t /\ p[i + 1].load = q[i + 1].load
      BY <3>1, <3>3, <1>4
    <3>5. p[i].seq = (b + (q[i].h - 1)) % SeqSpace /\ q[i].h \in 1 .. s.used
      BY <2>1, <1>4
    <3> DEFINE a == b + (q[i].h - 1)
    <3>6. a \in Nat /\ b + (q[i + 1].h - 1) = a + 1
      BY <3>2, <3>5, <1>2 DEF Numbers
    <3> HIDE DEF a
    <3>7. p[i + 1].seq = (a + 1) % SeqSpace
      BY <3>4, <3>6
    <3>8. p[i].seq = a % SeqSpace
      BY <3>5 DEF a
    <3>9. p[i + 1].seq = NextNumber(p[i].seq)
      BY <3>6, <3>7, <3>8, ModNext, SpaceIs DEF NextNumber
    <3>10. p[i + 1] = [seq |-> p[i + 1].seq, ts |-> p[i + 1].ts, load |-> p[i + 1].load]
      BY <3>4
    <3> QED BY <3>1, <3>2, <3>4, <3>9, <3>10, <1>3
  <2>7. k > 1 => i - 1 \in DOMAIN p /\ p[i - 1].load = Part(u, k - 1)
    BY <2>4, <1>3, <1>4
  <2> QED BY <2>2, <2>3, <2>6, <2>7
<1>7. \A i, j \in DOMAIN p : Own(p[i], t) /\ Own(p[j], t) /\ p[i].load = p[j].load => i = j
  BY <1>1, <1>3, <1>4 DEF QueuedRuns
<1>8. Runs(p, t)
  BY <1>6, <1>7 DEF Runs
<1> QED
  BY <1>3, <1>4, <1>5, <1>8 DEF p

LEMMA NoPackets ==
    ASSUME NEW s \in Senders, s.packets = <<>>, NEW t, NEW b, NEW f, HeadersIn(s, t, b), OutIn(s, t)
    PROVE  Pushing(s, t, b, f)
<1>1. DOMAIN s.packets = {}
  BY SMT
<1> QED
  BY <1>1 DEF Pushing, PacketsIn, QueuedRuns

\* flush_queue sends the runs as they are queued.
LEMMA FlushKeeps ==
    ASSUME NEW s, NEW t \in Nat \ {0}, NEW b \in Numbers, NEW f, Pushing(s, t, b, f),
           NEW r, r = FlushQueue(s)
    PROVE  Pushing(r, t, b, f) /\ r.fmt = s.fmt
<1>1. s \in Senders /\ HeadersIn(s, t, b) /\ OutIn(s, t)
  BY DEF Pushing
<1>2. CASE s.ret = "crash" \/ ~ s.open
  <2>1. r = Crash(s)
    BY <1>2 DEF FlushQueue
  <2>2. /\ r \in Senders /\ r.headers = s.headers /\ r.used = s.used /\ r.seq = s.seq
        /\ r.packets = s.packets /\ r.out = s.out /\ (r.open => s.open) /\ r.fmt = s.fmt
    BY <2>1, <1>1, CrashIs
  <2> QED BY <2>2, SameQueue
<1>3. CASE ~ (s.ret = "crash" \/ ~ s.open) /\ s.packets = <<>>
  <2>1. r = [[s EXCEPT !.open = FALSE, !.packets = IF s.queued THEN <<>> ELSE s.packets] EXCEPT !.ret = "RTP_INVALID_VALUE"]
    BY <1>3 DEF FlushQueue, DeinitTransaction
  <2>2. r = [s EXCEPT !.open = FALSE, !.packets = <<>>, !.ret = "RTP_INVALID_VALUE"]
    BY <2>1, <1>3
  <2>3. /\ r \in Senders /\ r.headers = s.headers /\ r.used = s.used /\ r.seq = s.seq
        /\ r.packets = s.packets /\ r.out = s.out /\ (r.open => s.open) /\ r.fmt = s.fmt
    BY <2>2, <1>1, <1>3 DEF Senders, Returns
  <2> QED BY <2>3, SameQueue
<1>4. CASE ~ (s.ret = "crash" \/ ~ s.open) /\ s.packets # <<>>
  <2> DEFINE o == s.out \o Datagrams(s)
             d == [s EXCEPT !.queued = TRUE, !.ret = "RTP_OK", !.out = o]
  <2>1. r = DeinitTransaction(d)
    BY <1>4 DEF FlushQueue, Datagrams
  <2>2. s.out = <<>>
    BY <1>1, <1>4 DEF OutIn
  <2>3. Datagrams(s) \in Seq(Wires)
    BY DatagramsAre
  <2>4. o = Datagrams(s)
    BY <2>2, <2>3
  <2>5. o \in Seq(Wires)
    BY <2>3, <2>4
  <2> HIDE DEF o
  <2>6. /\ d.queued /\ d \in Senders
        /\ d = [s EXCEPT !.queued = TRUE, !.ret = "RTP_OK", !.out = o]
    BY <2>5, <1>1 DEF Senders, Returns
  <2>7. r = [d EXCEPT !.open = FALSE, !.packets = <<>>]
    BY <2>1, <2>6 DEF DeinitTransaction
  <2>8. r = [s EXCEPT !.queued = TRUE, !.ret = "RTP_OK", !.out = o, !.open = FALSE, !.packets = <<>>]
    BY <2>7, <1>1 DEF Senders
  <2>9. /\ r \in Senders /\ r.headers = s.headers /\ r.used = s.used /\ r.seq = s.seq
        /\ r.packets = <<>> /\ r.out = o /\ ~ r.open /\ r.fmt = s.fmt
    <3> HIDE DEF d
    <3>1. <<>> \in Seq(Queue)
      OBVIOUS
    <3> QED BY <2>8, <1>1, <2>5, <3>1 DEF Senders, Returns
  <2>10. OutIn(r, t)
    <3>1. /\ \A i \in DOMAIN o : FragmentOK(o[i].load) /\ o[i].ts \in 1 .. t
          /\ Runs(o, t)
      BY <2>4, DatagramsAre
    <3> QED BY <3>1, <2>9 DEF OutIn
  <2>11. HeadersIn(r, t, b)
    BY <1>1, <2>9 DEF HeadersIn
  <2> QED BY <2>9, <2>10, <2>11, NoPackets
<1> QED
  BY <1>2, <1>3, <1>4

\* The format stays.
LEMMA EnqueueFormat ==
    ASSUME NEW s \in Senders, NEW t, NEW l
    PROVE  EnqueueMessage(s, t, l).fmt = s.fmt
  BY DEF EnqueueMessage, Crash, Senders

\* make_aggregation_pkt disturbs no run.
LEMMA AggregateKeeps ==
    ASSUME NEW s, NEW t \in Nat \ {0}, NEW b \in Numbers, NEW f, Pushing(s, t, b, f),
           NEW r, r = MakeAggregationPkt(s, t)
    PROVE  Pushing(r, t, b, f) /\ r.fmt = s.fmt
<1>1. s \in Senders
  BY DEF Pushing
<1>2. s.nalus \in Seq(NalUnits) /\ Len(s.nalus) \in Nat
  BY <1>1, SenderIs
<1>3. /\ Units(s.nalus) \in Loads /\ Units(s.nalus).kind # "fragment"
      /\ Aggregate(s.nalus) \in Loads /\ Aggregate(s.nalus).kind # "fragment"
  BY <1>2, UnitsIs
<1>4. CASE s.ret = "crash" \/ s.nalus = <<>>
  BY <1>4 DEF MakeAggregationPkt
<1>5. CASE ~ (s.ret = "crash" \/ s.nalus = <<>>) /\ Len(s.nalus) = 1
  <2> DEFINE e == EnqueueMessage(s, t, Units(s.nalus))
  <2>1. r = FlushQueue(e)
    BY <1>5 DEF MakeAggregationPkt
  <2>2. Pushing(e, t, b, f)
    BY <1>3, EnqueueOther
  <2>3. e.fmt = s.fmt
    BY <1>1, EnqueueFormat
  <2> HIDE DEF e
  <2> QED BY <2>1, <2>2, <2>3, FlushKeeps
<1>6. CASE ~ (s.ret = "crash" \/ s.nalus = <<>>) /\ Len(s.nalus) # 1 /\ ~ s.made
  <2> DEFINE d == [s EXCEPT !.made = TRUE]
  <2>1. r = EnqueueMessage(d, t, Aggregate(s.nalus))
    BY <1>2, <1>6 DEF MakeAggregationPkt
  <2>2. /\ d \in Senders /\ d.headers = s.headers /\ d.used = s.used /\ d.seq = s.seq
        /\ d.packets = s.packets /\ d.out = s.out /\ (d.open => s.open) /\ d.fmt = s.fmt
    BY <1>1 DEF Senders
  <2> HIDE DEF d
  <2>3. Pushing(d, t, b, f)
    BY <2>2, SameQueue
  <2> QED BY <2>1, <2>2, <2>3, <1>3, EnqueueOther, EnqueueFormat
<1>7. CASE ~ (s.ret = "crash" \/ s.nalus = <<>>) /\ Len(s.nalus) # 1 /\ s.made
  <2> DEFINE e == EnqueueMessage(s, t, Aggregate(s.nalus))
  <2>1. r = [e EXCEPT !.packets = SpoiltPackets(e.packets)]
    BY <1>2, <1>7 DEF MakeAggregationPkt
  <2>2. Pushing(e, t, b, f) /\ e.fmt = s.fmt
    BY <1>1, <1>3, EnqueueOther, EnqueueFormat
  <2> HIDE DEF e
  <2>3. e \in Senders
    BY <2>2 DEF Pushing
  <2>4. SpoiltPackets(e.packets) \in Seq(Queue)
    BY <2>3, SenderIs, SpoiltPacketsIs
  <2>5. /\ r \in Senders /\ r.headers = e.headers /\ r.used = e.used /\ r.seq = e.seq
        /\ r.packets = SpoiltPackets(e.packets) /\ r.out = e.out /\ r.open = e.open /\ r.fmt = e.fmt
    BY <2>1, <2>3, <2>4 DEF Senders
  <2> QED BY <2>2, <2>5, SpoilKeeps
<1> QED
  BY <1>4, <1>5, <1>6, <1>7

LEMMA ClearedKeeps ==
    ASSUME NEW s, NEW t, NEW b, NEW f, Pushing(s, t, b, f), NEW more,
           NEW r, r = Cleared(s, more) \/ r = ClearAggregationInfo(s)
    PROVE  Pushing(r, t, b, f) /\ r.fmt = s.fmt
<1>1. s \in Senders
  BY DEF Pushing
<1>2. CASE r = ClearAggregationInfo(s)
  <2>1. /\ r \in Senders /\ r.headers = s.headers /\ r.used = s.used /\ r.seq = s.seq
        /\ r.packets = s.packets /\ r.out = s.out /\ (r.open => s.open) /\ r.fmt = s.fmt
    <3>1. <<>> \in Seq(NalUnits)
      OBVIOUS
    <3> QED BY <1>1, <1>2, <3>1 DEF ClearAggregationInfo, Senders
  <2> QED BY <2>1, SameQueue
<1>3. CASE r = s
  BY <1>3
<1> QED
  BY <1>2, <1>3 DEF Cleared

\* Collecting a unit for aggregation disturbs no run.
LEMMA CollectKeeps ==
    ASSUME NEW s, NEW t \in Nat \ {0}, NEW b \in Numbers, NEW f, Pushing(s, t, b, f),
           NEW u \in NalUnits, NEW r, r = Collect(s, u)
    PROVE  Pushing(r, t, b, f) /\ r.fmt = s.fmt
<1>1. s \in Senders
  BY DEF Pushing
<1> DEFINE n == Append(s.nalus, u)
           q == SpoiltPackets(s.packets)
<1>2. n \in Seq(NalUnits)
  BY <1>1, SenderIs
<1>3. q \in Seq(Queue)
  BY <1>1, SenderIs, SpoiltPacketsIs
<1>4. r = [s EXCEPT !.nalus = n, !.ret = "RTP_NOT_READY", !.packets = IF s.made THEN q ELSE s.packets]
  BY DEF Collect
<1> HIDE DEF n
<1>5. CASE s.made
  <2> HIDE DEF q
  <2>1. /\ r \in Senders /\ r.headers = s.headers /\ r.used = s.used /\ r.seq = s.seq
        /\ r.packets = q /\ r.out = s.out /\ r.open = s.open /\ r.fmt = s.fmt
    BY <1>1, <1>2, <1>3, <1>4, <1>5 DEF Senders, Returns
  <2> QED BY <2>1, SpoilKeeps DEF q
<1>6. CASE ~ s.made
  <2>1. /\ r \in Senders /\ r.headers = s.headers /\ r.used = s.used /\ r.seq = s.seq
        /\ r.packets = s.packets /\ r.out = s.out /\ (r.open => s.open) /\ r.fmt = s.fmt
    BY <1>1, <1>2, <1>4, <1>6 DEF Senders, Returns
  <2> QED BY <2>1, SameQueue
<1> QED
  BY <1>5, <1>6

\* The fragments of a unit, one by one.
Queueing(g, s, t, u) ==
    /\ g \in [0 .. u.frags -> Senders] /\ g[0] = s
    /\ \A k \in 1 .. u.frags : g[k] = EnqueueMessage(g[k - 1], t, Part(u, k))

\* The recursion over the fragments of a unit has a value for each of them.
LEMMA FragmentsAre ==
    ASSUME NEW s \in Senders, NEW t \in Nat, NEW u \in NalUnits
    PROVE  \E g : Queueing(g, s, t, u) /\ Fragments(s, t, u) = g[u.frags]
<1> DEFINE N == u.frags
           step == [k \in 1 .. N |-> [x \in Senders |-> EnqueueMessage(x, t, Part(u, k))]]
           Is(g) == g = [k \in 0 .. N |-> IF k = 0 THEN s ELSE EnqueueMessage(g[k - 1], t, Part(u, k))]
           after == CHOOSE g : Is(g)
<1>1. N \in Nat
  BY DEF NalUnits
<1>2. \A x \in Senders, k \in 1 .. N : EnqueueMessage(x, t, Part(u, k)) \in Senders
  <2> SUFFICES ASSUME NEW x \in Senders, NEW k \in 1 .. N PROVE EnqueueMessage(x, t, Part(u, k)) \in Senders
    OBVIOUS
  <2>1. k \in Nat
    BY <1>1
  <2>2. Part(u, k) \in Loads
    BY <2>1, PartIs
  <2> QED BY <2>2, EnqueueIs
<1>3. step \in [1 .. N -> [Senders -> Senders]]
  BY <1>2
<1>4. PICK f : Iterates(f, N, Senders, s, step)
  <2> HIDE DEF step, N
  <2> QED BY <1>1, <1>3, Recursion
<1>5. \A n \in 0 .. N : n # 0 => step[n][f[n - 1]] = EnqueueMessage(f[n - 1], t, Part(u, n))
  <2> SUFFICES ASSUME NEW n \in 0 .. N, n # 0
               PROVE  step[n][f[n - 1]] = EnqueueMessage(f[n - 1], t, Part(u, n))
    OBVIOUS
  <2>1. n - 1 \in 0 .. N /\ n \in 1 .. N
    BY <1>1
  <2>2. f[n - 1] \in Senders
    BY <2>1, <1>4 DEF Iterates
  <2> QED BY <2>1, <2>2
<1>6. Is(f)
  <2> DEFINE h == [k \in 0 .. N |-> IF k = 0 THEN s ELSE EnqueueMessage(f[k - 1], t, Part(u, k))]
  <2>1. ASSUME NEW n \in 0 .. N PROVE f[n] = h[n]
    <3>1. CASE n = 0
      BY <3>1, <1>4 DEF Iterates
    <3>2. CASE n # 0
      <4>1. n \in 1 .. N
        BY <3>2, <1>1
      <4>2. f[n] = step[n][f[n - 1]]
        BY <4>1, <1>4 DEF Iterates
      <4> HIDE DEF step
      <4> QED BY <4>2, <3>2, <1>5
    <3> QED BY <3>1, <3>2
  <2>2. f = [n \in 0 .. N |-> f[n]] /\ h = [n \in 0 .. N |-> h[n]]
    BY <1>4 DEF Iterates
  <2>3. f = h
    <3> HIDE DEF h, step
    <3> QED BY <2>1, <2>2
  <2> QED BY <2>3
<1>7. Is(after)
  <2> HIDE DEF Is
  <2> QED BY <1>6
<1>8. Fragments(s, t, u) = after[N]
  BY DEF Fragments
<1> HIDE DEF after
<1> DEFINE S == {k \in 0 .. N : after[k] \in Senders}
<1>9. after[0] = s /\ DOMAIN after = 0 .. N /\ after = [k \in 0 .. N |-> after[k]]
  BY <1>1, <1>7
<1>10. \A k \in 1 .. N : after[k] = EnqueueMessage(after[k - 1], t, Part(u, k))
  BY <1>1, <1>7
<1>11. \A k \in 0 .. N : k \in S
  <2>1. 0 \in S
    BY <1>1, <1>9
  <2>2. ASSUME NEW n \in 0 .. N - 1, n \in S PROVE n + 1 \in S
    <3>1. n + 1 \in 1 .. N /\ n + 1 \in 0 .. N /\ (n + 1) - 1 = n
      BY <1>1
    <3>2. after[n + 1] = EnqueueMessage(after[n], t, Part(u, n + 1))
      BY <3>1, <1>10
    <3>3. after[n] \in Senders
      BY <2>2
    <3>4. EnqueueMessage(after[n], t, Part(u, n + 1)) \in Senders
      BY <3>1, <3>3, <1>2
    <3> QED BY <3>1, <3>2, <3>4
  <2> HIDE DEF S, N
  <2> QED BY <1>1, <2>1, <2>2, UpTo
<1>12. after \in [0 .. N -> Senders]
  BY <1>9, <1>11
<1> QED
  BY <1>8, <1>9, <1>10, <1>12 DEF Queueing

\* Without a transaction the first of them is a crash.
LEMMA FragmentsCrash ==
    ASSUME NEW s \in Senders, NEW t \in Nat, NEW u \in NalUnits, ~ s.open
    PROVE  Fragments(s, t, u) \in {s, Crash(s)}
<1>1. PICK g : Queueing(g, s, t, u) /\ Fragments(s, t, u) = g[u.frags]
  BY FragmentsAre
<1> DEFINE N == u.frags
           S == {k \in 0 .. N : g[k] \in {s, Crash(s)}}
<1>2. N \in Nat
  BY DEF NalUnits
<1>3. 0 \in S
  BY <1>1, <1>2 DEF Queueing
<1>4. ASSUME NEW n \in 0 .. N - 1, n \in S PROVE n + 1 \in S
  <2>1. n + 1 \in 1 .. N /\ n + 1 \in 0 .. N /\ (n + 1) - 1 = n
    BY <1>2
  <2>2. g[n + 1] = EnqueueMessage(g[n], t, Part(u, n + 1))
    BY <2>1, <1>1 DEF Queueing
  <2>3. ~ g[n].open
    BY <1>4, CrashIs
  <2>4. g[n + 1] = Crash(g[n])
    BY <2>2, <2>3 DEF EnqueueMessage
  <2>5. Crash(Crash(s)) = Crash(s)
    BY DEF Crash, Senders
  <2> QED BY <1>4, <2>1, <2>4, <2>5
<1>5. \A k \in 0 .. N : k \in S
  <2> HIDE DEF S, N
  <2> QED BY <1>2, <1>3, <1>4, UpTo
<1> QED
  BY <1>1, <1>2, <1>5

\* The transaction after the first k fragments.
Queued(r, s, t, b, u, k) ==
    /\ r \in Senders /\ HeadersIn(r, t, b) /\ r.open = s.open /\ r.used = s.used + k
    /\ r.out = s.out /\ r.fmt = s.fmt /\ Len(r.headers) >= Len(s.headers)
    /\ Len(r.packets) = Len(s.packets) + k
    /\ \A i \in 1 .. Len(s.packets) : r.packets[i] = s.packets[i]
    /\ \A x \in 1 .. k : r.packets[Len(s.packets) + x] = [h |-> s.used + x, load |-> Part(u, x)]

\* A further fragment continues the run.
LEMMA QueuedMore ==
    ASSUME NEW s \in Senders, NEW t \in Nat \ {0}, NEW b \in Numbers, NEW u \in NalUnits, s.open,
           NEW k \in Nat, NEW r, Queued(r, s, t, b, u, k),
           NEW d, d = EnqueueMessage(r, t, Part(u, k + 1))
    PROVE  Queued(d, s, t, b, u, k + 1)
<1> DEFINE l == Part(u, k + 1)
           n == Len(s.packets)
<1>1. /\ r \in Senders /\ HeadersIn(r, t, b) /\ r.open /\ r.used = s.used + k
      /\ r.out = s.out /\ r.fmt = s.fmt /\ Len(r.headers) >= Len(s.headers)
      /\ Len(r.packets) = n + k
      /\ \A i \in 1 .. n : r.packets[i] = s.packets[i]
      /\ \A x \in 1 .. k : r.packets[n + x] = [h |-> s.used + x, load |-> Part(u, x)]
  BY DEF Queued
<1>2. l \in Loads /\ k + 1 \in Nat
  BY PartIs
<1>3. r.used <= Len(r.headers) /\ t \in Nat
  BY <1>1 DEF HeadersIn
<1> HIDE DEF l
<1>4. d \in Senders /\ Enqueued(d, r, t, l)
  <2>1. d = EnqueueMessage(r, t, l)
    BY DEF l
  <2> QED BY <1>1, <1>2, <1>3, <2>1, EnqueueIs
<1>5. HeadersIn(d, t, b)
  <2>1. d = EnqueueMessage(r, t, l)
    BY DEF l
  <2> QED BY <2>1, <1>1, <1>2, HeadersGrow
<1>6. /\ s.used \in Nat /\ n \in Nat /\ r.packets \in Seq(Queue)
      /\ Len(r.headers) \in Nat /\ Len(s.headers) \in Nat /\ Len(d.headers) \in Nat
  BY <1>1, <1>4, SenderIs
<1>7. /\ d.packets = Append(r.packets, [h |-> r.used + 1, load |-> l])
      /\ d.open = r.open /\ d.used = r.used + 1 /\ d.out = r.out /\ d.fmt = r.fmt
      /\ Len(d.headers) >= Len(r.headers)
  BY <1>4 DEF Enqueued
<1> DEFINE p == [h |-> r.used + 1, load |-> l]
           q == r.packets
<1>8. p \in Queue
  <2>1. r.used + 1 \in Nat
    BY <1>1, <1>6
  <2> QED BY <2>1, <1>2 DEF Queue
<1>9. /\ Len(d.packets) = n + k + 1 /\ d.packets[n + k + 1] = p
      /\ \A i \in 1 .. n + k : d.packets[i] = q[i]
  <2> HIDE DEF p, q, n
  <2>1. d.packets = Append(q, p) /\ q \in Seq(Queue) /\ Len(q) = n + k
    BY <1>1, <1>6, <1>7 DEF p, q
  <2> QED BY <2>1, <1>8
<1>10. p = [h |-> s.used + (k + 1), load |-> Part(u, k + 1)]
  <2>1. r.used + 1 = s.used + (k + 1)
    <3>1. r.used = s.used + k /\ s.used \in Nat
      BY <1>1, <1>6
    <3> QED BY <3>1
  <2> QED BY <2>1 DEF l
<1> HIDE DEF p, n
<1>11. ASSUME NEW x \in 1 .. k + 1 PROVE d.packets[n + x] = [h |-> s.used + x, load |-> Part(u, x)]
  <2>1. CASE x = k + 1
    <3>1. n + x = n + k + 1
      BY <2>1, <1>6
    <3> QED BY <2>1, <3>1, <1>9, <1>10
  <2>2. CASE x # k + 1
    <3>1. x \in 1 .. k /\ n + x \in 1 .. n + k
      BY <2>2, <1>6
    <3>2. d.packets[n + x] = q[n + x]
      BY <3>1, <1>9
    <3> QED BY <3>1, <3>2, <1>1
  <2> QED BY <2>1, <2>2
<1>12. \A i \in 1 .. n : d.packets[i] = s.packets[i]
  <2>1. \A i \in 1 .. n : i \in 1 .. n + k
    BY <1>6
  <2> QED BY <2>1, <1>1, <1>9
<1>13. d.used = s.used + (k + 1) /\ Len(d.headers) >= Len(s.headers) /\ Len(d.packets) = n + (k + 1)
  <2>1. r.used = s.used + k /\ s.used \in Nat /\ n \in Nat
    BY <1>1, <1>6
  <2>2. d.used = r.used + 1
    BY <1>7
  <2>3. d.used = s.used + (k + 1)
    BY <2>1, <2>2
  <2>4. Len(d.headers) >= Len(s.headers)
    BY <1>1, <1>6, <1>7
  <2>5. Len(d.packets) = n + (k + 1)
    BY <2>1, <1>9
  <2> QED BY <2>3, <2>4, <2>5
<1> QED
  BY <1>1, <1>4, <1>5, <1>7, <1>11, <1>12, <1>13 DEF Queued, n

\* The last fragment ends it.
LEMMA QueuedAll ==
    ASSUME NEW s \in Senders, NEW t \in Nat \ {0}, NEW b \in Numbers, HeadersIn(s, t, b),
           NEW u \in NalUnits, s.open
    PROVE  Queued(Fragments(s, t, u), s, t, b, u, u.frags)
<1>1. t \in Nat
  OBVIOUS
<1>2. PICK g : Queueing(g, s, t, u) /\ Fragments(s, t, u) = g[u.frags]
  BY <1>1, FragmentsAre
<1> DEFINE N == u.frags
           S == {k \in 0 .. N : Queued(g[k], s, t, b, u, k)}
<1>3. N \in Nat
  BY DEF NalUnits
<1>4. 0 \in S
  <2>1. g[0] = s /\ 0 \in 0 .. N
    BY <1>2, <1>3 DEF Queueing
  <2>2. s.used + 0 = s.used /\ Len(s.packets) + 0 = Len(s.packets) /\ Len(s.headers) \in Nat
    BY SenderIs
  <2>3. 1 .. 0 = {}
    OBVIOUS
  <2>4. Queued(s, s, t, b, u, 0)
    BY <2>2, <2>3 DEF Queued
  <2> QED BY <2>1, <2>4
<1>5. ASSUME NEW n \in 0 .. N - 1, n \in S PROVE n + 1 \in S
  <2>1. n + 1 \in 1 .. N /\ n + 1 \in 0 .. N /\ (n + 1) - 1 = n /\ n \in Nat
    BY <1>3
  <2>2. g[n + 1] = EnqueueMessage(g[n], t, Part(u, n + 1))
    BY <2>1, <1>2 DEF Queueing
  <2>3. Queued(g[n], s, t, b, u, n)
    BY <1>5
  <2>4. Queued(g[n + 1], s, t, b, u, n + 1)
    BY <2>1, <2>2, <2>3, QueuedMore
  <2> QED BY <2>1, <2>4
<1>6. \A k \in 0 .. N : k \in S
  <2> HIDE DEF S, N
  <2> QED BY <1>3, <1>4, <1>5, UpTo
<1> QED
  BY <1>2, <1>3, <1>6

\* fu_division: a whole unit in fragments, one run more.
LEMMA FragmentsKeep ==
    ASSUME NEW s, NEW t \in Nat \ {0}, NEW b \in Numbers, NEW f \in Nat, Pushing(s, t, b, f),
           NEW u \in NalUnits, u.ts = t, u.frags >= 2, f <= u.from,
           NEW r, r = Fragments(s, t, u)
    PROVE  Pushing(r, t, b, u.from + 1)
<1>1. s \in Senders /\ HeadersIn(s, t, b) /\ PacketsIn(s, t, f) /\ QueuedRuns(s.packets, t) /\ OutIn(s, t)
  BY DEF Pushing
<1>2. u.from \in Nat /\ u.frags \in Nat /\ t \in Nat
  BY DEF NalUnits
<1>3. CASE ~ s.open
  <2>1. r \in {s, Crash(s)}
    BY <1>1, <1>2, <1>3, FragmentsCrash
  <2>2. /\ r \in Senders /\ r.headers = s.headers /\ r.used = s.used /\ r.seq = s.seq
        /\ r.packets = s.packets /\ r.out = s.out /\ (r.open => s.open)
    BY <2>1, <1>1, CrashIs
  <2>3. Pushing(r, t, b, f)
    BY <2>2, SameQueue
  <2>4. f <= u.from + 1 /\ u.from + 1 \in Nat
    BY <1>2
  <2> QED BY <2>2, <2>3, <2>4, LaterUnits
<1>4. CASE s.open
  <2> DEFINE q == s.packets
             p == r.packets
             n == Len(q)
             N == u.frags
  <2>1. Queued(r, s, t, b, u, N)
    BY <1>1, <1>4, QueuedAll
  <2>2. /\ r \in Senders /\ HeadersIn(r, t, b) /\ r.open = s.open /\ r.used = s.used + N
        /\ r.out = s.out /\ Len(r.headers) >= Len(s.headers) /\ Len(p) = n + N
        /\ \A i \in 1 .. n : p[i] = q[i]
        /\ \A x \in 1 .. N : p[n + x] = [h |-> s.used + x, load |-> Part(u, x)]
    BY <2>1 DEF Queued
  <2>3. /\ q \in Seq(Queue) /\ p \in Seq(Queue) /\ DOMAIN q = 1 .. n /\ n \in Nat
        /\ DOMAIN p = 1 .. Len(p) /\ s.used \in Nat /\ Len(r.headers) \in Nat /\ Len(s.headers) \in Nat
    BY <1>1, <2>2, SenderIs
  <2>4. DOMAIN p = 1 .. n + N /\ N \in Nat /\ r.used <= Len(r.headers)
    BY <2>2, <2>3, <1>2 DEF HeadersIn
  <2>5. ASSUME NEW i \in DOMAIN p, i \notin 1 .. n
        PROVE  /\ i - n \in 1 .. N /\ p[i] = [h |-> s.used + (i - n), load |-> Part(u, i - n)]
               /\ p[i].h = s.used + (i - n) /\ p[i].load = Part(u, i - n)
               /\ Own(p[i], t) /\ UnitOf(p[i]) = u /\ p[i].load.part = i - n
               /\ p[i].load.kind = "fragment" /\ p[i].load.units = <<u>>
    <3> DEFINE x == i - n
    <3>1. x \in 1 .. N /\ i = n + x
      <4>1. n \in Nat /\ N \in Nat /\ i \in 1 .. n + N /\ i \notin 1 .. n
        BY <2>5, <2>3, <2>4
      <4> HIDE DEF n, N, p, q
      <4> QED BY ONLY <4>1 DEF x
    <3> HIDE DEF x, p
    <3>2. p[i] = [h |-> s.used + x, load |-> Part(u, x)]
      BY <3>1, <2>2
    <3>3. p[i].h = s.used + x /\ p[i].load = Part(u, x)
      BY <3>2
    <3>4. p[i].load.kind = "fragment" /\ p[i].load.units = <<u>> /\ p[i].load.part = x
      BY <3>3 DEF Part
    <3>5. Own(p[i], t) /\ UnitOf(p[i]) = u
      BY <3>4 DEF Own, UnitOf
    <3> QED BY <3>1, <3>2, <3>3, <3>4, <3>5 DEF x
  <2>6. ASSUME NEW i \in 1 .. n
        PROVE  /\ i \in DOMAIN q /\ i \in DOMAIN p /\ p[i] = q[i]
               /\ q[i].h \in 1 .. Len(s.headers) /\ FragmentOK(q[i].load)
               /\ q[i].load.kind = "fragment" => UnitOf(q[i]).ts <= t
               /\ Own(q[i], t) => q[i].h <= s.used /\ UnitOf(q[i]).from < f
               /\ q[i].h \in Nat /\ q[i].load \in Loads
               /\ Own(q[i], t) => UnitOf(q[i]).from \in Nat
    <3>1. i \in DOMAIN q /\ i \in DOMAIN p /\ p[i] = q[i]
      BY <2>2, <2>3, <2>4
    <3>2. /\ q[i].h \in 1 .. Len(s.headers) /\ FragmentOK(q[i].load)
          /\ q[i].load.kind = "fragment" => UnitOf(q[i]).ts <= t
          /\ Own(q[i], t) => q[i].h <= s.used /\ UnitOf(q[i]).from < f
      BY <3>1, <1>1 DEF PacketsIn
    <3>3. q[i].h \in Nat /\ q[i].load \in Loads
      BY <1>1, <3>1, PacketIs
    <3> HIDE DEF q, p, n
    <3>4. Own(q[i], t) => UnitOf(q[i]) \in NalUnits
      BY <3>2, <3>3, FragmentIs DEF Own, UnitOf
    <3> QED BY <3>1, <3>2, <3>3, <3>4 DEF NalUnits
  <2> HIDE DEF p, q, n, N
  <2>7. PacketsIn(r, t, u.from + 1)
    <3> SUFFICES ASSUME NEW i \in DOMAIN p
                 PROVE  /\ p[i].h \in 1 .. Len(r.headers) /\ FragmentOK(p[i].load)
                        /\ p[i].load.kind = "fragment" => UnitOf(p[i]).ts <= t
                        /\ Own(p[i], t) => p[i].h <= r.used /\ UnitOf(p[i]).from < u.from + 1
      BY DEF PacketsIn, p
    <3>1. CASE i \in 1 .. n
      <4>1. p[i].h \in 1 .. Len(r.headers)
        BY <3>1, <2>2, <2>3, <2>6
      <4>2. Own(p[i], t) => p[i].h <= r.used
        BY <3>1, <2>2, <2>3, <2>4, <2>6
      <4>3. Own(p[i], t) => UnitOf(p[i]).from < u.from + 1
        BY <3>1, <2>6, <1>2
      <4> QED BY <3>1, <2>6, <4>1, <4>2, <4>3
    <3>2. CASE i \notin 1 .. n
      <4>1. /\ i - n \in 1 .. N /\ p[i].h = s.used + (i - n) /\ p[i].load = Part(u, i - n)
            /\ UnitOf(p[i]) = u
        BY <3>2, <2>5
      <4>2. p[i].h \in 1 .. Len(r.headers) /\ p[i].h <= r.used
        <5> DEFINE x == i - n
                   h == p[i].h
                   a == s.used
                   l == Len(r.headers)
        <5>1. x \in 1 .. N /\ h = a + x
          BY <4>1
        <5>2. a \in Nat /\ l \in Nat /\ N \in Nat /\ r.used = a + N /\ r.used <= l
          BY <2>2, <2>3, <2>4
        <5> HIDE DEF x, h, a, l
        <5>3. h \in 1 .. l /\ h <= r.used
          BY <5>1, <5>2
        <5> QED BY <5>3 DEF h, l
      <4>3. FragmentOK(p[i].load)
        <5> DEFINE x == i - n
        <5>1. x \in 1 .. u.frags
          BY <4>1 DEF N
        <5> HIDE DEF x
        <5>2. FragmentOK(Part(u, x))
          BY <5>1 DEF FragmentOK, Part
        <5> QED BY <5>2, <4>1 DEF x
      <4>4. u.ts <= t /\ u.from < u.from + 1
        BY <1>2
      <4> QED BY <4>1, <4>2, <4>3, <4>4
    <3> QED BY <3>1, <3>2
  <2>8. ASSUME NEW i \in DOMAIN p, Own(p[i], t)
        PROVE  LET v == UnitOf(p[i])
                   k == p[i].load.part
               IN  /\ k < v.frags => i + 1 \in DOMAIN p /\ p[i + 1] = [h |-> p[i].h + 1, load |-> Part(v, k + 1)]
                   /\ k > 1 => i - 1 \in DOMAIN p /\ p[i - 1].load = Part(v, k - 1)
    <3>1. CASE i \in 1 .. n
      <4> DEFINE v == UnitOf(q[i])
                 k == q[i].load.part
      <4>1. p[i] = q[i] /\ i \in DOMAIN q
        BY <3>1, <2>6
      <4>2. /\ k < v.frags => i + 1 \in DOMAIN q /\ q[i + 1] = [h |-> q[i].h + 1, load |-> Part(v, k + 1)]
            /\ k > 1 => i - 1 \in DOMAIN q /\ q[i - 1].load = Part(v, k - 1)
        BY <4>1, <2>8, <1>1 DEF QueuedRuns, q
      <4>3. \A j \in DOMAIN q : j \in DOMAIN p /\ p[j] = q[j]
        BY <2>3, <2>6 DEF n
      <4> HIDE DEF v, k
      <4>4. k < v.frags => i + 1 \in DOMAIN p /\ p[i + 1] = [h |-> q[i].h + 1, load |-> Part(v, k + 1)]
        BY <4>2, <4>3
      <4>5. k > 1 => i - 1 \in DOMAIN p /\ p[i - 1].load = Part(v, k - 1)
        BY <4>2, <4>3
      <4> QED BY <4>1, <4>4, <4>5 DEF v, k
    <3>2. CASE i \notin 1 .. n
      <4> DEFINE k == i - n
      <4>1. k \in 1 .. N /\ p[i].h = s.used + k /\ UnitOf(p[i]) = u /\ p[i].load.part = k
        BY <3>2, <2>5
      <4>2. i = n + k
        BY <2>3, <2>4
      <4>3. ASSUME k < u.frags
            PROVE  i + 1 \in DOMAIN p /\ p[i + 1] = [h |-> p[i].h + 1, load |-> Part(u, k + 1)]
        <5>1. i + 1 \in DOMAIN p /\ k + 1 \in 1 .. N /\ i + 1 = n + (k + 1)
          <6>1. k \in 1 .. N /\ k < N /\ n \in Nat /\ N \in Nat /\ i = n + k
            BY <4>1, <4>2, <4>3, <2>3, <2>4 DEF N
          <6> HIDE DEF k
          <6>2. i + 1 \in 1 .. n + N /\ k + 1 \in 1 .. N /\ i + 1 = n + (k + 1)
            BY ONLY <6>1
          <6> QED BY <6>2, <2>4
        <5>2. p[n + (k + 1)] = [h |-> s.used + (k + 1), load |-> Part(u, k + 1)]
          BY <5>1, <2>2
        <5>3. s.used + (k + 1) = p[i].h + 1
          BY <4>1, <2>3, <2>4
        <5> HIDE DEF k
        <5> QED BY <5>1, <5>2, <5>3
      <4>4. ASSUME k > 1
            PROVE  i - 1 \in DOMAIN p /\ p[i - 1].load = Part(u, k - 1)
        <5>1. i - 1 \in DOMAIN p /\ k - 1 \in 1 .. N /\ i - 1 = n + (k - 1)
          <6>1. k \in 1 .. N /\ k > 1 /\ n \in Nat /\ N \in Nat /\ i = n + k
            BY <4>1, <4>2, <4>4, <2>3, <2>4
          <6> HIDE DEF k
          <6>2. i - 1 \in 1 .. n + N /\ k - 1 \in 1 .. N /\ i - 1 = n + (k - 1)
            BY ONLY <6>1
          <6> QED BY <6>2, <2>4
        <5>2. p[n + (k - 1)] = [h |-> s.used + (k - 1), load |-> Part(u, k - 1)]
          BY <5>1, <2>2
        <5> HIDE DEF k
        <5> QED BY <5>1, <5>2
      <4> HIDE DEF k
      <4> QED BY <4>1, <4>3, <4>4
    <3> QED BY <3>1, <3>2
  <2>9. ASSUME NEW i \in DOMAIN p, NEW j \in DOMAIN p, Own(p[i], t), Own(p[j], t), p[i].load = p[j].load
        PROVE  i = j
    <3>1. CASE i \in 1 .. n /\ j \in 1 .. n
      BY <3>1, <2>6, <2>9, <1>1 DEF QueuedRuns, q
    <3>2. CASE i \notin 1 .. n /\ j \notin 1 .. n
      <4>1. p[i].load.part = i - n /\ p[j].load.part = j - n
        BY <3>2, <2>5
      <4>2. i - n = j - n
        BY <4>1, <2>9
      <4> QED BY <4>2, <2>3, <2>4
    <3>3. UnitOf(p[i]) = UnitOf(p[j])
      BY <2>9 DEF UnitOf
    <3>4. \A x \in DOMAIN p, y \in DOMAIN p :
             Own(p[x], t) /\ x \in 1 .. n /\ y \notin 1 .. n => UnitOf(p[x]) # UnitOf(p[y])
      <4> SUFFICES ASSUME NEW x \in DOMAIN p, NEW y \in DOMAIN p, Own(p[x], t), x \in 1 .. n, y \notin 1 .. n
                   PROVE  UnitOf(p[x]) # UnitOf(p[y])
        OBVIOUS
      <4>1. UnitOf(p[y]) = u
        BY <2>5
      <4>2. UnitOf(p[x]).from < f /\ UnitOf(p[x]).from \in Nat
        BY <2>6
      <4>3. UnitOf(p[x]).from # u.from
        BY <4>2, <1>2
      <4> QED BY <4>1, <4>3
    <3> QED BY <3>1, <3>2, <3>3, <3>4, <2>9
  <2>10. QueuedRuns(p, t)
    BY <2>8, <2>9 DEF QueuedRuns
  <2>11. OutIn(r, t)
    BY <2>2, <1>1 DEF OutIn
  <2> QED BY <2>2, <2>7, <2>10, <2>11 DEF Pushing, p
<1> QED
  BY <1>3, <1>4

\* scl push of a unit larger than a packet.
LEMMA FragmentedKeeps ==
    ASSUME NEW s, NEW t \in Nat \ {0}, NEW b \in Numbers, NEW f, Pushing(s, t, b, f), NEW more,
           NEW r, r = Fragmented(s, more)
    PROVE  Pushing(r, t, b, f)
<1>1. s \in Senders
  BY DEF Pushing
<1>2. CASE s.ret = "crash"
  BY <1>2 DEF Fragmented
<1>3. CASE s.ret # "crash" /\ more
  <2>1. r = [s EXCEPT !.ret = "RTP_NOT_READY"]
    BY <1>3 DEF Fragmented
  <2>2. /\ r \in Senders /\ r.headers = s.headers /\ r.used = s.used /\ r.seq = s.seq
        /\ r.packets = s.packets /\ r.out = s.out /\ (r.open => s.open)
    BY <2>1, <1>1 DEF Senders, Returns
  <2> QED BY <2>2, SameQueue
<1>4. CASE s.ret # "crash" /\ ~ more
  <2>1. r = FlushQueue(s)
    BY <1>4 DEF Fragmented
  <2> QED BY <2>1, FlushKeeps
<1> QED
  BY <1>2, <1>3, <1>4

\* A unit that fits a packet.
LEMMA SmallKeeps ==
    ASSUME NEW s, NEW t \in Nat \ {0}, NEW b \in Numbers, NEW f, Pushing(s, t, b, f), NEW more,
           NEW u \in NalUnits, NEW r, r = PushSmall(s, t, u, more)
    PROVE  Pushing(r, t, b, f)
<1>1. CASE more
  BY <1>1, CollectKeeps DEF PushSmall
<1>2. CASE ~ more /\ s.nalus = <<>>
  <2> DEFINE e == EnqueueMessage(s, t, Units(<<u>>))
  <2>1. r = FlushQueue(e)
    BY <1>2 DEF PushSmall, PushSmallLast
  <2>2. Units(<<u>>) \in Loads /\ Units(<<u>>).kind # "fragment"
    <3>1. <<u>> \in Seq(NalUnits)
      OBVIOUS
    <3> QED BY <3>1, UnitsIs
  <2>3. Pushing(e, t, b, f)
    BY <2>2, EnqueueOther
  <2> HIDE DEF e
  <2> QED BY <2>1, <2>3, FlushKeeps
<1>3. CASE ~ more /\ s.nalus # <<>>
  <2> DEFINE e == MakeAggregationPkt(s, t)
             d == FlushQueue(e)
  <2>1. r = ClearAggregationInfo(d)
    BY <1>3 DEF PushSmall, PushSmallLast
  <2>2. Pushing(e, t, b, f)
    BY AggregateKeeps
  <2> HIDE DEF e
  <2>3. Pushing(d, t, b, f)
    BY <2>2, FlushKeeps
  <2> HIDE DEF d
  <2> QED BY <2>1, <2>3, ClearedKeeps
<1> QED
  BY <1>1, <1>2, <1>3

\* One unit pushed.
LEMMA UnitKeeps ==
    ASSUME NEW s, NEW t \in Nat \ {0}, NEW b \in Numbers, NEW f \in Nat, Pushing(s, t, b, f), NEW more,
           NEW u \in NalUnits, u.ts = t, f <= u.from,
           NEW r, r = PushUnit(s, t, u, more)
    PROVE  Pushing(r, t, b, u.from + 1)
<1>1. s \in Senders /\ s.fmt \in Formats
  BY SenderIs DEF Pushing
<1>2. u.from \in Nat /\ u.frags \in Nat
  BY DEF NalUnits
<1>3. ASSUME NEW d, Pushing(d, t, b, f) PROVE Pushing(d, t, b, u.from + 1)
  <2>1. d \in Senders
    BY <1>3 DEF Pushing
  <2>2. u.from + 1 \in Nat /\ f <= u.from + 1
    BY <1>2
  <2> QED BY <1>3, <2>1, <2>2, LaterUnits
<1>4. CASE s.ret \in {"crash", "RTP_INVALID_VALUE"}
  BY <1>3, <1>4 DEF PushUnit
<1>5. CASE s.ret \notin {"crash", "RTP_INVALID_VALUE"}
  <2>1. r = PushNalUnit(s, t, u, more)
    BY <1>5 DEF PushUnit
  <2>2. CASE u.frags = 0
    <3>1. r = [s EXCEPT !.ret = "RTP_INVALID_VALUE"]
      BY <2>1, <2>2 DEF PushNalUnit
    <3>2. /\ r \in Senders /\ r.headers = s.headers /\ r.used = s.used /\ r.seq = s.seq
          /\ r.packets = s.packets /\ r.out = s.out /\ (r.open => s.open)
      BY <3>1, <1>1 DEF Senders, Returns
    <3>3. Pushing(r, t, b, f)
      BY <3>2, SameQueue
    <3> QED BY <3>3, <1>3
  <2>3. CASE u.frags = 1 /\ s.fmt # "H266"
    <3>1. r = PushSmall(s, t, u, more)
      BY <2>1, <2>3 DEF PushNalUnit
    <3>2. Pushing(r, t, b, f)
      BY <3>1, SmallKeeps
    <3> QED BY <3>2, <1>3
  <2>4. CASE u.frags > 1 /\ s.fmt \in {"H264", "H265"}
    <3> DEFINE a == MakeAggregationPkt(s, t)
               d == Fragments(a, t, u)
    <3>1. r = Fragmented(d, more) \/ r = Fragmented(Cleared(d, more), more)
      BY <2>1, <2>4 DEF PushNalUnit, PushNal264, PushNal265
    <3>2. Pushing(a, t, b, f)
      BY AggregateKeeps
    <3>3. u.frags >= 2
      BY <2>4, <1>2
    <3> HIDE DEF a
    <3>4. Pushing(d, t, b, u.from + 1)
      BY <3>2, <3>3, FragmentsKeep
    <3> HIDE DEF d
    <3> DEFINE c == Cleared(d, more)
    <3>5. Pushing(c, t, b, u.from + 1)
      BY <3>4, ClearedKeeps
    <3> HIDE DEF c
    <3> QED BY <3>1, <3>4, <3>5, FragmentedKeeps DEF c
  <2>5. CASE u.frags > 1 /\ s.fmt = "H266"
    <3> DEFINE d == Fragments(s, t, u)
    <3>1. r = Fragmented(d, more)
      <4>1. u.frags # 0 /\ u.frags # 1 /\ u.frags > 0 /\ s.fmt # "H264" /\ s.fmt # "H265"
        BY <2>5, <1>2
      <4>2. r = PushNal266(s, t, u, more)
        BY <2>1, <2>5, <4>1 DEF PushNalUnit
      <4> QED BY <4>2, <2>5 DEF PushNal266
    <3>2. u.frags >= 2
      BY <2>5, <1>2
    <3>3. Pushing(d, t, b, u.from + 1)
      BY <3>2, FragmentsKeep
    <3> HIDE DEF d
    <3> QED BY <3>1, <3>3, FragmentedKeeps
  <2>6. CASE u.frags = 1 /\ s.fmt = "H266"
    <3> DEFINE d == EnqueueMessage(s, t, Units(<<u>>))
    <3>1. r = Fragmented(d, more)
      BY <2>1, <2>6 DEF PushNalUnit, PushNal266
    <3>2. Units(<<u>>) \in Loads /\ Units(<<u>>).kind # "fragment"
      <4>1. <<u>> \in Seq(NalUnits)
        OBVIOUS
      <4> QED BY <4>1, UnitsIs
    <3>3. Pushing(d, t, b, f)
      BY <3>2, EnqueueOther
    <3> HIDE DEF d
    <3>4. Pushing(r, t, b, f)
      BY <3>1, <3>3, FragmentedKeeps
    <3> QED BY <3>4, <1>3
  <2> QED BY <2>2, <2>3, <2>4, <2>5, <2>6, <1>1, <1>2 DEF Formats
<1> QED
  BY <1>4, <1>5

LEMMA PartsIs ==
    ASSUME NEW fmt, NEW len \in Nat
    PROVE  Parts(fmt, len) \in Nat
<1>1. CASE len <= 3
  BY <1>1 DEF Parts
<1>2. CASE len > 3 /\ len <= PayloadSize + 3
  BY <1>2 DEF Parts
<1>3. CASE ~ (len <= 3) /\ ~ (len > 3 /\ len <= PayloadSize + 3)
  <2>1. Parts(fmt, len) = (len - HeaderSize(fmt) + PayloadSize - 1) \div PayloadSize
    BY <1>3 DEF Parts
  <2>2. HeaderSize(fmt) \in {1, 2}
    BY DEF HeaderSize
  <2> DEFINE a == len - HeaderSize(fmt) + PayloadSize - 1
             q == a \div PayloadSize
  <2>3. a \in Nat
    BY <2>2, <1>3, SpaceIs
  <2> HIDE DEF a
  <2>4. q \in Int /\ a % PayloadSize \in 0 .. PayloadSize - 1 /\ a = PayloadSize * q + (a % PayloadSize)
    BY <2>3, SpaceIs
  <2> DEFINE r == a % PayloadSize
             n == PayloadSize
  <2>5. q \in Int /\ r \in 0 .. n - 1 /\ a = n * q + r /\ n \in Nat \ {0}
    BY <2>4, SpaceIs
  <2> HIDE DEF q, r, n
  <2>6. q <= -1 => n * q <= -n
    BY <2>5
  <2>7. q \in Nat
    BY <2>3, <2>5, <2>6
  <2> QED BY <2>1, <2>7 DEF q, a
<1> QED
  BY <1>1, <1>2, <1>3

\* A unit cut from a frame is typed.
LEMMA UnitIs ==
    ASSUME NEW fmt, NEW t \in Nat, NEW k \in DOMAIN Frames, NEW c \in CutUnits,
           c.from \in 0 .. Len(Frames[k]) - 1
    PROVE  /\ Unit(fmt, t, k, c) \in NalUnits
           /\ Unit(fmt, t, k, c).ts = t /\ Unit(fmt, t, k, c).from = c.from
<1>1. Frames[k] \in Seq(Nat) /\ c.from \in Nat /\ c.to \in Int
  BY CutIs DEF CutUnits
<1>2. Frames[k][c.from + 1] \in Nat
  BY <1>1
<1> DEFINE n == IF c.to < c.from THEN 0 ELSE Parts(fmt, c.to - c.from)
<1>3. n \in Nat
  <2>1. CASE c.to < c.from
    BY <2>1
  <2>2. CASE ~ (c.to < c.from)
    <3>1. c.to - c.from \in Nat
      BY <1>1, <2>2
    <3> QED BY <2>2, <3>1, PartsIs
  <2> QED BY <2>1, <2>2
<1>4. Unit(fmt, t, k, c) = [ts |-> t, type |-> Frames[k][c.from + 1], from |-> c.from, to |-> c.to, frags |-> n]
  BY DEF Unit
<1> HIDE DEF n
<1> QED
  BY <1>1, <1>2, <1>3, <1>4 DEF NalUnits

\* So is the frame sent as one unit.
LEMMA WholeFrameIs ==
    ASSUME NEW t \in Nat, NEW k \in DOMAIN Frames
    PROVE  WholeFrame(t, k) \in NalUnits
<1> DEFINE d == Frames[k]
           o == FindStartCode(d, 0).offset
<1>1. d \in Seq(Nat) /\ Len(d) >= 8 /\ Len(d) \in Nat
  BY CutIs
<1>2. o \in 0 .. Len(d) - 1
  <2>1. 0 \in 0 .. Len(d)
    BY <1>1
  <2> HIDE DEF d
  <2>2. \/ FindStartCode(d, 0) = NotFound
        \/ FindStartCode(d, 0) \in [offset : 0 + 1 .. Len(d) - 1, len : {3, 4}]
    BY <1>1, <2>1, FindIs
  <2>3. CASE FindStartCode(d, 0) = NotFound
    BY <2>3, <1>1 DEF NotFound
  <2>4. CASE FindStartCode(d, 0) \in [offset : 0 + 1 .. Len(d) - 1, len : {3, 4}]
    BY <2>4, <1>1
  <2> QED BY <2>2, <2>3, <2>4
<1>3. WholeFrame(t, k) = [ts |-> t, type |-> d[o + 1], from |-> o, to |-> Len(d), frags |-> 1]
  BY DEF WholeFrame
<1> HIDE DEF d, o
<1>4. d[o + 1] \in Nat /\ o \in Nat
  BY <1>1, <1>2
<1> QED
  BY <1>1, <1>3, <1>4 DEF NalUnits

\* The units of a frame up to the m-th, one by one.
PushesTo(m, g, s, t, k) ==
    g = [n \in 0 .. m |->
            IF n = 0 THEN s
            ELSE PushUnit(g[n - 1], t, Unit(s.fmt, t, k, Cut[k][n]), n < Len(Cut[k]))]

\* The recursion over the units of a frame has a value for each of them.
LEMMA PushesExist ==
    ASSUME NEW s, NEW t, NEW k, NEW N \in Nat
    PROVE  \E g : PushesTo(N, g, s, t, k)
<1> DEFINE V(n, x) == IF n = 0 THEN s ELSE PushUnit(x, t, Unit(s.fmt, t, k, Cut[k][n]), n < Len(Cut[k]))
           S == {m \in 0 .. N : \E g : PushesTo(m, g, s, t, k)}
<1>1. \A m, g : PushesTo(m, g, s, t, k) <=> g = [n \in 0 .. m |-> V(n, g[n - 1])]
  BY DEF PushesTo
<1>2. 0 \in S
  <2> DEFINE g == [n \in 0 .. 0 |-> s]
             h == [n \in 0 .. 0 |-> V(n, g[n - 1])]
  <2>1. \A n \in 0 .. 0 : h[n] = s
    OBVIOUS
  <2>2. g = h
    BY <2>1
  <2>3. 0 \in 0 .. N
    OBVIOUS
  <2> HIDE DEF V, g
  <2> QED BY <1>1, <2>2, <2>3
<1>3. ASSUME NEW m \in 0 .. N - 1, m \in S PROVE m + 1 \in S
  <2>1. PICK f : PushesTo(m, f, s, t, k)
    BY <1>3
  <2> HIDE DEF V
  <2>2. f = [n \in 0 .. m |-> V(n, f[n - 1])]
    BY <1>1, <2>1
  <2> DEFINE y == V(m + 1, f[m])
             g == [n \in 0 .. m + 1 |-> IF n = m + 1 THEN y ELSE f[n]]
             h == [n \in 0 .. m + 1 |-> V(n, g[n - 1])]
  <2>3. ASSUME NEW n \in 0 .. m + 1 PROVE g[n] = h[n]
    <3>1. CASE n = m + 1
      <4>1. g[n - 1] = f[m]
        BY <3>1
      <4> QED BY <3>1, <4>1
    <3>2. CASE n = 0
      <4>1. g[n] = V(0, f[0 - 1])
        BY <3>2, <2>2
      <4>2. \A x, z : V(0, x) = V(0, z)
        BY DEF V
      <4> QED BY <3>2, <4>1, <4>2
    <3>3. CASE n # m + 1 /\ n # 0
      <4>1. n \in 0 .. m /\ n - 1 \in 0 .. m + 1 /\ n - 1 # m + 1
        BY <3>3
      <4>2. g[n] = f[n] /\ g[n - 1] = f[n - 1] /\ f[n] = V(n, f[n - 1])
        BY <4>1, <2>2, <3>3
      <4> HIDE DEF g
      <4> QED BY <4>2
    <3> QED BY <3>1, <3>2, <3>3
  <2>4. g = h
    <3> HIDE DEF y
    <3>1. \A n \in 0 .. m + 1 : g[n] = h[n]
      BY <2>3
    <3> QED BY <3>1
  <2>5. PushesTo(m + 1, g, s, t, k)
    <3> HIDE DEF g
    <3> QED BY <1>1, <2>4
  <2>6. m + 1 \in 0 .. N
    OBVIOUS
  <2> HIDE DEF g
  <2> QED BY <2>5, <2>6
<1>4. \A n \in 0 .. N : n \in S
  <2> HIDE DEF S
  <2> QED BY <1>2, <1>3, UpTo
<1> QED
  BY <1>4

\* A frame's units, one after the other.
LEMMA UnitsKeep ==
    ASSUME NEW s, NEW t \in Nat \ {0}, NEW b \in Numbers, Pushing(s, t, b, 0), NEW k \in DOMAIN Frames,
           NEW r, r = PushUnits(s, t, k)
    PROVE  \E f \in Nat : Pushing(r, t, b, f)
<1> DEFINE c == Cut[k]
           N == Len(c)
           d == Frames[k]
           u(n) == Unit(s.fmt, t, k, c[n])
           g == CHOOSE x : PushesTo(N, x, s, t, k)
           fr(n) == IF n = 0 THEN 0 ELSE c[n].from + 1
           S == {n \in 0 .. N : Pushing(g[n], t, b, fr(n))}
<1>1. PICK o \in 0 .. Len(d) - 1 : Forward(c, d, o)
  BY CutIs
<1>2. c \in Seq(CutUnits) /\ N \in Nat /\ d \in Seq(Nat) /\ Len(d) \in Nat /\ DOMAIN c = 1 .. N
  BY <1>1, CutIs DEF Forward
<1>3. r = g[N]
  BY DEF PushUnits, PushesTo
<1>4. PushesTo(N, g, s, t, k)
  BY <1>2, PushesExist
<1> HIDE DEF g
<1>5. g[0] = s /\ \A n \in 1 .. N : g[n] = PushUnit(g[n - 1], t, u(n), n < N)
  <2>1. g = [n \in 0 .. N |-> IF n = 0 THEN s ELSE PushUnit(g[n - 1], t, u(n), n < N)]
    BY <1>4 DEF PushesTo
  <2>2. 0 \in 0 .. N /\ \A n \in 1 .. N : n \in 0 .. N /\ n # 0
    BY <1>2
  <2> HIDE DEF u, N
  <2>3. g[0] = s
    BY <2>1, <2>2
  <2>4. ASSUME NEW n \in 1 .. N PROVE g[n] = PushUnit(g[n - 1], t, u(n), n < N)
    BY <2>1, <2>2
  <2> QED BY <2>3, <2>4
<1>6. ASSUME NEW n \in 1 .. N
      PROVE  /\ u(n) \in NalUnits /\ u(n).ts = t /\ u(n).from = c[n].from /\ c[n].from \in Nat
  <2>1. c[n] \in CutUnits /\ c[n].from \in o .. Len(d) - 1 /\ t \in Nat
    BY <1>1, <1>2 DEF Forward
  <2>2. c[n].from \in 0 .. Len(d) - 1
    BY <2>1, <1>1, <1>2
  <2> QED BY <2>1, <2>2, UnitIs
<1>7. \A i, j \in 1 .. N : i < j => c[i].from < c[j].from
  BY <1>1 DEF Forward
<1>8. 0 \in S
  BY <1>2, <1>5
<1>9. ASSUME NEW n \in 0 .. N - 1, n \in S PROVE n + 1 \in S
  <2>1. n + 1 \in 1 .. N /\ n + 1 \in 0 .. N /\ (n + 1) - 1 = n
    BY <1>2
  <2>2. g[n + 1] = PushUnit(g[n], t, u(n + 1), n + 1 < N)
    BY <1>5, <2>1
  <2>3. fr(n) \in Nat /\ fr(n) <= c[n + 1].from
    <3>1. CASE n = 0
      BY <3>1, <2>1, <1>6
    <3>2. CASE n # 0
      <4>1. n \in 1 .. N /\ n < n + 1
        BY <3>2, <1>2
      <4>2. c[n].from < c[n + 1].from
        BY <4>1, <2>1, <1>7
      <4>3. c[n].from \in Nat /\ c[n + 1].from \in Nat
        BY <4>1, <2>1, <1>6
      <4> QED BY <3>2, <4>2, <4>3
    <3> QED BY <3>1, <3>2
  <2>4. Pushing(g[n], t, b, fr(n))
    BY <1>9
  <2> DEFINE v == u(n + 1)
             more == n + 1 < N
             y == fr(n)
  <2>5. v \in NalUnits /\ v.ts = t /\ v.from = c[n + 1].from
    BY <2>1, <1>6
  <2>6. fr(n + 1) = v.from + 1 /\ g[n + 1] = PushUnit(g[n], t, v, more)
    BY <2>1, <2>2, <2>5, <1>2
  <2> HIDE DEF v, more, y
  <2>7. y \in Nat /\ y <= v.from /\ Pushing(g[n], t, b, y)
    BY <2>3, <2>4, <2>5 DEF y
  <2>8. Pushing(g[n + 1], t, b, v.from + 1)
    BY <2>5, <2>6, <2>7, UnitKeeps
  <2> QED BY <2>1, <2>6, <2>8
<1>10. \A n \in 0 .. N : n \in S
  <2> HIDE DEF S
  <2> QED BY <1>2, <1>8, <1>9, UpTo
<1>11. Pushing(g[N], t, b, fr(N))
  <2>1. N \in S
    <3> HIDE DEF S, N
    <3>1. N \in Nat
      BY <1>2
    <3>2. N \in 0 .. N
      BY <3>1
    <3> QED BY <3>2, <1>10
  <2> HIDE DEF fr, N
  <2> QED BY <2>1
<1>12. fr(N) \in Nat
  <2>1. CASE N = 0
    BY <2>1
  <2>2. CASE N # 0
    <3>1. N \in 1 .. N
      <4>1. N \in Nat
        BY <1>2
      <4> HIDE DEF N
      <4> QED BY <4>1, <2>2
    <3>2. c[N].from \in Nat
      BY <3>1, <1>6
    <3> HIDE DEF N
    <3> QED BY <3>2, <2>2
  <2> QED BY <2>1, <2>2
<1> QED
  BY <1>3, <1>11, <1>12

\* What a failed push leaves.
LEMMA GivenUpKeeps ==
    ASSUME NEW s, NEW t \in Nat \ {0}, NEW b, NEW f, Pushing(s, t, b, f),
           NEW r, r = GivenUp(s)
    PROVE  Pushing(r, t, b, f)
<1>1. s \in Senders /\ HeadersIn(s, t, b) /\ OutIn(s, t)
  BY DEF Pushing
<1>2. CASE r = s
  BY <1>2
<1>3. CASE r # s
  <2>1. s.open /\ r = DeinitTransaction(s)
    BY <1>3 DEF GivenUp
  <2>2. r = [s EXCEPT !.open = FALSE, !.packets = IF s.queued THEN <<>> ELSE s.packets]
    BY <2>1 DEF DeinitTransaction
  <2>3. CASE s.queued
    <3>1. r = [s EXCEPT !.open = FALSE, !.packets = <<>>]
      BY <2>2, <2>3
    <3>2. <<>> \in Seq(Queue)
      OBVIOUS
    <3>3. /\ r \in Senders /\ r.headers = s.headers /\ r.used = s.used /\ r.seq = s.seq
          /\ r.packets = <<>> /\ r.out = s.out /\ r.open = FALSE
      BY <3>1, <3>2, <1>1 DEF Senders
    <3>4. HeadersIn(r, t, b) /\ OutIn(r, t)
      BY <3>3, <1>1 DEF HeadersIn, OutIn
    <3> QED BY <3>3, <3>4, NoPackets
  <2>4. CASE ~ s.queued
    <3>1. r = [s EXCEPT !.open = FALSE, !.packets = s.packets]
      BY <2>2, <2>4
    <3>2. /\ r \in Senders /\ r.headers = s.headers /\ r.used = s.used /\ r.seq = s.seq
          /\ r.packets = s.packets /\ r.out = s.out /\ (r.open => s.open)
      BY <3>1, <1>1 DEF Senders
    <3> QED BY <3>2, SameQueue
  <2> QED BY <2>3, <2>4
<1> QED
  BY <1>2, <1>3

\* A push starts without runs of its own.
LEMMA BeginsPush ==
    ASSUME NEW s, NEW n \in Nat, Resting(s, n), NEW r, r = InitTransaction(s), NEW t, t = n + 1
    PROVE  /\ t \in Nat \ {0} /\ s.seq \in Numbers
           /\ Pushing(r, t, s.seq, 0)
<1>1. s \in Senders /\ t \in Nat \ {0}
  BY DEF Resting
<1>2. /\ s.packets \in Seq(Queue) /\ s.headers \in Seq(Headers) /\ Len(s.headers) \in Nat
      /\ DOMAIN s.headers = 1 .. Len(s.headers) /\ s.seq \in Numbers
      /\ DOMAIN s.packets = 1 .. Len(s.packets)
  BY <1>1, SenderIs
<1>3. /\ r \in Senders /\ r.headers = s.headers /\ r.used = 0 /\ r.seq = s.seq
      /\ r.packets = s.packets /\ r.out = <<>>
  <2>1. <<>> \in Seq(Wires)
    OBVIOUS
  <2> QED BY <1>1, <2>1 DEF InitTransaction, Senders, Returns
<1>4. HeadersIn(r, t, s.seq)
  <2>1. s.seq = (s.seq + 0) % SeqSpace
    <3>1. s.seq \in Nat /\ s.seq < SeqSpace /\ s.seq + 0 = s.seq
      BY <1>2, SpaceIs DEF Numbers
    <3> QED BY <3>1, SpaceIs, ModValue
  <2>2. \A i \in DOMAIN r.headers : r.headers[i].ts \in 1 .. t
    <3> SUFFICES ASSUME NEW i \in DOMAIN s.headers PROVE s.headers[i].ts \in 1 .. n + 1
      BY <1>3
    <3>1. s.headers[i].ts \in 1 .. n
      BY DEF Resting
    <3> QED BY <3>1
  <2>3. 1 .. r.used = {}
    BY <1>3
  <2> QED BY <1>2, <1>3, <2>1, <2>2, <2>3 DEF HeadersIn
<1>5. ASSUME NEW i \in DOMAIN s.packets
      PROVE  /\ s.packets[i].h \in 1 .. Len(s.headers) /\ FragmentOK(s.packets[i].load)
             /\ s.packets[i].load.kind = "fragment" => UnitOf(s.packets[i]).ts <= t
             /\ ~ Own(s.packets[i], t)
  <2> DEFINE p == s.packets[i]
  <2>1. /\ p.h \in 1 .. Len(s.headers) /\ FragmentOK(p.load)
        /\ p.load.kind = "fragment" => UnitOf(p).ts <= n
    BY DEF Resting
  <2>2. p.load \in Loads
    BY <1>1, PacketIs
  <2> HIDE DEF p
  <2>3. p.load.kind = "fragment" => UnitOf(p).ts \in Nat
    <3> SUFFICES ASSUME p.load.kind = "fragment" PROVE UnitOf(p).ts \in Nat
      OBVIOUS
    <3>1. UnitOf(p) \in NalUnits
      BY <2>1, <2>2, FragmentIs DEF UnitOf
    <3> QED BY <3>1 DEF NalUnits
  <2>4. p.load.kind = "fragment" => UnitOf(p).ts <= t /\ UnitOf(p).ts # t
    BY <2>1, <2>3
  <2> QED BY <2>1, <2>4 DEF p, Own, UnitOf
<1>6. PacketsIn(r, t, 0)
  BY <1>3, <1>5 DEF PacketsIn
<1>7. QueuedRuns(r.packets, t)
  BY <1>3, <1>5 DEF QueuedRuns
<1>8. OutIn(r, t)
  <2>1. DOMAIN r.out = {}
    BY <1>3
  <2> QED BY <1>3, <2>1 DEF OutIn, Runs
<1> QED
  BY <1>1, <1>2, <1>3, <1>4, <1>6, <1>7, <1>8 DEF Pushing

\* What a push leaves and what it sends.
Sent(r, t) ==
    /\ Resting([r EXCEPT !.out = <<>>], t)
    /\ r.out \in Seq(Wires)
    /\ \A i \in DOMAIN r.out : FragmentOK(r.out[i].load) /\ r.out[i].ts \in 1 .. t
    /\ Runs(r.out, t)

\* A push sends whole runs of fragments with consecutive numbers, and leaves none
\* of its own that is not.
LEMMA PushFrameSends ==
    ASSUME NEW s, NEW n \in Nat, Resting(s, n), NEW k \in DOMAIN Frames,
           NEW t, t = n + 1, NEW r, r = PushFrame(s, t, k)
    PROVE  Sent(r, t)
<1> DEFINE e == InitTransaction(s)
           b == s.seq
<1>1. t \in Nat \ {0} /\ b \in Numbers /\ Pushing(e, t, b, 0)
  BY BeginsPush
<1>2. r = PushH26xFrame(e, t, k)
  BY DEF PushFrame
<1> HIDE DEF e, b
<1>3. PICK f \in Nat : Pushing(r, t, b, f)
  <2>1. CASE Fits(k)
    <3> DEFINE l == Units(<<WholeFrame(t, k)>>)
               d == EnqueueMessage(e, t, l)
    <3>1. l \in Loads /\ l.kind # "fragment"
      <4>1. WholeFrame(t, k) \in NalUnits
        BY <1>1, WholeFrameIs
      <4>2. <<WholeFrame(t, k)>> \in Seq(NalUnits)
        BY <4>1
      <4> QED BY <4>2, UnitsIs
    <3> HIDE DEF l
    <3>2. Pushing(d, t, b, 0)
      BY <1>1, <3>1, EnqueueOther
    <3>3. r = FlushQueue(d)
      BY <1>2, <2>1 DEF PushH26xFrame, l
    <3> HIDE DEF d
    <3>4. Pushing(r, t, b, 0)
      BY <1>1, <3>2, <3>3, FlushKeeps
    <3> QED BY <3>4
  <2>2. CASE ~ Fits(k)
    <3> DEFINE d == PushUnits(e, t, k)
    <3>1. PICK f \in Nat : Pushing(d, t, b, f)
      BY <1>1, UnitsKeep
    <3>2. r = GivenUp(d)
      BY <1>2, <2>2 DEF PushH26xFrame
    <3> HIDE DEF d
    <3>3. Pushing(r, t, b, f)
      BY <1>1, <3>1, <3>2, GivenUpKeeps
    <3> QED BY <3>3
  <2> QED BY <2>1, <2>2
<1>4. r \in Senders /\ Resting(r, t) /\ OutIn(r, t)
  BY <1>3, PushingRests DEF Pushing
<1>5. Resting([r EXCEPT !.out = <<>>], t)
  <2> DEFINE x == [r EXCEPT !.out = <<>>]
  <2>1. <<>> \in Seq(Wires)
    OBVIOUS
  <2>2. x \in Senders /\ x.headers = r.headers /\ x.packets = r.packets
    BY <1>4, <2>1 DEF Senders
  <2> HIDE DEF x
  <2>3. Resting(x, t)
    BY <2>2, <1>4 DEF Resting
  <2> QED BY <2>3 DEF x
<1>6. r.out \in Seq(Wires)
  BY <1>4, SenderIs
<1> QED
  BY <1>4, <1>5, <1>6 DEF Sent, OutIn

-----------------------------------------------------------------------------
(***************************************************************************)
(* The receiver's table.                                                   *)
(***************************************************************************)

Waiting == [seq : Numbers, load : Loads]

EntryOK(f) ==
    /\ f = [s |-> f.s, e |-> f.e, n |-> f.n, fragments |-> f.fragments, temporary |-> f.temporary]
    /\ f.s \in Numbers \cup {None} /\ f.e \in Numbers \cup {None} /\ f.n \in Nat
    /\ f.temporary \in Seq(Waiting)

\* A fragment, as a packet.
FragmentPacket(p) == p \in Wires /\ p.load.kind = "fragment" /\ FragmentOK(p.load)

\* What a fragment packet is.
LEMMA FragmentPacketIs ==
    ASSUME NEW p, FragmentPacket(p), NEW u, u = UnitOf(p), NEW k, k = p.load.part
    PROVE  /\ p.load = Part(u, k) /\ u \in NalUnits /\ u.frags \in Nat /\ k \in Nat
           /\ k \in 1 .. u.frags /\ u.frags >= 2 /\ u.ts \in Nat
           /\ p.load \in Loads /\ p.seq \in Numbers /\ p.seq \in Nat /\ p.ts \in Nat
           /\ p.load.units = <<u>>
           /\ p = [seq |-> p.seq, ts |-> p.ts, load |-> p.load]
           /\ IsStart(p) <=> k = 1
           /\ IsEnd(p) <=> k = u.frags
<1>1. p.load \in Loads /\ p.seq \in Numbers /\ p.ts \in Nat /\ p = [seq |-> p.seq, ts |-> p.ts, load |-> p.load]
  BY DEF FragmentPacket, Wires
<1>2. p.seq \in Nat
  BY <1>1, SpaceIs DEF Numbers
<1>3. FragmentOK(p.load) /\ p.load.kind = "fragment"
  BY DEF FragmentPacket
<1>4. /\ u \in NalUnits /\ p.load.units = <<u>> /\ u.frags \in Nat /\ k \in Nat
      /\ k \in 1 .. u.frags /\ u.frags >= 2 /\ p.load = Part(u, k)
  BY <1>1, <1>3, FragmentIs DEF UnitOf
<1>5. u.ts \in Nat
  BY <1>4 DEF NalUnits
<1>6. (IsStart(p) <=> k = 1) /\ (IsEnd(p) <=> k = u.frags)
  BY <1>3 DEF IsStart, IsEnd, UnitOf
<1> QED
  BY <1>1, <1>2, <1>4, <1>5, <1>6

LEMMA NoneIs == None \in Nat /\ None \notin Numbers
  BY SpaceIs DEF None, Numbers

\* The entry its first packet to arrive makes.
LEMMA NewFrameIs ==
    ASSUME NEW p, FragmentPacket(p), NEW f, f = NewFrame(p)
    PROVE  /\ EntryOK(f) /\ f.n = 1 /\ f.temporary = <<>>
           /\ f.s = (IF IsStart(p) THEN p.seq ELSE None) /\ f.e = (IF IsEnd(p) THEN p.seq ELSE None)
           /\ DOMAIN f.fragments = {p.seq} /\ f.fragments[p.seq] = p.load
<1>1. p.seq \in Numbers
  BY DEF FragmentPacket, Wires
<1> DEFINE m == With(<<>>, p.seq, p.load)
<1>2. DOMAIN m = {p.seq} /\ m[p.seq] = p.load
  BY DEF With
<1>3. f = [s |-> IF IsStart(p) THEN p.seq ELSE None, e |-> IF IsEnd(p) THEN p.seq ELSE None,
           n |-> 1, fragments |-> m, temporary |-> <<>>]
  BY DEF NewFrame
<1>4. <<>> \in Seq(Waiting)
  OBVIOUS
<1> HIDE DEF m
<1>5. /\ f.n = 1 /\ f.temporary = <<>>
      /\ f.s = (IF IsStart(p) THEN p.seq ELSE None) /\ f.e = (IF IsEnd(p) THEN p.seq ELSE None)
      /\ f.fragments = m
      /\ f = [s |-> f.s, e |-> f.e, n |-> f.n, fragments |-> f.fragments, temporary |-> f.temporary]
  BY <1>3
<1>6. EntryOK(f)
  BY <1>1, <1>4, <1>5 DEF EntryOK
<1> QED
  BY <1>2, <1>5, <1>6

\* A fragment that comes behind the first one of its unit.
Behind(g, f, p) ==
    /\ EntryOK(g) /\ g.n = f.n + 1 /\ g.e = (IF IsEnd(p) THEN p.seq ELSE f.e) /\ g.s = f.s
    /\ g.temporary = f.temporary /\ g.fragments = With(f.fragments, Place(f.s, p.seq), p.load)

\* A further packet behind the first one of its unit, or in front of it.
LEMMA AddIs ==
    ASSUME NEW f, EntryOK(f), NEW p, FragmentPacket(p), NEW g, g = AddPacket(f, p)
    PROVE  /\ EntryOK(g) /\ g.n = f.n + 1 /\ g.e = (IF IsEnd(p) THEN p.seq ELSE f.e)
           /\ IsStart(p) => g.s = p.seq /\ g.temporary = <<>>
           /\ ~ IsStart(p) => g.s = f.s
           /\ ~ IsStart(p) /\ f.s # None => Behind(g, f, p)
           /\ ~ IsStart(p) /\ f.s = None =>
                 /\ g.temporary = Append(f.temporary, [seq |-> p.seq, load |-> p.load])
                 /\ g.fragments = f.fragments
<1> DEFINE e == IF IsEnd(p) THEN p.seq ELSE f.e
           place(i) == Place(p.seq, f.temporary[i].seq)
           waiting == DOMAIN f.temporary
           placed == [k \in {place(i) : i \in waiting} |->
                         f.temporary[Max({i \in waiting : place(i) = k})].load]
           m == WithAll(With(f.fragments, p.seq, p.load), placed)
           w == [seq |-> p.seq, load |-> p.load]
<1>1. p.seq \in Numbers /\ p.load \in Loads
  BY DEF FragmentPacket, Wires
<1>2. /\ f = [s |-> f.s, e |-> f.e, n |-> f.n, fragments |-> f.fragments, temporary |-> f.temporary]
      /\ f.s \in Numbers \cup {None} /\ f.e \in Numbers \cup {None} /\ f.n \in Nat
      /\ f.temporary \in Seq(Waiting)
  BY DEF EntryOK
<1>3. e \in Numbers \cup {None} /\ f.n + 1 \in Nat
  BY <1>1, <1>2
<1>4. CASE IsStart(p)
  <2>1. g = [s |-> p.seq, e |-> e, n |-> f.n + 1, temporary |-> <<>>, fragments |-> m]
    BY <1>4 DEF AddPacket
  <2> HIDE DEF m, e
  <2>2. <<>> \in Seq(Waiting)
    OBVIOUS
  <2>3. /\ g.s = p.seq /\ g.e = e /\ g.n = f.n + 1 /\ g.temporary = <<>>
        /\ g = [s |-> g.s, e |-> g.e, n |-> g.n, fragments |-> g.fragments, temporary |-> g.temporary]
    BY <2>1
  <2>4. EntryOK(g)
    BY <1>1, <1>3, <2>2, <2>3 DEF EntryOK
  <2> QED BY <1>4, <2>3, <2>4 DEF e
<1>5. CASE ~ IsStart(p) /\ f.s # None
  <2> DEFINE x == With(f.fragments, Place(f.s, p.seq), p.load)
  <2>1. g = [f EXCEPT !.e = e, !.n = f.n + 1, !.fragments = x]
    BY <1>5 DEF AddPacket
  <2> HIDE DEF x, e
  <2>2. g = [s |-> f.s, e |-> e, n |-> f.n + 1, fragments |-> x, temporary |-> f.temporary]
    BY <2>1, <1>2
  <2>3. /\ g.s = f.s /\ g.e = e /\ g.n = f.n + 1 /\ g.temporary = f.temporary /\ g.fragments = x
        /\ g = [s |-> g.s, e |-> g.e, n |-> g.n, fragments |-> g.fragments, temporary |-> g.temporary]
    BY <2>2
  <2>4. EntryOK(g)
    BY <1>2, <1>3, <2>3 DEF EntryOK
  <2>5. Behind(g, f, p)
    BY <2>3, <2>4 DEF Behind, e, x
  <2> QED BY <1>5, <2>3, <2>4, <2>5 DEF e
<1>6. CASE ~ IsStart(p) /\ f.s = None
  <2> DEFINE x == Append(f.temporary, w)
  <2>1. g = [f EXCEPT !.e = e, !.n = f.n + 1, !.temporary = x]
    BY <1>6 DEF AddPacket
  <2>2. w \in Waiting
    BY <1>1 DEF Waiting
  <2>3. x \in Seq(Waiting)
    BY <1>2, <2>2
  <2> HIDE DEF x, e
  <2>4. g = [s |-> f.s, e |-> e, n |-> f.n + 1, fragments |-> f.fragments, temporary |-> x]
    BY <2>1, <1>2
  <2>5. /\ g.s = f.s /\ g.e = e /\ g.n = f.n + 1 /\ g.temporary = x /\ g.fragments = f.fragments
        /\ g = [s |-> g.s, e |-> g.e, n |-> g.n, fragments |-> g.fragments, temporary |-> g.temporary]
    BY <2>4
  <2>6. EntryOK(g)
    BY <1>2, <1>3, <2>3, <2>5 DEF EntryOK
  <2> QED BY <1>6, <2>5, <2>6 DEF e, x
<1> QED
  BY <1>4, <1>5, <1>6

\* The first packet of a unit, where the numbers do not wrap behind it.
LEMMA AddStart ==
    ASSUME NEW f, EntryOK(f), NEW p, FragmentPacket(p), IsStart(p), NEW g, g = AddPacket(f, p),
           \A i \in DOMAIN f.temporary : f.temporary[i].seq >= p.seq
    PROVE  /\ DOMAIN g.fragments = DOMAIN f.fragments \cup {p.seq}
                                     \cup {f.temporary[i].seq : i \in DOMAIN f.temporary}
           /\ \A x \in DOMAIN g.fragments :
                 \/ \E i \in DOMAIN f.temporary : f.temporary[i].seq = x /\ g.fragments[x] = f.temporary[i].load
                 \/ x = p.seq /\ g.fragments[x] = p.load
                 \/ x # p.seq /\ x \in DOMAIN f.fragments /\ g.fragments[x] = f.fragments[x]
<1> DEFINE e == IF IsEnd(p) THEN p.seq ELSE f.e
           q == f.temporary
           place(i) == Place(p.seq, q[i].seq)
           waiting == DOMAIN q
           last(k) == Max({i \in waiting : place(i) = k})
           placed == [k \in {place(i) : i \in waiting} |-> q[last(k)].load]
           a == With(f.fragments, p.seq, p.load)
           m == WithAll(a, placed)
<1>1. q \in Seq(Waiting) /\ DOMAIN q = 1 .. Len(q) /\ Len(q) \in Nat
  BY DEF EntryOK
<1>2. p.seq \in Nat
  BY SpaceIs DEF FragmentPacket, Wires, Numbers
<1>3. \A i \in waiting : place(i) = q[i].seq
  <2> SUFFICES ASSUME NEW i \in waiting PROVE place(i) = q[i].seq
    OBVIOUS
  <2>1. q[i] \in Waiting
    BY <1>1
  <2>2. q[i].seq \in Nat
    BY <2>1, SpaceIs DEF Waiting, Numbers
  <2>3. ~ (p.seq > q[i].seq)
    BY <1>2, <2>2
  <2> QED BY <2>3 DEF Place
<1>4. g = [s |-> p.seq, e |-> e, n |-> f.n + 1, temporary |-> <<>>, fragments |-> m]
  BY DEF AddPacket
<1>5. g.fragments = m
  <2> HIDE DEF m, e
  <2> QED BY <1>4
<1>6. ASSUME NEW k \in {place(i) : i \in waiting}
      PROVE  last(k) \in waiting /\ q[last(k)].seq = k
  <2> DEFINE S == {i \in waiting : place(i) = k}
  <2>1. S # {} /\ S \in SUBSET (1 .. Len(q))
    BY <1>1
  <2>2. \E i \in S : \A j \in S : i >= j
    <3> DEFINE T == {Len(q) - i : i \in S}
    <3> HIDE DEF S
    <3>1. T \in SUBSET Nat /\ T # {}
      BY <2>1, <1>1
    <3> HIDE DEF T
    <3>2. PICK x \in T : \A y \in T : x <= y
      BY <3>1, LeastNat
    <3>3. PICK i \in S : x = Len(q) - i
      BY DEF T
    <3>4. ASSUME NEW j \in S PROVE i >= j
      <4>1. Len(q) - j \in T
        BY DEF T
      <4>2. Len(q) - i <= Len(q) - j
        BY <3>2, <3>3, <4>1
      <4>3. i \in Nat /\ j \in Nat /\ Len(q) \in Nat
        BY <2>1, <1>1
      <4> QED BY <4>2, <4>3
    <3> QED BY <3>4
  <2>3. last(k) = Max(S)
    OBVIOUS
  <2> HIDE DEF S
  <2>4. Max(S) \in S
    BY <2>2 DEF Max
  <2>5. last(k) \in S
    BY <2>3, <2>4
  <2> QED BY <2>5, <1>3 DEF S
<1> HIDE DEF last
<1>7. DOMAIN placed = {q[i].seq : i \in waiting}
  BY <1>3
<1>8. \A x \in DOMAIN placed : last(x) \in waiting /\ q[last(x)].seq = x /\ placed[x] = q[last(x)].load
  BY <1>6
<1>9. /\ DOMAIN a = DOMAIN f.fragments \cup {p.seq}
      /\ \A x \in DOMAIN a : a[x] = IF x = p.seq THEN p.load ELSE f.fragments[x]
  BY DEF With
<1> HIDE DEF a, placed
<1>10. /\ DOMAIN m = DOMAIN a \cup DOMAIN placed
       /\ \A x \in DOMAIN m : m[x] = IF x \in DOMAIN placed THEN placed[x] ELSE a[x]
  BY DEF WithAll
<1> HIDE DEF m
<1>11. ASSUME NEW x \in DOMAIN m
       PROVE  \/ \E i \in waiting : q[i].seq = x /\ m[x] = q[i].load
              \/ x = p.seq /\ m[x] = p.load
              \/ x # p.seq /\ x \in DOMAIN f.fragments /\ m[x] = f.fragments[x]
  <2>1. CASE x \in DOMAIN placed
    BY <2>1, <1>8, <1>10
  <2>2. CASE x \notin DOMAIN placed
    BY <2>2, <1>9, <1>10
  <2> QED BY <2>1, <2>2
<1> QED
  BY <1>5, <1>7, <1>9, <1>10, <1>11

\* A unit put together: the parts of u are at a + 1, a + 2, ...
LEMMA InOrderIs ==
    ASSUME NEW f, NEW u, u.frags \in Nat, NEW a \in Int, DOMAIN f.fragments = a + 1 .. a + u.frags,
           \A x \in DOMAIN f.fragments : f.fragments[x] = Part(u, x - a)
    PROVE  InOrder(f) = Whole(u)
<1> DEFINE S == DOMAIN f.fragments
           N == u.frags
           at(i) == CHOOSE k \in S : Cardinality({x \in S : x < k}) = i - 1
<1>1. Cardinality(S) = N
  <2> DEFINE l == a + 1
             h == a + N
  <2>1. S = l .. h /\ N \in Nat
    OBVIOUS
  <2> HIDE DEF S, N
  <2>2. l \in Int /\ h \in Int /\ (IF l > h THEN 0 ELSE h - l + 1) = N
    BY <2>1
  <2> HIDE DEF l, h
  <2>3. Cardinality(l .. h) = IF l > h THEN 0 ELSE h - l + 1
    BY <2>2, FS_Interval
  <2> QED BY <2>1, <2>2, <2>3
<1>0. S = a + 1 .. a + N /\ N \in Nat
  OBVIOUS
<1> HIDE DEF S, N
<1>2. ASSUME NEW k \in S PROVE Cardinality({x \in S : x < k}) = k - a - 1
  <2>2. k \in Int /\ k >= a + 1 /\ k <= a + N
    BY <1>0
  <2>1. {x \in S : x < k} = a + 1 .. k - 1
    BY <1>0, <2>2
  <2>3. Cardinality(a + 1 .. k - 1) = IF a + 1 > k - 1 THEN 0 ELSE (k - 1) - (a + 1) + 1
    BY <2>2, FS_Interval
  <2>4. (IF a + 1 > k - 1 THEN 0 ELSE (k - 1) - (a + 1) + 1) = k - a - 1
    BY <2>2
  <2>5. Cardinality({x \in S : x < k}) = Cardinality(a + 1 .. k - 1)
    BY <2>1
  <2> QED BY <2>3, <2>4, <2>5
<1>3. ASSUME NEW i \in 1 .. N PROVE at(i) = a + i
  <2>1. a + i \in S /\ (a + i) - a - 1 = i - 1
    BY <1>0
  <2>2. \A k \in S : k - a - 1 = i - 1 => k = a + i
    BY <1>0
  <2>3. \A k \in S : Cardinality({x \in S : x < k}) = i - 1 <=> k = a + i
    BY <1>2, <2>1, <2>2
  <2> QED BY <2>1, <2>3
<1>4. InOrder(f) = [i \in 1 .. N |-> f.fragments[at(i)]]
  BY <1>1 DEF InOrder, S
<1> HIDE DEF at
<1>5. ASSUME NEW i \in 1 .. N PROVE f.fragments[at(i)] = Part(u, i)
  <2>1. at(i) \in S /\ at(i) - a = i
    BY <1>0, <1>3
  <2> QED BY <2>1 DEF S
<1> QED
  BY <1>4, <1>5 DEF Whole, N

\* What the arrival of a fragment does to the table F, the timestamps given up D
\* and what was handed out H.
Elsewhere(t, F, D, F2, D2) ==
    /\ F2 = [x \in DOMAIN F2 |-> F2[x]]
    /\ \A x : x # t => (x \in DOMAIN F2 <=> x \in DOMAIN F) /\ (x \in D2 <=> x \in D)
    /\ \A x \in DOMAIN F2 : x # t => F2[x] = F[x]

Takes(p, F, D, H, F2, D2, H2) ==
    LET t == p.ts
        f == AddPacket(F[t], p)
    IN
    /\ Elsewhere(t, F, D, F2, D2)
    /\ \/ t \notin DOMAIN F /\ t \in D /\ t \notin DOMAIN F2 /\ D2 = D /\ H2 = H
       \/ t \notin DOMAIN F /\ t \notin D /\ t \in DOMAIN F2 /\ F2[t] = NewFrame(p) /\ D2 = D /\ H2 = H
       \/ /\ t \in DOMAIN F /\ Complete(f) /\ t \notin DOMAIN F2 /\ D2 = D
          /\ H2 = Append(H, [ts |-> t, units |-> <<>>, loads |-> InOrder(f)])
       \/ t \in DOMAIN F /\ ~Complete(f) /\ t \notin DOMAIN F2 /\ D2 = D \cup {t} /\ H2 = H
       \/ t \in DOMAIN F /\ ~Complete(f) /\ t \in DOMAIN F2 /\ F2[t] = f /\ D2 = D /\ H2 = H

HandsOver(p, H, H2) == \E us : H2 = Append(H, [ts |-> p.ts, units |-> us, loads |-> <<>>])

\* A fragment has one of five outcomes.
LEMMA FragmentTaken ==
    ASSUME NEW p, NEW l, NEW w, HandleFragment(p, l, w), frames = [x \in DOMAIN frames |-> frames[x]]
    PROVE  Takes(p, frames, dropped, handed, frames', dropped', handed')
<1> DEFINE t == p.ts
           f == AddPacket(frames[t], p)
<1>1. CASE t \notin DOMAIN frames /\ t \in dropped /\ UNCHANGED rcvvars
  <2>1. frames' = frames /\ dropped' = dropped /\ handed' = handed
    BY <1>1 DEF rcvvars
  <2> HIDE DEF t, f
  <2>2. Elsewhere(t, frames, dropped, frames', dropped')
    BY <2>1 DEF Elsewhere
  <2> QED BY <1>1, <2>1, <2>2 DEF Takes, t
<1>2. CASE /\ t \notin DOMAIN frames /\ t \notin dropped
           /\ frames' = With(frames, t, NewFrame(p)) /\ UNCHANGED <<dropped, handed>>
  <2> HIDE DEF t, f
  <2>1. /\ DOMAIN frames' = DOMAIN frames \cup {t} /\ frames'[t] = NewFrame(p)
        /\ \A x \in DOMAIN frames : x # t => frames'[x] = frames[x]
        /\ frames' = [x \in DOMAIN frames' |-> frames'[x]]
    BY <1>2 DEF With
  <2>2. Elsewhere(t, frames, dropped, frames', dropped')
    BY <1>2, <2>1 DEF Elsewhere
  <2> QED BY <1>2, <2>1, <2>2 DEF Takes, t
<1>3. CASE /\ t \in DOMAIN frames /\ Complete(f)
           /\ handed' = Append(handed, [ts |-> t, units |-> <<>>, loads |-> InOrder(f)])
           /\ Forget(t) /\ UNCHANGED dropped
  <2> HIDE DEF t, f
  <2>1. /\ DOMAIN frames' = DOMAIN frames \ {t}
        /\ \A x \in DOMAIN frames : x # t => frames'[x] = frames[x]
        /\ frames' = [x \in DOMAIN frames' |-> frames'[x]]
    BY <1>3 DEF Forget, Restrict
  <2>2. Elsewhere(t, frames, dropped, frames', dropped')
    BY <1>3, <2>1 DEF Elsewhere
  <2> QED BY <1>3, <2>1, <2>2 DEF Takes, t, f
<1>4. CASE t \in DOMAIN frames /\ ~Complete(f) /\ DropFrame(t) /\ UNCHANGED handed
  <2> HIDE DEF t, f
  <2>1. /\ DOMAIN frames' = DOMAIN frames \ {t} /\ dropped' = dropped \cup {t}
        /\ \A x \in DOMAIN frames : x # t => frames'[x] = frames[x]
        /\ frames' = [x \in DOMAIN frames' |-> frames'[x]]
    BY <1>4 DEF DropFrame, Forget, Restrict
  <2>2. Elsewhere(t, frames, dropped, frames', dropped')
    BY <1>4, <2>1 DEF Elsewhere
  <2> QED BY <1>4, <2>1, <2>2 DEF Takes, t, f
<1>5. CASE /\ t \in DOMAIN frames /\ ~Complete(f)
           /\ frames' = [frames EXCEPT ![t] = f] /\ UNCHANGED <<dropped, handed>>
  <2> HIDE DEF t, f
  <2>1. /\ DOMAIN frames' = DOMAIN frames /\ frames'[t] = f
        /\ \A x \in DOMAIN frames : x # t => frames'[x] = frames[x]
        /\ frames' = [x \in DOMAIN frames' |-> frames'[x]]
    BY <1>5
  <2>2. Elsewhere(t, frames, dropped, frames', dropped')
    BY <1>5, <2>1 DEF Elsewhere
  <2> QED BY <1>5, <2>1, <2>2 DEF Takes, t, f
<1> QED
  BY <1>1, <1>2, <1>3, <1>4, <1>5 DEF HandleFragment, Handed

\* Any packet: a fragment, or handed over as it is.
LEMMA PacketTaken ==
    ASSUME NEW fmt, NEW p, NEW l, NEW d, PacketHandler(fmt, p, l, d),
           frames = [x \in DOMAIN frames |-> frames[x]]
    PROVE  \/ /\ p.load.kind = "fragment"
              /\ Takes(p, frames, dropped, handed, frames', dropped', handed')
           \/ /\ p.load.kind # "fragment" /\ frames' = frames /\ dropped' = dropped
              /\ HandsOver(p, handed, handed')
<1>1. CASE p.load.kind = "fragment"
  <2>1. \/ HandleFragment(p, l, d /\ IsIntra264(p)) \/ HandleFragment(p, l, d /\ IsIntra265(p))
        \/ HandleFragment(p, l, d /\ IsIntra266(p))
    BY <1>1 DEF PacketHandler, PacketHandler264, PacketHandler265, PacketHandler266
  <2> QED BY <1>1, <2>1, FragmentTaken
<1>2. CASE p.load.kind # "fragment"
  <2>1. HandleWhole(p)
    BY <1>2 DEF PacketHandler, PacketHandler264, PacketHandler265, PacketHandler266
  <2> QED BY <1>2, <2>1 DEF HandleWhole, HandsOver, Handed
<1> QED
  BY <1>1, <1>2

-----------------------------------------------------------------------------
\* The table of the first n pushes.
TableIn(F, D, n) ==
    /\ F = [x \in DOMAIN F |-> F[x]]
    /\ DOMAIN F \subseteq 1 .. n /\ D \subseteq 1 .. n /\ DOMAIN F \cap D = {}
    /\ \A x \in DOMAIN F : EntryOK(F[x])

\* The table stays that of the pushes made, apart from those given up.
LEMMA TableStep ==
    ASSUME NEW n \in Nat, NEW F, NEW D, TableIn(F, D, n), NEW p, FragmentPacket(p), p.ts \in 1 .. n,
           NEW H, NEW F2, NEW D2, NEW H2, Takes(p, F, D, H, F2, D2, H2)
    PROVE  TableIn(F2, D2, n)
<1> DEFINE t == p.ts
           f == AddPacket(F[t], p)
<1>1. EntryOK(NewFrame(p)) /\ (t \in DOMAIN F => EntryOK(f))
  BY NewFrameIs, AddIs DEF TableIn
<1>2. Elsewhere(t, F, D, F2, D2)
  BY DEF Takes
<1>3. /\ (t \in DOMAIN F2 => t \notin D2) /\ (t \in DOMAIN F2 => EntryOK(F2[t]))
  BY <1>1 DEF Takes, TableIn
<1> HIDE DEF t, f
<1>4. t \in 1 .. n
  BY DEF t
<1>5. \A x \in DOMAIN F2 : EntryOK(F2[x]) /\ x \in 1 .. n /\ x \notin D2
  <2> SUFFICES ASSUME NEW x \in DOMAIN F2 PROVE EntryOK(F2[x]) /\ x \in 1 .. n /\ x \notin D2
    OBVIOUS
  <2>1. CASE x = t
    BY <2>1, <1>3, <1>4
  <2>2. CASE x # t
    BY <2>2, <1>2 DEF Elsewhere, TableIn
  <2> QED BY <2>1, <2>2
<1>6. \A x \in D2 : x \in 1 .. n
  BY <1>2, <1>4 DEF Elsewhere, TableIn
<1> QED
  BY <1>2, <1>5, <1>6 DEF TableIn, Elsewhere

-----------------------------------------------------------------------------
(***************************************************************************)
(* The packets under way, seen from one push.                              *)
(***************************************************************************)

\* A fragment under timestamp t.
Fragment(p, t) == p.load.kind = "fragment" /\ p.ts = t

OrderKept(q, r, t) ==
    /\ \A x \in DOMAIN r : Fragment(r[x], t) => \E i \in DOMAIN q : q[i] = r[x]
    /\ \A x, y \in DOMAIN r :
          x < y /\ Fragment(r[x], t) /\ Fragment(r[y], t) =>
              \E i, j \in DOMAIN q : i < j /\ q[i] = r[x] /\ q[j] = r[y]

SameFragments(q, r, t) ==
    /\ OrderKept(q, r, t)
    /\ \A i \in DOMAIN q : Fragment(q[i], t) => \E x \in DOMAIN r : r[x] = q[i]

Removed(q, i, r) ==
    /\ DOMAIN r = 1 .. Len(q) - 1
    /\ \A x \in DOMAIN r : r[x] = IF x < i THEN q[x] ELSE q[x + 1]

\* A packet overtaking the others, or lost.
LEMMA WithoutRemoves ==
    ASSUME NEW X, NEW q \in Seq(X), NEW i \in DOMAIN q
    PROVE  Without(q, i) \in Seq(X) /\ Removed(q, i, Without(q, i))
<1>1. DOMAIN q = 1 .. Len(q) /\ Len(q) \in Nat /\ i \in 1 .. Len(q)
  OBVIOUS
<1> DEFINE a == SubSeq(q, 1, i - 1)
           b == SubSeq(q, i + 1, Len(q))
           r == a \o b
<1>2. /\ a \in Seq(X) /\ Len(a) = i - 1 /\ \A x \in 1 .. i - 1 : a[x] = q[x]
  BY <1>1
<1>3. /\ b \in Seq(X) /\ Len(b) = Len(q) - i /\ \A x \in 1 .. Len(q) - i : b[x] = q[x + i]
  BY <1>1
<1> HIDE DEF a, b
<1>4. r \in Seq(X) /\ Len(r) = Len(q) - 1
  <2>1. a \in Seq(X) /\ b \in Seq(X)
    BY <1>2, <1>3
  <2>2. r \in Seq(X)
    BY <2>1
  <2>3. Len(r) = Len(a) + Len(b)
    BY <2>1
  <2> HIDE DEF r
  <2> QED BY <2>2, <2>3, <1>1, <1>2, <1>3
<1>5. ASSUME NEW x \in 1 .. Len(q) - 1 PROVE r[x] = IF x < i THEN q[x] ELSE q[x + 1]
  <2>1. CASE x < i
    <3>1. x \in 1 .. i - 1 /\ r[x] = a[x]
      BY <2>1, <1>1, <1>2, <1>3
    <3> HIDE DEF r
    <3> QED BY <2>1, <3>1, <1>2
  <2>2. CASE ~ (x < i)
    <3>1. x - (i - 1) \in 1 .. Len(q) - i /\ (x - (i - 1)) + i = x + 1
      BY <2>2, <1>1
    <3>2. r[x] = b[x - (i - 1)]
      BY <2>2, <1>1, <1>2, <1>3
    <3> HIDE DEF r
    <3> QED BY <2>2, <3>1, <3>2, <1>3
  <2> QED BY <2>1, <2>2
<1>6. Without(q, i) = r
  BY DEF Without, a, b
<1> HIDE DEF r
<1>7. DOMAIN r = 1 .. Len(q) - 1
  BY <1>4
<1> QED
  BY <1>4, <1>5, <1>6, <1>7 DEF Removed

\* The packet at the front.
LEMMA TailRemoves ==
    ASSUME NEW X, NEW q \in Seq(X), q # <<>>
    PROVE  Tail(q) \in Seq(X) /\ Removed(q, 1, Tail(q)) /\ 1 \in DOMAIN q
<1>1. Tail(q) \in Seq(X) /\ Len(Tail(q)) = Len(q) - 1 /\ 1 \in DOMAIN q
  OBVIOUS
<1>2. DOMAIN Tail(q) = 1 .. Len(q) - 1
  BY <1>1
<1>3. \A x \in 1 .. Len(q) - 1 : Tail(q)[x] = q[x + 1] /\ ~ (x < 1)
  OBVIOUS
<1> QED
  BY <1>1, <1>2, <1>3 DEF Removed

\* The order of the rest stays.
LEMMA RemovedKeeps ==
    ASSUME NEW X, NEW q \in Seq(X), NEW i \in DOMAIN q, NEW r, Removed(q, i, r), NEW t
    PROVE  /\ OrderKept(q, r, t)
           /\ ~ Fragment(q[i], t) => SameFragments(q, r, t)
           /\ \A j \in DOMAIN q : j # i => \E x \in DOMAIN r : r[x] = q[j]
<1> DEFINE at(x) == IF x < i THEN x ELSE x + 1
<1>1. DOMAIN q = 1 .. Len(q) /\ Len(q) \in Nat /\ i \in 1 .. Len(q) /\ DOMAIN r = 1 .. Len(q) - 1
  BY DEF Removed
<1>2. \A x \in DOMAIN r : at(x) \in DOMAIN q
  BY <1>1
<1>3. \A x \in DOMAIN r : r[x] = q[at(x)]
  BY DEF Removed
<1>4. \A x, y \in DOMAIN r : x < y => at(x) < at(y)
  BY <1>1
<1>5. ASSUME NEW j \in DOMAIN q, j # i PROVE \E x \in DOMAIN r : r[x] = q[j]
  <2>1. CASE j < i
    <3>1. j \in DOMAIN r /\ at(j) = j
      BY <2>1, <1>1
    <3> HIDE DEF at
    <3> QED BY <3>1, <1>3
  <2>2. CASE j > i
    <3>1. j - 1 \in DOMAIN r /\ at(j - 1) = j
      BY <2>2, <1>1
    <3> HIDE DEF at
    <3> QED BY <3>1, <1>3
  <2> QED BY <2>1, <2>2, <1>5, <1>1
<1> HIDE DEF at
<1>6. OrderKept(q, r, t)
  BY <1>2, <1>3, <1>4 DEF OrderKept
<1> QED
  BY <1>5, <1>6 DEF SameFragments

\* Packets of another push at the end change nothing for this one.
LEMMA AppendedKeeps ==
    ASSUME NEW X, NEW q \in Seq(X), NEW s \in Seq(X), NEW t, \A x \in DOMAIN s : ~ Fragment(s[x], t)
    PROVE  SameFragments(q, q \o s, t)
<1> DEFINE r == q \o s
<1>1. /\ DOMAIN q = 1 .. Len(q) /\ Len(q) \in Nat /\ DOMAIN s = 1 .. Len(s) /\ Len(s) \in Nat
  OBVIOUS
<1>2. DOMAIN r = 1 .. Len(q) + Len(s)
  BY <1>1
<1>3. \A x \in DOMAIN q : x \in DOMAIN r /\ r[x] = q[x]
  BY <1>1, <1>2
<1>4. \A x \in DOMAIN r : x \notin DOMAIN q => x - Len(q) \in DOMAIN s /\ r[x] = s[x - Len(q)]
  BY <1>1, <1>2
<1> HIDE DEF r
<1>5. \A x \in DOMAIN r : Fragment(r[x], t) => x \in DOMAIN q
  BY <1>4
<1>6. OrderKept(q, r, t)
  BY <1>3, <1>5 DEF OrderKept
<1>7. SameFragments(q, r, t)
  BY <1>3, <1>6 DEF SameFragments
<1> QED BY <1>7 DEF r

-----------------------------------------------------------------------------
(***************************************************************************)
(* A push whose packets arrive in their order.                             *)
(***************************************************************************)

\* Fragment k + 1 is placed k behind the first one, wrapped or not.
LEMMA PlaceIs ==
    ASSUME NEW a \in Numbers, NEW k \in 1 .. SeqSpace - 1, NEW n, n = (a + k) % SeqSpace
    PROVE  /\ Place(a, n) = a + k /\ n \in Numbers
           /\ (IF a > n THEN SeqSpace - a + n + 1 ELSE n - a + 1) = k + 1
<1>1. SeqSpace \in Nat \ {0} /\ a \in 0 .. SeqSpace - 1 /\ a + k \in Nat /\ a + k < 2 * SeqSpace
      /\ k \in Nat /\ a \in Nat
  BY SpaceIs DEF Numbers
<1>2. /\ n \in 0 .. SeqSpace - 1 /\ (a + k < SeqSpace => n = a + k)
      /\ (a + k >= SeqSpace => n = a + k - SeqSpace)
  <2> DEFINE x == a + k
             S == SeqSpace
  <2>1. S \in Nat \ {0} /\ x \in Nat /\ x < 2 * S /\ n = x % S
    BY <1>1
  <2> HIDE DEF x, S
  <2>2. x % S \in 0 .. S - 1 /\ (x < S => x % S = x) /\ (x >= S /\ x < 2 * S => x % S = x - S)
    BY <2>1, ModValue
  <2>3. n \in 0 .. S - 1 /\ (x < S => n = x) /\ (x >= S => n = x - S)
    BY <2>1, <2>2
  <2>4. x = a + k /\ S = SeqSpace
    BY DEF x, S
  <2> QED BY <2>3, <2>4, <1>1
<1>3. CASE a + k < SeqSpace
  <2>1. n = a + k /\ ~ (a > n)
    BY <1>1, <1>2, <1>3
  <2> QED BY <1>1, <1>2, <2>1 DEF Place, Numbers
<1>4. CASE a + k >= SeqSpace
  <2>1. n = a + k - SeqSpace /\ a > n
    BY <1>1, <1>2, <1>4
  <2> QED BY <1>1, <1>2, <2>1 DEF Place, Numbers
<1> QED
  BY <1>1, <1>3, <1>4

\* More packets than there are numbers are never complete.
LEMMA TooMany ==
    ASSUME NEW f, EntryOK(f), f.n > SeqSpace
    PROVE  ~ Complete(f)
<1> SUFFICES ASSUME Complete(f) PROVE FALSE
  OBVIOUS
<1>1. f.s \in Numbers /\ f.e \in Numbers /\ f.n \in Nat
  BY DEF Complete, EntryOK
<1>2. (IF f.s > f.e THEN SeqSpace - f.s + f.e + 1 ELSE f.e - f.s + 1) = f.n
  BY DEF Complete
<1> DEFINE s == f.s
           e == f.e
           n == f.n
<1>3. /\ s \in 0 .. SeqSpace - 1 /\ e \in 0 .. SeqSpace - 1 /\ n \in Nat /\ n > SeqSpace
      /\ (IF s > e THEN SeqSpace - s + e + 1 ELSE e - s + 1) = n
      /\ SeqSpace \in Nat
  BY <1>1, <1>2, SpaceIs DEF Numbers
<1> HIDE DEF s, e, n
<1> QED
  BY <1>3

\* A unit without its last fragment is not complete.
LEMMA Unended ==
    ASSUME NEW f, f.e = None
    PROVE  ~ Complete(f)
  BY DEF Complete

\* Nor does the next packet complete one with too many.
LEMMA StuckStep ==
    ASSUME NEW f, EntryOK(f), f.n > SeqSpace, NEW p, FragmentPacket(p), NEW g, g = AddPacket(f, p)
    PROVE  ~ Complete(g) /\ g.n > SeqSpace
<1>1. EntryOK(g) /\ g.n = f.n + 1
  BY AddIs
<1>2. f.n \in Nat
  BY DEF EntryOK
<1>3. g.n > SeqSpace
  BY <1>1, <1>2, SpaceIs
<1> QED
  BY <1>1, <1>3, TooMany

\* What push t sent, when it sent only its own.
Good(C, t) ==
    /\ C \in Seq(Wires) /\ Runs(C, t)
    /\ \A i \in DOMAIN C : FragmentOK(C[i].load)
    /\ \A i \in DOMAIN C : C[i].load.kind = "fragment" => Own(C[i], t) /\ C[i].ts = t

\* The unit of packet m is put together as far as that packet.
Half(f, C, m) ==
    LET u == UnitOf(C[m])
        k == C[m].load.part
    IN  /\ k < u.frags /\ f.n = k /\ f.s \in Numbers /\ f.e = None
        /\ f.temporary = <<>> /\ C[m].seq = (f.s + (k - 1)) % SeqSpace
        /\ u.frags <= SeqSpace =>
              /\ DOMAIN f.fragments = f.s .. f.s + (k - 1)
              /\ \A x \in DOMAIN f.fragments : f.fragments[x] = Part(u, x - (f.s - 1))

Progress(F, D, C, t, m) ==
    \/ t \in D
    \/ t \notin DOMAIN F /\ (m \in DOMAIN C /\ Own(C[m], t) => C[m].load.part = UnitOf(C[m]).frags)
    \/ t \in DOMAIN F /\ F[t].n > SeqSpace
    \/ t \in DOMAIN F /\ m \in DOMAIN C /\ Own(C[m], t) /\ Half(F[t], C, m)

\* Of the fragments of the push those behind packet m are under way, in order.
Coming(C, q, t, m) ==
    /\ \A i \in DOMAIN C : i > m /\ Own(C[i], t) => \E j \in DOMAIN q : q[j] = C[i]
    /\ \A j \in DOMAIN q : Fragment(q[j], t) => \E i \in DOMAIN C : i > m /\ C[i] = q[j]
    /\ \A j1, j2 \in DOMAIN q : \A i1, i2 \in DOMAIN C :
          j1 < j2 /\ Own(C[i1], t) /\ Own(C[i2], t) /\ q[j1] = C[i1] /\ q[j2] = C[i2] => i1 < i2

\* The fragments among what push t sent.
LEMMA GoodIs ==
    ASSUME NEW C, NEW t, Good(C, t), NEW i \in DOMAIN C
    PROVE  /\ C[i].load.kind = "fragment" <=> Own(C[i], t)
           /\ Own(C[i], t) => /\ FragmentPacket(C[i]) /\ C[i].ts = t /\ UnitOf(C[i]).ts = t
                              /\ Fragment(C[i], t)
           /\ i \in Nat /\ DOMAIN C = 1 .. Len(C) /\ Len(C) \in Nat /\ i \in 1 .. Len(C)
<1>1. C \in Seq(Wires)
  BY DEF Good
<1>2. C[i] \in Wires
  BY <1>1
<1> QED
  BY <1>1, <1>2 DEF Good, Own, UnitOf, FragmentPacket, Fragment

\* The first fragment of a unit.
LEMMA HalfBegins ==
    ASSUME NEW C, NEW t, Good(C, t), NEW m \in DOMAIN C, Own(C[m], t), C[m].load.part = 1
    PROVE  Half(NewFrame(C[m]), C, m)
<1> DEFINE p == C[m]
           u == UnitOf(p)
           f == NewFrame(p)
<1>1. FragmentPacket(p)
  BY GoodIs
<1>2. /\ p.load = Part(u, 1) /\ u.frags \in Nat /\ u.frags >= 2 /\ p.seq \in Numbers /\ p.seq \in Nat
      /\ IsStart(p) /\ ~ IsEnd(p)
  <2>1. \A k : k = p.load.part => 
           /\ p.load = Part(u, k) /\ u.frags \in Nat /\ u.frags >= 2 /\ p.seq \in Numbers /\ p.seq \in Nat
           /\ (IsStart(p) <=> k = 1) /\ (IsEnd(p) <=> k = u.frags)
    BY <1>1, FragmentPacketIs
  <2> HIDE DEF u
  <2> QED BY <2>1
<1>3. /\ f.n = 1 /\ f.temporary = <<>> /\ f.s = p.seq /\ f.e = None
      /\ DOMAIN f.fragments = {p.seq} /\ f.fragments[p.seq] = p.load
  <2> HIDE DEF p, f
  <2>1. f = NewFrame(p)
    BY DEF f
  <2> QED BY <1>1, <1>2, <2>1, NewFrameIs
<1>4. p.load.part = 1
  OBVIOUS
<1> HIDE DEF p, f, u
<1>5. p.seq = (f.s + (1 - 1)) % SeqSpace
  <2>1. p.seq \in Nat /\ p.seq < SeqSpace /\ f.s + (1 - 1) = p.seq
    BY <1>2, <1>3, SpaceIs DEF Numbers
  <2> QED BY <2>1, SpaceIs, ModValue
<1>6. /\ DOMAIN f.fragments = f.s .. f.s + (1 - 1)
      /\ \A x \in DOMAIN f.fragments : f.fragments[x] = Part(u, x - (f.s - 1))
  <2>1. f.s .. f.s + (1 - 1) = {p.seq} /\ p.seq - (f.s - 1) = 1
    BY <1>2, <1>3
  <2> QED BY <1>2, <1>3, <2>1
<1>7. 1 < u.frags /\ f.s \in Numbers
  BY <1>2, <1>3
<1>8. Half(f, C, m)
  BY <1>3, <1>4, <1>5, <1>6, <1>7 DEF Half, p, u
<1> QED BY <1>8 DEF f, p

\* The next one completes the unit, or puts it together one part further.
LEMMA HalfStep ==
    ASSUME NEW C, NEW t, Good(C, t), NEW m \in DOMAIN C, Own(C[m], t), NEW f, EntryOK(f), Half(f, C, m),
           NEW p, m + 1 \in DOMAIN C, p = C[m + 1], NEW g, g = AddPacket(f, p)
    PROVE  /\ Complete(g) => p.load.part = UnitOf(p).frags /\ InOrder(g) = Whole(UnitOf(p))
           /\ ~ Complete(g) => g.n > SeqSpace \/ (Own(p, t) /\ Half(g, C, m + 1))
<1> DEFINE u == UnitOf(C[m])
           k == C[m].load.part
           N == u.frags
           a == f.s
<1>1. FragmentPacket(C[m])
  BY GoodIs
<1>2. u \in NalUnits /\ N \in Nat /\ k \in Nat /\ k \in 1 .. N /\ N >= 2 /\ C[m].seq \in Nat
  BY <1>1, FragmentPacketIs
<1>3. /\ k < N /\ f.n = k /\ a \in Numbers /\ f.e = None
      /\ f.temporary = <<>> /\ C[m].seq = (a + (k - 1)) % SeqSpace
      /\ N <= SeqSpace =>
              /\ DOMAIN f.fragments = a .. a + (k - 1)
              /\ \A x \in DOMAIN f.fragments : f.fragments[x] = Part(u, x - (a - 1))
  BY DEF Half
<1>4. p = [seq |-> NextNumber(C[m].seq), ts |-> t, load |-> Part(u, k + 1)]
  BY <1>3 DEF Good, Runs
<1> HIDE DEF u, k, N, a
<1>5. /\ p.load = Part(u, k + 1) /\ p.load.kind = "fragment" /\ p.load.part = k + 1 /\ UnitOf(p) = u
      /\ p.seq = NextNumber(C[m].seq) /\ p.ts = t
  BY <1>4 DEF Part, UnitOf
<1>6. Own(p, t) /\ FragmentPacket(p)
  <2>1. \A i \in DOMAIN C : (C[i].load.kind = "fragment" <=> Own(C[i], t)) /\ (Own(C[i], t) => FragmentPacket(C[i]))
    BY GoodIs
  <2>2. C[m + 1].load.kind = "fragment"
    BY <1>5
  <2> QED BY <2>1, <2>2
<1>7. ~ IsStart(p) /\ (IsEnd(p) <=> k + 1 = N) /\ p.seq \in Numbers
  <2>1. \A y : y = p.load.part => (IsStart(p) <=> y = 1) /\ (IsEnd(p) <=> y = UnitOf(p).frags) /\ p.seq \in Numbers
    BY <1>6, FragmentPacketIs
  <2>2. k + 1 # 1
    BY <1>2
  <2> QED BY <2>1, <2>2, <1>5 DEF N
<1>8. a # None
  BY <1>3, NoneIs
<1>9. /\ EntryOK(g) /\ g.n = k + 1 /\ g.e = (IF k + 1 = N THEN p.seq ELSE None) /\ g.s = a
      /\ g.temporary = <<>> /\ g.fragments = With(f.fragments, Place(a, p.seq), p.load)
  <2>1. f.s = a
    BY DEF a
  <2>2. Behind(g, f, p)
    BY <1>6, <1>7, <1>8, <2>1, AddIs
  <2> QED BY <2>1, <2>2, <1>3, <1>7 DEF Behind
<1>10. p.seq = (a + k) % SeqSpace
  <2>1. a + (k - 1) \in Nat /\ (a + (k - 1)) + 1 = a + k
    BY <1>2, <1>3, SpaceIs DEF Numbers
  <2>2. (((a + (k - 1)) % SeqSpace) + 1) % SeqSpace = ((a + (k - 1)) + 1) % SeqSpace
    BY <2>1, ModNext, SpaceIs
  <2> QED BY <1>3, <1>5, <2>1, <2>2 DEF NextNumber
<1>11. CASE k + 1 > SeqSpace
  <2>1. g.n > SeqSpace
    BY <1>9, <1>11
  <2>2. ~ Complete(g)
    BY <1>9, <2>1, TooMany
  <2> QED BY <2>1, <2>2
<1>12. CASE ~ (k + 1 > SeqSpace)
  <2>1. k \in 1 .. SeqSpace - 1
    BY <1>2, <1>12, SpaceIs
  <2>2. /\ Place(a, p.seq) = a + k
        /\ (IF a > p.seq THEN SeqSpace - a + p.seq + 1 ELSE p.seq - a + 1) = k + 1
    BY <1>3, <1>10, <2>1, PlaceIs
  <2>3. N <= SeqSpace =>
              /\ DOMAIN g.fragments = a .. a + k
              /\ \A x \in DOMAIN g.fragments : g.fragments[x] = Part(u, x - (a - 1))
    <3> SUFFICES ASSUME N <= SeqSpace
                 PROVE  /\ DOMAIN g.fragments = a .. a + k
                        /\ \A x \in DOMAIN g.fragments : g.fragments[x] = Part(u, x - (a - 1))
      OBVIOUS
    <3>1. /\ DOMAIN f.fragments = a .. a + (k - 1)
          /\ \A x \in DOMAIN f.fragments : f.fragments[x] = Part(u, x - (a - 1))
      BY <1>3
    <3>2. /\ DOMAIN g.fragments = DOMAIN f.fragments \cup {a + k}
          /\ \A x \in DOMAIN g.fragments : g.fragments[x] = IF x = a + k THEN p.load ELSE f.fragments[x]
      BY <1>9, <2>2 DEF With
    <3>3. a \in Nat /\ k \in Nat
      BY <1>2, <1>3, SpaceIs DEF Numbers
    <3>4. (a .. a + (k - 1)) \cup {a + k} = a .. a + k
      BY <3>3
    <3>5. (a + k) - (a - 1) = k + 1
      BY <3>3
    <3> QED BY <3>1, <3>2, <3>4, <3>5, <1>5
  <2>4. CASE k + 1 = N
    <3>1. g.s = a /\ g.e = p.seq /\ g.s # None /\ g.e # None
      BY <1>7, <1>8, <1>9, <2>4, NoneIs
    <3>2. Complete(g)
      BY <3>1, <2>2, <1>9 DEF Complete
    <3>3. N <= SeqSpace
      BY <2>4, <1>12, <1>2, SpaceIs
    <3>4. InOrder(g) = Whole(u)
      <4> DEFINE c == a - 1
      <4>1. a \in Nat /\ k \in Nat /\ c \in Int /\ c + 1 = a /\ c + N = a + k
        BY <1>2, <1>3, <2>4, SpaceIs DEF Numbers
      <4>2. DOMAIN g.fragments = c + 1 .. c + N /\ \A x \in DOMAIN g.fragments : g.fragments[x] = Part(u, x - c)
        BY <2>3, <3>3, <4>1
      <4> HIDE DEF c
      <4>3. /\ DOMAIN g.fragments = c + 1 .. c + u.frags /\ u.frags \in Nat
        BY <4>2, <1>2 DEF N
      <4> QED BY <4>1, <4>2, <4>3, InOrderIs
    <3> QED BY <3>2, <3>4, <1>5, <2>4 DEF N
  <2>5. CASE k + 1 # N
    <3>1. g.e = None /\ k + 1 < N
      BY <1>2, <1>3, <1>9, <2>5
    <3>2. ~ Complete(g)
      BY <3>1, Unended
    <3>3. Half(g, C, m + 1)
      <4>1. k + 1 - 1 = k
        BY <1>2
      <4>2. /\ k + 1 < N /\ g.n = k + 1 /\ g.s \in Numbers /\ g.e = None
            /\ g.temporary = <<>> /\ C[m + 1].seq = (g.s + (k + 1 - 1)) % SeqSpace
            /\ N <= SeqSpace =>
                  /\ DOMAIN g.fragments = g.s .. g.s + (k + 1 - 1)
                  /\ \A x \in DOMAIN g.fragments : g.fragments[x] = Part(u, x - (g.s - 1))
        BY <4>1, <1>3, <1>9, <1>10, <2>3, <3>1
      <4>3. UnitOf(C[m + 1]) = u /\ C[m + 1].load.part = k + 1
        BY <1>5
      <4>4. LET v == UnitOf(C[m + 1])
                j == C[m + 1].load.part
            IN  /\ j < v.frags /\ g.n = j /\ g.s \in Numbers /\ g.e = None
                /\ g.temporary = <<>> /\ C[m + 1].seq = (g.s + (j - 1)) % SeqSpace
                /\ v.frags <= SeqSpace =>
                      /\ DOMAIN g.fragments = g.s .. g.s + (j - 1)
                      /\ \A x \in DOMAIN g.fragments : g.fragments[x] = Part(v, x - (g.s - 1))
        <5>1. k \in Nat
          BY <1>2
        <5> HIDE DEF k
        <5> QED BY <4>2, <4>3, <5>1 DEF N
      <4> QED BY <4>4 DEF Half
    <3> QED BY <3>2, <3>3, <1>6
  <2> QED BY <2>4, <2>5
<1> QED
  BY <1>11, <1>12

Ordered(C, q, F, D, t) == \E m \in 0 .. Len(C) : Coming(C, q, t, m) /\ Progress(F, D, C, t, m)

\* A fragment under way is one that was sent, and only once.
LEMMA OneOf ==
    ASSUME NEW C, NEW t, Good(C, t), NEW i \in DOMAIN C, NEW j \in DOMAIN C, Own(C[i], t), C[i] = C[j]
    PROVE  i = j
  BY DEF Good, Runs

\* Steps that leave the push alone.
LEMMA OrderedStays ==
    ASSUME NEW C, NEW t, Good(C, t), NEW q, NEW F, NEW D, Ordered(C, q, F, D, t),
           NEW r, SameFragments(q, r, t), NEW F2, NEW D2,
           t \in DOMAIN F2 <=> t \in DOMAIN F, t \in DOMAIN F => F2[t] = F[t], t \in D2 <=> t \in D
    PROVE  Ordered(C, r, F2, D2, t)
<1>1. PICK m \in 0 .. Len(C) : Coming(C, q, t, m) /\ Progress(F, D, C, t, m)
  BY DEF Ordered
<1>2. Progress(F2, D2, C, t, m)
  BY <1>1 DEF Progress
<1>3. \A i \in DOMAIN C : Own(C[i], t) => Fragment(C[i], t)
  BY GoodIs
<1>4. ASSUME NEW i \in DOMAIN C, i > m, Own(C[i], t) PROVE \E x \in DOMAIN r : r[x] = C[i]
  <2>1. PICK j \in DOMAIN q : q[j] = C[i]
    BY <1>1, <1>4 DEF Coming
  <2>2. Fragment(q[j], t)
    BY <2>1, <1>3, <1>4
  <2> QED BY <2>1, <2>2 DEF SameFragments
<1>5. ASSUME NEW x \in DOMAIN r, Fragment(r[x], t) PROVE \E i \in DOMAIN C : i > m /\ C[i] = r[x]
  <2>1. PICK j \in DOMAIN q : q[j] = r[x]
    BY <1>5 DEF SameFragments, OrderKept
  <2> QED BY <2>1, <1>1, <1>5 DEF Coming
<1>6. ASSUME NEW x \in DOMAIN r, NEW y \in DOMAIN r, NEW i1 \in DOMAIN C, NEW i2 \in DOMAIN C,
             x < y, Own(C[i1], t), Own(C[i2], t), r[x] = C[i1], r[y] = C[i2]
      PROVE  i1 < i2
  <2>1. Fragment(r[x], t) /\ Fragment(r[y], t)
    BY <1>3, <1>6
  <2>2. PICK j1 \in DOMAIN q, j2 \in DOMAIN q : j1 < j2 /\ q[j1] = r[x] /\ q[j2] = r[y]
    BY <1>6, <2>1 DEF SameFragments, OrderKept
  <2> QED BY <2>2, <1>1, <1>6 DEF Coming
<1>7. Coming(C, r, t, m)
  BY <1>4, <1>5, <1>6 DEF Coming
<1> QED
  BY <1>2, <1>7 DEF Ordered

\* A push begins.
LEMMA OrderedBegins ==
    ASSUME NEW C, NEW t, Good(C, t), NEW q \in Seq(Wires), \A j \in DOMAIN q : ~ Fragment(q[j], t),
           NEW F, NEW D, t \notin DOMAIN F
    PROVE  Ordered(C, q \o C, F, D, t)
<1> DEFINE r == q \o C
           n == Len(q)
<1>1. C \in Seq(Wires) /\ DOMAIN C = 1 .. Len(C) /\ Len(C) \in Nat /\ n \in Nat /\ DOMAIN q = 1 .. n
  BY DEF Good
<1>2. DOMAIN r = 1 .. n + Len(C)
  BY <1>1
<1>3. \A x \in DOMAIN q : r[x] = q[x]
  BY <1>1
<1>4. \A i \in DOMAIN C : n + i \in DOMAIN r /\ r[n + i] = C[i]
  BY <1>1
<1>5. \A x \in DOMAIN r : x \notin DOMAIN q => x - n \in DOMAIN C /\ r[x] = C[x - n]
  BY <1>1, <1>2
<1> HIDE DEF r, n
<1>6. ASSUME NEW x \in DOMAIN r, Fragment(r[x], t) PROVE x - n \in DOMAIN C /\ r[x] = C[x - n]
  BY <1>3, <1>5, <1>6
<1>7. \A i \in DOMAIN C : Own(C[i], t) => Fragment(C[i], t)
  BY GoodIs
<1>8. ASSUME NEW x \in DOMAIN r, NEW y \in DOMAIN r, NEW i1 \in DOMAIN C, NEW i2 \in DOMAIN C,
             x < y, Own(C[i1], t), Own(C[i2], t), r[x] = C[i1], r[y] = C[i2]
      PROVE  i1 < i2
  <2>1. Fragment(r[x], t) /\ Fragment(r[y], t)
    BY <1>7, <1>8
  <2>2. x - n \in DOMAIN C /\ C[x - n] = C[i1] /\ y - n \in DOMAIN C /\ C[y - n] = C[i2]
    BY <2>1, <1>6, <1>8
  <2>3. x - n = i1 /\ y - n = i2
    BY <2>2, <1>8, OneOf
  <2>4. x \in Nat /\ y \in Nat /\ n \in Nat
    BY <1>1, <1>2
  <2> QED BY <2>3, <2>4, <1>8
<1>9. Coming(C, r, t, 0)
  <2>1. \A i \in DOMAIN C : i > 0 /\ Own(C[i], t) => \E j \in DOMAIN r : r[j] = C[i]
    BY <1>4
  <2>2. ASSUME NEW j \in DOMAIN r, Fragment(r[j], t) PROVE \E i \in DOMAIN C : i > 0 /\ C[i] = r[j]
    <3>1. j - n \in DOMAIN C /\ r[j] = C[j - n]
      BY <2>2, <1>6
    <3>2. j - n > 0
      BY <3>1, <1>1
    <3> QED BY <3>1, <3>2
  <2> QED BY <2>1, <2>2, <1>8 DEF Coming
<1>10. Progress(F, D, C, t, 0)
  <2>1. 0 \notin DOMAIN C
    BY <1>1
  <2> QED BY <2>1 DEF Progress
<1>11. 0 \in 0 .. Len(C)
  BY <1>1
<1>12. Ordered(C, r, F, D, t)
  BY <1>9, <1>10, <1>11 DEF Ordered
<1> QED BY <1>12 DEF r

\* What the application gets.
IsWhole(l) == l = Whole(l[1].units[1])

\* All parts of a unit are the parts of the unit its first part names.
LEMMA WholeIs ==
    ASSUME NEW u, u.frags \in Nat, u.frags >= 1
    PROVE  IsWhole(Whole(u))
<1>1. Whole(u)[1] = Part(u, 1)
  BY DEF Whole
<1>2. Part(u, 1).units[1] = u
  BY DEF Part
<1> QED
  BY <1>1, <1>2 DEF IsWhole

\* The fragment of the push that is next arrives.
LEMMA OrderedNext ==
    ASSUME NEW C, NEW t, Good(C, t), NEW q \in Seq(Wires), NEW m \in 0 .. Len(C), Coming(C, q, t, m),
           1 \in DOMAIN q, Fragment(q[1], t), NEW r, Removed(q, 1, r)
    PROVE  \E i \in DOMAIN C :
              /\ C[i] = q[1] /\ i > m /\ Own(C[i], t) /\ Coming(C, r, t, i)
              /\ m \in DOMAIN C /\ Own(C[m], t) /\ C[m].load.part < UnitOf(C[m]).frags => i = m + 1
              /\ C[i].load.part > 1 => m \in DOMAIN C /\ i = m + 1 /\ Own(C[m], t) /\ C[m].load.part < UnitOf(C[m]).frags
<1>1. PICK i \in DOMAIN C : i > m /\ C[i] = q[1]
  BY DEF Coming
<1>2. Own(C[i], t)
  BY <1>1, GoodIs DEF Fragment
<1>3. DOMAIN q = 1 .. Len(q) /\ Len(q) \in Nat /\ DOMAIN C = 1 .. Len(C) /\ Len(C) \in Nat /\ C \in Seq(Wires)
  BY DEF Good
<1>4. \A x \in DOMAIN r : x + 1 \in DOMAIN q /\ r[x] = q[x + 1]
  <2> SUFFICES ASSUME NEW x \in DOMAIN r PROVE x + 1 \in DOMAIN q /\ r[x] = q[x + 1]
    OBVIOUS
  <2>1. x \in 1 .. Len(q) - 1 /\ r[x] = IF x < 1 THEN q[x] ELSE q[x + 1]
    BY DEF Removed
  <2> QED BY <2>1, <1>3
<1>5. \A j \in DOMAIN q : j # 1 => \E x \in DOMAIN r : r[x] = q[j]
  BY RemovedKeeps
\* It is the first of those to come.
<1>6. ASSUME NEW y \in DOMAIN C, y > m, Own(C[y], t) PROVE i <= y
  <2>1. PICK j \in DOMAIN q : q[j] = C[y]
    BY <1>6 DEF Coming
  <2>2. CASE j = 1
    <3>1. C[y] = C[i]
      BY <2>1, <2>2, <1>1
    <3>2. y = i
      BY <3>1, <1>2, OneOf
    <3> QED BY <3>2, <1>3
  <2>3. CASE j # 1
    <3>1. 1 < j
      BY <2>3, <1>3
    <3>2. i < y
      BY <3>1, <2>1, <1>1, <1>2, <1>6 DEF Coming
    <3> QED BY <3>2, <1>3
  <2> QED BY <2>2, <2>3
<1>7. Coming(C, r, t, i)
  <2>1. ASSUME NEW y \in DOMAIN C, y > i, Own(C[y], t) PROVE \E x \in DOMAIN r : r[x] = C[y]
    <3>1. y > m
      BY <2>1, <1>1, <1>3
    <3>2. PICK j \in DOMAIN q : q[j] = C[y]
      BY <2>1, <3>1 DEF Coming
    <3>3. j # 1
      <4> SUFFICES ASSUME j = 1 PROVE FALSE
        OBVIOUS
      <4>1. C[y] = C[i]
        BY <3>2, <1>1
      <4>2. y = i
        BY <4>1, <1>2, OneOf
      <4> QED BY <4>2, <2>1, <1>3
    <3> QED BY <3>2, <3>3, <1>5
  <2>2. ASSUME NEW x \in DOMAIN r, Fragment(r[x], t) PROVE \E y \in DOMAIN C : y > i /\ C[y] = r[x]
    <3>1. x + 1 \in DOMAIN q /\ r[x] = q[x + 1]
      BY <1>4
    <3>2. PICK y \in DOMAIN C : y > m /\ C[y] = q[x + 1]
      BY <3>1, <2>2 DEF Coming
    <3>3. Own(C[y], t)
      BY <3>1, <3>2, <2>2, GoodIs DEF Fragment
    <3>4. 1 < x + 1
      <4>1. x \in 1 .. Len(q) - 1
        BY DEF Removed
      <4> QED BY <4>1
    <3>5. i < y
      BY <3>1, <3>2, <3>3, <3>4, <1>1, <1>2 DEF Coming
    <3> QED BY <3>1, <3>2, <3>5, <1>3
  <2>3. ASSUME NEW x \in DOMAIN r, NEW y \in DOMAIN r, NEW i1 \in DOMAIN C, NEW i2 \in DOMAIN C,
               x < y, Own(C[i1], t), Own(C[i2], t), r[x] = C[i1], r[y] = C[i2]
        PROVE  i1 < i2
    <3>1. x + 1 \in DOMAIN q /\ r[x] = q[x + 1] /\ y + 1 \in DOMAIN q /\ r[y] = q[y + 1]
      BY <1>4
    <3>2. x + 1 < y + 1
      <4>1. x \in 1 .. Len(q) - 1 /\ y \in 1 .. Len(q) - 1
        BY DEF Removed
      <4>2. x \in Nat /\ y \in Nat /\ x < y
        BY <4>1, <1>3, <2>3
      <4> QED BY <4>2
    <3> DEFINE a == x + 1
               b == y + 1
    <3>3. a \in DOMAIN q /\ b \in DOMAIN q /\ a < b /\ q[a] = C[i1] /\ q[b] = C[i2]
      BY <3>1, <3>2, <2>3
    <3> HIDE DEF a, b
    <3> QED BY <3>3, <2>3 DEF Coming
  <2> QED BY <2>1, <2>2, <2>3 DEF Coming
<1>8. ASSUME m \in DOMAIN C, Own(C[m], t), C[m].load.part < UnitOf(C[m]).frags PROVE i = m + 1
  <2>1. m + 1 \in DOMAIN C /\ C[m + 1] = [seq |-> NextNumber(C[m].seq), ts |-> t, load |-> Part(UnitOf(C[m]), C[m].load.part + 1)]
    BY <1>8 DEF Good, Runs
  <2>2. C[m + 1].load.kind = "fragment"
    BY <2>1 DEF Part
  <2>3. Own(C[m + 1], t)
    BY <2>1, <2>2, GoodIs
  <2>4. i <= m + 1
    BY <2>1, <2>3, <1>3, <1>6
  <2> QED BY <2>4, <1>1, <1>3
<1>9. ASSUME C[i].load.part > 1
      PROVE  m \in DOMAIN C /\ i = m + 1 /\ Own(C[m], t) /\ C[m].load.part < UnitOf(C[m]).frags
  <2> DEFINE u == UnitOf(C[i])
             k == C[i].load.part
  <2>1. i - 1 \in DOMAIN C /\ C[i - 1].load = Part(u, k - 1)
    BY <1>2, <1>9 DEF Good, Runs
  <2>2. u.frags \in Nat /\ k \in Nat /\ k \in 1 .. u.frags
    BY <1>2, GoodIs, FragmentPacketIs
  <2> HIDE DEF u, k
  <2>3. C[i - 1].load.kind = "fragment" /\ C[i - 1].load.part = k - 1 /\ UnitOf(C[i - 1]) = u
    BY <2>1 DEF Part, UnitOf
  <2>4. Own(C[i - 1], t)
    BY <2>1, <2>3, GoodIs
  <2>5. ~ (i - 1 > m)
    <3> SUFFICES ASSUME i - 1 > m PROVE FALSE
      OBVIOUS
    <3>1. i <= i - 1
      BY <2>1, <2>4, <1>6
    <3> QED BY <3>1, <1>3
  <2>6. i - 1 = m
    BY <2>5, <1>1, <1>3
  <2>7. k - 1 < u.frags
    BY <2>2
  <2> QED BY <2>1, <2>3, <2>4, <2>6, <2>7, <1>3
<1> QED
  BY <1>1, <1>2, <1>7, <1>8, <1>9

\* It is put together with those before it.
LEMMA OrderedTakes ==
    ASSUME NEW C, NEW t, Good(C, t), NEW q \in Seq(Wires), NEW F, NEW D, NEW n, TableIn(F, D, n),
           Ordered(C, q, F, D, t), 1 \in DOMAIN q, NEW p, p = q[1], Fragment(p, t), NEW r, Removed(q, 1, r),
           NEW H, NEW F2, NEW D2, NEW H2, Takes(p, F, D, H, F2, D2, H2)
    PROVE  /\ Ordered(C, r, F2, D2, t)
           /\ t \in DOMAIN F /\ Complete(AddPacket(F[t], p)) => IsWhole(InOrder(AddPacket(F[t], p)))
<1>1. PICK m \in 0 .. Len(C) : Coming(C, q, t, m) /\ Progress(F, D, C, t, m)
  BY DEF Ordered
<1>2. PICK i \in DOMAIN C :
              /\ C[i] = p /\ i > m /\ Own(C[i], t) /\ Coming(C, r, t, i)
              /\ m \in DOMAIN C /\ Own(C[m], t) /\ C[m].load.part < UnitOf(C[m]).frags => i = m + 1
              /\ C[i].load.part > 1 => m \in DOMAIN C /\ i = m + 1 /\ Own(C[m], t) /\ C[m].load.part < UnitOf(C[m]).frags
  BY <1>1, OrderedNext
<1>3. FragmentPacket(p) /\ p.ts = t /\ i \in 0 .. Len(C)
  BY <1>2, GoodIs
<1> DEFINE g == AddPacket(F[t], p)
<1>4. /\ t \in DOMAIN F => EntryOK(F[t]) /\ t \notin D
  BY DEF TableIn
<1> SUFFICES /\ Progress(F2, D2, C, t, i)
             /\ t \in DOMAIN F /\ Complete(g) => IsWhole(InOrder(g))
  BY <1>2, <1>3 DEF Ordered
<1>5. CASE t \in D
  <2>1. t \in D2
    BY <1>3, <1>4, <1>5 DEF Takes
  <2> QED BY <2>1, <1>4, <1>5 DEF Progress
<1>6. CASE t \notin D /\ t \notin DOMAIN F
  <2>1. t \in DOMAIN F2 /\ F2[t] = NewFrame(p)
    BY <1>3, <1>6 DEF Takes
  <2>2. m \in DOMAIN C /\ Own(C[m], t) => C[m].load.part = UnitOf(C[m]).frags
    BY <1>1, <1>6 DEF Progress
  <2>3. ~ (C[i].load.part > 1)
    <3> SUFFICES ASSUME C[i].load.part > 1 PROVE FALSE
      OBVIOUS
    <3>1. m \in DOMAIN C /\ Own(C[m], t) /\ C[m].load.part < UnitOf(C[m]).frags
      BY <1>2
    <3>2. UnitOf(C[m]).frags \in Nat
      BY <3>1, GoodIs, FragmentPacketIs
    <3> QED BY <3>1, <3>2, <2>2
  <2>4. C[i].load.part = 1
    <3>1. p.load.part \in 1 .. UnitOf(p).frags /\ UnitOf(p).frags \in Nat
      BY <1>3, FragmentPacketIs
    <3> QED BY <3>1, <2>3, <1>2
  <2>5. Half(NewFrame(p), C, i)
    BY <2>4, <1>2, HalfBegins
  <2> QED BY <2>1, <2>5, <1>2, <1>6 DEF Progress
<1>7. CASE t \in DOMAIN F /\ F[t].n > SeqSpace
  <2>1. ~ Complete(g) /\ g.n > SeqSpace
    BY <1>3, <1>4, <1>7, StuckStep
  <2>2. t \in D2 \/ (t \in DOMAIN F2 /\ F2[t] = g)
    BY <2>1, <1>3, <1>7 DEF Takes
  <2> QED BY <2>1, <2>2 DEF Progress
<1>8. CASE t \in DOMAIN F /\ m \in DOMAIN C /\ Own(C[m], t) /\ Half(F[t], C, m)
  <2>1. C[m].load.part < UnitOf(C[m]).frags
    BY <1>8 DEF Half
  <2>2. i = m + 1 /\ m + 1 \in DOMAIN C /\ p = C[m + 1]
    BY <2>1, <1>2, <1>8
  <2>3. /\ Complete(g) => p.load.part = UnitOf(p).frags /\ InOrder(g) = Whole(UnitOf(p))
        /\ ~ Complete(g) => g.n > SeqSpace \/ (Own(p, t) /\ Half(g, C, m + 1))
    BY <2>2, <1>4, <1>8, HalfStep
  <2>4. UnitOf(p).frags \in Nat /\ UnitOf(p).frags >= 1
    BY <1>3, FragmentPacketIs
  <2> HIDE DEF g
  <2>5. Complete(g) => IsWhole(InOrder(g))
    BY <2>3, <2>4, WholeIs
  <2>6. CASE Complete(g)
    <3>1. t \notin DOMAIN F2
      BY <2>6, <1>3, <1>8 DEF Takes, g
    <3> QED BY <3>1, <2>3, <2>5, <2>6, <1>2 DEF Progress
  <2>7. CASE ~ Complete(g)
    <3>1. t \in D2 \/ (t \in DOMAIN F2 /\ F2[t] = g)
      BY <2>7, <1>3, <1>8 DEF Takes, g
    <3> QED BY <3>1, <2>2, <2>3, <2>5, <2>7, <1>2 DEF Progress
  <2> QED BY <2>6, <2>7 
<1> QED
  BY <1>1, <1>5, <1>6, <1>7, <1>8 DEF Progress

-----------------------------------------------------------------------------
(***************************************************************************)
(* A push with one unit in fragments whose numbers do not wrap: its        *)
(* packets may arrive in any order.                                        *)
(***************************************************************************)

Rising(C) ==
    \A i, j \in DOMAIN C :
        i < j /\ C[i].load.kind = "fragment" /\ C[j].load.kind = "fragment"
            => C[i].load.units = C[j].load.units /\ C[i].seq < C[j].seq

\* Part k of u has number q + k.
Numbered(C, t, u, q) ==
    /\ u.frags \in Nat /\ u.frags >= 2 /\ q \in Int /\ q + 1 \in Numbers
    /\ \A i \in DOMAIN C : Own(C[i], t) =>
          /\ C[i].load = Part(u, C[i].load.part) /\ C[i].load.part \in 1 .. u.frags
          /\ C[i].seq = q + C[i].load.part

\* If it has a fragment at all, every fragment is of one unit and numbered after it.
LEMMA RisingIs ==
    ASSUME NEW C, NEW t, Good(C, t), Rising(C), NEW i \in DOMAIN C, Own(C[i], t)
    PROVE  \E u, q : Numbered(C, t, u, q)
<1> DEFINE u == UnitOf(C[i])
           k == C[i].load.part
           N == u.frags
           i1 == i - (k - 1)
           back == {x \in 0 .. k - 1 : i - x \in DOMAIN C /\ C[i - x].load = Part(u, k - x)}
           q == C[i1].seq - 1
           fore == {x \in 0 .. N - 1 : /\ i1 + x \in DOMAIN C /\ C[i1 + x].load = Part(u, 1 + x)
                                       /\ C[i1 + x].seq = q + (1 + x)}
<1>1. DOMAIN C = 1 .. Len(C) /\ Len(C) \in Nat /\ i \in Nat /\ C \in Seq(Wires)
  BY DEF Good
<1>2. C[i].load = Part(u, k) /\ N \in Nat /\ k \in Nat /\ k \in 1 .. N /\ N >= 2 /\ u.ts = t
  BY GoodIs, FragmentPacketIs
<1> HIDE DEF u, k, N
<1>3. \A y \in DOMAIN C, j \in Nat : C[y].load = Part(u, j) =>
            Own(C[y], t) /\ UnitOf(C[y]) = u /\ C[y].load.part = j
  BY <1>2 DEF Part, Own, UnitOf
<1>4. 0 \in back
  BY <1>1, <1>2
<1>5. ASSUME NEW x \in 0 .. (k - 1) - 1, x \in back PROVE x + 1 \in back
  <2> DEFINE y == i - x
  <2>1. y \in DOMAIN C /\ C[y].load = Part(u, k - x) /\ k - x \in Nat /\ k - x > 1
    BY <1>2, <1>5
  <2>2. y - 1 = i - (x + 1) /\ (k - x) - 1 = k - (x + 1) /\ x + 1 \in 0 .. k - 1
    BY <1>1, <1>2
  <2> HIDE DEF y
  <2>3. Own(C[y], t) /\ UnitOf(C[y]) = u /\ C[y].load.part = k - x
    BY <2>1, <1>3
  <2>4. y - 1 \in DOMAIN C /\ C[y - 1].load = Part(u, (k - x) - 1)
    BY <2>1, <2>3 DEF Good, Runs
  <2> QED BY <2>2, <2>4
<1>6. i1 \in DOMAIN C /\ C[i1].load = Part(u, 1)
  <2> HIDE DEF back
  <2>1. k - 1 \in Nat /\ k - 1 \in 0 .. k - 1
    BY <1>2
  <2>2. \A x \in 0 .. k - 1 : x \in back
    BY <1>4, <1>5, <2>1, UpTo
  <2>3. k - 1 \in back
    BY <2>1, <2>2
  <2>4. k - (k - 1) = 1
    BY <1>2
  <2> QED BY <2>3, <2>4 DEF back
<1>7. \A y \in DOMAIN C : C[y].seq \in Numbers /\ C[y].seq \in Nat
  <2> SUFFICES ASSUME NEW y \in DOMAIN C PROVE C[y].seq \in Numbers /\ C[y].seq \in Nat
    OBVIOUS
  <2>1. C[y] \in Wires
    BY <1>1
  <2>2. C[y].seq \in Numbers
    BY <2>1 DEF Wires
  <2> QED BY <2>2, SpaceIs DEF Numbers
<1> HIDE DEF i1
<1>8. q \in Int /\ q + 1 \in Numbers /\ C[i1].seq = q + 1 /\ i1 \in Nat
  <2>1. C[i1].seq \in Nat
    BY <1>6, <1>7
  <2>2. q \in Int /\ q + 1 = C[i1].seq
    BY <2>1
  <2> QED BY <2>2, <1>1, <1>6, <1>7
<1> HIDE DEF q
<1>9. 0 \in fore
  <2>1. i1 + 0 = i1 /\ 1 + 0 = 1 /\ 0 \in 0 .. N - 1
    BY <1>2, <1>8
  <2> QED BY <2>1, <1>6, <1>8
<1>10. ASSUME NEW x \in 0 .. (N - 1) - 1, x \in fore PROVE x + 1 \in fore
  <2> DEFINE y == i1 + x
             j == 1 + x
  <2>1. y \in DOMAIN C /\ C[y].load = Part(u, j) /\ C[y].seq = q + j /\ j \in Nat /\ j < N
    BY <1>2, <1>10
  <2>2. y + 1 = i1 + (x + 1) /\ j + 1 = 1 + (x + 1) /\ x + 1 \in 0 .. N - 1
    BY <1>2, <1>8
  <2> HIDE DEF y, j
  <2>3. Own(C[y], t) /\ UnitOf(C[y]) = u /\ C[y].load.part = j
    BY <2>1, <1>3
  <2>4. y + 1 \in DOMAIN C /\ C[y + 1] = [seq |-> NextNumber(C[y].seq), ts |-> t, load |-> Part(u, j + 1)]
    BY <2>1, <2>3 DEF Good, Runs, N
  <2>5. C[y + 1].load = Part(u, j + 1) /\ C[y + 1].seq = NextNumber(C[y].seq)
    BY <2>4
  <2>6. C[y].seq < C[y + 1].seq
    <3>1. C[y].load.kind = "fragment" /\ C[y + 1].load.kind = "fragment"
      BY <2>1, <2>5 DEF Part
    <3>2. y < y + 1
      BY <2>1, <1>1
    <3> QED BY <2>1, <2>4, <3>1, <3>2 DEF Rising
  <2>7. C[y + 1].seq = C[y].seq + 1
    <3> DEFINE a == C[y].seq
               b == C[y + 1].seq
    <3>1. a \in Numbers /\ b \in Numbers /\ a < b /\ b = (a + 1) % SeqSpace
      BY <2>1, <2>4, <2>5, <2>6, <1>7 DEF NextNumber
    <3> HIDE DEF a, b
    <3>2. a \in Nat /\ b \in Nat /\ a + 1 < SeqSpace /\ SeqSpace \in Nat \ {0}
      BY <3>1, SpaceIs DEF Numbers
    <3>3. b = a + 1
      <4> DEFINE c == a + 1
      <4>1. c \in Nat /\ c < SeqSpace /\ b = c % SeqSpace
        BY <3>1, <3>2
      <4> HIDE DEF c
      <4>2. c % SeqSpace = c
        BY <4>1, <3>2, ModValue
      <4> QED BY <4>1, <4>2 DEF c
    <3> QED BY <3>3 DEF a, b
  <2>8. C[y + 1].seq = q + (j + 1)
    BY <2>1, <2>7, <1>8
  <2> QED BY <2>2, <2>4, <2>5, <2>8
<1>11. \A x \in 0 .. N - 1 : x \in fore
  <2> HIDE DEF fore
  <2>1. N - 1 \in Nat
    BY <1>2
  <2> QED BY <2>1, <1>9, <1>10, UpTo
<1>12. ASSUME NEW y \in DOMAIN C, Own(C[y], t)
       PROVE  /\ C[y].load = Part(u, C[y].load.part) /\ C[y].load.part \in 1 .. N
              /\ C[y].seq = q + C[y].load.part
  <2> DEFINE j == C[y].load.part
             x == j - 1
  <2>1. /\ C[y].load = Part(UnitOf(C[y]), j) /\ j \in Nat /\ j \in 1 .. UnitOf(C[y]).frags
        /\ UnitOf(C[y]).frags \in Nat
    BY <1>12, GoodIs, FragmentPacketIs
  <2>2. UnitOf(C[y]) = u
    <3>1. C[y].load.kind = "fragment" /\ C[i].load.kind = "fragment"
      BY <1>12, GoodIs
    <3>2. C[y].load.units = C[i].load.units
      <4>1. CASE y < i
        BY <4>1, <3>1 DEF Rising
      <4>2. CASE i < y
        BY <4>2, <3>1 DEF Rising
      <4>3. CASE y = i
        BY <4>3
      <4>4. y \in Nat /\ i \in Nat
        BY <1>1
      <4> QED BY <4>1, <4>2, <4>3, <4>4
    <3> QED BY <3>2 DEF UnitOf, u
  <2>3. x \in fore /\ 1 + x = j
    <3>1. x \in 0 .. N - 1 /\ 1 + x = j
      BY <2>1, <2>2, <1>2 DEF N
    <3> HIDE DEF x, fore
    <3> QED BY <3>1, <1>11
  <2>4. i1 + x \in DOMAIN C /\ C[i1 + x].load = Part(u, j) /\ C[i1 + x].seq = q + j
    BY <2>3
  <2> HIDE DEF j, x
  <2>5. y = i1 + x
    <3> DEFINE z == i1 + x
    <3>1. z \in DOMAIN C /\ C[z].load = C[y].load
      BY <2>1, <2>2, <2>4 
    <3> HIDE DEF z
    <3>2. Own(C[z], t)
      BY <3>1, <1>12 DEF Own
    <3>3. z = y
      BY <3>1, <3>2, <1>12 DEF Good, Runs
    <3> QED BY <3>3 DEF z
  <2> QED BY <2>1, <2>2, <2>4, <2>5 DEF j, N
<1>13. Numbered(C, t, u, q)
  BY <1>2, <1>8, <1>12 DEF Numbered, N
<1> QED
  BY <1>13

-----------------------------------------------------------------------------
Got(f) == DOMAIN f.fragments \cup {f.temporary[x].seq : x \in DOMAIN f.temporary}

\* The entry of a unit of which any packets have arrived.
Scattered(f, u, q) ==
    /\ Got(f) \subseteq q + 1 .. q + u.frags
    /\ f.n = Cardinality(Got(f))
    /\ \A x \in DOMAIN f.fragments : f.fragments[x] = Part(u, x - q)
    /\ \A x \in DOMAIN f.temporary : f.temporary[x].load = Part(u, f.temporary[x].seq - q)
    /\ f.s = IF q + 1 \in Got(f) THEN q + 1 ELSE None
    /\ f.s # None => f.temporary = <<>>
    /\ f.e \in {None, q + u.frags}

\* Packet k of u, with its number.
PacketOf(p, u, q, k) ==
    /\ FragmentPacket(p) /\ u.frags \in Nat /\ k \in 1 .. u.frags /\ p.load = Part(u, k) /\ p.seq = q + k
    /\ q \in Int /\ q + 1 \in Numbers

\* Which of the packets of u are the first and the last one.
LEMMA PacketOfIs ==
    ASSUME NEW p, NEW u, NEW q, NEW k, PacketOf(p, u, q, k)
    PROVE  /\ IsStart(p) <=> k = 1
           /\ IsEnd(p) <=> k = u.frags
           /\ p.seq \in Numbers /\ p.seq \in Nat /\ k \in Nat /\ p.seq \in q + 1 .. q + u.frags
           /\ p.seq - q = k /\ q + 1 \in Nat
           /\ p.seq = q + 1 <=> k = 1
<1>1. p.load.part = k /\ UnitOf(p) = u
  BY DEF PacketOf, Part, UnitOf
<1>2. FragmentPacket(p) /\ u.frags \in Nat /\ k \in 1 .. u.frags /\ p.seq = q + k /\ q \in Int /\ q + 1 \in Numbers
  BY DEF PacketOf
<1>3. /\ IsStart(p) <=> k = 1
      /\ IsEnd(p) <=> k = u.frags
      /\ p.seq \in Numbers /\ p.seq \in Nat
  BY <1>1, <1>2, FragmentPacketIs
<1>4. q + 1 \in Nat
  BY <1>2, SpaceIs DEF Numbers
<1> QED
  BY <1>2, <1>3, <1>4

\* The first packet of the unit to arrive, whichever.
LEMMA ScatteredBegins ==
    ASSUME NEW p, NEW u, NEW q, NEW k, PacketOf(p, u, q, k), NEW f, f = NewFrame(p)
    PROVE  Scattered(f, u, q) /\ Got(f) = {p.seq}
<1>1. FragmentPacket(p) /\ p.load = Part(u, k) /\ p.seq = q + k
  BY DEF PacketOf
<1>2. /\ IsStart(p) <=> k = 1
      /\ IsEnd(p) <=> k = u.frags
      /\ p.seq \in q + 1 .. q + u.frags /\ p.seq - q = k
      /\ p.seq = q + 1 <=> k = 1
  BY PacketOfIs
<1>3. /\ f.n = 1 /\ f.temporary = <<>>
      /\ f.s = (IF IsStart(p) THEN p.seq ELSE None) /\ f.e = (IF IsEnd(p) THEN p.seq ELSE None)
      /\ DOMAIN f.fragments = {p.seq} /\ f.fragments[p.seq] = p.load
  BY <1>1, NewFrameIs
<1>4. DOMAIN f.temporary = {}
  BY <1>3
<1>5. Got(f) = {p.seq}
  BY <1>3, <1>4 DEF Got
<1>6. Cardinality(Got(f)) = 1
  BY <1>5, FS_Singleton
<1> QED
  BY <1>1, <1>2, <1>3, <1>4, <1>5, <1>6 DEF Scattered

\* A further one, whichever.
LEMMA ScatteredStep ==
    ASSUME NEW p, NEW u, NEW q, NEW k, PacketOf(p, u, q, k), NEW f, EntryOK(f), Scattered(f, u, q),
           p.seq \notin Got(f), NEW g, g = AddPacket(f, p)
    PROVE  Scattered(g, u, q) /\ Got(g) = Got(f) \cup {p.seq}
<1>1. FragmentPacket(p) /\ p.load = Part(u, k) /\ p.seq = q + k /\ q \in Int /\ u.frags \in Nat
  BY DEF PacketOf
<1>2. /\ IsStart(p) <=> k = 1
      /\ IsEnd(p) <=> k = u.frags
      /\ p.seq \in q + 1 .. q + u.frags /\ p.seq - q = k /\ q + 1 \in Nat /\ k \in Nat /\ p.seq \in Nat
      /\ p.seq = q + 1 <=> k = 1
  BY PacketOfIs
<1>3. /\ EntryOK(g) /\ g.n = f.n + 1 /\ g.e = (IF IsEnd(p) THEN p.seq ELSE f.e)
      /\ (IsStart(p) => g.s = p.seq /\ g.temporary = <<>>)
      /\ (~ IsStart(p) => g.s = f.s)
      /\ (~ IsStart(p) /\ f.s # None => Behind(g, f, p))
      /\ (~ IsStart(p) /\ f.s = None =>
                 /\ g.temporary = Append(f.temporary, [seq |-> p.seq, load |-> p.load])
                 /\ g.fragments = f.fragments)
  BY <1>1, AddIs
<1> DEFINE r == f.temporary
           G == Got(f)
<1>4. /\ G \subseteq q + 1 .. q + u.frags /\ f.n = Cardinality(G)
      /\ \A x \in DOMAIN f.fragments : f.fragments[x] = Part(u, x - q)
      /\ \A x \in DOMAIN r : r[x].load = Part(u, r[x].seq - q)
      /\ f.s = (IF q + 1 \in G THEN q + 1 ELSE None)
      /\ (f.s # None => r = <<>>)
      /\ f.e \in {None, q + u.frags}
  BY DEF Scattered
<1>5. r \in Seq(Waiting) /\ DOMAIN r = 1 .. Len(r) /\ Len(r) \in Nat
  BY DEF EntryOK
<1>6. G = DOMAIN f.fragments \cup {r[x].seq : x \in DOMAIN r}
  BY DEF Got
<1> HIDE DEF r, G
<1>7. /\ Got(g) = G \cup {p.seq}
      /\ \A x \in DOMAIN g.fragments : g.fragments[x] = Part(u, x - q)
      /\ \A x \in DOMAIN g.temporary : g.temporary[x].load = Part(u, g.temporary[x].seq - q)
      /\ g.s # None => g.temporary = <<>>
  <2>1. CASE IsStart(p)
    <3>1. \A i \in DOMAIN r : r[i].seq >= p.seq
      <4> SUFFICES ASSUME NEW i \in DOMAIN r PROVE r[i].seq >= p.seq
        OBVIOUS
      <4>1. r[i].seq \in q + 1 .. q + u.frags
        BY <1>4, <1>6
      <4> QED BY <4>1, <1>1, <1>2, <2>1
    <3>2. /\ DOMAIN g.fragments = DOMAIN f.fragments \cup {p.seq} \cup {r[i].seq : i \in DOMAIN r}
          /\ \A x \in DOMAIN g.fragments :
                 \/ \E i \in DOMAIN r : r[i].seq = x /\ g.fragments[x] = r[i].load
                 \/ x = p.seq /\ g.fragments[x] = p.load
                 \/ x # p.seq /\ x \in DOMAIN f.fragments /\ g.fragments[x] = f.fragments[x]
      BY <3>1, <2>1, <1>1, AddStart DEF r
    <3>3. g.temporary = <<>> /\ DOMAIN g.temporary = {}
      BY <1>3, <2>1
    <3>4. Got(g) = G \cup {p.seq}
      BY <3>2, <3>3, <1>6 DEF Got
    <3>5. \A x \in DOMAIN g.fragments : g.fragments[x] = Part(u, x - q)
      BY <3>2, <1>1, <1>2, <1>4
    <3> QED BY <3>3, <3>4, <3>5
  <2>2. CASE ~ IsStart(p) /\ f.s # None
    <3>1. f.s = q + 1 /\ r = <<>> /\ DOMAIN r = {}
      BY <1>4, <2>2
    <3>2. Place(f.s, p.seq) = p.seq
      <4>1. ~ (f.s > p.seq)
        BY <3>1, <1>1, <1>2
      <4> QED BY <4>1 DEF Place
    <3>3. g.fragments = With(f.fragments, p.seq, p.load) /\ g.temporary = <<>>
      BY <1>3, <2>2, <3>1, <3>2 DEF Behind, r
    <3>4. /\ DOMAIN g.fragments = DOMAIN f.fragments \cup {p.seq}
          /\ \A x \in DOMAIN g.fragments : g.fragments[x] = IF x = p.seq THEN p.load ELSE f.fragments[x]
      BY <3>3 DEF With
    <3>5. DOMAIN g.temporary = {}
      BY <3>3
    <3>6. Got(g) = G \cup {p.seq}
      BY <3>1, <3>4, <3>5, <1>6 DEF Got
    <3>7. \A x \in DOMAIN g.fragments : g.fragments[x] = Part(u, x - q)
      BY <3>4, <1>1, <1>2, <1>4
    <3> QED BY <3>3, <3>5, <3>6, <3>7
  <2>3. CASE ~ IsStart(p) /\ f.s = None
    <3> DEFINE w == [seq |-> p.seq, load |-> p.load]
               v == Append(r, w)
    <3>1. g.temporary = v /\ g.fragments = f.fragments /\ g.s = None
      BY <1>3, <2>3 DEF r
    <3>2. w \in Waiting
      BY <1>1 DEF Waiting, FragmentPacket, Wires
    <3>3. w.seq = p.seq /\ w.load = p.load
      OBVIOUS
    <3> HIDE DEF w
    <3>4. Len(v) = Len(r) + 1 /\ v \in Seq(Waiting)
      BY <1>5, <3>2
    <3>5. DOMAIN v = DOMAIN r \cup {Len(r) + 1} /\ v[Len(r) + 1] = w /\ Len(r) + 1 \notin DOMAIN r
      BY <1>5, <3>2, <3>4
    <3>6. \A x \in DOMAIN r : v[x] = r[x]
      BY <1>5, <3>2
    <3> HIDE DEF v
    <3>7. {v[x].seq : x \in DOMAIN v} = {r[x].seq : x \in DOMAIN r} \cup {p.seq}
      BY <3>3, <3>5, <3>6
    <3>8. Got(g) = G \cup {p.seq}
      BY <3>1, <3>7, <1>6 DEF Got
    <3>9. \A x \in DOMAIN v : v[x].load = Part(u, v[x].seq - q)
      BY <3>3, <3>5, <3>6, <1>1, <1>2, <1>4
    <3> QED BY <3>1, <3>8, <3>9, <1>4
  <2> QED BY <2>1, <2>2, <2>3
<1>8. g.n = Cardinality(Got(g)) /\ Got(g) \subseteq q + 1 .. q + u.frags
  <2>1. IsFiniteSet(q + 1 .. q + u.frags)
    <3>1. q + 1 \in Int /\ q + u.frags \in Int
      BY <1>1
    <3> QED BY <3>1, FS_Interval
  <2>2. IsFiniteSet(G)
    BY <2>1, <1>4, FS_Subset
  <2>3. Cardinality(G \cup {p.seq}) = Cardinality(G) + 1
    BY <2>2, FS_AddElement DEF G
  <2> QED BY <2>3, <1>2, <1>3, <1>4, <1>7
<1>9. g.s = IF q + 1 \in Got(g) THEN q + 1 ELSE None
  <2>1. CASE IsStart(p)
    BY <2>1, <1>2, <1>3, <1>7
  <2>2. CASE ~ IsStart(p)
    <3>1. q + 1 \in Got(g) <=> q + 1 \in G
      BY <2>2, <1>2, <1>7
    <3> QED BY <3>1, <2>2, <1>3, <1>4
  <2> QED BY <2>1, <2>2
<1>10. g.e \in {None, q + u.frags}
  BY <1>1, <1>2, <1>3, <1>4
<1>11. Scattered(g, u, q)
  BY <1>7, <1>8, <1>9, <1>10 DEF Scattered
<1> QED
  BY <1>7, <1>11 DEF G

\* When as many have come as there are, all have.
LEMMA ScatteredComplete ==
    ASSUME NEW u, NEW q, u.frags \in Nat, u.frags >= 2, q \in Int, q + 1 \in Numbers,
           NEW f, Scattered(f, u, q), Complete(f)
    PROVE  InOrder(f) = Whole(u)
<1> DEFINE N == u.frags
           G == Got(f)
<1>1. /\ G \subseteq q + 1 .. q + N /\ f.n = Cardinality(G)
      /\ \A x \in DOMAIN f.fragments : f.fragments[x] = Part(u, x - q)
      /\ f.s = (IF q + 1 \in G THEN q + 1 ELSE None)
      /\ (f.s # None => f.temporary = <<>>)
      /\ f.e \in {None, q + N}
  BY DEF Scattered
<1>2. f.s # None /\ f.e # None
      /\ (IF f.s > f.e THEN SeqSpace - f.s + f.e + 1 ELSE f.e - f.s + 1) = f.n
  BY DEF Complete
<1> HIDE DEF G
<1>3. f.s = q + 1 /\ f.e = q + N /\ f.temporary = <<>>
  BY <1>1, <1>2
<1>4. f.n = N
  <2>1. ~ (f.s > f.e)
    BY <1>3
  <2>2. f.n = f.e - f.s + 1
    BY <1>2, <2>1
  <2> QED BY <2>2, <1>3
<1>5. q + 1 \in Int /\ q + N \in Int
  OBVIOUS
<1> HIDE DEF N
<1>6. IsFiniteSet(q + 1 .. q + N) /\ Cardinality(q + 1 .. q + N) = N
  <2>1. IsFiniteSet(q + 1 .. q + N) /\ Cardinality(q + 1 .. q + N) = IF q + 1 > q + N THEN 0 ELSE (q + N) - (q + 1) + 1
    BY <1>5, FS_Interval
  <2>2. (IF q + 1 > q + N THEN 0 ELSE (q + N) - (q + 1) + 1) = N
    BY DEF N
  <2> QED BY <2>1, <2>2
<1>7. G = q + 1 .. q + N
  <2>1. Cardinality(G) = Cardinality(q + 1 .. q + N)
    BY <1>1, <1>4, <1>6
  <2> QED BY <2>1, <1>1, <1>6, FS_Subset
<1>8. DOMAIN f.temporary = {}
  BY <1>3
<1>9. DOMAIN f.fragments = q + 1 .. q + N
  BY <1>7, <1>8 DEF G, Got
<1> QED
  BY <1>1, <1>9, InOrderIs DEF N

-----------------------------------------------------------------------------
\* The fragments of the push that are under way are different ones that have not
\* arrived yet.
AnyOrder(C, Q, F, t) ==
    /\ \A j \in DOMAIN Q : Fragment(Q[j], t) => \E i \in DOMAIN C : C[i] = Q[j]
    /\ \A j1, j2 \in DOMAIN Q : Fragment(Q[j1], t) /\ Q[j1] = Q[j2] => j1 = j2
    /\ t \in DOMAIN F =>
          \E u, q : /\ Numbered(C, t, u, q) /\ Scattered(F[t], u, q)
                    /\ \A j \in DOMAIN Q : Fragment(Q[j], t) => Q[j].seq \notin Got(F[t])

\* Steps that leave the push alone, or lose a packet of it.
LEMMA AnyOrderStays ==
    ASSUME NEW C, NEW t, NEW X, NEW q \in Seq(X), NEW F, AnyOrder(C, q, F, t),
           NEW r \in Seq(X), OrderKept(q, r, t), NEW F2,
           t \in DOMAIN F2 => t \in DOMAIN F /\ F2[t] = F[t]
    PROVE  AnyOrder(C, r, F2, t)
<1>1. ASSUME NEW x \in DOMAIN r, Fragment(r[x], t) PROVE \E j \in DOMAIN q : q[j] = r[x]
  BY <1>1 DEF OrderKept
<1>2. ASSUME NEW x \in DOMAIN r, Fragment(r[x], t) PROVE \E i \in DOMAIN C : C[i] = r[x]
  BY <1>1, <1>2 DEF AnyOrder
<1>3. ASSUME NEW x \in DOMAIN r, NEW y \in DOMAIN r, Fragment(r[x], t), r[x] = r[y], x < y PROVE FALSE
  <2>1. PICK i \in DOMAIN q, j \in DOMAIN q : i < j /\ q[i] = r[x] /\ q[j] = r[y]
    BY <1>3 DEF OrderKept
  <2>2. i = j
    BY <2>1, <1>3 DEF AnyOrder
  <2>3. i \in Nat
    OBVIOUS
  <2> QED BY <2>1, <2>2, <2>3
<1>4. ASSUME NEW x \in DOMAIN r, NEW y \in DOMAIN r, Fragment(r[x], t), r[x] = r[y] PROVE x = y
  <2>1. x \in Nat /\ y \in Nat
    OBVIOUS
  <2>2. ~ (x < y) /\ ~ (y < x)
    BY <1>3, <1>4
  <2> QED BY <2>1, <2>2
<1>5. ASSUME t \in DOMAIN F2
      PROVE  \E u, k : /\ Numbered(C, t, u, k) /\ Scattered(F2[t], u, k)
                       /\ \A j \in DOMAIN r : Fragment(r[j], t) => r[j].seq \notin Got(F2[t])
  <2>1. PICK u, k : /\ Numbered(C, t, u, k) /\ Scattered(F[t], u, k)
                    /\ \A j \in DOMAIN q : Fragment(q[j], t) => q[j].seq \notin Got(F[t])
    BY <1>5 DEF AnyOrder
  <2>2. F2[t] = F[t]
    BY <1>5
  <2>3. \A j \in DOMAIN r : Fragment(r[j], t) => r[j].seq \notin Got(F[t])
    BY <2>1, <1>1
  <2> QED BY <2>1, <2>2, <2>3
<1> QED
  BY <1>2, <1>4, <1>5 DEF AnyOrder

\* A push begins.
LEMMA AnyOrderBegins ==
    ASSUME NEW C, NEW t, Good(C, t), NEW q \in Seq(Wires), \A j \in DOMAIN q : ~ Fragment(q[j], t),
           NEW F, t \notin DOMAIN F
    PROVE  AnyOrder(C, q \o C, F, t)
<1> DEFINE r == q \o C
           n == Len(q)
<1>1. C \in Seq(Wires) /\ DOMAIN C = 1 .. Len(C) /\ Len(C) \in Nat /\ n \in Nat /\ DOMAIN q = 1 .. n
  BY DEF Good
<1>2. DOMAIN r = 1 .. n + Len(C)
  BY <1>1
<1>3. \A x \in DOMAIN q : r[x] = q[x]
  BY <1>1
<1>4. \A x \in DOMAIN r : x \notin DOMAIN q => x - n \in DOMAIN C /\ r[x] = C[x - n]
  BY <1>1, <1>2
<1> HIDE DEF r, n
<1>5. ASSUME NEW x \in DOMAIN r, Fragment(r[x], t) PROVE x - n \in DOMAIN C /\ r[x] = C[x - n]
  BY <1>3, <1>4, <1>5
<1>6. ASSUME NEW x \in DOMAIN r, NEW y \in DOMAIN r, Fragment(r[x], t), r[x] = r[y] PROVE x = y
  <2>1. x - n \in DOMAIN C /\ y - n \in DOMAIN C /\ C[x - n] = C[y - n] /\ Fragment(C[x - n], t)
    BY <1>5, <1>6
  <2>2. Own(C[x - n], t)
    BY <2>1, GoodIs DEF Fragment
  <2>3. x - n = y - n
    BY <2>1, <2>2, OneOf
  <2> QED BY <2>3, <1>1, <1>2
<1>7. AnyOrder(C, r, F, t)
  BY <1>5, <1>6 DEF AnyOrder
<1> QED BY <1>7 DEF r

\* Different fragments of the push have different numbers.
LEMMA NumbersDiffer ==
    ASSUME NEW C, NEW t, Good(C, t), NEW u, NEW q, Numbered(C, t, u, q),
           NEW i \in DOMAIN C, NEW j \in DOMAIN C, Own(C[i], t), Own(C[j], t), C[i].seq = C[j].seq
    PROVE  C[i] = C[j]
<1> DEFINE a == C[i].load.part
           b == C[j].load.part
<1>1. /\ C[i].load = Part(u, a) /\ a \in 1 .. u.frags /\ C[i].seq = q + a
      /\ C[j].load = Part(u, b) /\ b \in 1 .. u.frags /\ C[j].seq = q + b
      /\ q \in Int /\ u.frags \in Nat
  BY DEF Numbered
<1> HIDE DEF a, b
<1>2. a = b
  <2>1. q + a = q + b
    BY <1>1
  <2>2. q \in Int /\ a \in Int /\ b \in Int
    BY <1>1
  <2> QED BY <2>1, <2>2
<1>3. C[i].load = C[j].load
  BY <1>1, <1>2
<1>4. i = j
  BY <1>3 DEF Good, Runs
<1> QED
  BY <1>4

\* A fragment of the push arrives.
LEMMA AnyOrderTakes ==
    ASSUME NEW C, NEW t, Good(C, t), Rising(C), NEW Q \in Seq(Wires), NEW F, NEW D, NEW n, TableIn(F, D, n),
           AnyOrder(C, Q, F, t), NEW i \in DOMAIN Q, NEW p, p = Q[i], Fragment(p, t), NEW R, Removed(Q, i, R),
           NEW H, NEW F2, NEW D2, NEW H2, Takes(p, F, D, H, F2, D2, H2)
    PROVE  /\ AnyOrder(C, R, F2, t)
           /\ t \in DOMAIN F /\ Complete(AddPacket(F[t], p)) => IsWhole(InOrder(AddPacket(F[t], p)))
<1> DEFINE g == AddPacket(F[t], p)
<1>1. PICK c \in DOMAIN C : C[c] = p
  BY DEF AnyOrder
<1>2. Own(p, t) /\ FragmentPacket(p) /\ p.ts = t
  BY <1>1, GoodIs DEF Fragment
<1>3. ASSUME NEW x \in DOMAIN R PROVE \E j \in DOMAIN Q : j # i /\ R[x] = Q[j]
  <2>1. x \in 1 .. Len(Q) - 1 /\ R[x] = IF x < i THEN Q[x] ELSE Q[x + 1]
    BY DEF Removed
  <2>2. DOMAIN Q = 1 .. Len(Q) /\ Len(Q) \in Nat
    OBVIOUS
  <2>3. CASE x < i
    <3>1. x \in DOMAIN Q /\ x # i
      BY <2>1, <2>2, <2>3
    <3> QED BY <3>1, <2>1, <2>3
  <2>4. CASE ~ (x < i)
    <3> DEFINE y == x + 1
    <3>1. y \in DOMAIN Q /\ y # i
      BY <2>1, <2>2, <2>4
    <3>2. R[x] = Q[y]
      BY <2>1, <2>4
    <3> HIDE DEF y
    <3> QED BY <3>1, <3>2
  <2> QED BY <2>3, <2>4
<1>4. \A x \in DOMAIN R : Fragment(R[x], t) => \E a \in DOMAIN C : C[a] = R[x]
  BY <1>3 DEF AnyOrder
<1>5. \A x, y \in DOMAIN R : Fragment(R[x], t) /\ R[x] = R[y] => x = y
  <2> SUFFICES ASSUME NEW x \in DOMAIN R, NEW y \in DOMAIN R, Fragment(R[x], t), R[x] = R[y] PROVE x = y
    OBVIOUS
  <2> DEFINE at(z) == IF z < i THEN z ELSE z + 1
  <2>1. DOMAIN Q = 1 .. Len(Q) /\ Len(Q) \in Nat /\ i \in 1 .. Len(Q) /\ DOMAIN R = 1 .. Len(Q) - 1
    BY DEF Removed
  <2>2. at(x) \in DOMAIN Q /\ at(y) \in DOMAIN Q /\ R[x] = Q[at(x)] /\ R[y] = Q[at(y)]
    <3>1. at(x) \in DOMAIN Q /\ at(y) \in DOMAIN Q
      BY <2>1
    <3>2. R[x] = Q[at(x)] /\ R[y] = Q[at(y)]
      BY DEF Removed
    <3> QED BY <3>1, <3>2
  <2>3. x \in Nat /\ y \in Nat /\ i \in Nat
    BY <2>1
  <2>4. at(x) = at(y) => x = y
    BY <2>3
  <2> HIDE DEF at
  <2>5. at(x) = at(y)
    BY <2>2 DEF AnyOrder
  <2> QED BY <2>4, <2>5
\* The others have other numbers.
<1>6. ASSUME NEW u, NEW q, Numbered(C, t, u, q), NEW x \in DOMAIN R, Fragment(R[x], t) PROVE R[x].seq # p.seq
  <2> SUFFICES ASSUME R[x].seq = p.seq PROVE FALSE
    OBVIOUS
  <2>1. PICK j \in DOMAIN Q : j # i /\ R[x] = Q[j]
    BY <1>3
  <2>2. PICK a \in DOMAIN C : C[a] = R[x]
    BY <1>4, <1>6
  <2>3. Own(C[a], t) /\ Own(C[c], t) /\ C[a].seq = C[c].seq
    BY <2>2, <1>1, <1>2, <1>6, GoodIs DEF Fragment
  <2>4. C[a] = C[c]
    BY <2>3, <1>6, NumbersDiffer
  <2>5. Q[j] = Q[i] /\ Fragment(Q[j], t)
    BY <2>1, <2>2, <2>4, <1>1, <1>6
  <2> QED BY <2>1, <2>5 DEF AnyOrder
<1>7. ASSUME NEW u, NEW q, Numbered(C, t, u, q) PROVE PacketOf(p, u, q, p.load.part)
  BY <1>1, <1>2, <1>7 DEF Numbered, PacketOf
<1>8. CASE t \notin DOMAIN F
  <2>1. t \in DOMAIN F2 => F2[t] = NewFrame(p)
    BY <1>2, <1>8 DEF Takes
  <2>2. PICK u, q : Numbered(C, t, u, q)
    BY <1>1, <1>2, RisingIs
  <2>3. PacketOf(p, u, q, p.load.part)
    BY <2>2, <1>7
  <2>4. Scattered(NewFrame(p), u, q) /\ Got(NewFrame(p)) = {p.seq}
    BY <2>3, ScatteredBegins
  <2>5. \A j \in DOMAIN R : Fragment(R[j], t) => R[j].seq \notin {p.seq}
    BY <2>2, <1>6
  <2>6. t \in DOMAIN F2 => /\ Numbered(C, t, u, q) /\ Scattered(F2[t], u, q)
                           /\ \A j \in DOMAIN R : Fragment(R[j], t) => R[j].seq \notin Got(F2[t])
    BY <2>1, <2>2, <2>4, <2>5
  <2>7. AnyOrder(C, R, F2, t)
    BY <2>6, <1>4, <1>5 DEF AnyOrder
  <2> QED BY <2>7, <1>8
<1>9. CASE t \in DOMAIN F
  <2>1. PICK u, q : /\ Numbered(C, t, u, q) /\ Scattered(F[t], u, q)
                    /\ \A j \in DOMAIN Q : Fragment(Q[j], t) => Q[j].seq \notin Got(F[t])
    BY <1>9 DEF AnyOrder
  <2>2. PacketOf(p, u, q, p.load.part)
    BY <2>1, <1>7
  <2>3. EntryOK(F[t]) /\ p.seq \notin Got(F[t])
    BY <2>1, <1>9 DEF TableIn
  <2>4. Scattered(g, u, q) /\ Got(g) = Got(F[t]) \cup {p.seq}
    BY <2>1, <2>2, <2>3, ScatteredStep
  <2>5. t \in DOMAIN F2 => F2[t] = g
    BY <1>2, <1>9 DEF Takes
  <2>6. u.frags \in Nat /\ u.frags >= 2 /\ q \in Int /\ q + 1 \in Numbers
    BY <2>1 DEF Numbered
  <2> HIDE DEF g
  <2>7. Complete(g) => InOrder(g) = Whole(u)
    BY <2>4, <2>6, ScatteredComplete
  <2>8. Complete(g) => IsWhole(InOrder(g))
    BY <2>6, <2>7, WholeIs
  <2>9. \A j \in DOMAIN R : Fragment(R[j], t) => R[j].seq \notin Got(g)
    <3> SUFFICES ASSUME NEW j \in DOMAIN R, Fragment(R[j], t) PROVE R[j].seq \notin Got(g)
      OBVIOUS
    <3>1. R[j].seq # p.seq
      BY <2>1, <1>6
    <3>2. R[j].seq \notin Got(F[t])
      BY <2>1, <1>3
    <3> QED BY <3>1, <3>2, <2>4
  <2>10. AnyOrder(C, R, F2, t)
    BY <2>1, <2>4, <2>5, <2>9, <1>4, <1>5 DEF AnyOrder
  <2> QED BY <2>8, <2>10 DEF g
<1> QED
  BY <1>8, <1>9

-----------------------------------------------------------------------------
(***************************************************************************)
(* The records of the pushes.                                              *)
(***************************************************************************)

\* The packets Cs of the first n pushes.
Log(Cs, n) ==
    /\ Cs \in Seq(Seq(Wires)) /\ Len(Cs) = n
    /\ \A t \in 1 .. n :
          /\ \A i \in DOMAIN Cs[t] : FragmentOK(Cs[t][i].load) /\ Cs[t][i].ts \in 1 .. t
          /\ Runs(Cs[t], t)

\* Whatever is under way has been sent.
FromLog(Cs, Q) == \A j \in DOMAIN Q : \E t \in DOMAIN Cs : \E i \in DOMAIN Cs[t] : Cs[t][i] = Q[j]

\* OwnOnly(t), of the packets Cs.
OwnIn(Cs, t) ==
    /\ \A i \in DOMAIN Cs[t] :
          LET p == Cs[t][i] IN
          p.ts = t /\ \A j \in DOMAIN p.load.units : p.load.units[j].ts = t
    /\ \A n \in DOMAIN Cs \ {t} : \A i \in DOMAIN Cs[n] : Cs[n][i].ts # t

\* What each push sent is a sequence of packets.
LEMMA LogIs ==
    ASSUME NEW n \in Nat, NEW Cs, Log(Cs, n)
    PROVE  DOMAIN Cs = 1 .. n /\ \A t \in 1 .. n : Cs[t] \in Seq(Wires) /\ t \in Nat
<1>1. DOMAIN Cs = 1 .. n
  BY DEF Log
<1>2. \A t \in 1 .. n : Cs[t] \in Seq(Wires) /\ t \in Nat
  BY DEF Log
<1> QED
  BY <1>1, <1>2

\* A push that sent only its own sent good runs.
LEMMA LogGood ==
    ASSUME NEW n \in Nat, NEW Cs, Log(Cs, n), NEW t \in 1 .. n, OwnIn(Cs, t)
    PROVE  Good(Cs[t], t)
<1> DEFINE C == Cs[t]
<1>1. C \in Seq(Wires) /\ Runs(C, t) /\ \A i \in DOMAIN C : FragmentOK(C[i].load)
  BY LogIs DEF Log
<1>2. \A i \in DOMAIN C : C[i].ts = t /\ \A j \in DOMAIN C[i].load.units : C[i].load.units[j].ts = t
  BY DEF OwnIn
<1> HIDE DEF C
<1>3. ASSUME NEW i \in DOMAIN C, C[i].load.kind = "fragment" PROVE Own(C[i], t) /\ C[i].ts = t
  <2>1. C[i] \in Wires
    BY <1>1
  <2>2. FragmentPacket(C[i])
    BY <2>1, <1>1, <1>3 DEF FragmentPacket
  <2>3. C[i].load.units = <<UnitOf(C[i])>>
    BY <2>2, FragmentPacketIs
  <2>4. 1 \in DOMAIN C[i].load.units
    BY <2>3
  <2> QED BY <2>4, <1>2, <1>3 DEF Own
<1>4. Good(C, t)
  BY <1>1, <1>3 DEF Good
<1> QED
  BY <1>4 DEF C

\* A packet under way is typed, and of a push made.
LEMMA FromLogIs ==
    ASSUME NEW n \in Nat, NEW Cs, Log(Cs, n), NEW Q \in Seq(Wires), FromLog(Cs, Q), NEW j \in DOMAIN Q
    PROVE  /\ Q[j] \in Wires /\ Q[j].ts \in 1 .. n
           /\ Q[j].load.kind = "fragment" => FragmentPacket(Q[j])
<1>1. PICK t \in 1 .. n : \E i \in DOMAIN Cs[t] : Cs[t][i] = Q[j]
  BY LogIs DEF FromLog
<1>2. FragmentOK(Q[j].load) /\ Q[j].ts \in 1 .. t
  BY <1>1 DEF Log
<1>3. Q[j] \in Wires
  OBVIOUS
<1>4. Q[j].ts \in 1 .. n
  BY <1>1, <1>2
<1> QED
  BY <1>2, <1>3, <1>4 DEF FragmentPacket

\* A further push.
LEMMA LogGrows ==
    ASSUME NEW n \in Nat, NEW Cs, Log(Cs, n), NEW m, m = n + 1, NEW s, Sent(s, m)
    PROVE  Log(Append(Cs, s.out), m)
<1> DEFINE out == s.out
           B == Append(Cs, out)
<1>1. Cs \in Seq(Seq(Wires)) /\ Len(Cs) = n
  BY DEF Log
<1>2. /\ out \in Seq(Wires) /\ Runs(out, m)
      /\ \A i \in DOMAIN out : FragmentOK(out[i].load) /\ out[i].ts \in 1 .. m
  BY DEF Sent
<1> HIDE DEF out
<1>3. B \in Seq(Seq(Wires))
  BY <1>1, <1>2
<1>4. Len(B) = m
  BY <1>1, <1>2
<1>5. B[m] = out
  BY <1>1, <1>2
<1>6. \A t \in 1 .. n : B[t] = Cs[t]
  BY <1>1, <1>2
<1> HIDE DEF B
<1>7. ASSUME NEW t \in 1 .. m
      PROVE  /\ \A i \in DOMAIN B[t] : FragmentOK(B[t][i].load) /\ B[t][i].ts \in 1 .. t
             /\ Runs(B[t], t)
  <2>1. CASE t = m
    BY <2>1, <1>5, <1>2
  <2>2. CASE t # m
    <3>1. t \in 1 .. n
      BY <2>2
    <3>2. B[t] = Cs[t]
      BY <3>1, <1>6
    <3> QED BY <3>1, <3>2 DEF Log
  <2> QED BY <2>1, <2>2
<1>8. Log(B, m)
  BY <1>3, <1>4, <1>7 DEF Log
<1> QED
  BY <1>8 DEF B, out

\* A push whose timestamp no later one used sent only its own all along.
LEMMA OwnWas ==
    ASSUME NEW n \in Nat, NEW Cs, Log(Cs, n), NEW m, m = n + 1, NEW B, Log(B, m),
           \A t \in 1 .. n : B[t] = Cs[t], NEW t \in 1 .. n, OwnIn(B, t)
    PROVE  OwnIn(Cs, t) /\ \A x \in DOMAIN B[m] : ~ Fragment(B[m][x], t)
<1>1. DOMAIN Cs = 1 .. n /\ DOMAIN B = 1 .. m /\ m \in Nat
  BY LogIs
<1>2. m \in DOMAIN B \ {t} /\ \A x \in 1 .. n : x \in DOMAIN B
  BY <1>1
<1>3. \A x \in DOMAIN B[m] : ~ Fragment(B[m][x], t)
  BY <1>2 DEF OwnIn, Fragment
<1>4. OwnIn(Cs, t)
  BY <1>1, <1>2 DEF OwnIn
<1> QED
  BY <1>3, <1>4

\* What the new push sends has been sent.
LEMMA FromLogGrows ==
    ASSUME NEW n \in Nat, NEW Cs, Log(Cs, n), NEW m, m = n + 1, NEW B, Log(B, m),
           \A t \in 1 .. n : B[t] = Cs[t], NEW Q \in Seq(Wires), FromLog(Cs, Q)
    PROVE  FromLog(B, Q \o B[m])
<1>1. DOMAIN Cs = 1 .. n /\ DOMAIN B = 1 .. m /\ m \in DOMAIN B
  BY LogIs
<1>2. B[m] \in Seq(Wires)
  BY <1>1, LogIs
<1> DEFINE s == B[m]
           R == Q \o s
<1>3. ASSUME NEW j \in DOMAIN R PROVE \/ j \in DOMAIN Q /\ R[j] = Q[j]
                                      \/ j - Len(Q) \in DOMAIN s /\ R[j] = s[j - Len(Q)]
  BY <1>2
<1> HIDE DEF R
<1>4. ASSUME NEW j \in DOMAIN R PROVE \E t \in DOMAIN B : \E i \in DOMAIN B[t] : B[t][i] = R[j]
  <2>1. CASE j \in DOMAIN Q /\ R[j] = Q[j]
    <3>1. PICK t \in DOMAIN Cs : \E i \in DOMAIN Cs[t] : Cs[t][i] = Q[j]
      BY <2>1 DEF FromLog
    <3>2. t \in DOMAIN B /\ B[t] = Cs[t]
      BY <3>1, <1>1
    <3> QED BY <2>1, <3>1, <3>2
  <2>2. CASE j - Len(Q) \in DOMAIN s /\ R[j] = s[j - Len(Q)]
    BY <2>2, <1>1
  <2> QED BY <2>1, <2>2, <1>3
<1>5. FromLog(B, R)
  BY <1>4 DEF FromLog
<1> QED
  BY <1>5 DEF R

\* A packet less under way.
LEMMA FromLogShrinks ==
    ASSUME NEW Cs, NEW Q \in Seq(Wires), FromLog(Cs, Q), NEW i \in DOMAIN Q, NEW R, Removed(Q, i, R)
    PROVE  FromLog(Cs, R)
<1>1. ASSUME NEW x \in DOMAIN R PROVE \E j \in DOMAIN Q : R[x] = Q[j]
  <2>1. x \in 1 .. Len(Q) - 1 /\ R[x] = IF x < i THEN Q[x] ELSE Q[x + 1]
    BY DEF Removed
  <2>2. x \in DOMAIN Q /\ x + 1 \in DOMAIN Q
    BY <2>1
  <2> DEFINE y == x + 1
  <2>3. y \in DOMAIN Q /\ (R[x] = Q[x] \/ R[x] = Q[y])
    BY <2>1, <2>2
  <2> HIDE DEF y
  <2> QED BY <2>2, <2>3
<1> QED
  BY <1>1 DEF FromLog

-----------------------------------------------------------------------------
(***************************************************************************)
(* Push t: b are the pushes that met with a loss, a delay or a double, d   *)
(* those that met with a double.                                           *)
(***************************************************************************)

Kept(Cs, Q, F, D, t, b, d) ==
    OwnIn(Cs, t) =>
        /\ t \notin b => Ordered(Cs[t], Q, F, D, t)
        /\ Rising(Cs[t]) /\ t \notin d => AnyOrder(Cs[t], Q, F, t)

\* Packets of other pushes are taken away, or one of this push that is lost.
LEMMA KeptStays ==
    ASSUME NEW n \in Nat, NEW Cs, Log(Cs, n), NEW t \in 1 .. n, NEW q \in Seq(Wires), NEW F, NEW D,
           NEW b, NEW d, Kept(Cs, q, F, D, t, b, d), NEW r \in Seq(Wires), OrderKept(q, r, t),
           SameFragments(q, r, t) \/ t \in b, NEW F2, NEW D2,
           t \in DOMAIN F2 <=> t \in DOMAIN F, t \in DOMAIN F => F2[t] = F[t], t \in D2 <=> t \in D
    PROVE  Kept(Cs, r, F2, D2, t, b, d)
<1> SUFFICES ASSUME OwnIn(Cs, t)
             PROVE  /\ t \notin b => Ordered(Cs[t], r, F2, D2, t)
                    /\ Rising(Cs[t]) /\ t \notin d => AnyOrder(Cs[t], r, F2, t)
  BY DEF Kept
<1>1. Good(Cs[t], t)
  BY LogGood
<1>2. t \notin b => Ordered(Cs[t], q, F, D, t)
  BY DEF Kept
<1>3. Rising(Cs[t]) /\ t \notin d => AnyOrder(Cs[t], q, F, t)
  BY DEF Kept
<1>4. ASSUME t \notin b PROVE Ordered(Cs[t], r, F2, D2, t)
  <2>1. Ordered(Cs[t], q, F, D, t) /\ SameFragments(q, r, t)
    BY <1>2, <1>4
  <2> QED BY <2>1, <1>1, OrderedStays
<1>5. ASSUME Rising(Cs[t]), t \notin d PROVE AnyOrder(Cs[t], r, F2, t)
  <2>1. AnyOrder(Cs[t], q, F, t)
    BY <1>3, <1>5
  <2>2. t \in DOMAIN F2 => t \in DOMAIN F /\ F2[t] = F[t]
    OBVIOUS
  <2> QED BY <2>1, <2>2, AnyOrderStays
<1> QED
  BY <1>4, <1>5

\* The table changes for other pushes only.
LEMMA KeptTable ==
    ASSUME NEW n \in Nat, NEW Cs, Log(Cs, n), NEW t \in 1 .. n, NEW q \in Seq(Wires), NEW F, NEW D,
           NEW b, NEW d, Kept(Cs, q, F, D, t, b, d), NEW p, NEW F2, NEW D2, Elsewhere(p, F, D, F2, D2), t # p
    PROVE  Kept(Cs, q, F2, D2, t, b, d)
<1>1. /\ t \in DOMAIN F2 <=> t \in DOMAIN F
      /\ t \in D2 <=> t \in D
      /\ t \in DOMAIN F => F2[t] = F[t]
  BY DEF Elsewhere
<1>2. OrderKept(q, q, t) /\ SameFragments(q, q, t)
  BY DEF OrderKept, SameFragments
<1> QED
  BY <1>1, <1>2, KeptStays

\* More pushes meet with a fault.
LEMMA KeptWeakens ==
    ASSUME NEW Cs, NEW t, NEW q, NEW F, NEW D, NEW b, NEW d, Kept(Cs, q, F, D, t, b, d),
           NEW b2, b \subseteq b2, NEW d2, d \subseteq d2
    PROVE  Kept(Cs, q, F, D, t, b2, d2)
  BY DEF Kept

\* A fragment of the push arrives.
LEMMA KeptTakes ==
    ASSUME NEW n \in Nat, NEW Cs, Log(Cs, n), NEW t \in 1 .. n, NEW q \in Seq(Wires), NEW F, NEW D,
           TableIn(F, D, n), NEW b, NEW d, Kept(Cs, q, F, D, t, b, d),
           NEW i \in DOMAIN q, NEW p, p = q[i], Fragment(p, t), NEW r, Removed(q, i, r),
           i = 1 \/ t \in b,
           NEW H, NEW F2, NEW D2, NEW H2, Takes(p, F, D, H, F2, D2, H2)
    PROVE  /\ Kept(Cs, r, F2, D2, t, b, d)
           /\ t \in DOMAIN F /\ Complete(AddPacket(F[t], p)) =>
                 \/ t \in d \/ ~ OwnIn(Cs, t) \/ (t \in b /\ ~ Rising(Cs[t]))
                 \/ IsWhole(InOrder(AddPacket(F[t], p)))
<1> DEFINE C == Cs[t]
           g == AddPacket(F[t], p)
           done == t \in DOMAIN F /\ Complete(g)
           whole == IsWhole(InOrder(g))
<1>1. CASE ~ OwnIn(Cs, t)
  BY <1>1 DEF Kept
<1>2. CASE OwnIn(Cs, t)
  <2>1. Good(C, t)
    BY <1>2, LogGood
  <2>2. t \notin b => Ordered(C, q, F, D, t)
    BY <1>2 DEF Kept
  <2>3. Rising(C) /\ t \notin d => AnyOrder(C, q, F, t)
    BY <1>2 DEF Kept
  <2> HIDE DEF C
  <2>4. ASSUME t \notin b PROVE Ordered(C, r, F2, D2, t) /\ (done => whole)
    <3>1. Ordered(C, q, F, D, t) /\ i = 1
      BY <2>2, <2>4
    <3>2. p = q[1] /\ 1 \in DOMAIN q /\ Removed(q, 1, r)
      BY <3>1
    <3> QED BY <2>1, <3>1, <3>2, OrderedTakes
  <2>5. ASSUME Rising(C), t \notin d PROVE AnyOrder(C, r, F2, t) /\ (done => whole)
    <3>1. AnyOrder(C, q, F, t)
      BY <2>3, <2>5
    <3> QED BY <2>1, <2>5, <3>1, AnyOrderTakes
  <2> HIDE DEF done, whole
  <2>6. Kept(Cs, r, F2, D2, t, b, d)
    BY <2>4, <2>5 DEF Kept, C
  <2>7. done => t \in d \/ (t \in b /\ ~ Rising(C)) \/ whole
    BY <2>4, <2>5
  <2> QED BY <2>6, <2>7 DEF C, done, whole
<1> QED
  BY <1>1, <1>2

\* The push is made.
LEMMA KeptBegins ==
    ASSUME NEW n \in Nat, NEW B, Log(B, n), NEW t \in 1 .. n, NEW q \in Seq(Wires),
           \A j \in DOMAIN q : ~ Fragment(q[j], t), NEW F, NEW D, t \notin DOMAIN F, NEW b, NEW d
    PROVE  Kept(B, q \o B[t], F, D, t, b, d)
<1> SUFFICES ASSUME OwnIn(B, t)
             PROVE  Ordered(B[t], q \o B[t], F, D, t) /\ AnyOrder(B[t], q \o B[t], F, t)
  BY DEF Kept
<1>1. Good(B[t], t)
  BY LogGood
<1> QED
  BY <1>1, OrderedBegins, AnyOrderBegins

\* A later one is.
LEMMA KeptGrows ==
    ASSUME NEW n \in Nat, NEW Cs, Log(Cs, n), NEW m, m = n + 1, NEW B, Log(B, m),
           \A x \in 1 .. n : B[x] = Cs[x], NEW t \in 1 .. n, NEW q \in Seq(Wires), NEW F, NEW D, NEW b, NEW d,
           Kept(Cs, q, F, D, t, b, d)
    PROVE  Kept(B, q \o B[m], F, D, t, b, d)
<1> SUFFICES ASSUME OwnIn(B, t) PROVE Kept(B, q \o B[m], F, D, t, b, d)
  BY DEF Kept
<1>1. OwnIn(Cs, t) /\ \A x \in DOMAIN B[m] : ~ Fragment(B[m][x], t)
  BY OwnWas
<1>2. B[t] = Cs[t]
  OBVIOUS
<1>3. B[m] \in Seq(Wires)
  <2>1. m \in 1 .. m /\ m \in Nat
    OBVIOUS
  <2> QED BY <2>1, LogIs
<1> DEFINE r == q \o B[m]
<1>4. r \in Seq(Wires) /\ SameFragments(q, r, t)
  BY <1>1, <1>3, AppendedKeeps
<1> HIDE DEF r
<1>5. Kept(Cs, r, F, D, t, b, d)
  BY <1>4, KeptStays DEF SameFragments
<1>6. Kept(B, r, F, D, t, b, d)
  BY <1>1, <1>2, <1>5 DEF Kept
<1> QED
  BY <1>6 DEF r

-----------------------------------------------------------------------------
(***************************************************************************)
(* What the application has: d as before, l the pushes with a loss or a    *)
(* delay.                                                                  *)
(***************************************************************************)

HandoutOK(Cs, h, n, d, l) ==
    /\ h.ts \in 1 .. n
    /\ \/ h.loads = <<>> \/ h.ts \in d \/ ~ OwnIn(Cs, h.ts)
       \/ h.ts \in l /\ ~ Rising(Cs[h.ts])
       \/ IsWhole(h.loads)

HandedOK(Cs, H, n, d, l) ==
    /\ \E X : H \in Seq(X)
    /\ \A i \in DOMAIN H : HandoutOK(Cs, H[i], n, d, l)

\* Something more is handed over.
LEMMA HandedAppends ==
    ASSUME NEW Cs, NEW H, NEW n, NEW d, NEW l, HandedOK(Cs, H, n, d, l), NEW d2, d \subseteq d2, NEW l2, l \subseteq l2,
           NEW h, HandoutOK(Cs, h, n, d2, l2), NEW H2, H2 = Append(H, h)
    PROVE  HandedOK(Cs, H2, n, d2, l2) /\ H2 # H
<1>1. PICK X : H \in Seq(X)
  BY DEF HandedOK
<1> DEFINE Y == X \cup {h}
<1>2. h \in Y /\ X \subseteq Y
  OBVIOUS
<1> HIDE DEF Y
<1>3. H \in Seq(Y)
  BY <1>1, <1>2
<1>4. H2 \in Seq(Y) /\ Len(H2) = Len(H) + 1
  BY <1>2, <1>3
<1>5. H2 # H
  <2>1. Len(H) \in Nat
    BY <1>3
  <2> QED BY <2>1, <1>4
<1>6. ASSUME NEW i \in DOMAIN H2 PROVE HandoutOK(Cs, H2[i], n, d2, l2)
  <2>1. CASE i = Len(H) + 1
    BY <2>1, <1>2, <1>3
  <2>2. CASE i # Len(H) + 1
    <3>1. i \in DOMAIN H /\ H2[i] = H[i]
      BY <2>2, <1>2, <1>3, <1>4
    <3>2. HandoutOK(Cs, H[i], n, d, l)
      BY <3>1 DEF HandedOK
    <3> QED BY <3>1, <3>2 DEF HandoutOK
  <2> QED BY <2>1, <2>2
<1> QED
  BY <1>4, <1>5, <1>6 DEF HandedOK

\* More pushes meet with a fault.
LEMMA HandedStays ==
    ASSUME NEW Cs, NEW H, NEW n, NEW d, NEW l, HandedOK(Cs, H, n, d, l), NEW d2, d \subseteq d2, NEW l2, l \subseteq l2
    PROVE  HandedOK(Cs, H, n, d2, l2)
  BY DEF HandedOK, HandoutOK

\* A push more.
LEMMA HandedGrows ==
    ASSUME NEW n \in Nat, NEW Cs, Log(Cs, n), NEW m, m = n + 1, NEW B, Log(B, m),
           \A x \in 1 .. n : B[x] = Cs[x], NEW H, NEW d, NEW l, HandedOK(Cs, H, n, d, l)
    PROVE  HandedOK(B, H, m, d, l)
<1> SUFFICES ASSUME NEW i \in DOMAIN H PROVE HandoutOK(B, H[i], m, d, l)
  BY DEF HandedOK
<1> DEFINE h == H[i]
           t == h.ts
<1>1. HandoutOK(Cs, h, n, d, l)
  BY DEF HandedOK
<1> HIDE DEF h
<1>2. t \in 1 .. n /\ t \in 1 .. m
  BY <1>1 DEF HandoutOK
<1>3. B[t] = Cs[t]
  BY <1>2
<1>4. OwnIn(B, t) => OwnIn(Cs, t)
  BY <1>2, OwnWas
<1>5. HandoutOK(B, h, m, d, l)
  BY <1>1, <1>2, <1>3, <1>4 DEF HandoutOK
<1> QED
  BY <1>5 DEF h

-----------------------------------------------------------------------------
(***************************************************************************)
(* The stream.                                                             *)
(***************************************************************************)

\* Pushes that met with a fault.
Spoilts == late \cup lost \cup doubled
Moved == late \cup lost

StreamInv ==
    /\ film \in Seq(DOMAIN Frames) /\ ts \in Nat /\ Resting(sender, ts)
    /\ Log(carried, ts)
    /\ air \in Seq(Wires) /\ FromLog(carried, air)
    /\ TableIn(frames, dropped, ts)
    /\ givenUp \subseteq dropped
    /\ \A t \in 1 .. ts : Kept(carried, air, frames, dropped, t, Spoilts, doubled)
    /\ HandedOK(carried, handed, ts, doubled, Moved)

\* The invariant holds at first.
LEMMA StreamInit == Init => StreamInv
<1> SUFFICES ASSUME Init PROVE StreamInv
  OBVIOUS
<1>1. film \in Seq(DOMAIN Frames)
  BY StreamAssumption DEF Init
<1>2. ts = 0 /\ ts \in Nat /\ 1 .. ts = {}
  BY DEF Init
<1>3. Resting(sender, ts)
  <2>1. PICK fmt \in Uses, k \in FirstSeqs : sender = NewSender(fmt, k)
    BY DEF Init
  <2>2. fmt \in Formats /\ k \in Numbers
    BY StreamAssumption DEF Numbers
  <2>3. sender \in Senders /\ DOMAIN sender.headers = {} /\ DOMAIN sender.packets = {}
    BY <2>1, <2>2 DEF NewSender, Senders, Returns
  <2> QED BY <2>3 DEF Resting
<1>4. Log(carried, ts)
  <2>1. carried \in Seq(Seq(Wires)) /\ Len(carried) = 0
    BY DEF Init
  <2> QED BY <2>1, <1>2 DEF Log
<1>5. air \in Seq(Wires) /\ DOMAIN air = {}
  BY DEF Init
<1>6. FromLog(carried, air)
  BY <1>5 DEF FromLog
<1>7. frames = <<>> /\ dropped = {} /\ givenUp = {} /\ handed = <<>>
  BY DEF Init, ReceiverInit
<1>8. TableIn(frames, dropped, ts)
  <2>1. DOMAIN frames = {} /\ frames = [x \in DOMAIN frames |-> frames[x]]
    BY <1>7
  <2> QED BY <2>1, <1>7 DEF TableIn
<1>9. HandedOK(carried, handed, ts, doubled, Moved)
  <2>1. handed \in Seq({}) /\ DOMAIN handed = {}
    BY <1>7
  <2> QED BY <2>1 DEF HandedOK
<1> QED
  BY <1>1, <1>2, <1>3, <1>4, <1>5, <1>6, <1>7, <1>8, <1>9 DEF StreamInv

\* A push keeps it.
LEMMA PushKeeps == StreamInv /\ Push => StreamInv'
<1> SUFFICES ASSUME StreamInv, Push PROVE StreamInv'
  OBVIOUS
<1> DEFINE n == ts
           m == ts + 1
           k == film[m]
           s == PushFrame(sender, m, k)
           out == s.out
<1>1. n \in Nat /\ m \in Nat /\ m = n + 1 /\ ts' = m /\ 1 .. m = 1 .. n \cup {m} /\ m \in 1 .. m
  BY DEF StreamInv, Push
<1>2. k \in DOMAIN Frames /\ film' = film
  <2>1. film \in Seq(DOMAIN Frames) /\ ts \in Nat /\ ts < Len(film)
    BY DEF StreamInv, Push
  <2>2. m \in DOMAIN film
    BY <2>1
  <2> QED BY <2>1, <2>2 DEF Push
<1>3. sender' = [s EXCEPT !.out = <<>>] /\ air' = air \o out /\ carried' = Append(carried, out)
  BY DEF Push
<1>4. frames' = frames /\ dropped' = dropped /\ handed' = handed /\ givenUp' = givenUp
      /\ late' = late /\ lost' = lost /\ doubled' = doubled
  BY DEF Push, rcvvars
<1>5. Sent(s, m)
  <2>1. Resting(sender, n)
    BY DEF StreamInv
  <2> HIDE DEF k
  <2> QED BY <1>1, <1>2, <2>1, PushFrameSends
<1>6. /\ Resting(sender', m) /\ out \in Seq(Wires) /\ Runs(out, m)
      /\ \A i \in DOMAIN out : FragmentOK(out[i].load) /\ out[i].ts \in 1 .. m
  BY <1>3, <1>5 DEF Sent
<1>7. Log(carried, n) /\ air \in Seq(Wires) /\ FromLog(carried, air) /\ TableIn(frames, dropped, n)
  BY DEF StreamInv
<1> DEFINE B == carried'
<1>8. B = Append(carried, out)
  BY <1>3
<1> HIDE DEF n, m, s, out, B
<1>9. Log(B, m) /\ B[m] = out /\ \A t \in 1 .. n : B[t] = carried[t]
  <2>1. Log(Append(carried, out), m)
    BY <1>1, <1>5, <1>7, LogGrows DEF out
  <2>2. carried \in Seq(Seq(Wires)) /\ Len(carried) = n /\ out \in Seq(Wires)
    BY <1>6, <1>7 DEF Log
  <2>3. B[m] = out /\ \A t \in 1 .. n : B[t] = carried[t]
    BY <2>2, <1>1, <1>8
  <2> QED BY <2>1, <2>3, <1>8
<1>10. FromLog(B, air \o out)
  BY <1>1, <1>7, <1>9, FromLogGrows
<1>11. TableIn(frames, dropped, m)
  BY <1>1, <1>7 DEF TableIn
<1>12. ASSUME NEW t \in 1 .. m PROVE Kept(B, air \o out, frames, dropped, t, Spoilts, doubled)
  <2>1. CASE t = m
    <3>1. \A j \in DOMAIN air : air[j].ts \in 1 .. n
      BY <1>1, <1>7, FromLogIs
    <3>2. \A j \in DOMAIN air : ~ Fragment(air[j], t)
      BY <3>1, <2>1, <1>1 DEF Fragment
    <3>3. t \notin DOMAIN frames
      BY <2>1, <1>1, <1>7 DEF TableIn
    <3> QED BY <3>2, <3>3, <2>1, <1>1, <1>7, <1>9, KeptBegins
  <2>2. CASE t # m
    <3>1. t \in 1 .. n
      BY <2>2, <1>1
    <3>2. Kept(carried, air, frames, dropped, t, Spoilts, doubled)
      BY <3>1 DEF StreamInv, n
    <3>3. Kept(B, air \o B[m], frames, dropped, t, Spoilts, doubled)
      BY <3>1, <3>2, <1>1, <1>7, <1>9, KeptGrows
    <3> QED BY <3>3, <1>9
  <2> QED BY <2>1, <2>2
<1>13. HandedOK(B, handed, m, doubled, Moved)
  <2>1. HandedOK(carried, handed, n, doubled, Moved)
    BY DEF StreamInv, n
  <2> QED BY <2>1, <1>1, <1>7, <1>9, HandedGrows
<1>14. air \o out \in Seq(Wires)
  BY <1>6, <1>7
<1>15. film' \in Seq(DOMAIN Frames) /\ givenUp' \subseteq dropped'
  BY <1>2, <1>4 DEF StreamInv
<1>16. Spoilts' = Spoilts /\ Moved' = Moved
  BY <1>4 DEF Spoilts, Moved
<1>17. carried' = B /\ air' = air \o out
  BY <1>3 DEF B, out
<1>18. ts' \in Nat /\ Resting(sender', ts') /\ Log(carried', ts') /\ FromLog(carried', air')
       /\ air' \in Seq(Wires) /\ TableIn(frames', dropped', ts')
  BY <1>1, <1>4, <1>6, <1>9, <1>10, <1>11, <1>14, <1>17
<1>19. \A t \in 1 .. ts' : Kept(carried', air', frames', dropped', t, Spoilts', doubled')
  BY <1>1, <1>4, <1>12, <1>16, <1>17
<1>20. HandedOK(carried', handed', ts', doubled', Moved')
  BY <1>1, <1>4, <1>13, <1>16, <1>17
<1> QED
  BY <1>15, <1>18, <1>19, <1>20 DEF StreamInv

\* The arrival of packet i of those under way, of which r are left.
LEMMA ArrivalKeeps ==
    ASSUME StreamInv, NEW i \in DOMAIN air, Arrives(i), air' \in Seq(Wires), FromLog(carried, air'),
           \/ Removed(air, i, air')
           \/ air' = air /\ air[i].ts \in doubled',
           i = 1 \/ air[i].ts \in late' \cup doubled',
           late \subseteq late', doubled \subseteq doubled'
    PROVE  StreamInv'
<1> DEFINE p == air[i]
           n == ts
           q == air'
           b2 == Spoilts'
           d2 == doubled'
           l2 == Moved'
<1>1. /\ n \in Nat /\ Log(carried, n) /\ air \in Seq(Wires) /\ FromLog(carried, air)
      /\ TableIn(frames, dropped, n) /\ HandedOK(carried, handed, n, doubled, Moved)
      /\ film \in Seq(DOMAIN Frames) /\ Resting(sender, n) /\ givenUp \subseteq dropped
  BY DEF StreamInv
<1>2. /\ film' = film /\ ts' = n /\ sender' = sender /\ carried' = carried /\ lost' = lost
      /\ givenUp' = IF p.ts \in DOMAIN frames \ DOMAIN frames' /\ handed' = handed
                    THEN givenUp \cup {p.ts} ELSE givenUp
  BY DEF Arrives
<1>3. PacketHandler(sender.fmt, p, p.ts \in old, idelay)
  BY DEF Arrives
<1>4. \/ /\ p.load.kind = "fragment"
         /\ Takes(p, frames, dropped, handed, frames', dropped', handed')
      \/ /\ p.load.kind # "fragment" /\ frames' = frames /\ dropped' = dropped
         /\ HandsOver(p, handed, handed')
  <2>1. frames = [x \in DOMAIN frames |-> frames[x]]
    BY <1>1 DEF TableIn
  <2> HIDE DEF p
  <2> QED BY <2>1, <1>3, PacketTaken
<1>5. Spoilts \subseteq b2 /\ doubled \subseteq d2 /\ Moved \subseteq l2 /\ b2 = l2 \cup d2
  BY <1>2 DEF Spoilts, Moved
<1>6. i = 1 \/ p.ts \in b2
  BY DEF Spoilts
<1>7. p.ts \in 1 .. n /\ (p.load.kind = "fragment" => FragmentPacket(p))
  BY <1>1, FromLogIs
<1>8. p = air[i] /\ (Removed(air, i, q) \/ (q = air /\ p.ts \in d2)) /\ q \in Seq(Wires)
  OBVIOUS
<1> HIDE DEF p, n, q, b2, d2, l2
<1>9. \A t : /\ OrderKept(air, q, t)
             /\ ~ Fragment(p, t) => SameFragments(air, q, t)
  <2> SUFFICES ASSUME NEW t PROVE OrderKept(air, q, t) /\ (~ Fragment(p, t) => SameFragments(air, q, t))
    OBVIOUS
  <2>1. CASE Removed(air, i, q)
    BY <2>1, <1>1, <1>8, RemovedKeeps
  <2>2. CASE q = air
    BY <2>2 DEF OrderKept, SameFragments
  <2> QED BY <2>1, <2>2, <1>8
<1>10. \A t \in 1 .. n : Kept(carried, air, frames, dropped, t, b2, d2)
  <2>1. \A t \in 1 .. n : Kept(carried, air, frames, dropped, t, Spoilts, doubled)
    BY DEF StreamInv, n
  <2> QED BY <2>1, <1>5, KeptWeakens
<1>11. CASE /\ p.load.kind = "fragment"
            /\ Takes(p, frames, dropped, handed, frames', dropped', handed')
  <2> DEFINE g == AddPacket(frames[p.ts], p)
             h == [ts |-> p.ts, units |-> <<>>, loads |-> InOrder(g)]
  <2>1. Elsewhere(p.ts, frames, dropped, frames', dropped')
    BY <1>11 DEF Takes
  <2>2. Fragment(p, p.ts)
    BY <1>11 DEF Fragment
  <2>3. TableIn(frames', dropped', n)
    BY <1>1, <1>7, <1>11, TableStep
  <2>4. ASSUME NEW t \in 1 .. n, t # p.ts PROVE Kept(carried, q, frames', dropped', t, b2, d2)
    <3>1. SameFragments(air, q, t) /\ OrderKept(air, q, t)
      BY <2>4, <1>9 DEF Fragment
    <3>2. n \in Nat /\ Log(carried, n) /\ air \in Seq(Wires) /\ q \in Seq(Wires)
      BY <1>1, <1>8
    <3>3. Kept(carried, air, frames, dropped, t, b2, d2)
      BY <1>10
    <3>4. Kept(carried, q, frames, dropped, t, b2, d2)
      BY <3>1, <3>2, <3>3, KeptStays
    <3> QED BY <2>1, <2>4, <3>2, <3>4, KeptTable
  <2>5. /\ Kept(carried, q, frames', dropped', p.ts, b2, d2)
        /\ p.ts \in DOMAIN frames /\ Complete(g) =>
              \/ p.ts \in d2 \/ ~ OwnIn(carried, p.ts) \/ (p.ts \in b2 /\ ~ Rising(carried[p.ts]))
              \/ IsWhole(InOrder(g))
    <3>1. CASE Removed(air, i, q)
      <4>1. Kept(carried, air, frames, dropped, p.ts, b2, d2)
        BY <1>10, <1>7
      <4>2. n \in Nat /\ Log(carried, n) /\ air \in Seq(Wires) /\ p.ts \in 1 .. n
            /\ TableIn(frames, dropped, n)
        BY <1>1, <1>7
      <4>3. p = air[i] /\ (i = 1 \/ p.ts \in b2) /\ Takes(p, frames, dropped, handed, frames', dropped', handed')
        BY <1>6, <1>8, <1>11
      <4> QED BY <4>1, <4>2, <4>3, <3>1, <2>2, KeptTakes
    <3>2. CASE p.ts \in d2
      BY <3>2, <1>5 DEF Kept
    <3> QED BY <3>1, <3>2, <1>8
  <2>6. HandedOK(carried, handed', n, d2, l2) /\ givenUp' \subseteq dropped'
    <3>1. CASE p.ts \in DOMAIN frames /\ Complete(g) /\ dropped' = dropped /\ handed' = Append(handed, h)
      <4>1. h.ts = p.ts /\ h.loads = InOrder(g)
        OBVIOUS
      <4> HIDE DEF g, h
      <4>2. HandoutOK(carried, h, n, d2, l2)
        BY <4>1, <3>1, <2>5, <1>5, <1>7 DEF HandoutOK
      <4>3. HandedOK(carried, handed', n, d2, l2) /\ handed' # handed
        BY <4>2, <3>1, <1>1, <1>5, HandedAppends
      <4> QED BY <4>3, <3>1, <1>1, <1>2
    <3>2. CASE handed' = handed /\ dropped \subseteq dropped'
               /\ (p.ts \in DOMAIN frames \ DOMAIN frames' => p.ts \in dropped')
      <4>1. HandedOK(carried, handed, n, d2, l2)
        BY <1>1, <1>5, HandedStays
      <4> QED BY <4>1, <3>2, <1>1, <1>2
    <3> QED BY <3>1, <3>2, <1>11 DEF Takes
  <2> HIDE DEF g, h
  <2>7. \A t \in 1 .. n : Kept(carried, q, frames', dropped', t, b2, d2)
    BY <2>4, <2>5
  <2> QED BY <2>3, <2>6, <2>7, <1>1, <1>2, <1>8 DEF StreamInv, n, q, b2, d2, l2
<1>12. CASE /\ p.load.kind # "fragment" /\ frames' = frames /\ dropped' = dropped
            /\ HandsOver(p, handed, handed')
  <2>1. PICK us : handed' = Append(handed, [ts |-> p.ts, units |-> us, loads |-> <<>>])
    BY <1>12 DEF HandsOver
  <2> DEFINE h == [ts |-> p.ts, units |-> us, loads |-> <<>>]
  <2>2. h.ts = p.ts /\ h.loads = <<>> /\ handed' = Append(handed, h)
    BY <2>1
  <2> HIDE DEF h
  <2>3. HandoutOK(carried, h, n, d2, l2)
    BY <2>2, <1>7 DEF HandoutOK
  <2>4. HandedOK(carried, handed', n, d2, l2)
    BY <2>2, <2>3, <1>1, <1>5, HandedAppends
  <2>5. ASSUME NEW t \in 1 .. n PROVE Kept(carried, q, frames, dropped, t, b2, d2)
    <3>1. SameFragments(air, q, t) /\ OrderKept(air, q, t)
      BY <1>9, <1>12 DEF Fragment
    <3>2. Kept(carried, air, frames, dropped, t, b2, d2)
      BY <1>10
    <3>3. n \in Nat /\ Log(carried, n) /\ air \in Seq(Wires) /\ q \in Seq(Wires)
      BY <1>1, <1>8
    <3> QED BY <3>1, <3>2, <3>3, KeptStays
  <2>6. givenUp' = givenUp
    BY <1>2, <1>12
  <2> QED BY <2>4, <2>5, <2>6, <1>1, <1>2, <1>8, <1>12 DEF StreamInv, n, q, b2, d2, l2
<1> QED
  BY <1>4, <1>11, <1>12

\* So do the steps of the network.
LEMMA ReceiveKeeps == StreamInv /\ Receive => StreamInv'
<1> SUFFICES ASSUME StreamInv, Receive PROVE StreamInv'
  OBVIOUS
<1>1. air \in Seq(Wires) /\ air # <<>> /\ FromLog(carried, air)
  BY DEF StreamInv, Receive
<1>2. /\ Arrives(1) /\ air' = Tail(air) /\ late' = late /\ doubled' = doubled
  BY DEF Receive
<1>3. air' \in Seq(Wires) /\ Removed(air, 1, air') /\ 1 \in DOMAIN air
  BY <1>1, <1>2, TailRemoves
<1>4. FromLog(carried, air')
  BY <1>1, <1>3, FromLogShrinks
<1> QED
  BY <1>2, <1>3, <1>4, ArrivalKeeps

LEMMA OvertakeKeeps ==
    ASSUME StreamInv, NEW i \in DOMAIN air, Overtake(i)
    PROVE  StreamInv'
<1>1. air \in Seq(Wires) /\ FromLog(carried, air)
  BY DEF StreamInv
<1>2. /\ Arrives(i) /\ air' = Without(air, i) /\ doubled' = doubled
      /\ late' = late \cup {air[j].ts : j \in 1 .. i} /\ i \in 1 .. i
  BY <1>1 DEF Overtake
<1>3. air' \in Seq(Wires) /\ Removed(air, i, air')
  BY <1>1, <1>2, WithoutRemoves
<1>4. FromLog(carried, air')
  BY <1>1, <1>3, FromLogShrinks
<1>5. air[i].ts \in late' \cup doubled' /\ late \subseteq late' /\ doubled \subseteq doubled'
  BY <1>2
<1> QED
  BY <1>2, <1>3, <1>4, <1>5, ArrivalKeeps

LEMMA DoubleKeeps ==
    ASSUME StreamInv, NEW i \in DOMAIN air, Double(i)
    PROVE  StreamInv'
<1>1. air \in Seq(Wires) /\ FromLog(carried, air)
  BY DEF StreamInv
<1>2. /\ Arrives(i) /\ air' = air /\ doubled' = doubled \cup {air[i].ts} /\ late \subseteq late'
  BY DEF Double
<1>3. air' \in Seq(Wires) /\ FromLog(carried, air')
  BY <1>1, <1>2
<1>4. air[i].ts \in doubled' /\ doubled \subseteq doubled'
  BY <1>2
<1> QED
  BY <1>2, <1>3, <1>4, ArrivalKeeps

LEMMA LoseKeeps ==
    ASSUME StreamInv, NEW i \in DOMAIN air, Lose(i)
    PROVE  StreamInv'
<1> DEFINE n == ts
           q == air'
           b2 == Spoilts'
<1>1. /\ n \in Nat /\ Log(carried, n) /\ air \in Seq(Wires) /\ FromLog(carried, air)
      /\ HandedOK(carried, handed, n, doubled, Moved)
      /\ \A t \in 1 .. n : Kept(carried, air, frames, dropped, t, Spoilts, doubled)
  BY DEF StreamInv
<1>2. /\ air' = Without(air, i) /\ lost' = lost \cup {air[i].ts}
      /\ UNCHANGED <<rcvvars, film, idelay, ts, sender, old, carried, late, doubled, aged, givenUp>>
  BY DEF Lose
<1>3. q \in Seq(Wires) /\ Removed(air, i, q)
  BY <1>1, <1>2, WithoutRemoves
<1>4. FromLog(carried, q)
  BY <1>1, <1>3, FromLogShrinks
<1>5. Spoilts \subseteq b2 /\ Moved \subseteq Moved' /\ air[i].ts \in b2
  BY <1>2 DEF Spoilts, Moved
<1>6. HandedOK(carried, handed, n, doubled, Moved')
  BY <1>1, <1>5, HandedStays
<1> HIDE DEF n, q, b2
<1>7. ASSUME NEW t \in 1 .. n PROVE Kept(carried, q, frames, dropped, t, b2, doubled)
  <2>1. OrderKept(air, q, t) /\ (SameFragments(air, q, t) \/ t \in b2)
    <3>1. OrderKept(air, q, t) /\ (~ Fragment(air[i], t) => SameFragments(air, q, t))
      BY <1>1, <1>3, RemovedKeeps
    <3>2. Fragment(air[i], t) => t \in b2
      BY <1>5 DEF Fragment
    <3> QED BY <3>1, <3>2
  <2>2. Kept(carried, air, frames, dropped, t, b2, doubled)
    BY <1>1, <1>5, KeptWeakens
  <2> QED BY <2>1, <2>2, <1>1, <1>3, KeptStays
<1> QED
  BY <1>2, <1>3, <1>4, <1>6, <1>7 DEF StreamInv, rcvvars, n, q, b2

\* What no other step changes.
LEMMA IdleKeeps ==
    ASSUME StreamInv, UNCHANGED <<rcvvars, film, ts, sender, air, carried, late, lost, doubled, givenUp>>
    PROVE  StreamInv'
<1>1. Spoilts' = Spoilts /\ Moved' = Moved
  BY DEF Spoilts, Moved
<1> QED
  BY <1>1 DEF StreamInv, rcvvars

\* Every step keeps it.
LEMMA StreamNext == StreamInv /\ [Next]_vars => StreamInv'
<1> SUFFICES ASSUME StreamInv, [Next]_vars PROVE StreamInv'
  OBVIOUS
<1>1. CASE Push
  BY <1>1, PushKeeps
<1>2. CASE Receive
  BY <1>2, ReceiveKeeps
<1>3. CASE Network
  <2>1. PICK i \in DOMAIN air : Overtake(i) \/ Double(i) \/ Lose(i)
    BY <1>3 DEF Network
  <2> QED BY <2>1, OvertakeKeeps, DoubleKeeps, LoseKeeps
<1>4. ASSUME NEW t \in DOMAIN frames, Age(t) PROVE StreamInv'
  BY <1>4, IdleKeeps DEF Age
<1>5. CASE UNCHANGED vars
  BY <1>5, IdleKeeps DEF vars, ghosts
<1> QED
  BY <1>1, <1>2, <1>3, <1>4, <1>5 DEF Next

LEMMA StreamAlways == Spec => []StreamInv
  BY StreamInit, StreamNext, PTL DEF Spec

\* What packet_handler() puts together from fragments is one unit that was pushed,
\* all of it and in order, unless a packet was doubled, or packets changed their
\* order or were lost in a push that wraps or has two such units.
THEOREM UnitsIntactAlways == Spec => []UnitsIntact
<1>1. StreamInv => UnitsIntact
  <2> SUFFICES ASSUME StreamInv, NEW i \in DOMAIN handed
               PROVE  LET h == handed[i] IN
                      \/ h.loads = <<>> \/ h.ts \in doubled \/ ~OwnOnly(h.ts)
                      \/ h.ts \in late \cup lost /\ ~Simple(h.ts)
                      \/ h.loads = Whole(h.loads[1].units[1])
    BY DEF UnitsIntact
  <2> DEFINE h == handed[i]
  <2>1. HandoutOK(carried, h, ts, doubled, Moved)
    BY DEF StreamInv, HandedOK
  <2>2. OwnOnly(h.ts) <=> OwnIn(carried, h.ts)
    BY DEF OwnOnly, OwnIn
  <2>3. Simple(h.ts) <=> Rising(carried[h.ts])
    BY DEF Simple, Rising
  <2>4. Moved = late \cup lost
    BY DEF Moved
  <2> HIDE DEF h
  <2>5. \/ h.loads = <<>> \/ h.ts \in doubled \/ ~OwnOnly(h.ts)
        \/ h.ts \in late \cup lost /\ ~Simple(h.ts)
        \/ h.loads = Whole(h.loads[1].units[1])
    BY <2>1, <2>2, <2>3, <2>4 DEF HandoutOK, IsWhole
  <2> QED BY <2>5 DEF h
<1> QED
  BY <1>1, StreamAlways, PTL

\* A timestamp __drop_frame() has given up never gets an entry again.
THEOREM GivenUpForGoodAlways == Spec => []GivenUpForGood
<1>1. StreamInv => GivenUpForGood
  BY DEF StreamInv, TableIn, GivenUpForGood
<1> QED
  BY <1>1, StreamAlways, PTL
=============================================================================
