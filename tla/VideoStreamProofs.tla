--------------------------- MODULE VideoStreamProofs ---------------------------
(***************************************************************************)
(* The rover's video, for any number of capture buffers and of pictures,   *)
(* any sequence number to start from and any number of faults of the       *)
(* network.                                                                *)
(*                                                                         *)
(* Three invariants, one for each stage.  CameraInv: where the buffers of  *)
(* the ring are and what lies in them.  StreamInv: which packets of a push *)
(* are still to be sent, under way, or in the receiver's table.  ViewInv:  *)
(* as long as nothing overtakes, a later stage never holds an earlier      *)
(* picture.                                                                *)
(***************************************************************************)
EXTENDS VideoStream, FiniteSetTheorems, SequenceTheorems, WellFoundedInduction,
        TLAPS

-----------------------------------------------------------------------------
(***************************************************************************)
(* The camera.                                                             *)
(***************************************************************************)
Buffers == 1 .. Bufs
Picture == [buf : Buffers, len : Parts, of : Frames]

CameraTypes ==
    /\ incoming \in Seq(Buffers) /\ outgoing \in Seq(Picture)
    /\ mem \in [Buffers -> [Parts -> Nat]]
    /\ written \in 0 .. 2 /\ frame \in Nat \ {0}
    /\ cpc \in {"select", "sleep", "use", "exited"}
    /\ filled \in 0 .. Bufs
    /\ cpc \in {"sleep", "use"} => jpg \in Picture

\* Every buffer is in one of the queues, or in the thread's hand.
Partition ==
    /\ Len(outgoing) + Len(incoming) = IF cpc = "sleep" THEN Bufs - 1 ELSE Bufs
    /\ \A i, j \in DOMAIN incoming : incoming[i] = incoming[j] => i = j
    /\ \A i, j \in DOMAIN outgoing : outgoing[i].buf = outgoing[j].buf => i = j
    /\ \A i \in DOMAIN outgoing : \A j \in DOMAIN incoming : outgoing[i].buf # incoming[j]
    /\ cpc = "sleep" =>
          /\ \A i \in DOMAIN outgoing : outgoing[i].buf # jpg.buf
          /\ \A j \in DOMAIN incoming : incoming[j] # jpg.buf

\* The pictures that wait are the last ones, in order, and complete; so is the
\* part of the next one that has been written.
Recorded ==
    /\ \A i \in DOMAIN outgoing :
          \A k \in 1 .. outgoing[i].len : mem[outgoing[i].buf][k] = outgoing[i].of
    /\ frame \in Frames => written < Sizes[frame]
    /\ written > 0 => frame \in Frames /\ incoming # <<>>
    /\ \A k \in 1 .. written : mem[incoming[1]][k] = frame

\* No more pictures wait than have been finished since the thread had to wait;
\* the one in its hand is another one.
Waiting ==
    /\ filled >= Len(outgoing)
    /\ cpc \in {"sleep", "use"} => filled = Bufs \/ filled >= Len(outgoing) + 1

\* A picture in hand is whole, and in use it is until its buffer is the next one
\* the driver fills.
Held == \A k \in 1 .. jpg.len : mem[jpg.buf][k] = jpg.of
InHand ==
    /\ cpc = "sleep" => Held
    /\ cpc = "use" => Len(incoming) <= 1 \/ (incoming[Len(incoming)] = jpg.buf /\ Held)

CameraInv == CameraTypes /\ Partition /\ Recorded /\ Waiting /\ InHand

\* Who reads the picture in use, and how far.
Seqs == 0 .. SeqMod - 1
Packet == [seq : Seqs, ts : Nat, part : Nat, marker : BOOLEAN]
Piece == [ts : Nat, part : Nat, of : Nat]
Reader ==
    /\ source \in {"stream", "local"}
    /\ seq \in Seqs /\ ts \in Nat \ {0} /\ sent \in Seq(Seq(Nat)) /\ outbox \in Seq(Packet)
    /\ outbox # <<>> => source = "stream" /\ cpc = "use" /\ Len(sent) > 0
    /\ \A i \in DOMAIN outbox : outbox[i].part \in 1 .. jpg.len
    /\ source = "local" /\ dpc # "get" => cpc = "use"
    /\ source = "local" => input \in Seq(Piece)
    /\ dpc \notin {"read", "decode"} => input = <<>>
    /\ dpc = "read" => source = "local" /\ Len(input) < jpg.len /\ Len(sent) > 0

-----------------------------------------------------------------------------
(***************************************************************************)
(* The stream.  b[t] is the first sequence number of push t, n[t] the      *)
(* number of its packets.                                                  *)
(***************************************************************************)
Pushes == 1 .. ts - 1
Num(b, t, i) == (b[t] + i - 1) % SeqMod
Packed == [p : Packet, data : Nat]
PacketOf(b, n, t, i) ==
    [seq |-> Num(b, t, i), ts |-> t, part |-> i, marker |-> n[t] > 1 /\ i \in {1, n[t]}]
Sent(t, i) == [ts |-> t, part |-> i, of |-> sent[t][i]]

Counts(b, n) ==
    /\ faults \in Nat
    /\ air \in Seq(Packed)
    /\ \E X : handed \in Seq(X)
    /\ \E X : frames \in Seq(X)
    /\ b \in [Pushes -> Seqs] /\ n \in [Pushes -> Parts]
    /\ source = "local" => ts = 1
    /\ source = "stream" => Len(sent) = ts - 1

\* What is still to be sent of the last push; of an earlier one that was sent
\* without an error nothing is left.
ToSend(b, n) ==
    /\ outbox # <<>> => ts > 1 /\ n[ts - 1] = Len(sent[ts - 1]) + Len(outbox)
    /\ \A i \in DOMAIN outbox : outbox[i] = PacketOf(b, n, ts - 1, Len(sent[ts - 1]) + i)
    /\ \A t \in Pushes : Len(sent[t]) <= n[t]
    /\ \A t \in Pushes : Len(sent[t]) < n[t] => t \in lost \/ (t = ts - 1 /\ outbox # <<>>)

\* Packets under way: some of those sent, in the order they were sent.
UnderWay(b, n) ==
    /\ \A j \in DOMAIN air :
          LET p == air[j].p IN
          /\ p.ts \in Pushes /\ p.part \in 1 .. Len(sent[p.ts])
          /\ air[j] = [p |-> PacketOf(b, n, p.ts, p.part), data |-> sent[p.ts][p.part]]
    /\ \A i, j \in DOMAIN air : i < j =>
          \/ air[i].p.ts < air[j].p.ts
          \/ air[i].p.ts = air[j].p.ts /\ air[i].p.part < air[j].p.part

\* An entry m of the table.  Unless a packet was doubled it counts each of its
\* fragments once, none of them is under way, and of the two packets with a
\* marker the first to arrive stands for the start, the other one for the end.
Gathered(b, n, t, m) ==
    /\ t \in Pushes /\ n[t] > 1
    /\ m = [npkts |-> m.npkts, s_seq |-> m.s_seq, e_seq |-> m.e_seq, fragments |-> m.fragments]
    /\ m.npkts \in Nat /\ IsFiniteSet(DOMAIN m.fragments)
    /\ \A s \in DOMAIN m.fragments : \E i \in 1 .. Len(sent[t]) :
          s = Num(b, t, i) /\ m.fragments[s] = Sent(t, i)
    /\ m.s_seq \in DOMAIN m.fragments
Exact(b, n, t, m) ==
    /\ m.npkts = Cardinality(DOMAIN m.fragments)
    /\ \E x \in {1, n[t]} :
          /\ m.s_seq = Num(b, t, x)
          /\ \/ m.e_seq = InvalidSeq /\ Num(b, t, n[t] + 1 - x) \notin DOMAIN m.fragments
             \/ m.e_seq = Num(b, t, n[t] + 1 - x) /\ m.e_seq \in DOMAIN m.fragments
Unmet(t, m) == \A j \in DOMAIN air : air[j].p.ts = t => air[j].p.seq \notin DOMAIN m.fragments
Table(b, n) ==
    \A t \in DOMAIN minfo :
        /\ Gathered(b, n, t, minfo[t])
        /\ t \notin doubled =>
              Exact(b, n, t, minfo[t]) /\ Unmet(t, minfo[t]) /\ ~Complete(minfo[t])

\* What has been handed over: a whole push, turned if its numbers wrapped.
Turned(f, k, g) == SubSeq(f, k, Len(f)) \o SubSeq(f, 1, k - 1) = g
Entire(f, n, t) ==
    /\ Len(sent[t]) = n[t]
    /\ f = Pushed(t) \/ \E k \in 1 .. Len(f) : Turned(f, k, Pushed(t))
Good(f, n) ==
    /\ Len(f) > 0 /\ f[1].ts \in Pushes
    /\ Len(f) = 1 \/ f[1].ts \in doubled \/ Entire(f, n, f[1].ts)
HandedGood(n) == \A k \in DOMAIN handed : Good(handed[k], n)

\* A push nothing has happened to: its first k packets have arrived.
HandedOnce(t) ==
    \E k \in DOMAIN handed : \A l \in DOMAIN handed : (handed[l][1].ts = t) <=> (l = k)
HandedNot(t) == \A k \in DOMAIN handed : handed[k][1].ts # t
Arrived(b, n, t, k) ==
    /\ \A j \in DOMAIN air : air[j].p.ts = t => air[j].p.part > k
    /\ \A i \in k + 1 .. Len(sent[t]) : \E j \in DOMAIN air : air[j].p.ts = t /\ air[j].p.part = i
    /\ k <= Len(sent[t])
    /\ k \in {0, n[t]} => t \notin DOMAIN minfo
    /\ k \notin {0, n[t]} =>
          /\ t \in DOMAIN minfo
          /\ DOMAIN minfo[t].fragments = {Num(b, t, i) : i \in 1 .. k}
          /\ minfo[t].s_seq = Num(b, t, 1)
    /\ IF k = n[t] THEN HandedOnce(t) ELSE HandedNot(t)
Clean(t) == t \notin lost \cup late \cup doubled
CleanArrive(b, n) ==
    \A t \in Pushes : Clean(t) => \E k \in 0 .. n[t] : Arrived(b, n, t, k)

StreamInv(b, n) ==
    /\ Counts(b, n) /\ ToSend(b, n) /\ UnderWay(b, n)
    /\ Table(b, n) /\ HandedGood(n) /\ CleanArrive(b, n)

-----------------------------------------------------------------------------
(***************************************************************************)
(* The screen.                                                             *)
(***************************************************************************)

\* v is no later than anything that is still to come.
NotAhead(v) ==
    /\ v \in Nat
    /\ source = "local" => v <= Len(sent)
    /\ source = "stream" =>
          /\ \A i \in DOMAIN frames : v <= frames[i][1].ts
          /\ \A j \in DOMAIN air : v <= air[j].p.ts
          /\ v <= ts /\ (outbox # <<>> => v <= ts - 1)
Before(v, w) == w = Torn \/ v <= w
InputTs == IF input = <<>> THEN Torn ELSE input[1].ts

\* One half of the picture, from the screen back to the decoder's input.
Half(x, y, z, w) ==
    /\ NotAhead(x) /\ NotAhead(y) /\ NotAhead(z) /\ NotAhead(w)
    /\ Before(x, y) /\ Before(x, z) /\ Before(x, w)
    /\ Before(y, z) /\ Before(y, w)
    /\ Before(z, w)

\* The frames that wait for the decoder are in order, before all that is under way.
Queue ==
    /\ \A i, j \in DOMAIN frames : i < j => frames[i][1].ts <= frames[j][1].ts
    /\ \A i \in DOMAIN frames : frames[i][1].ts \in Pushes
    /\ \A i \in DOMAIN frames : \A j \in DOMAIN air : frames[i][1].ts <= air[j].p.ts

Stages ==
    /\ texture \in [{1, 2} -> Nat] /\ tbuff \in [{1, 2} -> Nat]
    /\ \A h \in {1, 2} : Half(texture[h], tbuff[h], bmp, InputTs)
    /\ Queue
ViewInv == late = {} => Stages

-----------------------------------------------------------------------------
(***************************************************************************)
(* The ring of buffers.                                                    *)
(***************************************************************************)
LEMMA SizesType ==
    /\ Bufs \in Nat /\ Bufs >= 2
    /\ \A f \in Frames : Sizes[f] \in Parts /\ f \in Nat \ {0}
  BY CameraAssumption, SizeAssumption DEF Frames

LEMMA CameraStarts == Init => CameraInv
<1> SUFFICES ASSUME Init PROVE CameraInv
  OBVIOUS
<1>1. /\ incoming = [k \in 1 .. Bufs |-> k] /\ outgoing = <<>> /\ written = 0 /\ frame = 1
      /\ mem = [c \in 1 .. Bufs |-> [i \in Parts |-> 0]]
      /\ cpc = "select" /\ filled = 0
  BY DEF Init, CameraInit, Queued
<1>2. incoming \in Seq(Buffers) /\ Len(incoming) = Bufs /\ DOMAIN incoming = 1 .. Bufs
  BY <1>1, SizesType, IsASeq DEF Buffers
<1>3. CameraTypes
  BY <1>1, <1>2, SizesType DEF CameraTypes, Buffers
<1>4. Partition
  BY <1>1, <1>2, SizesType DEF Partition
<1>5. Recorded
  BY <1>1, SizesType DEF Recorded, Parts
<1>6. Waiting /\ InHand
  BY <1>1, SizesType DEF Waiting, InHand
<1> QED
  BY <1>3, <1>4, <1>5, <1>6 DEF CameraInv

\* What the driver's step does to the memory.
LEMMA DriverMemory ==
    ASSUME CameraInv, DriverWrites
    PROVE  /\ incoming # <<>> /\ Len(incoming) \in Nat \ {0} /\ incoming[1] \in Buffers
           /\ frame \in Frames /\ written + 1 \in Parts /\ Sizes[frame] \in Parts
           /\ mem' \in [Buffers -> [Parts -> Nat]]
           /\ \A c \in Buffers : \A k \in Parts :
                 mem'[c][k] = IF c = incoming[1] /\ k = written + 1 THEN frame ELSE mem[c][k]
<1>1. incoming # <<>> /\ Len(incoming) \in Nat \ {0} /\ incoming[1] \in Buffers /\ Head(incoming) = incoming[1]
  BY DEF CameraInv, CameraTypes, DriverWrites
<1>2. frame \in Frames /\ Sizes[frame] \in Parts /\ frame \in Nat
  BY SizesType DEF DriverWrites
<1>3. written + 1 \in Parts
  BY <1>2 DEF CameraInv, CameraTypes, Recorded, Parts
<1>4. mem' = [mem EXCEPT ![incoming[1]][written + 1] = frame] /\ mem \in [Buffers -> [Parts -> Nat]]
  BY <1>1 DEF DriverWrites, CameraInv, CameraTypes
<1>5. mem' \in [Buffers -> [Parts -> Nat]]
  BY <1>1, <1>2, <1>3, <1>4
<1>6. \A c \in Buffers : \A k \in Parts :
         mem'[c][k] = IF c = incoming[1] /\ k = written + 1 THEN frame ELSE mem[c][k]
  BY <1>1, <1>2, <1>3, <1>4
<1> QED
  BY <1>1, <1>2, <1>3, <1>5, <1>6

\* What the driver writes touches no picture that waits or is held.
LEMMA DriverSpares ==
    ASSUME CameraInv, DriverWrites
    PROVE  /\ \A i \in DOMAIN outgoing :
                 \A k \in 1 .. outgoing[i].len : mem'[outgoing[i].buf][k] = outgoing[i].of
           /\ cpc = "sleep" \/ (cpc = "use" /\ Len(incoming) > 1) =>
                 \A k \in 1 .. jpg.len : mem'[jpg.buf][k] = jpg.of
           /\ \A k \in 1 .. written + 1 : mem'[incoming[1]][k] = frame
<1>t. CameraTypes /\ Partition /\ Recorded /\ InHand
  BY DEF CameraInv
<1>1. \A i \in DOMAIN outgoing :
         \A k \in 1 .. outgoing[i].len : mem'[outgoing[i].buf][k] = outgoing[i].of
  <2> SUFFICES ASSUME NEW i \in DOMAIN outgoing, NEW k \in 1 .. outgoing[i].len
               PROVE  mem'[outgoing[i].buf][k] = outgoing[i].of
    OBVIOUS
  <2>1. outgoing[i] \in Picture
    BY <1>t DEF CameraTypes
  <2>2. outgoing[i].buf \in Buffers /\ k \in Parts
    BY <2>1 DEF Picture, Parts
  <2>3. 1 \in DOMAIN incoming /\ outgoing[i].buf # incoming[1]
    BY <1>t, DriverMemory DEF Partition, CameraTypes
  <2> QED
    BY <2>2, <2>3, <1>t, DriverMemory DEF Recorded
<1>2. ASSUME cpc = "sleep" \/ (cpc = "use" /\ Len(incoming) > 1), NEW k \in 1 .. jpg.len
      PROVE  mem'[jpg.buf][k] = jpg.of
  <2>1. jpg \in Picture /\ Held
    BY <1>2, <1>t DEF CameraTypes, InHand
  <2>2. jpg.buf \in Buffers /\ k \in Parts
    BY <2>1 DEF Picture, Parts
  <2>3. 1 \in DOMAIN incoming /\ Len(incoming) \in DOMAIN incoming
    BY <1>t, DriverMemory DEF CameraTypes
  <2>4. jpg.buf # incoming[1]
    BY <1>2, <2>3, <1>t DEF Partition, InHand
  <2> QED
    BY <2>1, <2>2, <2>4, DriverMemory DEF Held
<1>3. ASSUME NEW k \in 1 .. written + 1 PROVE mem'[incoming[1]][k] = frame
  <2>1. k \in Parts
    BY DriverMemory, <1>t DEF Parts, CameraTypes
  <2> QED
    BY <2>1, DriverMemory, <1>t DEF Recorded, CameraTypes
<1> QED
  BY <1>1, <1>2, <1>3

LEMMA DriverKeeps == CameraInv /\ DriverWrites => CameraInv'
<1> SUFFICES ASSUME CameraInv, DriverWrites PROVE CameraInv'
  OBVIOUS
<1>t. CameraTypes /\ Partition /\ Recorded /\ Waiting /\ InHand
  BY DEF CameraInv
<1>u. cpc' = cpc /\ jpg' = jpg
  BY DEF DriverWrites
<1>m. mem' \in [Buffers -> [Parts -> Nat]]
  BY DriverMemory
<1>1. CASE /\ written + 1 < Sizes[frame] /\ written' = written + 1
           /\ UNCHANGED <<incoming, outgoing, frame, filled>>
  <2>1. CameraTypes'
    <3>1. written' \in 0 .. 2
      <4>1. written \in 0 .. 2 /\ Sizes[frame] \in 1 .. 3
        BY <1>t, DriverMemory DEF CameraTypes, Parts
      <4> QED
        BY <1>1, <4>1
    <3> QED
      BY <1>1, <1>t, <1>u, <1>m, <3>1 DEF CameraTypes
  <2>2. Partition'
    BY <1>1, <1>t, <1>u DEF Partition
  <2>3. Recorded'
    BY <1>1, DriverMemory, DriverSpares DEF Recorded
  <2>4. Waiting'
    BY <1>1, <1>t, <1>u DEF Waiting
  <2>5. InHand'
    BY <1>1, <1>t, <1>u, DriverSpares DEF InHand, Held
  <2> QED
    BY <2>1, <2>2, <2>3, <2>4, <2>5 DEF CameraInv
<1>2. CASE /\ written + 1 = Sizes[frame] /\ written' = 0 /\ frame' = frame + 1
           /\ incoming' = Tail(incoming)
           /\ outgoing' = Append(outgoing, [buf |-> Head(incoming), len |-> Sizes[frame], of |-> frame])
           /\ filled' = IF cpc = "select" /\ outgoing = <<>> THEN 1
                        ELSE IF filled < Bufs THEN filled + 1 ELSE filled
  <2> DEFINE new == [buf |-> incoming[1], len |-> Sizes[frame], of |-> frame]
  <2>1. /\ Len(incoming) \in Nat \ {0} /\ Len(outgoing) \in Nat /\ new \in Picture
        /\ outgoing' = Append(outgoing, new)
    <3>1. Head(incoming) = incoming[1]
      BY <1>t, DriverMemory DEF CameraTypes
    <3>2. new \in Picture
      BY DriverMemory DEF Picture
    <3> QED
      BY <1>2, <1>t, <3>1, <3>2, DriverMemory DEF CameraTypes
  <2>2. /\ incoming' \in Seq(Buffers) /\ Len(incoming') = Len(incoming) - 1
        /\ DOMAIN incoming' = 1 .. Len(incoming) - 1
        /\ \A j \in 1 .. Len(incoming) - 1 : incoming'[j] = incoming[j + 1] /\ j + 1 \in DOMAIN incoming
    BY <1>2, <1>t, <2>1 DEF CameraTypes
  <2>3. /\ outgoing' \in Seq(Picture) /\ Len(outgoing') = Len(outgoing) + 1
        /\ DOMAIN outgoing' = 1 .. Len(outgoing) + 1
        /\ \A i \in 1 .. Len(outgoing) : outgoing'[i] = outgoing[i] /\ i \in DOMAIN outgoing
        /\ outgoing'[Len(outgoing) + 1] = new
    BY <1>t, <2>1 DEF CameraTypes
  <2>n. new.buf = incoming[1] /\ new.len = Sizes[frame] /\ new.of = frame /\ frame \in Nat
    BY SizesType, DriverMemory
  <2> HIDE DEF new
  <2>4. CameraTypes'
    <3>1. filled' \in 0 .. Bufs
      BY <1>2, <1>t, SizesType DEF CameraTypes
    <3> QED
      BY <1>2, <1>t, <1>u, <1>m, <2>2, <2>3, <3>1 DEF CameraTypes
  <2>5. Partition'
    <3>1. 1 \in DOMAIN incoming
      BY <2>1, <1>t DEF CameraTypes
    <3>2. Len(outgoing') + Len(incoming') = IF cpc' = "sleep" THEN Bufs - 1 ELSE Bufs
      <4>1. Len(outgoing) + Len(incoming) = IF cpc = "sleep" THEN Bufs - 1 ELSE Bufs
        BY <1>t DEF Partition
      <4>2. Len(outgoing') + Len(incoming') = Len(outgoing) + Len(incoming)
        BY <2>1, <2>2, <2>3
      <4> QED
        BY <4>1, <4>2, <1>u
    <3>3. \A i, j \in DOMAIN incoming' : incoming'[i] = incoming'[j] => i = j
      <4> SUFFICES ASSUME NEW i \in DOMAIN incoming', NEW j \in DOMAIN incoming', incoming'[i] = incoming'[j]
                   PROVE  i = j
        OBVIOUS
      <4>1. /\ incoming[i + 1] = incoming[j + 1] /\ i \in Int /\ j \in Int
            /\ i + 1 \in DOMAIN incoming /\ j + 1 \in DOMAIN incoming
        BY <2>2
      <4>2. i + 1 = j + 1
        BY <4>1, <1>t DEF Partition
      <4> QED
        BY <4>1, <4>2
    <3>4. \A i \in DOMAIN outgoing' : \A j \in DOMAIN incoming' : outgoing'[i].buf # incoming'[j]
      <4> SUFFICES ASSUME NEW i \in DOMAIN outgoing', NEW j \in DOMAIN incoming'
                   PROVE  outgoing'[i].buf # incoming'[j]
        OBVIOUS
      <4>1. incoming'[j] = incoming[j + 1] /\ j + 1 \in DOMAIN incoming /\ j + 1 # 1
        BY <2>2
      <4>2. CASE i \in 1 .. Len(outgoing)
        BY <4>1, <4>2, <2>3, <1>t DEF Partition
      <4>3. CASE i = Len(outgoing) + 1
        <5>1. outgoing'[i].buf = incoming[1]
          BY <4>3, <2>3, <2>n
        <5> QED
          BY <4>1, <5>1, <3>1, <1>t DEF Partition
      <4> QED
        BY <4>2, <4>3, <2>1, <2>3
    <3>5. cpc' = "sleep" => \A j \in DOMAIN incoming' : incoming'[j] # jpg'.buf
      BY <1>t, <1>u, <2>2 DEF Partition
    <3>6. \A i \in 1 .. Len(outgoing) : outgoing'[i].buf = outgoing[i].buf /\ outgoing[i].buf # incoming[1]
      BY <2>3, <3>1, <1>t DEF Partition
    <3>7. \A i, j \in DOMAIN outgoing' : outgoing'[i].buf = outgoing'[j].buf => i = j
      <4>1. outgoing'[Len(outgoing) + 1].buf = incoming[1]
        BY <2>3, <2>n
      <4> QED
        BY <4>1, <2>1, <2>3, <3>6, <1>t DEF Partition
    <3>8. cpc' = "sleep" => \A i \in DOMAIN outgoing' : outgoing'[i].buf # jpg'.buf
      <4>1. outgoing'[Len(outgoing) + 1].buf = incoming[1]
        BY <2>3, <2>n
      <4> QED
        BY <4>1, <2>1, <2>3, <3>1, <3>6, <1>t, <1>u DEF Partition
    <3> QED
      BY <3>2, <3>3, <3>4, <3>5, <3>7, <3>8 DEF Partition
  <2>6. Recorded'
    <3>1. ASSUME NEW i \in DOMAIN outgoing', NEW k \in 1 .. outgoing'[i].len
          PROVE  mem'[outgoing'[i].buf][k] = outgoing'[i].of
      <4>1. CASE i \in 1 .. Len(outgoing)
        BY <4>1, <2>3, <3>1, DriverSpares
      <4>2. CASE i = Len(outgoing) + 1
        <5>1. outgoing'[i] = new /\ k \in 1 .. written + 1
          BY <4>2, <2>3, <2>n, <3>1, <1>2
        <5> QED
          BY <5>1, <2>n, DriverSpares
      <4> QED
        BY <4>1, <4>2, <2>1, <2>3
    <3>2. frame' \in Frames => written' < Sizes[frame']
      BY <1>2, SizesType DEF Parts
    <3> QED
      BY <1>2, <3>1, <3>2 DEF Recorded
  <2>7. Waiting'
    <3>1. Len(outgoing) \in Nat /\ filled \in 0 .. Bufs /\ Bufs \in Nat /\ Bufs >= 2
          /\ Len(outgoing) + 1 <= Bufs /\ (cpc = "sleep" => Len(outgoing) + 2 <= Bufs)
      BY <1>t, <2>1, SizesType DEF CameraTypes, Partition
    <3>2. cpc = "select" /\ outgoing = <<>> => Len(outgoing') = 1 /\ filled' = 1
      BY <1>2, <2>3
    <3> QED
      BY <1>2, <1>t, <1>u, <2>3, <3>1, <3>2 DEF Waiting
  <2>8. InHand'
    <3>1. cpc = "sleep" => Held'
      BY <1>u, DriverSpares DEF Held
    <3>2. ASSUME cpc = "use", ~(Len(incoming') <= 1)
          PROVE  incoming'[Len(incoming')] = jpg'.buf /\ Held'
      <4>1. Len(incoming) > 1 /\ ~(Len(incoming) <= 1)
        BY <3>2, <2>1, <2>2
      <4>2. incoming[Len(incoming)] = jpg.buf
        BY <4>1, <3>2, <1>t DEF InHand
      <4>3. incoming'[Len(incoming')] = incoming[Len(incoming)]
        BY <4>1, <2>1, <2>2
      <4> QED
        BY <4>1, <4>2, <4>3, <3>2, <1>u, DriverSpares DEF Held
    <3> QED
      BY <1>u, <3>1, <3>2 DEF InHand
  <2> QED
    BY <2>4, <2>5, <2>6, <2>7, <2>8 DEF CameraInv
<1> QED
  BY <1>1, <1>2 DEF DriverWrites

LEMMA ThreadKeeps == CameraInv /\ CaptureStep => CameraInv'
<1> SUFFICES ASSUME CameraInv, CaptureStep PROVE CameraInv'
  OBVIOUS
<1>t. CameraTypes /\ Partition /\ Recorded /\ Waiting /\ InHand
  BY DEF CameraInv
<1>1. CASE Dequeue
  <2>1. /\ cpc = "select" /\ outgoing # <<>> /\ jpg' = outgoing[1] /\ outgoing' = Tail(outgoing)
        /\ cpc' = "sleep" /\ UNCHANGED <<incoming, mem, written, frame, filled>>
    BY <1>1, <1>t DEF Dequeue, CameraTypes
  <2>2. /\ Len(outgoing) \in Nat \ {0} /\ Len(incoming) \in Nat /\ 1 \in DOMAIN outgoing
        /\ outgoing[1] \in Picture
    BY <2>1, <1>t DEF CameraTypes
  <2>3. /\ outgoing' \in Seq(Picture) /\ Len(outgoing') = Len(outgoing) - 1
        /\ DOMAIN outgoing' = 1 .. Len(outgoing) - 1
        /\ \A j \in 1 .. Len(outgoing) - 1 : outgoing'[j] = outgoing[j + 1] /\ j + 1 \in DOMAIN outgoing
    BY <2>1, <2>2, <1>t DEF CameraTypes
  <2>4. CameraTypes'
    BY <2>1, <2>2, <2>3, <1>t DEF CameraTypes
  <2>5. Partition'
    <3>1. Len(outgoing') + Len(incoming') = IF cpc' = "sleep" THEN Bufs - 1 ELSE Bufs
      BY <2>1, <2>2, <2>3, <1>t, SizesType DEF Partition
    <3>2. \A i, j \in DOMAIN outgoing' : outgoing'[i].buf = outgoing'[j].buf => i = j
      <4> SUFFICES ASSUME NEW i \in DOMAIN outgoing', NEW j \in DOMAIN outgoing',
                          outgoing'[i].buf = outgoing'[j].buf
                   PROVE  i = j
        OBVIOUS
      <4>1. /\ outgoing[i + 1].buf = outgoing[j + 1].buf /\ i \in Int /\ j \in Int
            /\ i + 1 \in DOMAIN outgoing /\ j + 1 \in DOMAIN outgoing
        BY <2>3
      <4>2. i + 1 = j + 1
        BY <4>1, <1>t DEF Partition
      <4> QED
        BY <4>1, <4>2
    <3>3. \A i \in DOMAIN outgoing' : outgoing'[i].buf # jpg'.buf
      BY <2>1, <2>2, <2>3, <1>t DEF Partition
    <3> QED
      BY <2>1, <2>2, <2>3, <3>1, <3>2, <3>3, <1>t DEF Partition
  <2>6. Recorded'
    BY <2>1, <2>3, <1>t DEF Recorded
  <2>7. Waiting'
    BY <2>1, <2>2, <2>3, <1>t DEF Waiting, CameraTypes
  <2>8. InHand'
    BY <2>1, <2>2, <1>t DEF InHand, Held, Recorded
  <2> QED
    BY <2>4, <2>5, <2>6, <2>7, <2>8 DEF CameraInv
<1>2. CASE QueueBack
  <2>1. /\ cpc = "sleep" /\ cpc' = "use" /\ incoming' = Append(incoming, jpg.buf)
        /\ UNCHANGED <<outgoing, mem, written, frame, jpg, filled>>
    BY <1>2 DEF QueueBack
  <2>2. Len(incoming) \in Nat /\ Len(outgoing) \in Nat /\ jpg \in Picture /\ jpg.buf \in Buffers
    BY <2>1, <1>t DEF CameraTypes, Picture
  <2>3. /\ incoming' \in Seq(Buffers) /\ Len(incoming') = Len(incoming) + 1
        /\ DOMAIN incoming' = 1 .. Len(incoming) + 1
        /\ \A j \in 1 .. Len(incoming) : incoming'[j] = incoming[j] /\ j \in DOMAIN incoming
        /\ incoming'[Len(incoming) + 1] = jpg.buf
    BY <2>1, <2>2, <1>t DEF CameraTypes
  <2>4. CameraTypes'
    BY <2>1, <2>2, <2>3, <1>t DEF CameraTypes
  <2>5. Partition'
    <3>1. \A i, j \in DOMAIN incoming' : incoming'[i] = incoming'[j] => i = j
      BY <2>1, <2>2, <2>3, <1>t DEF Partition
    <3>2. \A i \in DOMAIN outgoing : outgoing[i].buf # jpg.buf
      BY <1>t, <2>1 DEF Partition
    <3>3. \A i \in DOMAIN outgoing' : \A j \in DOMAIN incoming' : outgoing'[i].buf # incoming'[j]
      BY <2>1, <2>2, <2>3, <3>2, <1>t DEF Partition
    <3>4. Len(outgoing') + Len(incoming') = IF cpc' = "sleep" THEN Bufs - 1 ELSE Bufs
      BY <2>1, <2>2, <2>3, <1>t, SizesType DEF Partition
    <3> QED
      BY <2>1, <3>1, <3>3, <3>4, <1>t DEF Partition
  <2>6. Recorded'
    <3>1. written > 0 => incoming'[1] = incoming[1]
      BY <2>2, <2>3, <1>t DEF Recorded, CameraTypes
    <3> QED
      BY <2>1, <2>2, <2>3, <3>1, <1>t DEF Recorded, CameraTypes
  <2>7. Waiting'
    BY <2>1, <1>t DEF Waiting
  <2>8. InHand'
    BY <2>1, <2>3, <1>t DEF InHand, Held
  <2> QED
    BY <2>4, <2>5, <2>6, <2>7, <2>8 DEF CameraInv
<1>3. CASE SelectTimesOut
  <2>1. cpc = "select" /\ cpc' = "exited" /\ UNCHANGED <<incoming, outgoing, mem, written, frame, jpg, filled>>
    BY <1>3 DEF SelectTimesOut
  <2> QED
    BY <2>1, <1>t DEF CameraInv, CameraTypes, Partition, Recorded, Waiting, InHand
<1> QED
  BY <1>1, <1>2, <1>3 DEF CaptureStep

LEMMA ReleaseKeeps == CameraInv /\ cpc = "use" /\ Release => CameraInv'
  BY DEF Release, CameraInv, CameraTypes, Partition, Recorded, Waiting, InHand

LEMMA CameraRests == CameraInv /\ UNCHANGED camvars => CameraInv'
  BY DEF camvars, CameraInv, CameraTypes, Partition, Recorded, Waiting, InHand, Held

-----------------------------------------------------------------------------
(***************************************************************************)
(* Who reads what lies in the ring.                                        *)
(***************************************************************************)
LEMMA ReaderStarts == Init => Reader
<1> SUFFICES ASSUME Init PROVE Reader
  OBVIOUS
<1>1. /\ source \in {"stream", "local"} /\ sent = <<>> /\ seq \in Seqs /\ ts = 1 /\ outbox = <<>>
      /\ dpc = "get" /\ input = <<>>
  BY SourcesAssumption, RtpAssumption DEF Init, RtpInit, ViewInit, Seqs
<1> QED
  BY <1>1 DEF Reader

\* The part of a picture that is read next lies in its buffer.
LEMMA ReadsMemory ==
    ASSUME CameraInv, cpc = "use", NEW k \in 1 .. jpg.len
    PROVE  k \in Parts /\ jpg \in Picture /\ mem[jpg.buf][k] \in Nat
<1>1. jpg \in Picture /\ mem \in [Buffers -> [Parts -> Nat]]
  BY DEF CameraInv, CameraTypes
<1>2. jpg.len \in 1 .. 3 /\ jpg.buf \in Buffers
  BY <1>1 DEF Picture, Parts
<1> QED
  BY <1>1, <1>2 DEF Parts

LEMMA PacketsType ==
    ASSUME Reader, NEW len \in Parts
    PROVE  /\ Packets(len) \in Seq(Packet) /\ Len(Packets(len)) = len /\ DOMAIN Packets(len) = 1 .. len
           /\ \A i \in 1 .. len :
                 Packets(len)[i] = [seq |-> (seq + i - 1) % SeqMod, ts |-> ts, part |-> i,
                                    marker |-> len > 1 /\ i \in {1, len}]
           /\ \A i \in 1 .. len : Packets(len)[i].part = i
<1>1. len \in Nat /\ seq \in Nat /\ ts \in Nat /\ SeqMod \in Nat \ {0}
  BY RtpAssumption DEF Reader, Seqs, Parts
<1>2. \A i \in 1 .. len : (seq + i - 1) % SeqMod \in Seqs
  BY <1>1 DEF Seqs
<1>3. \A i \in 1 .. len : [seq |-> (seq + i - 1) % SeqMod, ts |-> ts, part |-> i,
                           marker |-> len > 1 /\ i \in {1, len}] \in Packet
  BY <1>1, <1>2 DEF Packet
<1> QED
  BY <1>1, <1>3, IsASeq, LenProperties DEF Packets

LEMMA ReaderKeeps == CameraInv /\ Reader /\ [Next]_vars => Reader'
<1> SUFFICES ASSUME CameraInv, Reader, [Next]_vars PROVE Reader'
  OBVIOUS
<1>r. /\ source \in {"stream", "local"}
      /\ seq \in Seqs /\ ts \in Nat \ {0} /\ sent \in Seq(Seq(Nat)) /\ outbox \in Seq(Packet)
      /\ outbox # <<>> => source = "stream" /\ cpc = "use" /\ Len(sent) > 0
      /\ \A i \in DOMAIN outbox : outbox[i].part \in 1 .. jpg.len
      /\ source = "local" /\ dpc # "get" => cpc = "use"
      /\ source = "local" => input \in Seq(Piece)
      /\ dpc \notin {"read", "decode"} => input = <<>>
      /\ dpc = "read" => source = "local" /\ Len(input) < jpg.len /\ Len(sent) > 0
  BY DEF Reader
<1>1. CASE Driver
  BY <1>1, <1>r DEF Driver, DriverWrites, rtpvars, viewvars, Reader
<1>2. CASE Capture
  <2>1. UNCHANGED <<rtpvars, viewvars, source, sent>> /\ (source = "local" => dpc = "get")
    BY <1>2 DEF Capture
  <2>2. outbox # <<>> => cpc' = cpc /\ jpg' = jpg
    BY <1>2, <1>r DEF Capture, CaptureStep, Dequeue, QueueBack, SelectTimesOut
  <2>3. outbox = <<>> => DOMAIN outbox = {}
    OBVIOUS
  <2> QED
    BY <2>1, <2>2, <2>3, <1>r DEF rtpvars, viewvars, Reader
<1>3. CASE Push
  <2>1. /\ source = "stream" /\ cpc = "use" /\ outbox = <<>> /\ outbox' = Packets(jpg.len)
        /\ seq' = (seq + jpg.len) % SeqMod /\ ts' = ts + 1 /\ sent' = Append(sent, <<>>)
        /\ UNCHANGED <<camvars, viewvars, source>>
    BY <1>3 DEF Push, PushFrame
  <2>2. jpg.len \in Parts
    BY <2>1 DEF CameraInv, CameraTypes, Picture
  <2>3. /\ outbox' \in Seq(Packet) /\ DOMAIN outbox' = 1 .. jpg.len
        /\ \A i \in DOMAIN outbox' : outbox'[i].part \in 1 .. jpg.len
    <3>1. outbox' \in Seq(Packet) /\ DOMAIN outbox' = 1 .. jpg.len
      BY <2>1, <2>2, PacketsType
    <3>2. \A i \in 1 .. jpg.len : outbox'[i].part = i
      BY <2>1, <2>2, PacketsType
    <3> QED
      BY <3>1, <3>2
  <2>4. seq' \in Seqs
    BY <2>1, <2>2, <1>r, RtpAssumption DEF Seqs, Parts
  <2>5. sent' \in Seq(Seq(Nat)) /\ Len(sent') > 0
    <3>1. <<>> \in Seq(Nat)
      OBVIOUS
    <3> QED
      BY <2>1, <1>r, <3>1
  <2>6. cpc' = "use" /\ jpg' = jpg /\ source' = source /\ dpc' = dpc /\ input' = input
    BY <2>1 DEF camvars, viewvars
  <2>7. ts' \in Nat \ {0}
    BY <2>1, <1>r
  <2> QED
    BY <2>1, <2>3, <2>4, <2>5, <2>6, <2>7, <1>r DEF Reader
<1>4. CASE Send
  <2> DEFINE data == mem[jpg.buf][Head(outbox).part]
  <2>1. /\ source = "stream" /\ cpc = "use" /\ outbox # <<>> /\ outbox' = Tail(outbox)
        /\ sent' = [sent EXCEPT ![Len(sent)] = Append(sent[Len(sent)], data)]
        /\ jpg' = jpg /\ (Len(outbox) = 1 \/ cpc' = cpc)
        /\ UNCHANGED <<viewvars, source, seq, ts>>
    BY <1>4 DEF Send, SendPacket, Release, camvars
  <2>2. Head(outbox) = outbox[1] /\ 1 \in DOMAIN outbox
    BY <2>1, <1>r
  <2>3. data \in Nat
    BY <2>1, <2>2, <1>r, ReadsMemory
  <2> HIDE DEF data
  <2>4. sent' \in Seq(Seq(Nat)) /\ Len(sent') > 0
    BY <2>1, <2>3, <1>r
  <2>5. /\ outbox' \in Seq(Packet) /\ (outbox' # <<>> => Len(outbox) # 1)
        /\ \A i \in DOMAIN outbox' : outbox'[i] = outbox[i + 1] /\ i + 1 \in DOMAIN outbox
    <3>1. outbox' \in Seq(Packet) /\ Len(outbox') = Len(outbox) - 1
      BY <2>1, <1>r
    <3>2. \A i \in 1 .. Len(outbox) - 1 : outbox'[i] = outbox[i + 1]
      BY <2>1, <1>r
    <3>3. outbox' # <<>> => Len(outbox) # 1
      BY <3>1
    <3>4. DOMAIN outbox' = 1 .. Len(outbox) - 1 /\ DOMAIN outbox = 1 .. Len(outbox) /\ Len(outbox) \in Nat
      BY <3>1, <1>r
    <3> QED
      BY <3>1, <3>2, <3>3, <3>4
  <2> QED
    BY <2>1, <2>4, <2>5, <1>r DEF viewvars, Reader
<1>5. CASE SendGivesUp
  BY <1>5, <1>r DEF SendGivesUp, SendFails, Release, viewvars, Reader
<1>6. CASE Dispatcher
  BY <1>6, <1>r DEF Dispatcher, Receive, camvars, viewvars, Reader
<1>7. CASE Faulty
  BY <1>7, <1>r DEF Faulty, Network, Overtake, Lose, Double, camvars, viewvars, Reader
<1>8. CASE Pull
  BY <1>8, <1>r DEF Pull, PullFrame, camvars, Reader
<1>9. CASE CaptureLocal
  <2>1. jpg.len \in 1 .. 3 /\ Len(<<>>) = 0
    BY <1>9 DEF CaptureLocal, CameraInv, CameraTypes, Picture, Parts
  <2>2. sent' \in Seq(Seq(Nat)) /\ Len(sent') > 0
    BY <1>9, <1>r DEF CaptureLocal
  <2> QED
    BY <1>9, <1>r, <2>1, <2>2 DEF CaptureLocal, camvars, rtpvars, Reader
<1>10. CASE ReadLocal
  <2> DEFINE i == Len(input) + 1
             data == mem[jpg.buf][i]
             piece == [ts |-> Len(sent), part |-> i, of |-> data]
  <2>1. /\ dpc = "read" /\ input' = Append(input, piece)
        /\ sent' = [sent EXCEPT ![Len(sent)] = Append(sent[Len(sent)], data)]
        /\ dpc' = IF i = jpg.len THEN "decode" ELSE dpc
        /\ UNCHANGED <<camvars, rtpvars, source>>
    BY <1>10 DEF ReadLocal
  <2>2. source = "local" /\ cpc = "use" /\ input \in Seq(Piece) /\ i \in 1 .. jpg.len
    <3>1. source = "local" /\ cpc = "use" /\ input \in Seq(Piece) /\ Len(input) < jpg.len
      BY <2>1, <1>r
    <3>2. jpg.len \in 1 .. 3
      BY <3>1 DEF CameraInv, CameraTypes, Picture, Parts
    <3> QED
      BY <3>1, <3>2
  <2>3. data \in Nat
    BY <2>2, ReadsMemory
  <2> HIDE DEF data
  <2>4. sent' \in Seq(Seq(Nat)) /\ Len(sent') > 0
    BY <2>1, <2>3, <1>r
  <2>5. piece \in Piece
    BY <2>2, <2>3, <1>r DEF Piece
  <2>6. input' \in Seq(Piece) /\ Len(input') = i
    BY <2>1, <2>2, <2>5
  <2>7. dpc' # "get" /\ (dpc' = "read" => Len(input') < jpg.len)
    <3>1. jpg.len \in Int /\ i <= jpg.len /\ i \in Int
      BY <2>2, ReadsMemory DEF Picture, Parts
    <3> QED
      BY <2>1, <2>6, <3>1
  <2> QED
    BY <2>1, <2>2, <2>4, <2>6, <2>7, <1>r DEF camvars, rtpvars, Reader
<1>11. CASE DecodeFrame
  <2>1. dpc = "decode" /\ dpc' \in {"copy", "get"} /\ input' = <<>> /\ UNCHANGED <<rtpvars, source, sent>>
    BY <1>11 DEF DecodeFrame, Decode, Follows
  <2>2. /\ UNCHANGED camvars \/ (source = "local" /\ dpc' = "get" /\ Release)
        /\ jpg' = jpg
    BY <1>11 DEF DecodeFrame, BackToCapture, camvars, Release
  <2>3. outbox # <<>> \/ dpc' # "get" => cpc' = cpc
    BY <2>2, <1>r DEF camvars
  <2> QED
    BY <2>1, <2>2, <2>3, <1>r DEF rtpvars, Reader
<1>12. CASE Copy
  <2>1. /\ dpc \in {"copy", "copied"} /\ dpc' \in {"copied", "notify"} /\ input' = input
        /\ UNCHANGED <<rtpvars, source, sent>>
    BY <1>12 DEF Copy, CopyHalves, Follows
  <2>2. UNCHANGED camvars
    BY <1>12, <2>1 DEF Copy, BackToCapture
  <2> QED
    BY <2>1, <2>2, <1>r DEF camvars, rtpvars, Reader
<1>13. CASE PushEvent
  <2>1. dpc = "notify" /\ dpc' = "get" /\ input' = input /\ UNCHANGED <<rtpvars, source, sent>>
    BY <1>13 DEF PushEvent, Notify, Follows
  <2>2. /\ UNCHANGED camvars \/ (source = "local" /\ Release)
        /\ jpg' = jpg
    BY <1>13 DEF PushEvent, BackToCapture, camvars, Release
  <2>3. outbox # <<>> => cpc' = cpc
    BY <2>2, <1>r DEF camvars
  <2> QED
    BY <2>1, <2>2, <2>3, <1>r DEF rtpvars, Reader
<1>14. CASE Display \/ Close
  BY <1>14, <1>r DEF Display, Close, TakeEvent, Upload, Quit, decodervars, camvars, rtpvars, Reader
<1>15. CASE UNCHANGED vars
  BY <1>15, <1>r DEF vars, camvars, rtpvars, viewvars, Reader
<1> QED
  BY <1>1, <1>2, <1>3, <1>4, <1>5, <1>6, <1>7, <1>8, <1>9, <1>10, <1>11, <1>12, <1>13, <1>14, <1>15
  DEF Next, Sender, Decoder

LEMMA CameraKeeps == CameraInv /\ Reader /\ [Next]_vars => CameraInv'
<1> SUFFICES ASSUME CameraInv, Reader, [Next]_vars PROVE CameraInv'
  OBVIOUS
<1>1. CASE DriverWrites \/ CaptureStep \/ UNCHANGED camvars
  BY <1>1, DriverKeeps, ThreadKeeps, CameraRests
<1>2. CASE cpc = "use" /\ Release
  BY <1>2, ReleaseKeeps
<1>3. CASE Driver \/ Capture \/ Dispatcher \/ Faulty \/ Pull \/ CaptureLocal \/ ReadLocal \/ Display
           \/ Close \/ Push \/ UNCHANGED vars
  BY <1>3, <1>1 DEF Driver, Capture, Dispatcher, Faulty, Pull, CaptureLocal, ReadLocal, Display, Close, Push, vars
<1>4. CASE Send \/ SendGivesUp
  BY <1>4, <1>1, <1>2 DEF Send, SendGivesUp
<1>5. CASE DecodeFrame \/ Copy \/ PushEvent
  <2>1. dpc # "get" /\ (UNCHANGED camvars \/ (source = "local" /\ Release))
    BY <1>5 DEF DecodeFrame, Copy, PushEvent, Decode, CopyHalves, Notify, BackToCapture
  <2> QED
    BY <2>1, <1>1, <1>2 DEF Reader
<1> QED
  BY <1>3, <1>4, <1>5 DEF Next, Sender, Decoder

RingInv == CameraInv /\ Reader

LEMMA RingAlways == Spec => []RingInv
<1>1. Init => RingInv
  BY CameraStarts, ReaderStarts DEF RingInv
<1>2. RingInv /\ [Next]_vars => RingInv'
  BY CameraKeeps, ReaderKeeps DEF RingInv
<1> QED
  BY <1>1, <1>2, PTL DEF Spec

\* Only if a whole ring of buffers has been filled since can the buffer in use
\* hold another picture.
LEMMA NotTorn ==
    ASSUME CameraInv, cpc = "use", NEW k \in 1 .. jpg.len
    PROVE  mem[jpg.buf][k] = jpg.of \/ filled >= Bufs
<1>1. /\ Len(outgoing) + Len(incoming) = Bufs /\ (filled = Bufs \/ filled >= Len(outgoing) + 1)
      /\ Len(incoming) <= 1 \/ Held
      /\ Len(outgoing) \in Nat /\ Len(incoming) \in Nat /\ filled \in Nat /\ Bufs \in Nat
  BY SizesType DEF CameraInv, CameraTypes, Partition, Waiting, InHand
<1> QED
  BY <1>1 DEF Held

\* A loop that keeps up with its camera never sends, or decodes, a picture with
\* pieces of a later one: the buffer that is back with the driver while it is
\* read (mjpegcam.cc, read_frame) comes last in the ring.
THEOREM NoTearAlways == Spec => NoTearWhileKeepingUp
<1>1. RingInv /\ [Next]_vars =>
        [LET s == sent'[Len(sent')] IN
         sent' # sent /\ s # <<>> => s[Len(s)] = jpg.of \/ filled >= Bufs]_vars
  <2> SUFFICES ASSUME CameraInv, Reader, Next, sent' # sent, sent'[Len(sent')] # <<>>
               PROVE  sent'[Len(sent')][Len(sent'[Len(sent')])] = jpg.of \/ filled >= Bufs
    BY DEF RingInv
  <2>0. sent \in Seq(Seq(Nat))
    BY DEF Reader
  <2>1. Push \/ Send \/ CaptureLocal \/ ReadLocal
    BY DEF Next, Driver, Capture, Sender, SendGivesUp, Dispatcher, Faulty, Decoder, Pull, DecodeFrame,
           Copy, PushEvent, Display, Close
  <2>2. ~(Push \/ CaptureLocal)
    BY <2>0 DEF Push, CaptureLocal
  <2>3. ASSUME NEW k \in 1 .. jpg.len, cpc = "use", Len(sent) > 0,
               sent' = [sent EXCEPT ![Len(sent)] = Append(sent[Len(sent)], mem[jpg.buf][k])]
        PROVE  sent'[Len(sent')][Len(sent'[Len(sent')])] = jpg.of \/ filled >= Bufs
    <3> DEFINE data == mem[jpg.buf][k]
    <3>1. data \in Nat /\ (data = jpg.of \/ filled >= Bufs)
      BY <2>3, ReadsMemory, NotTorn
    <3> HIDE DEF data
    <3>2. sent' = [sent EXCEPT ![Len(sent)] = Append(sent[Len(sent)], data)]
      BY <2>3 DEF data
    <3>3. sent'[Len(sent')][Len(sent'[Len(sent')])] = data
      BY <2>0, <2>3, <3>1, <3>2
    <3> QED
      BY <3>1, <3>3
  <2>4. CASE Send
    <3>1. outbox # <<>> /\ cpc = "use" /\ Len(sent) > 0 /\ Head(outbox).part \in 1 .. jpg.len
      BY <2>4 DEF Send, SendPacket, Reader
    <3> QED
      BY <2>3, <2>4, <3>1 DEF Send
  <2>5. CASE ReadLocal
    <3>1. cpc = "use" /\ Len(sent) > 0 /\ Len(input) < jpg.len /\ input \in Seq(Piece)
      BY <2>5 DEF ReadLocal, Reader
    <3>2. jpg.len \in 1 .. 3
      BY <3>1 DEF CameraInv, CameraTypes, Picture, Parts
    <3>3. Len(input) + 1 \in 1 .. jpg.len
      BY <3>1, <3>2
    <3> QED
      BY <2>3, <2>5, <3>1, <3>3 DEF ReadLocal
  <2> QED
    BY <2>1, <2>2, <2>4, <2>5
<1> QED
  BY <1>1, RingAlways, PTL DEF Spec, NoTearWhileKeepingUp

-----------------------------------------------------------------------------
(***************************************************************************)
(* Sequence numbers of the packets of a push, of which there are three at  *)
(* most.                                                                   *)
(***************************************************************************)
LEMMA ModValue ==
    ASSUME NEW x \in Nat, x < 2 * SeqMod
    PROVE  x % SeqMod = IF x < SeqMod THEN x ELSE x - SeqMod
<1>1. SeqMod \in Nat /\ SeqMod > 6
  BY RtpAssumption
<1> DEFINE q == x \div SeqMod
           r == x % SeqMod
<1>2. q \in Int /\ r \in 0 .. SeqMod - 1 /\ x = SeqMod * q + r
  BY <1>1
<1> HIDE DEF q, r
<1>3. q >= 2 => SeqMod * q >= 2 * SeqMod
  BY <1>1, <1>2
<1>4. q <= -1 => SeqMod * q <= -SeqMod
  BY <1>1, <1>2
<1>5. q = 0 \/ q = 1
  BY <1>1, <1>2, <1>3, <1>4
<1>6. r = IF x < SeqMod THEN x ELSE x - SeqMod
  <2>1. CASE q = 0
    BY <2>1, <1>1, <1>2
  <2>2. CASE q = 1
    BY <2>2, <1>1, <1>2
  <2> QED
    BY <1>5, <2>1, <2>2
<1> QED
  BY <1>6 DEF r

LEMMA NumValue ==
    ASSUME NEW b, NEW t, b[t] \in Seqs, NEW i \in Parts
    PROVE  /\ Num(b, t, i) = IF b[t] + i - 1 < SeqMod THEN b[t] + i - 1 ELSE b[t] + i - 1 - SeqMod
           /\ Num(b, t, i) \in Seqs
<1>1. SeqMod \in Nat /\ SeqMod > 6 /\ i \in 1 .. 3 /\ b[t] \in 0 .. SeqMod - 1
  BY RtpAssumption DEF Parts, Seqs
<1> DEFINE x == b[t] + i - 1
<1>2. x \in Nat /\ x < 2 * SeqMod
  BY <1>1
<1>3. x % SeqMod = IF x < SeqMod THEN x ELSE x - SeqMod
  BY <1>2, ModValue
<1>4. Num(b, t, i) = IF x < SeqMod THEN x ELSE x - SeqMod
  BY <1>3 DEF Num
<1> QED
  BY <1>1, <1>2, <1>4 DEF Seqs

LEMMA NumsDiffer ==
    ASSUME NEW b, NEW t, b[t] \in Seqs, NEW i \in Parts, NEW j \in Parts, i # j
    PROVE  Num(b, t, i) # Num(b, t, j)
<1>1. SeqMod \in Nat /\ SeqMod > 6 /\ i \in 1 .. 3 /\ j \in 1 .. 3 /\ b[t] \in 0 .. SeqMod - 1
  BY RtpAssumption DEF Parts, Seqs
<1> QED
  BY <1>1, NumValue

\* The number of packets the receiver counts from one end to the other: right if
\* the first one came first, else far too many.
LEMMA Span ==
    ASSUME NEW b, NEW t, b[t] \in Seqs, NEW l \in Parts, l > 1, NEW m, NEW x \in {1, l},
           m.s_seq = Num(b, t, x), m.e_seq = Num(b, t, l + 1 - x)
    PROVE  Received(m) = IF x = 1 THEN l ELSE SeqMod - l + 2
<1>1. SeqMod \in Nat /\ SeqMod > 6 /\ l \in 2 .. 3 /\ b[t] \in 0 .. SeqMod - 1
  BY RtpAssumption DEF Parts, Seqs
<1>2. x \in Parts /\ l + 1 - x \in Parts
  BY <1>1 DEF Parts
<1> DEFINE s == Num(b, t, x)
           e == Num(b, t, l + 1 - x)
<1>3. /\ s = IF b[t] + x - 1 < SeqMod THEN b[t] + x - 1 ELSE b[t] + x - 1 - SeqMod
      /\ e = IF b[t] + (l + 1 - x) - 1 < SeqMod THEN b[t] + (l + 1 - x) - 1
             ELSE b[t] + (l + 1 - x) - 1 - SeqMod
  BY <1>2, NumValue
<1>4. Received(m) = IF s > e THEN SeqMod - s + e + 1 ELSE e - s + 1
  BY DEF Received
<1> HIDE DEF s, e
<1>5. CASE x = 1
  BY <1>1, <1>3, <1>4, <1>5
<1>6. CASE x = l
  BY <1>1, <1>3, <1>4, <1>6
<1> QED
  BY <1>5, <1>6

-----------------------------------------------------------------------------
(***************************************************************************)
(* The fragments of a frame in the order of their numbers.                 *)
(***************************************************************************)
Below(S, s) == {x \in S : x < s}
Ranked(S, i) == CHOOSE s \in S : Cardinality(Below(S, s)) = i - 1

LEMMA MakesSeq ==
    ASSUME NEW n \in Nat, NEW f, NEW X, f = [i \in 1 .. n |-> f[i]], \A i \in 1 .. n : f[i] \in X
    PROVE  f \in Seq(X) /\ Len(f) = n
<1>1. f \in Seq(X)
  BY SMT
<1>2. DOMAIN f = 1 .. n
  OBVIOUS
<1>3. DOMAIN f = 1 .. Len(f) /\ Len(f) \in Nat
  BY <1>1
<1> QED
  BY <1>1, <1>2, <1>3

LEMMA LeastNat ==
    ASSUME NEW S \in SUBSET Nat, S # {}
    PROVE  \E n \in S : \A m \in S : n <= m
<1>1. IsWellFoundedOn(OpToRel(<, Nat), Nat)
  BY NatLessThanWellFounded
<1>2. PICK n \in S : \A m \in S : ~ (<<m, n>> \in OpToRel(<, Nat))
  BY <1>1, WFMin
<1>3. OpToRel(<, Nat) = {p \in Nat \X Nat : p[1] < p[2]}
  BY DEF OpToRel
<1>4. \A m \in S : ~ (m < n)
  BY <1>2, <1>3
<1> QED
  BY <1>4

LEMMA AssembledValue ==
    ASSUME NEW m, m.npkts \in Nat
    PROVE  /\ \E X : Assembled(m) \in Seq(X)
           /\ Len(Assembled(m)) = m.npkts /\ DOMAIN Assembled(m) = 1 .. m.npkts
           /\ \A i \in 1 .. m.npkts : i <= Cardinality(DOMAIN m.fragments) =>
                 Assembled(m)[i] = m.fragments[Ranked(DOMAIN m.fragments, i)]
<1>1. Assembled(m) = [i \in 1 .. m.npkts |->
          IF i <= Cardinality(DOMAIN m.fragments)
          THEN m.fragments[Ranked(DOMAIN m.fragments, i)] ELSE Unwritten]
  BY DEF Assembled, Ranked, Below
<1> DEFINE f == Assembled(m)
           X == {f[i] : i \in 1 .. m.npkts}
<1>2. DOMAIN f = 1 .. m.npkts /\ \A i \in 1 .. m.npkts : f[i] \in X
  BY <1>1
<1>3. f = [i \in 1 .. m.npkts |-> f[i]]
  BY <1>1
<1> HIDE DEF f, X
<1>4. f \in Seq(X) /\ Len(f) = m.npkts
  BY <1>2, <1>3, MakesSeq
<1> QED
  BY <1>1, <1>2, <1>4 DEF f

\* The first of them is one of them, however many there are.
LEMMA FirstRanked ==
    ASSUME NEW S, S \subseteq Nat, S # {}, IsFiniteSet(S)
    PROVE  Ranked(S, 1) \in S
<1>1. PICK s \in S : \A x \in S : s <= x
  BY LeastNat
<1>2. Below(S, s) = {}
  <2> SUFFICES ASSUME NEW x \in S, x < s PROVE FALSE
    BY DEF Below
  <2> QED
    BY <1>1
<1>3. Cardinality(Below(S, s)) = 1 - 1
  BY <1>2, FS_EmptySet
<1> QED
  BY <1>1, <1>3 DEF Ranked

LEMMA RankedPair ==
    ASSUME NEW a \in Nat, NEW c \in Nat, a < c
    PROVE  /\ Cardinality({a, c}) = 2
           /\ Ranked({a, c}, 1) = a /\ Ranked({a, c}, 2) = c
<1>1. Below({a, c}, a) = {} /\ Below({a, c}, c) = {a}
  BY DEF Below
<1>2. Cardinality(Below({a, c}, a)) = 0 /\ Cardinality(Below({a, c}, c)) = 1
  BY <1>1, FS_EmptySet, FS_Singleton
<1>3. Cardinality({a, c}) = 2
  <2>1. IsFiniteSet({a}) /\ Cardinality({a}) = 1 /\ c \notin {a}
    BY FS_Singleton
  <2>2. Cardinality({a} \cup {c}) = 1 + 1
    BY <2>1, FS_AddElement
  <2>3. {a} \cup {c} = {a, c}
    OBVIOUS
  <2> QED
    BY <2>2, <2>3
<1> QED
  BY <1>2, <1>3 DEF Ranked

LEMMA RankedTriple ==
    ASSUME NEW a \in Nat, NEW c \in Nat, NEW d \in Nat, a < c, c < d
    PROVE  /\ Cardinality({a, c, d}) = 3
           /\ Ranked({a, c, d}, 1) = a /\ Ranked({a, c, d}, 2) = c /\ Ranked({a, c, d}, 3) = d
<1>1. Below({a, c, d}, a) = {} /\ Below({a, c, d}, c) = {a} /\ Below({a, c, d}, d) = {a, c}
  BY DEF Below
<1>2. /\ Cardinality(Below({a, c, d}, a)) = 0 /\ Cardinality(Below({a, c, d}, c)) = 1
      /\ Cardinality(Below({a, c, d}, d)) = 2
  <2>1. Cardinality({}) = 0
    BY FS_EmptySet
  <2>2. Cardinality({a}) = 1
    BY FS_Singleton
  <2>3. Cardinality({a, c}) = 2
    BY RankedPair
  <2> QED
    BY <1>1, <2>1, <2>2, <2>3
<1>3. Cardinality({a, c, d}) = 3
  <2>1. IsFiniteSet({a})
    BY FS_Singleton
  <2>2. IsFiniteSet({a} \cup {c})
    BY <2>1, FS_AddElement
  <2>3. {a} \cup {c} = {a, c} /\ d \notin {a, c} /\ {a, c} \cup {d} = {a, c, d}
    OBVIOUS
  <2>4. Cardinality({a, c} \cup {d}) = 2 + 1
    BY <2>2, <2>3, FS_AddElement, RankedPair
  <2> QED
    BY <2>3, <2>4
<1> QED
  BY <1>2, <1>3 DEF Ranked


-----------------------------------------------------------------------------
(***************************************************************************)
(* r is s without its i-th element.                                        *)
(***************************************************************************)
Thinned(r, s, i) ==
    /\ \A j \in DOMAIN r : \E k \in DOMAIN s \ {i} : r[j] = s[k]
    /\ \A k \in DOMAIN s \ {i} : \E j \in DOMAIN r : r[j] = s[k]
    /\ \A j, l \in DOMAIN r : j < l => \E k, m \in DOMAIN s : k < m /\ r[j] = s[k] /\ r[l] = s[m]

LEMMA LeavingOut ==
    ASSUME NEW X, NEW s \in Seq(X), NEW i \in 1 .. Len(s), NEW r,
           DOMAIN r = 1 .. Len(s) - 1,
           \A j \in 1 .. Len(s) - 1 : r[j] = s[IF j < i THEN j ELSE j + 1]
    PROVE  Thinned(r, s, i)
<1>1. DOMAIN s = 1 .. Len(s) /\ Len(s) \in Nat /\ i \in Nat
  OBVIOUS
<1>2. ASSUME NEW j \in DOMAIN r PROVE \E k \in DOMAIN s \ {i} : r[j] = s[k]
  <2>1. (IF j < i THEN j ELSE j + 1) \in DOMAIN s \ {i}
    BY <1>1
  <2> QED
    BY <2>1
<1>3. ASSUME NEW k \in DOMAIN s \ {i} PROVE \E j \in DOMAIN r : r[j] = s[k]
  <2>1. CASE k < i
    <3>0. k \in 1 .. Len(s) - 1
      BY <1>1, <2>1
    <3>1. k \in DOMAIN r /\ r[k] = s[k]
      BY <3>0, <2>1
    <3> QED
      BY <3>1
  <2>2. CASE k > i
    <3>0. k - 1 \in 1 .. Len(s) - 1 /\ ~(k - 1 < i) /\ k - 1 + 1 = k
      BY <1>1, <2>2
    <3>1. k - 1 \in DOMAIN r /\ r[k - 1] = s[k]
      BY <3>0
    <3> QED
      BY <3>1
  <2> QED
    BY <1>1, <2>1, <2>2
<1>4. ASSUME NEW j \in DOMAIN r, NEW l \in DOMAIN r, j < l
      PROVE  \E k, m \in DOMAIN s : k < m /\ r[j] = s[k] /\ r[l] = s[m]
  <2> DEFINE k == IF j < i THEN j ELSE j + 1
             m == IF l < i THEN l ELSE l + 1
  <2>1. k \in DOMAIN s /\ m \in DOMAIN s /\ k < m
    BY <1>1, <1>4
  <2>2. r[j] = s[k] /\ r[l] = s[m]
    OBVIOUS
  <2> HIDE DEF k, m
  <2> QED
    BY <2>1, <2>2
<1> QED
  BY <1>2, <1>3, <1>4 DEF Thinned

LEMMA WithoutThins ==
    ASSUME NEW X, NEW s \in Seq(X), NEW i \in 1 .. Len(s)
    PROVE  Without(s, i) \in Seq(X) /\ Thinned(Without(s, i), s, i)
<1> DEFINE u == SubSeq(s, 1, i - 1)
           v == SubSeq(s, i + 1, Len(s))
<1>1. u \in Seq(X) /\ Len(u) = i - 1 /\ \A j \in 1 .. i - 1 : u[j] = s[j]
  <2>1. i - 1 \in Int /\ \A j \in 1 .. i - 1 : s[j] \in X
    OBVIOUS
  <2>2. /\ u \in Seq(X) /\ Len(u) = IF 1 <= i - 1 THEN i - 1 - 1 + 1 ELSE 0
        /\ \A j \in 1 .. i - 1 - 1 + 1 : u[j] = s[1 + j - 1]
    BY <2>1, SubSeqProperties
  <2> HIDE DEF u
  <2> QED
    BY <2>1, <2>2
<1>2. v \in Seq(X) /\ Len(v) = Len(s) - i /\ \A j \in 1 .. Len(s) - i : v[j] = s[i + j]
  <2>1. i + 1 \in Int /\ Len(s) \in Int /\ i <= Len(s) /\ \A j \in i + 1 .. Len(s) : s[j] \in X
    OBVIOUS
  <2>2. /\ v \in Seq(X) /\ Len(v) = IF i + 1 <= Len(s) THEN Len(s) - (i + 1) + 1 ELSE 0
        /\ \A j \in 1 .. Len(s) - (i + 1) + 1 : v[j] = s[i + 1 + j - 1]
    BY <2>1, SubSeqProperties
  <2> HIDE DEF v
  <2>3. Len(v) = Len(s) - i
    BY <2>1, <2>2
  <2>4. ASSUME NEW j \in 1 .. Len(s) - i PROVE v[j] = s[i + j]
    <3>1. j \in 1 .. Len(s) - (i + 1) + 1 /\ i + 1 + j - 1 = i + j
      BY <2>1
    <3> QED
      BY <3>1, <2>2
  <2> QED
    BY <2>2, <2>3, <2>4
<1> HIDE DEF u, v
<1>3. Without(s, i) = u \o v
  BY DEF Without, u, v
<1>4. /\ u \o v \in Seq(X) /\ Len(u \o v) = Len(s) - 1
      /\ \A j \in 1 .. Len(s) - 1 : (u \o v)[j] = IF j <= i - 1 THEN u[j] ELSE v[j - (i - 1)]
  <2>1. /\ u \o v \in Seq(X) /\ Len(u \o v) = Len(u) + Len(v)
        /\ \A j \in 1 .. Len(u) + Len(v) :
              (u \o v)[j] = IF j <= Len(u) THEN u[j] ELSE v[j - Len(u)]
    BY <1>1, <1>2, ConcatProperties, Zenon
  <2>2. Len(u) + Len(v) = Len(s) - 1
    BY <1>1, <1>2
  <2> QED
    BY <2>1, <2>2, <1>1
<1>5. ASSUME NEW j \in 1 .. Len(s) - 1 PROVE (u \o v)[j] = s[IF j < i THEN j ELSE j + 1]
  <2>1. CASE j < i
    <3>1. j \in 1 .. i - 1 /\ j <= i - 1
      BY <2>1
    <3>2. (u \o v)[j] = u[j] /\ u[j] = s[j]
      BY <3>1, <1>1, <1>4
    <3> QED
      BY <2>1, <3>2
  <2>2. CASE j >= i
    <3>1. j - (i - 1) \in 1 .. Len(s) - i /\ i + (j - (i - 1)) = j + 1
      BY <2>2
    <3>2. v[j - (i - 1)] = s[j + 1]
      BY <3>1, <1>2
    <3>3. (u \o v)[j] = v[j - (i - 1)]
      BY <2>2, <1>4
    <3> QED
      BY <2>2, <3>2, <3>3
  <2>3. j < i \/ j >= i
    OBVIOUS
  <2> QED
    BY <2>1, <2>2, <2>3
<1>6. DOMAIN (u \o v) = 1 .. Len(s) - 1
  BY <1>4
<1> HIDE DEF u, v
<1> QED
  BY <1>3, <1>4, <1>5, <1>6, LeavingOut

LEMMA TailThins ==
    ASSUME NEW X, NEW s \in Seq(X), s # <<>>
    PROVE  1 \in DOMAIN s /\ Head(s) = s[1] /\ Tail(s) \in Seq(X) /\ Thinned(Tail(s), s, 1)
<1>1. 1 \in 1 .. Len(s) /\ Len(s) \in Nat /\ DOMAIN s = 1 .. Len(s)
  OBVIOUS
<1>2. Tail(s) \in Seq(X) /\ Len(Tail(s)) = Len(s) - 1 /\ Head(s) = s[1]
  OBVIOUS
<1>3. DOMAIN Tail(s) = 1 .. Len(s) - 1 /\ \A j \in 1 .. Len(s) - 1 : Tail(s)[j] = s[j + 1]
  BY <1>2
<1>4. \A j \in 1 .. Len(s) - 1 : Tail(s)[j] = s[IF j < 1 THEN j ELSE j + 1]
  BY <1>3
<1> QED
  BY <1>1, <1>2, <1>3, <1>4, LeavingOut

-----------------------------------------------------------------------------
(***************************************************************************)
(* What a packet does to an entry of the table.                            *)
(***************************************************************************)
Bounds(b, n, t) ==
    /\ t \in Pushes /\ b[t] \in Seqs /\ n[t] \in Parts
    /\ Len(sent[t]) \in Nat /\ Len(sent[t]) <= n[t]
Delivered(b, n, t, i) == [p |-> PacketOf(b, n, t, i), data |-> sent[t][i]]

Added(m, d) ==
    [npkts |-> m.npkts + 1, s_seq |-> m.s_seq,
     e_seq |-> IF d.p.marker THEN d.p.seq ELSE m.e_seq,
     fragments |-> [s \in DOMAIN m.fragments \cup {d.p.seq} |->
                       IF s = d.p.seq THEN Fragment(d) ELSE m.fragments[s]]]

LEMMA AddFragmentIs ==
    ASSUME NEW b, NEW n, NEW d, Gathered(b, n, d.p.ts, minfo[d.p.ts])
    PROVE  AddFragment(d) = Added(minfo[d.p.ts], d)
<1> DEFINE m == minfo[d.p.ts]
           F == [s \in DOMAIN m.fragments \cup {d.p.seq} |->
                    IF s = d.p.seq THEN Fragment(d) ELSE m.fragments[s]]
           q == d.p.marker
           z == d.p.seq
<1>1. m = [npkts |-> m.npkts, s_seq |-> m.s_seq, e_seq |-> m.e_seq, fragments |-> m.fragments]
  BY DEF Gathered
<1>2. AddFragment(d) = [m EXCEPT !.npkts = m.npkts + 1, !.fragments = F,
                                 !.e_seq = IF q THEN z ELSE m.e_seq]
  BY DEF AddFragment
<1>3. Added(m, d) = [npkts |-> m.npkts + 1, s_seq |-> m.s_seq,
                     e_seq |-> IF q THEN z ELSE m.e_seq, fragments |-> F]
  BY DEF Added
<1> HIDE DEF m, F, q, z
<1>4. AddFragment(d) = Added(m, d)
  BY <1>1, <1>2, <1>3
<1> QED
  BY <1>4 DEF m

LEMMA DeliveredIs ==
    ASSUME NEW b, NEW n, NEW t, NEW i
    PROVE  LET d == Delivered(b, n, t, i) IN
           /\ d.p.ts = t /\ d.p.seq = Num(b, t, i) /\ d.p.part = i
           /\ d.p.marker <=> n[t] > 1 /\ i \in {1, n[t]}
           /\ Fragment(d) = Sent(t, i)
  BY DEF Delivered, PacketOf, Fragment, Sent

LEMMA AddedGathered ==
    ASSUME NEW b, NEW n, NEW t, NEW m, Gathered(b, n, t, m), NEW i \in 1 .. Len(sent[t])
    PROVE  LET a == Added(m, Delivered(b, n, t, i)) IN
           /\ Gathered(b, n, t, a) /\ a.npkts = m.npkts + 1 /\ a.s_seq = m.s_seq
           /\ DOMAIN a.fragments = DOMAIN m.fragments \cup {Num(b, t, i)}
<1> DEFINE d == Delivered(b, n, t, i)
           a == Added(m, d)
           s0 == Num(b, t, i)
<1>1. d.p.seq = s0 /\ Fragment(d) = Sent(t, i)
  BY DeliveredIs
<1>2. a.npkts = m.npkts + 1 /\ a.s_seq = m.s_seq
  BY DEF Added
<1>3. a.fragments = [s \in DOMAIN m.fragments \cup {s0} |->
                        IF s = s0 THEN Sent(t, i) ELSE m.fragments[s]]
  BY <1>1 DEF Added
<1>4. a = [npkts |-> a.npkts, s_seq |-> a.s_seq, e_seq |-> a.e_seq, fragments |-> a.fragments]
  BY DEF Added
<1> HIDE DEF a, d, s0
<1>5. DOMAIN a.fragments = DOMAIN m.fragments \cup {s0}
  BY <1>3
<1>6. IsFiniteSet(DOMAIN a.fragments)
  BY <1>5, FS_AddElement DEF Gathered
<1>7. ASSUME NEW s \in DOMAIN a.fragments
      PROVE  \E k \in 1 .. Len(sent[t]) : s = Num(b, t, k) /\ a.fragments[s] = Sent(t, k)
  <2>1. CASE s = s0
    BY <2>1, <1>3, <1>5 DEF s0
  <2>2. CASE s # s0
    <3>1. s \in DOMAIN m.fragments /\ a.fragments[s] = m.fragments[s]
      BY <2>2, <1>3, <1>5
    <3> QED
      BY <3>1 DEF Gathered
  <2> QED
    BY <2>1, <2>2
<1>8. a.npkts \in Nat /\ t \in Pushes /\ n[t] > 1 /\ a.s_seq \in DOMAIN a.fragments
  BY <1>2, <1>5 DEF Gathered
<1>9. Gathered(b, n, t, a)
  BY <1>4, <1>6, <1>7, <1>8 DEF Gathered
<1>10. DOMAIN a.fragments = DOMAIN m.fragments \cup {Num(b, t, i)}
  BY <1>5 DEF s0
<1> QED
  BY <1>2, <1>9, <1>10 DEF a, d

LEMMA AddedExact ==
    ASSUME NEW b, NEW n, NEW t, NEW m, Bounds(b, n, t), Gathered(b, n, t, m), Exact(b, n, t, m),
           NEW i \in 1 .. Len(sent[t]), Num(b, t, i) \notin DOMAIN m.fragments
    PROVE  Exact(b, n, t, Added(m, Delivered(b, n, t, i)))
<1> DEFINE d == Delivered(b, n, t, i)
           a == Added(m, d)
           s0 == Num(b, t, i)
<1>1. d.p.seq = s0 /\ (d.p.marker <=> n[t] > 1 /\ i \in {1, n[t]})
  BY DeliveredIs
<1>2. a.npkts = m.npkts + 1 /\ a.s_seq = m.s_seq /\ DOMAIN a.fragments = DOMAIN m.fragments \cup {s0}
  BY AddedGathered
<1>3. a.e_seq = IF d.p.marker THEN s0 ELSE m.e_seq
  BY <1>1 DEF Added
<1>4. n[t] > 1 /\ n[t] \in 1 .. 3 /\ i \in 1 .. n[t] /\ i \in Parts /\ n[t] \in Parts
  BY DEF Gathered, Bounds, Parts
<1>b. b[t] \in Seqs
  BY DEF Bounds
<1> HIDE DEF a, d, s0
<1>5. a.npkts = Cardinality(DOMAIN a.fragments)
  <2>1. /\ IsFiniteSet(DOMAIN m.fragments) /\ s0 \notin DOMAIN m.fragments
        /\ m.npkts = Cardinality(DOMAIN m.fragments)
    BY DEF Gathered, Exact, s0
  <2>2. Cardinality(DOMAIN m.fragments \cup {s0}) = Cardinality(DOMAIN m.fragments) + 1
    BY <2>1, FS_AddElement
  <2> QED
    BY <1>2, <2>1, <2>2
<1>6. PICK x \in {1, n[t]} :
          /\ m.s_seq = Num(b, t, x)
          /\ \/ m.e_seq = InvalidSeq /\ Num(b, t, n[t] + 1 - x) \notin DOMAIN m.fragments
             \/ m.e_seq = Num(b, t, n[t] + 1 - x) /\ m.e_seq \in DOMAIN m.fragments
  BY DEF Exact
<1> DEFINE y == n[t] + 1 - x
<1>7. x \in Parts /\ y \in Parts /\ y \in {1, n[t]} /\ x # y /\ {x, y} = {1, n[t]}
  BY <1>4, <1>6 DEF Parts
<1>8. i # x
  BY <1>6 DEF Gathered, s0
<1> HIDE DEF y
<1>9. a.s_seq = Num(b, t, x)
  BY <1>2, <1>6
<1>10. \/ a.e_seq = InvalidSeq /\ Num(b, t, y) \notin DOMAIN a.fragments
       \/ a.e_seq = Num(b, t, y) /\ a.e_seq \in DOMAIN a.fragments
  <2>1. CASE i = y
    BY <2>1, <1>1, <1>2, <1>3, <1>4, <1>7 DEF s0
  <2>2. CASE i # y
    <3>1. a.e_seq = m.e_seq
      BY <2>2, <1>1, <1>3, <1>7, <1>8
    <3>2. Num(b, t, y) # s0
      BY <2>2, <1>4, <1>7, <1>b, NumsDiffer DEF s0
    <3> QED
      BY <3>1, <3>2, <1>2, <1>6 DEF y
  <2> QED
    BY <2>1, <2>2
<1>11. Exact(b, n, t, a)
  BY <1>5, <1>6, <1>9, <1>10 DEF Exact, y
<1> QED
  BY <1>11 DEF a, d

LEMMA PairSize ==
    ASSUME NEW a, NEW c, a # c
    PROVE  IsFiniteSet({a, c}) /\ Cardinality({a, c}) = 2
<1>1. IsFiniteSet({a}) /\ Cardinality({a}) = 1
  BY FS_Singleton
<1>2. IsFiniteSet({a} \cup {c})
  BY <1>1, FS_AddElement
<1>3. c \notin {a}
  OBVIOUS
<1>4. Cardinality({a} \cup {c}) = 1 + 1
  BY <1>1, <1>3, FS_AddElement
<1>5. {a} \cup {c} = {a, c}
  OBVIOUS
<1> QED
  BY <1>2, <1>4, <1>5

LEMMA TripleSize ==
    ASSUME NEW a, NEW c, NEW d, a # c, a # d, c # d
    PROVE  IsFiniteSet({a, c, d}) /\ Cardinality({a, c, d}) = 3
<1>1. IsFiniteSet({a, c}) /\ Cardinality({a, c}) = 2
  BY PairSize
<1>2. IsFiniteSet({a, c} \cup {d})
  BY <1>1, FS_AddElement
<1>3. d \notin {a, c}
  OBVIOUS
<1>4. Cardinality({a, c} \cup {d}) = 2 + 1
  BY <1>1, <1>3, FS_AddElement
<1>5. {a, c} \cup {d} = {a, c, d}
  OBVIOUS
<1> QED
  BY <1>2, <1>4, <1>5

\* The first packet of a push that the table hears of.
LEMMA NewExact ==
    ASSUME NEW b, NEW n, NEW t, Bounds(b, n, t), n[t] > 1, NEW i \in 1 .. Len(sent[t]), i \in {1, n[t]}
    PROVE  LET a == NewFragment(Delivered(b, n, t, i)) IN
           /\ Gathered(b, n, t, a) /\ Exact(b, n, t, a) /\ ~Complete(a)
           /\ a.s_seq = Num(b, t, i) /\ DOMAIN a.fragments = {Num(b, t, i)}
<1> DEFINE d == Delivered(b, n, t, i)
           a == NewFragment(d)
           s0 == Num(b, t, i)
<1>1. d.p.seq = s0 /\ Fragment(d) = Sent(t, i)
  BY DeliveredIs
<1>2. /\ a = [npkts |-> a.npkts, s_seq |-> a.s_seq, e_seq |-> a.e_seq, fragments |-> a.fragments]
      /\ a.npkts = 1 /\ a.s_seq = s0 /\ a.e_seq = InvalidSeq
      /\ a.fragments = [s \in {s0} |-> Sent(t, i)]
  BY <1>1 DEF NewFragment
<1>3. n[t] \in 2 .. 3 /\ n[t] + 1 - i \in {1, n[t]} /\ n[t] + 1 - i # i /\ n[t] + 1 - i \in Parts
      /\ i \in Parts /\ b[t] \in Seqs /\ n[t] + 1 - i \in Int
  BY DEF Bounds, Parts
<1> HIDE DEF a, d, s0
<1>4. DOMAIN a.fragments = {s0}
  BY <1>2
<1>5. IsFiniteSet({s0}) /\ Cardinality({s0}) = 1
  BY FS_Singleton
<1>6. \A s \in DOMAIN a.fragments : s = Num(b, t, i) /\ a.fragments[s] = Sent(t, i)
  BY <1>2, <1>4 DEF s0
<1>7. Gathered(b, n, t, a)
  <2>1. t \in Pushes /\ n[t] > 1
    BY DEF Bounds
  <2>2. a.npkts \in Nat /\ IsFiniteSet(DOMAIN a.fragments) /\ a.s_seq \in DOMAIN a.fragments
    BY <1>2, <1>4, <1>5
  <2>3. \A s \in DOMAIN a.fragments : \E k \in 1 .. Len(sent[t]) :
            s = Num(b, t, k) /\ a.fragments[s] = Sent(t, k)
    BY <1>6
  <2> QED
    BY <1>2, <2>1, <2>2, <2>3 DEF Gathered
<1>8. Num(b, t, n[t] + 1 - i) # s0
  BY <1>3, NumsDiffer DEF s0
<1>9. Exact(b, n, t, a)
  <2>1. a.npkts = Cardinality(DOMAIN a.fragments)
    BY <1>2, <1>4, <1>5
  <2>2. /\ a.s_seq = Num(b, t, i) /\ a.e_seq = InvalidSeq
        /\ Num(b, t, n[t] + 1 - i) \notin DOMAIN a.fragments
    BY <1>2, <1>4, <1>8 DEF s0
  <2> QED
    BY <2>1, <2>2 DEF Exact
<1>10. ~Complete(a)
  BY <1>2 DEF Complete
<1> QED
  BY <1>2, <1>4, <1>7, <1>9, <1>10 DEF a, d, s0

\* An entry is complete when it has every packet of its push.
LEMMA CompleteIs ==
    ASSUME NEW b, NEW n, NEW t, NEW m, Bounds(b, n, t), Gathered(b, n, t, m), Exact(b, n, t, m),
           Complete(m)
    PROVE  /\ Len(sent[t]) = n[t] /\ m.npkts = n[t] /\ n[t] \in 2 .. 3
           /\ DOMAIN m.fragments = {Num(b, t, k) : k \in 1 .. n[t]}
           /\ \A k \in 1 .. n[t] : m.fragments[Num(b, t, k)] = Sent(t, k)
<1> DEFINE D == DOMAIN m.fragments
           l == n[t]
<1>1. /\ l \in 2 .. 3 /\ l \in Parts /\ b[t] \in Seqs /\ SeqMod > 6 /\ SeqMod \in Nat
      /\ Len(sent[t]) \in 0 .. l
  BY RtpAssumption DEF Bounds, Gathered, Parts
<1>2. PICK x \in {1, l} : /\ m.s_seq = Num(b, t, x) /\ m.s_seq \in D
                          /\ m.e_seq = Num(b, t, l + 1 - x) /\ m.e_seq \in D
  BY DEF Exact, Complete, Gathered
<1>3. Num(b, t, 1) \in D /\ Num(b, t, l) \in D
  <2>1. CASE x = 1
    <3>1. l + 1 - x = l
      BY <1>1, <2>1
    <3> QED
      BY <2>1, <3>1, <1>2
  <2>2. CASE x = l
    <3>1. l + 1 - x = 1
      BY <1>1, <2>2
    <3> QED
      BY <2>2, <3>1, <1>2
  <2> QED
    BY <1>2, <2>1, <2>2
<1>4. \A s \in D : \E k \in 1 .. Len(sent[t]) : s = Num(b, t, k) /\ m.fragments[s] = Sent(t, k)
  BY DEF Gathered
<1>5. Len(sent[t]) = l
  <2>1. PICK k \in 1 .. Len(sent[t]) : Num(b, t, l) = Num(b, t, k)
    BY <1>3, <1>4
  <2>2. k \in Parts
    BY <1>1 DEF Parts
  <2>3. k = l
    BY <1>1, <2>1, <2>2, NumsDiffer
  <2> QED
    BY <1>1, <2>3
<1>6. m.npkts = Cardinality(D)
  BY DEF Exact
<1>7. Received(m) = Cardinality(D) /\ (Received(m) = l \/ Received(m) = SeqMod - l + 2)
  <2>1. Received(m) = IF x = 1 THEN l ELSE SeqMod - l + 2
    BY <1>1, <1>2, Span
  <2> QED
    BY <1>6, <2>1 DEF Complete
<1>8. \A k \in 1 .. l : Num(b, t, k) \in D => m.fragments[Num(b, t, k)] = Sent(t, k)
  <2> SUFFICES ASSUME NEW k \in 1 .. l, Num(b, t, k) \in D
               PROVE  m.fragments[Num(b, t, k)] = Sent(t, k)
    OBVIOUS
  <2>1. PICK j \in 1 .. Len(sent[t]) :
            Num(b, t, k) = Num(b, t, j) /\ m.fragments[Num(b, t, k)] = Sent(t, j)
    BY <1>4
  <2>2. k \in Parts /\ j \in Parts
    BY <1>1 DEF Parts
  <2> QED
    BY <1>1, <2>1, <2>2, NumsDiffer
<1>9. D \subseteq {Num(b, t, k) : k \in 1 .. l}
  BY <1>4, <1>5
<1> HIDE DEF D, l
<1>10. {Num(b, t, k) : k \in 1 .. l} \subseteq D /\ Cardinality(D) = l
  <2>1. CASE l = 2
    <3>1. D = {Num(b, t, 1), Num(b, t, 2)}
      <4>1. 1 .. l = {1, 2}
        BY <2>1
      <4> QED
        BY <2>1, <4>1, <1>3, <1>9
    <3>2. Num(b, t, 1) # Num(b, t, 2)
      BY <1>1, NumsDiffer DEF Parts
    <3>3. Cardinality(D) = 2
      BY <3>1, <3>2, PairSize
    <3>4. 1 .. l = {1, 2}
      BY <2>1
    <3> QED
      BY <2>1, <3>1, <3>3, <3>4
  <2>2. CASE l = 3
    <3>1. 1 .. l = {1, 2, 3}
      BY <2>2
    <3>2. Num(b, t, 1) # Num(b, t, 2) /\ Num(b, t, 1) # Num(b, t, 3) /\ Num(b, t, 2) # Num(b, t, 3)
      BY <1>1, NumsDiffer DEF Parts
    <3>3. CASE Num(b, t, 2) \notin D
      <4>1. D = {Num(b, t, 1), Num(b, t, 3)}
        BY <2>2, <3>1, <3>3, <1>3, <1>9
      <4>2. Cardinality(D) = 2
        BY <4>1, <3>2, PairSize
      <4> QED
        BY <4>2, <2>2, <1>1, <1>7
    <3>4. CASE Num(b, t, 2) \in D
      <4>1. D = {Num(b, t, 1), Num(b, t, 2), Num(b, t, 3)}
        BY <2>2, <3>1, <3>4, <1>3, <1>9
      <4>2. Cardinality(D) = 3
        BY <4>1, <3>2, TripleSize
      <4> QED
        BY <4>1, <4>2, <2>2, <3>1
    <3> QED
      BY <3>3, <3>4
  <2>3. l = 2 \/ l = 3
    BY <1>1
  <2> QED
    BY <2>1, <2>2, <2>3
<1>11. D = {Num(b, t, k) : k \in 1 .. l}
  BY <1>9, <1>10
<1>12. \A k \in 1 .. l : m.fragments[Num(b, t, k)] = Sent(t, k)
  BY <1>8, <1>10
<1> QED
  BY <1>1, <1>5, <1>6, <1>10, <1>11, <1>12 DEF D, l

\* f from its k-th element on, and then what comes before it.
LEMMA TurnedIs ==
    ASSUME NEW X, NEW f \in Seq(X), NEW g \in Seq(X), Len(g) = Len(f), NEW k \in 1 .. Len(f),
           \A i \in 1 .. Len(f) :
              g[i] = IF i <= Len(f) - k + 1 THEN f[k + i - 1] ELSE f[i - (Len(f) - k + 1)]
    PROVE  Turned(f, k, g)
<1> DEFINE l == Len(f)
           u == SubSeq(f, k, l)
           v == SubSeq(f, 1, k - 1)
<1>0. l \in Nat /\ k \in 1 .. l /\ DOMAIN f = 1 .. l /\ \A i \in 1 .. l : f[i] \in X
  OBVIOUS
<1>g. /\ g \in Seq(X) /\ Len(g) = l
      /\ \A i \in 1 .. l : g[i] = IF i <= l - k + 1 THEN f[k + i - 1] ELSE f[i - (l - k + 1)]
  OBVIOUS
<1> HIDE DEF l
<1>1. u \in Seq(X) /\ Len(u) = l - k + 1 /\ \A j \in 1 .. l - k + 1 : u[j] = f[k + j - 1]
  <2>1. k \in Int /\ l \in Int /\ k <= l /\ \A j \in k .. l : f[j] \in X
    BY <1>0
  <2>2. /\ u \in Seq(X) /\ Len(u) = IF k <= l THEN l - k + 1 ELSE 0
        /\ \A j \in 1 .. l - k + 1 : u[j] = f[k + j - 1]
    BY <2>1, SubSeqProperties
  <2> HIDE DEF u
  <2> QED
    BY <2>1, <2>2
<1>2. v \in Seq(X) /\ Len(v) = k - 1 /\ \A j \in 1 .. k - 1 : v[j] = f[j]
  <2>1. k - 1 \in Int /\ k - 1 >= 0 /\ \A j \in 1 .. k - 1 : f[j] \in X
    BY <1>0
  <2>2. /\ v \in Seq(X) /\ Len(v) = IF 1 <= k - 1 THEN k - 1 - 1 + 1 ELSE 0
        /\ \A j \in 1 .. k - 1 - 1 + 1 : v[j] = f[1 + j - 1]
    BY <2>1, SubSeqProperties
  <2> HIDE DEF v
  <2>3. Len(v) = k - 1
    BY <2>1, <2>2
  <2>4. ASSUME NEW j \in 1 .. k - 1 PROVE v[j] = f[j]
    <3>1. j \in 1 .. k - 1 - 1 + 1 /\ 1 + j - 1 = j
      BY <2>1
    <3> QED
      BY <3>1, <2>2
  <2> QED
    BY <2>2, <2>3, <2>4
<1> HIDE DEF u, v
<1>3. /\ u \o v \in Seq(X) /\ Len(u \o v) = l
      /\ \A j \in 1 .. l : (u \o v)[j] = IF j <= l - k + 1 THEN u[j] ELSE v[j - (l - k + 1)]
  <2>0. u \in Seq(X) /\ v \in Seq(X)
    BY <1>1, <1>2
  <2>1. /\ u \o v \in Seq(X) /\ Len(u \o v) = Len(u) + Len(v)
        /\ \A j \in 1 .. Len(u) + Len(v) :
              (u \o v)[j] = IF j <= Len(u) THEN u[j] ELSE v[j - Len(u)]
    BY ONLY <2>0, ConcatProperties, Zenon
  <2>2. Len(u) + Len(v) = l
    BY <1>0, <1>1, <1>2
  <2> QED
    BY <2>1, <2>2, <1>1
<1>4. ASSUME NEW j \in 1 .. l PROVE (u \o v)[j] = g[j]
  <2>1. CASE j <= l - k + 1
    <3>1. j \in 1 .. l - k + 1
      BY <1>0, <2>1
    <3>2. u[j] = f[k + j - 1] /\ (u \o v)[j] = u[j]
      BY <3>1, <2>1, <1>1, <1>3
    <3> QED
      BY <2>1, <3>2, <1>g
  <2>2. CASE ~(j <= l - k + 1)
    <3>1. j - (l - k + 1) \in 1 .. k - 1
      BY <1>0, <2>2
    <3>2. v[j - (l - k + 1)] = f[j - (l - k + 1)] /\ (u \o v)[j] = v[j - (l - k + 1)]
      BY <3>1, <2>2, <1>2, <1>3
    <3> QED
      BY <2>2, <3>2, <1>g
  <2> QED
    BY <2>1, <2>2
<1>5. u \o v = g
  BY <1>3, <1>4, <1>g, SeqEqual
<1> QED
  BY <1>5 DEF Turned, u, v, l

LEMMA PushedIs ==
    ASSUME NEW t, Len(sent[t]) \in Nat, DOMAIN sent[t] = 1 .. Len(sent[t])
    PROVE  Pushed(t) = [i \in 1 .. Len(sent[t]) |-> Sent(t, i)]
  BY DEF Pushed, Sent

\* A whole push comes out in the order of its numbers: in the order it was cut
\* in, or, if they went through 0, turned.
LEMMA AssembledEntire ==
    ASSUME NEW b, NEW n, NEW t, NEW m, Bounds(b, n, t), DOMAIN sent[t] = 1 .. Len(sent[t]),
           Gathered(b, n, t, m), Exact(b, n, t, m), Complete(m)
    PROVE  Entire(Assembled(m), n, t)
<1> DEFINE D == DOMAIN m.fragments
           l == n[t]
           f == Assembled(m)
           S(i) == Sent(t, i)
           N(i) == Num(b, t, i)
<1>1. /\ Len(sent[t]) = l /\ m.npkts = l /\ l \in 2 .. 3
      /\ D = {N(i) : i \in 1 .. l}
      /\ \A i \in 1 .. l : m.fragments[N(i)] = S(i)
  BY CompleteIs
<1>2. Cardinality(D) = l
  BY <1>1 DEF Exact
<1>3. /\ \E X : f \in Seq(X)
      /\ Len(f) = l /\ DOMAIN f = 1 .. l
      /\ \A i \in 1 .. l : f[i] = m.fragments[Ranked(D, i)]
  <2>0. m.npkts = l /\ l \in 2 .. 3
    BY <1>1
  <2>1. m.npkts \in Nat /\ m.npkts = l /\ \A i \in 1 .. l : i <= Cardinality(D)
    BY <2>0, <1>2
  <2>2. /\ \E X : f \in Seq(X)
        /\ Len(f) = m.npkts /\ DOMAIN f = 1 .. m.npkts
        /\ \A i \in 1 .. m.npkts : i <= Cardinality(D) => f[i] = m.fragments[Ranked(D, i)]
    BY <2>1, AssembledValue
  <2> HIDE DEF f, D, l
  <2>3. \A i \in 1 .. l : f[i] = m.fragments[Ranked(D, i)]
    BY <2>1, <2>2
  <2>4. Len(f) = l /\ DOMAIN f = 1 .. l
    BY <2>1, <2>2
  <2> QED
    BY <2>2, <2>3, <2>4, Zenon
<1>4. Pushed(t) = [i \in 1 .. l |-> S(i)]
  BY <1>1, PushedIs
<1>5. /\ \A i \in 1 .. l : N(i) = IF b[t] + i - 1 < SeqMod THEN b[t] + i - 1 ELSE b[t] + i - 1 - SeqMod
      /\ \A i \in 1 .. l : N(i) \in Nat
      /\ b[t] \in 0 .. SeqMod - 1 /\ SeqMod \in Nat /\ SeqMod > 6
  <2>1. b[t] \in Seqs /\ SeqMod \in Nat /\ SeqMod > 6
    BY RtpAssumption DEF Bounds
  <2> SUFFICES ASSUME NEW i \in 1 .. l
               PROVE  /\ N(i) = IF b[t] + i - 1 < SeqMod THEN b[t] + i - 1 ELSE b[t] + i - 1 - SeqMod
                      /\ N(i) \in Nat
    BY <2>1 DEF Seqs
  <2>2. i \in Parts
    BY <1>1 DEF Parts
  <2> QED
    BY <2>1, <2>2, NumValue DEF Seqs
<1> HIDE DEF D, l, f, S, N
<1>6. \A i, j \in 1 .. l : Ranked(D, i) = N(j) => f[i] = S(j)
  BY <1>1, <1>3
\* In the order they were cut in.
<1>7. ASSUME \A i \in 1 .. l : f[i] = S(i)
      PROVE  f = Pushed(t)
  <2>1. PICK X : f \in Seq(X)
    BY <1>3
  <2>2. f = [i \in 1 .. l |-> f[i]]
    BY <1>3, <2>1
  <2> QED
    BY <1>4, <1>7, <2>2
\* The k-th came first.
<1>8. ASSUME NEW k \in 1 .. l,
             \A i \in 1 .. l : S(i) = IF i <= l - k + 1 THEN f[k + i - 1] ELSE f[i - (l - k + 1)]
      PROVE  \E j \in 1 .. Len(f) : Turned(f, j, Pushed(t))
  <2> DEFINE Y == {f[i] : i \in 1 .. l} \cup {S(i) : i \in 1 .. l}
             g == Pushed(t)
  <2>1. /\ f = [i \in 1 .. l |-> f[i]] /\ \A i \in 1 .. l : f[i] \in Y
        /\ l \in Nat
    BY <1>1, <1>3
  <2>2. g = [i \in 1 .. l |-> g[i]] /\ \A i \in 1 .. l : g[i] = S(i) /\ g[i] \in Y
    BY <1>4
  <2> HIDE DEF Y, g
  <2>3. f \in Seq(Y) /\ Len(f) = l
    BY <2>1, MakesSeq
  <2>4. g \in Seq(Y) /\ Len(g) = l
    BY <2>1, <2>2, MakesSeq
  <2>5. \A i \in 1 .. Len(f) :
           g[i] = IF i <= Len(f) - k + 1 THEN f[k + i - 1] ELSE f[i - (Len(f) - k + 1)]
    BY <1>8, <2>2, <2>3
  <2>6. Turned(f, k, g)
    BY <2>3, <2>4, <2>5, TurnedIs
  <2> QED
    BY <2>3, <2>6 DEF g
<1>9. f = Pushed(t) \/ \E j \in 1 .. Len(f) : Turned(f, j, Pushed(t))
  <2>1. CASE l = 2
    <3>1. D = {N(1), N(2)} /\ N(1) \in Nat /\ N(2) \in Nat
      <4>1. 1 .. l = {1, 2}
        BY <2>1
      <4> QED
        BY <4>1, <1>1, <1>5
    <3>2. CASE N(1) < N(2)
      <4>1. Ranked(D, 1) = N(1) /\ Ranked(D, 2) = N(2)
        BY <3>1, <3>2, RankedPair
      <4>2. f[1] = S(1) /\ f[2] = S(2)
        BY <4>1, <2>1, <1>6
      <4>3. \A i \in 1 .. l : i = 1 \/ i = 2
        BY <2>1
      <4>4. \A i \in 1 .. l : f[i] = S(i)
        BY <4>2, <4>3
      <4> QED
        BY <4>4, <1>7
    <3>3. CASE N(2) < N(1)
      <4>1. D = {N(2), N(1)}
        BY <3>1
      <4>2. Ranked(D, 1) = N(2) /\ Ranked(D, 2) = N(1)
        <5>1. Ranked({N(2), N(1)}, 1) = N(2) /\ Ranked({N(2), N(1)}, 2) = N(1)
          BY <3>1, <3>3, RankedPair
        <5> QED
          BY <4>1, <5>1, Zenon
      <4>3. f[1] = S(2) /\ f[2] = S(1)
        BY <4>2, <2>1, <1>6
      <4>4. ASSUME NEW i \in 1 .. l
            PROVE  S(i) = IF i <= l - 2 + 1 THEN f[2 + i - 1] ELSE f[i - (l - 2 + 1)]
        <5>1. CASE i = 1
          <6>1. i <= l - 2 + 1 /\ 2 + i - 1 = 2
            BY <5>1, <2>1
          <6> QED
            BY <5>1, <6>1, <4>3
        <5>2. CASE i = 2
          <6>1. ~(i <= l - 2 + 1) /\ i - (l - 2 + 1) = 1
            BY <5>2, <2>1
          <6> QED
            BY <5>2, <6>1, <4>3
        <5> QED
          BY <2>1, <5>1, <5>2
      <4>5. 2 \in 1 .. l
        BY <2>1
      <4> QED
        BY <4>4, <4>5, <1>8, Zenon
    <3>4. N(1) < N(2) \/ N(2) < N(1)
      BY <2>1, <1>5
    <3> QED
      BY <3>2, <3>3, <3>4
  <2>2. CASE l = 3
    <3>1. D = {N(1), N(2), N(3)} /\ N(1) \in Nat /\ N(2) \in Nat /\ N(3) \in Nat
      <4>1. 1 .. l = {1, 2, 3}
        BY <2>2
      <4> QED
        BY <4>1, <1>1, <1>5
    <3>2. CASE N(1) < N(2) /\ N(2) < N(3)
      <4>1. Ranked(D, 1) = N(1) /\ Ranked(D, 2) = N(2) /\ Ranked(D, 3) = N(3)
        <5>1. /\ Ranked({N(1), N(2), N(3)}, 1) = N(1) /\ Ranked({N(1), N(2), N(3)}, 2) = N(2)
              /\ Ranked({N(1), N(2), N(3)}, 3) = N(3)
          <6> DEFINE x == N(1)
                     y == N(2)
                     z == N(3)
          <6>1. x \in Nat /\ y \in Nat /\ z \in Nat /\ x < y /\ y < z
            BY <3>1, <3>2
          <6> HIDE DEF x, y, z
          <6>2. Ranked({x, y, z}, 1) = x /\ Ranked({x, y, z}, 2) = y /\ Ranked({x, y, z}, 3) = z
            BY ONLY <6>1, RankedTriple
          <6> QED
            BY <6>2 DEF x, y, z
        <5> QED
          BY <3>1, <5>1, Zenon
      <4>2. f[1] = S(1) /\ f[2] = S(2) /\ f[3] = S(3)
        BY <4>1, <2>2, <1>6
      <4>3. \A i \in 1 .. l : i = 1 \/ i = 2 \/ i = 3
        BY <2>2
      <4>4. \A i \in 1 .. l : f[i] = S(i)
        BY <4>2, <4>3
      <4> QED
        BY <4>4, <1>7
    <3>3. CASE N(3) < N(1) /\ N(1) < N(2)
      <4>1. D = {N(3), N(1), N(2)}
        BY <3>1
      <4>2. Ranked(D, 1) = N(3) /\ Ranked(D, 2) = N(1) /\ Ranked(D, 3) = N(2)
        <5>1. /\ Ranked({N(3), N(1), N(2)}, 1) = N(3) /\ Ranked({N(3), N(1), N(2)}, 2) = N(1)
              /\ Ranked({N(3), N(1), N(2)}, 3) = N(2)
          <6> DEFINE x == N(3)
                     y == N(1)
                     z == N(2)
          <6>1. x \in Nat /\ y \in Nat /\ z \in Nat /\ x < y /\ y < z
            BY <3>1, <3>3
          <6> HIDE DEF x, y, z
          <6>2. Ranked({x, y, z}, 1) = x /\ Ranked({x, y, z}, 2) = y /\ Ranked({x, y, z}, 3) = z
            BY ONLY <6>1, RankedTriple
          <6> QED
            BY <6>2 DEF x, y, z
        <5> QED
          BY <4>1, <5>1, Zenon
      <4>3. f[1] = S(3) /\ f[2] = S(1) /\ f[3] = S(2)
        BY <4>2, <2>2, <1>6
      <4>4. ASSUME NEW i \in 1 .. l
            PROVE  S(i) = IF i <= l - 2 + 1 THEN f[2 + i - 1] ELSE f[i - (l - 2 + 1)]
        <5>1. CASE i = 1
          <6>1. i <= l - 2 + 1 /\ 2 + i - 1 = 2
            BY <5>1, <2>2
          <6> QED
            BY <5>1, <6>1, <4>3
        <5>2. CASE i = 2
          <6>1. i <= l - 2 + 1 /\ 2 + i - 1 = 3
            BY <5>2, <2>2
          <6> QED
            BY <5>2, <6>1, <4>3
        <5>3. CASE i = 3
          <6>1. ~(i <= l - 2 + 1) /\ i - (l - 2 + 1) = 1
            BY <5>3, <2>2
          <6> QED
            BY <5>3, <6>1, <4>3
        <5> QED
          BY <2>2, <5>1, <5>2, <5>3
      <4>5. 2 \in 1 .. l
        BY <2>2
      <4> QED
        BY <4>4, <4>5, <1>8, Zenon
    <3>4. CASE N(2) < N(3) /\ N(3) < N(1)
      <4>1. D = {N(2), N(3), N(1)}
        BY <3>1
      <4>2. Ranked(D, 1) = N(2) /\ Ranked(D, 2) = N(3) /\ Ranked(D, 3) = N(1)
        <5>1. /\ Ranked({N(2), N(3), N(1)}, 1) = N(2) /\ Ranked({N(2), N(3), N(1)}, 2) = N(3)
              /\ Ranked({N(2), N(3), N(1)}, 3) = N(1)
          <6> DEFINE x == N(2)
                     y == N(3)
                     z == N(1)
          <6>1. x \in Nat /\ y \in Nat /\ z \in Nat /\ x < y /\ y < z
            BY <3>1, <3>4
          <6> HIDE DEF x, y, z
          <6>2. Ranked({x, y, z}, 1) = x /\ Ranked({x, y, z}, 2) = y /\ Ranked({x, y, z}, 3) = z
            BY ONLY <6>1, RankedTriple
          <6> QED
            BY <6>2 DEF x, y, z
        <5> QED
          BY <4>1, <5>1, Zenon
      <4>3. f[1] = S(2) /\ f[2] = S(3) /\ f[3] = S(1)
        BY <4>2, <2>2, <1>6
      <4>4. ASSUME NEW i \in 1 .. l
            PROVE  S(i) = IF i <= l - 3 + 1 THEN f[3 + i - 1] ELSE f[i - (l - 3 + 1)]
        <5>1. CASE i = 1
          <6>1. i <= l - 3 + 1 /\ 3 + i - 1 = 3
            BY <5>1, <2>2
          <6> QED
            BY <5>1, <6>1, <4>3
        <5>2. CASE i = 2
          <6>1. ~(i <= l - 3 + 1) /\ i - (l - 3 + 1) = 1
            BY <5>2, <2>2
          <6> QED
            BY <5>2, <6>1, <4>3
        <5>3. CASE i = 3
          <6>1. ~(i <= l - 3 + 1) /\ i - (l - 3 + 1) = 2
            BY <5>3, <2>2
          <6> QED
            BY <5>3, <6>1, <4>3
        <5> QED
          BY <2>2, <5>1, <5>2, <5>3
      <4>5. 3 \in 1 .. l
        BY <2>2
      <4> QED
        BY <4>4, <4>5, <1>8, Zenon
    <3>5. (N(1) < N(2) /\ N(2) < N(3)) \/ (N(3) < N(1) /\ N(1) < N(2)) \/ (N(2) < N(3) /\ N(3) < N(1))
      <4>1. 1 \in 1 .. l /\ 2 \in 1 .. l /\ 3 \in 1 .. l
        BY <2>2
      <4>2. /\ N(1) = IF b[t] < SeqMod THEN b[t] ELSE b[t] - SeqMod
            /\ N(2) = IF b[t] + 1 < SeqMod THEN b[t] + 1 ELSE b[t] + 1 - SeqMod
            /\ N(3) = IF b[t] + 2 < SeqMod THEN b[t] + 2 ELSE b[t] + 2 - SeqMod
        BY <4>1, <1>5
      <4> QED
        BY <4>2, <1>5
    <3> QED
      BY <3>2, <3>3, <3>4, <3>5
  <2> QED
    BY <1>1, <2>1, <2>2
<1> QED
  BY <1>1, <1>9 DEF Entire, f, l

-----------------------------------------------------------------------------
(***************************************************************************)
(* A packet arrives: the oldest, one that overtakes, or one of which a     *)
(* copy stays under way.                                                   *)
(***************************************************************************)
Taken(i) ==
    /\ i \in DOMAIN air /\ PacketHandler(air[i])
    /\ UNCHANGED <<seq, ts, outbox, sent, source, lost>>
    /\ faults' \in Nat /\ doubled \subseteq doubled' /\ late \subseteq late'
    /\ air' \in Seq(Packed)
    /\ Thinned(air', air, i) \/ (air' = air /\ air[i].p.ts \in doubled')
    /\ i = 1 \/ air[i].p.ts \in late' \cup doubled'

LEMMA ReceiveTakes ==
    ASSUME NEW b, NEW n, Counts(b, n), Dispatcher
    PROVE  Taken(1)
<1>1. air \in Seq(Packed) /\ air # <<>> /\ PacketHandler(Head(air)) /\ air' = Tail(air)
      /\ UNCHANGED <<seq, ts, outbox, sent, source, lost, faults, late, doubled>> /\ faults \in Nat
  BY DEF Counts, Dispatcher, Receive, ghostsRtp
<1>2. 1 \in DOMAIN air /\ Head(air) = air[1] /\ Tail(air) \in Seq(Packed) /\ Thinned(Tail(air), air, 1)
  BY <1>1, TailThins
<1> QED
  BY <1>1, <1>2 DEF Taken

LEMMA OvertakeTakes ==
    ASSUME NEW b, NEW n, Counts(b, n), NEW i \in DOMAIN air, Overtake(i), UNCHANGED <<sent, source>>
    PROVE  Taken(i) /\ late' # {}
<1>1. /\ air \in Seq(Packed) /\ PacketHandler(air[i]) /\ air' = Without(air, i) /\ i \in 2 .. Len(air)
      /\ faults \in Nat /\ faults > 0 /\ faults' = faults - 1
      /\ late' = late \cup {air[j].p.ts : j \in 1 .. i}
      /\ UNCHANGED <<seq, ts, outbox, sent, source, lost, doubled>>
  BY DEF Counts, Overtake
<1>2. i \in 1 .. Len(air)
  BY <1>1
<1>3. Without(air, i) \in Seq(Packed) /\ Thinned(Without(air, i), air, i)
  BY <1>1, <1>2, WithoutThins
<1>4. air[i].p.ts \in late'
  BY <1>1
<1>5. faults' \in Nat
  BY <1>1
<1> QED
  BY <1>1, <1>3, <1>4, <1>5 DEF Taken

LEMMA DoubleTakes ==
    ASSUME NEW b, NEW n, Counts(b, n), NEW i \in DOMAIN air, Double(i), UNCHANGED <<sent, source>>
    PROVE  Taken(i) /\ (i # 1 => late' # {})
<1>1. /\ air \in Seq(Packed) /\ PacketHandler(air[i]) /\ air' = air /\ i \in 1 .. Len(air)
      /\ faults \in Nat /\ faults > 0 /\ faults' = faults - 1
      /\ late' = late \cup {air[j].p.ts : j \in 1 .. i - 1}
      /\ doubled' = doubled \cup {air[i].p.ts}
      /\ UNCHANGED <<seq, ts, outbox, sent, source, lost>>
  BY DEF Counts, Double
<1>2. ASSUME i # 1 PROVE late' # {}
  <2>1. 1 \in 1 .. i - 1
    BY <1>1, <1>2
  <2> QED
    BY <1>1, <2>1
<1>3. faults' \in Nat
  BY <1>1
<1> QED
  BY <1>1, <1>2, <1>3 DEF Taken

\* What is known of a push.
LEMMA PushBounds ==
    ASSUME NEW b, NEW n, Reader, Counts(b, n), ToSend(b, n), NEW t \in Pushes
    PROVE  Bounds(b, n, t) /\ DOMAIN sent[t] = 1 .. Len(sent[t]) /\ sent[t] \in Seq(Nat)
<1>1. /\ sent \in Seq(Seq(Nat)) /\ ts \in Nat /\ source \in {"stream", "local"}
      /\ source = "local" => ts = 1
      /\ source = "stream" => Len(sent) = ts - 1
  BY DEF Reader, Counts
<1>2. t \in 1 .. Len(sent)
  BY <1>1 DEF Pushes
<1>3. sent[t] \in Seq(Nat)
  BY <1>1, <1>2
<1>4. b[t] \in Seqs /\ n[t] \in Parts /\ Len(sent[t]) <= n[t]
  BY DEF Counts, ToSend
<1>5. DOMAIN sent[t] = 1 .. Len(sent[t]) /\ Len(sent[t]) \in Nat
  BY <1>3
<1> QED
  BY <1>3, <1>4, <1>5 DEF Bounds

LEMMA AirIs ==
    ASSUME NEW b, NEW n, Reader, StreamInv(b, n), NEW i \in DOMAIN air
    PROVE  LET t == air[i].p.ts
               k == air[i].p.part
           IN  /\ t \in Pushes /\ k \in 1 .. Len(sent[t])
               /\ Bounds(b, n, t) /\ DOMAIN sent[t] = 1 .. Len(sent[t])
               /\ air[i] = Delivered(b, n, t, k) /\ air[i].p.seq = Num(b, t, k)
               /\ \A j \in DOMAIN air \ {i} : air[j].p.ts = t =>
                     air[j].p.part # k /\ air[j].p.seq # Num(b, t, k)
<1> DEFINE t == air[i].p.ts
           k == air[i].p.part
<1>1. /\ Counts(b, n) /\ ToSend(b, n) /\ UnderWay(b, n) /\ air \in Seq(Packed)
  BY DEF StreamInv, Counts
<1>2. \A j \in DOMAIN air :
          /\ air[j].p.ts \in Pushes /\ air[j].p.part \in 1 .. Len(sent[air[j].p.ts])
          /\ air[j] = Delivered(b, n, air[j].p.ts, air[j].p.part)
          /\ air[j].p.part \in Nat /\ air[j].p.ts \in Nat
  BY <1>1 DEF UnderWay, Delivered, Packed, Packet
<1>3. /\ t \in Pushes /\ k \in 1 .. Len(sent[t]) /\ air[i] = Delivered(b, n, t, k)
  BY <1>2
<1>4. Bounds(b, n, t) /\ DOMAIN sent[t] = 1 .. Len(sent[t])
  BY <1>1, <1>3, PushBounds
<1>5. air[i].p.seq = Num(b, t, k)
  BY <1>3, DeliveredIs
<1>6. ASSUME NEW j \in DOMAIN air \ {i}, air[j].p.ts = t
      PROVE  air[j].p.part # k /\ air[j].p.seq # Num(b, t, k)
  <2> DEFINE q == air[j].p.part
  <2>1. air[j].p.part # air[i].p.part
    <3>1. i \in Nat /\ j \in Nat /\ (i < j \/ j < i)
      BY <1>1
    <3>2. /\ air[i].p.ts \in Nat /\ air[i].p.part \in Nat
          /\ air[j].p.ts \in Nat /\ air[j].p.part \in Nat /\ air[j].p.ts = air[i].p.ts
      BY <1>2, <1>6
    <3>3. i < j => air[i].p.ts < air[j].p.ts \/ air[i].p.part < air[j].p.part
      BY <1>1 DEF UnderWay
    <3>4. j < i => air[j].p.ts < air[i].p.ts \/ air[j].p.part < air[i].p.part
      BY <1>1 DEF UnderWay
    <3> QED
      BY <3>1, <3>2, <3>3, <3>4
  <2>2. air[j] = Delivered(b, n, t, q) /\ q \in 1 .. Len(sent[t])
    BY <1>2, <1>6
  <2>3. air[j].p.seq = Num(b, t, q)
    BY <2>2, DeliveredIs
  <2>4. q \in Parts /\ k \in Parts /\ b[t] \in Seqs
    BY <1>3, <1>4, <2>2 DEF Bounds, Parts
  <2> QED
    BY <2>1, <2>3, <2>4, NumsDiffer
<1> QED
  BY <1>3, <1>4, <1>5, <1>6

\* The four things packet_handler() may do with it.
Completes(t, m) ==
    /\ t \in DOMAIN minfo /\ Complete(m) /\ t \notin DOMAIN minfo'
    /\ handed' = Append(handed, Assembled(m)) /\ frames' = Append(frames, Assembled(m))
Adds(t, m) ==
    /\ t \in DOMAIN minfo /\ ~Complete(m) /\ t \in DOMAIN minfo' /\ minfo'[t] = m
    /\ UNCHANGED <<frames, handed>>
Starts(t, m) ==
    /\ t \notin DOMAIN minfo /\ t \in DOMAIN minfo' /\ minfo'[t] = m
    /\ UNCHANGED <<frames, handed>>
Single(t, f) ==
    /\ t \notin DOMAIN minfo /\ t \notin DOMAIN minfo'
    /\ handed' = Append(handed, f) /\ frames' = Append(frames, f)

LEMMA HandlerDoes ==
    ASSUME NEW b, NEW n, Reader, StreamInv(b, n), NEW i, Taken(i)
    PROVE  LET t == air[i].p.ts
               k == air[i].p.part
               d == Delivered(b, n, t, k)
           IN  /\ \A u : u # t => (u \in DOMAIN minfo' <=> u \in DOMAIN minfo)
               /\ \A u \in DOMAIN minfo : u # t => minfo'[u] = minfo[u]
               /\ \/ Completes(t, Added(minfo[t], d))
                  \/ Adds(t, Added(minfo[t], d))
                  \/ n[t] > 1 /\ k \in {1, n[t]} /\ Starts(t, NewFragment(d))
                  \/ ~(n[t] > 1 /\ k \in {1, n[t]}) /\ Single(t, <<Sent(t, k)>>)
<1> DEFINE t == air[i].p.ts
           k == air[i].p.part
           d == Delivered(b, n, t, k)
<1>1. i \in DOMAIN air /\ PacketHandler(air[i])
  BY DEF Taken
<1>2. air[i] = d
  BY <1>1, AirIs
<1>3. d.p.ts = t /\ (d.p.marker <=> n[t] > 1 /\ k \in {1, n[t]}) /\ Fragment(d) = Sent(t, k)
  BY DeliveredIs
<1>4. ASSUME t \in DOMAIN minfo PROVE AddFragment(d) = Added(minfo[t], d)
  <2>1. Gathered(b, n, d.p.ts, minfo[d.p.ts])
    BY <1>3, <1>4 DEF StreamInv, Table
  <2> QED
    BY <2>1, <1>3, AddFragmentIs
<1> HIDE DEF d, t, k
<1>5. PacketHandler(d)
  BY <1>1, <1>2
<1>6. \/ /\ Known(t) /\ Complete(AddFragment(d))
         /\ ReturnFrame(Assembled(AddFragment(d)))
         /\ minfo' = Restrict(minfo, DOMAIN minfo \ {t})
      \/ /\ Known(t) /\ ~Complete(AddFragment(d))
         /\ minfo' = [minfo EXCEPT ![t] = AddFragment(d)]
         /\ UNCHANGED <<frames, handed>>
      \/ /\ ~Known(t) /\ d.p.marker
         /\ minfo' = [x \in DOMAIN minfo \cup {t} |-> IF x = t THEN NewFragment(d) ELSE minfo[x]]
         /\ UNCHANGED <<frames, handed>>
      \/ ~Known(t) /\ ~d.p.marker /\ ReturnFrame(<<Fragment(d)>>) /\ UNCHANGED minfo
  <2>1. PacketHandler(d) <=>
          \/ /\ Known(d.p.ts) /\ Complete(AddFragment(d))
             /\ ReturnFrame(Assembled(AddFragment(d)))
             /\ minfo' = Restrict(minfo, DOMAIN minfo \ {d.p.ts})
          \/ /\ Known(d.p.ts) /\ ~Complete(AddFragment(d))
             /\ minfo' = [minfo EXCEPT ![d.p.ts] = AddFragment(d)]
             /\ UNCHANGED <<frames, handed>>
          \/ /\ ~Known(d.p.ts) /\ d.p.marker
             /\ minfo' = [x \in DOMAIN minfo \cup {d.p.ts} |->
                             IF x = d.p.ts THEN NewFragment(d) ELSE minfo[x]]
             /\ UNCHANGED <<frames, handed>>
          \/ ~Known(d.p.ts) /\ ~d.p.marker /\ ReturnFrame(<<Fragment(d)>>) /\ UNCHANGED minfo
    BY Zenon DEF PacketHandler
  <2>2. d.p.ts = t
    BY <1>3
  <2> QED
    BY <1>5, <2>1, <2>2, Zenon
<1> DEFINE Others == /\ \A u : u # t => (u \in DOMAIN minfo' <=> u \in DOMAIN minfo)
                     /\ \A u \in DOMAIN minfo : u # t => minfo'[u] = minfo[u]
           Result == \/ Completes(t, Added(minfo[t], d))
                     \/ Adds(t, Added(minfo[t], d))
                     \/ n[t] > 1 /\ k \in {1, n[t]} /\ Starts(t, NewFragment(d))
                     \/ ~(n[t] > 1 /\ k \in {1, n[t]}) /\ Single(t, <<Sent(t, k)>>)
<1>7. Others /\ Result
  <2>1. CASE /\ Known(t) /\ Complete(AddFragment(d))
             /\ ReturnFrame(Assembled(AddFragment(d)))
             /\ minfo' = Restrict(minfo, DOMAIN minfo \ {t})
    <3>1. Others /\ t \notin DOMAIN minfo'
      BY <2>1 DEF Restrict
    <3>2. t \in DOMAIN minfo /\ AddFragment(d) = Added(minfo[t], d)
      BY <2>1, <1>4 DEF Known
    <3>3. Completes(t, Added(minfo[t], d))
      BY <2>1, <3>1, <3>2, Zenon DEF ReturnFrame, Completes
    <3> QED
      BY <3>1, <3>3
  <2>2. CASE /\ Known(t) /\ ~Complete(AddFragment(d))
             /\ minfo' = [minfo EXCEPT ![t] = AddFragment(d)]
             /\ UNCHANGED <<frames, handed>>
    <3>1. t \in DOMAIN minfo /\ AddFragment(d) = Added(minfo[t], d)
      BY <2>2, <1>4 DEF Known
    <3>2. Others /\ t \in DOMAIN minfo' /\ minfo'[t] = AddFragment(d)
      BY <2>2, <3>1
    <3>3. Adds(t, Added(minfo[t], d))
      BY <2>2, <3>1, <3>2 DEF Adds
    <3> QED
      BY <3>2, <3>3
  <2>3. CASE /\ ~Known(t) /\ d.p.marker
             /\ minfo' = [x \in DOMAIN minfo \cup {t} |-> IF x = t THEN NewFragment(d) ELSE minfo[x]]
             /\ UNCHANGED <<frames, handed>>
    <3>1. Others /\ t \in DOMAIN minfo' /\ minfo'[t] = NewFragment(d)
      BY <2>3
    <3>2. Starts(t, NewFragment(d))
      BY <2>3, <3>1 DEF Known, Starts
    <3> QED
      BY <2>3, <3>1, <3>2, <1>3
  <2>4. CASE ~Known(t) /\ ~d.p.marker /\ ReturnFrame(<<Fragment(d)>>) /\ UNCHANGED minfo
    <3>1. Fragment(d) = Sent(t, k)
      BY <1>3
    <3>2. Single(t, <<Sent(t, k)>>)
      BY <2>4, <3>1, Zenon DEF Known, ReturnFrame, Single
    <3> QED
      BY <2>4, <3>2, <1>3
  <2> QED
    BY <1>6, <2>1, <2>2, <2>3, <2>4
<1> QED
  BY <1>7 DEF d, t, k

LEMMA UnderWayThins ==
    ASSUME NEW b, NEW n, NEW i, Thinned(air', air, i), UNCHANGED <<sent, ts>>, UnderWay(b, n)
    PROVE  UnderWay(b, n)'
<1>1. ASSUME NEW j \in DOMAIN air'
      PROVE  LET p == air'[j].p IN
             /\ p.ts \in Pushes /\ p.part \in 1 .. Len(sent[p.ts])
             /\ air'[j] = [p |-> PacketOf(b, n, p.ts, p.part), data |-> sent[p.ts][p.part]]
  <2>1. PICK l \in DOMAIN air : air'[j] = air[l]
    BY DEF Thinned
  <2> QED
    BY <2>1 DEF UnderWay
<1>2. ASSUME NEW j \in DOMAIN air', NEW l \in DOMAIN air', j < l
      PROVE  \/ air'[j].p.ts < air'[l].p.ts
             \/ air'[j].p.ts = air'[l].p.ts /\ air'[j].p.part < air'[l].p.part
  <2>1. PICK x \in DOMAIN air, y \in DOMAIN air : x < y /\ air'[j] = air[x] /\ air'[l] = air[y]
    BY <1>2 DEF Thinned
  <2>2. \/ air[x].p.ts < air[y].p.ts
        \/ air[x].p.ts = air[y].p.ts /\ air[x].p.part < air[y].p.part
    BY <2>1 DEF UnderWay
  <2> QED
    BY <2>1, <2>2
<1> QED
  BY <1>1, <1>2 DEF UnderWay, Pushes, PacketOf, Num

LEMMA TakenAir ==
    ASSUME NEW b, NEW n, Reader, StreamInv(b, n), NEW i, Taken(i)
    PROVE  LET t == air[i].p.ts
               k == air[i].p.part
           IN  /\ \A j \in DOMAIN air' : \E l \in DOMAIN air : air'[j] = air[l]
               /\ \A l \in DOMAIN air : air[l].p.ts # t => \E j \in DOMAIN air' : air'[j] = air[l]
               /\ t \notin doubled' =>
                     /\ \A j \in DOMAIN air' : air'[j].p.ts = t =>
                           air'[j].p.part # k /\ air'[j].p.seq # Num(b, t, k)
                     /\ \A l \in DOMAIN air \ {i} : \E j \in DOMAIN air' : air'[j] = air[l]
               /\ UnderWay(b, n)'
<1> DEFINE t == air[i].p.ts
           k == air[i].p.part
<1>1. i \in DOMAIN air /\ (Thinned(air', air, i) \/ (air' = air /\ t \in doubled')) /\ UNCHANGED <<sent, ts>>
  BY DEF Taken
<1>2. \A j \in DOMAIN air \ {i} : air[j].p.ts = t => air[j].p.part # k /\ air[j].p.seq # Num(b, t, k)
  BY <1>1, AirIs
<1>3. \A j \in DOMAIN air' : \E l \in DOMAIN air : air'[j] = air[l]
  BY <1>1 DEF Thinned
<1>4. ASSUME NEW l \in DOMAIN air, air[l].p.ts # t PROVE \E j \in DOMAIN air' : air'[j] = air[l]
  BY <1>1, <1>4 DEF Thinned
<1>5. ASSUME t \notin doubled'
      PROVE  /\ \A j \in DOMAIN air' : air'[j].p.ts = t =>
                   air'[j].p.part # k /\ air'[j].p.seq # Num(b, t, k)
             /\ \A l \in DOMAIN air \ {i} : \E j \in DOMAIN air' : air'[j] = air[l]
  <2>1. Thinned(air', air, i)
    BY <1>1, <1>5
  <2>2. \A l \in DOMAIN air \ {i} : \E j \in DOMAIN air' : air'[j] = air[l]
    BY <2>1 DEF Thinned
  <2>3. ASSUME NEW j \in DOMAIN air', air'[j].p.ts = t
        PROVE  air'[j].p.part # k /\ air'[j].p.seq # Num(b, t, k)
    <3>1. PICK l \in DOMAIN air \ {i} : air'[j] = air[l]
      BY <2>1 DEF Thinned
    <3> QED
      BY <3>1, <2>3, <1>2
  <2> QED
    BY <2>2, <2>3
<1>6. UnderWay(b, n)'
  <2>1. UnderWay(b, n)
    BY DEF StreamInv
  <2>2. CASE Thinned(air', air, i)
    BY <1>1, <2>1, <2>2, UnderWayThins
  <2>3. CASE air' = air
    BY <1>1, <2>1, <2>3 DEF UnderWay, Pushes, PacketOf, Num
  <2> QED
    BY <1>1, <2>2, <2>3
<1> QED
  BY <1>3, <1>4, <1>5, <1>6

LEMMA TakenTable ==
    ASSUME NEW b, NEW n, Reader, StreamInv(b, n), NEW i, Taken(i)
    PROVE  Table(b, n)'
<1> DEFINE t == air[i].p.ts
           k == air[i].p.part
           d == Delivered(b, n, t, k)
<1>1. i \in DOMAIN air /\ UNCHANGED <<sent, ts>> /\ doubled \subseteq doubled'
  BY DEF Taken
<1>2. /\ t \in Pushes /\ k \in 1 .. Len(sent[t]) /\ Bounds(b, n, t) /\ air[i].p.seq = Num(b, t, k)
      /\ DOMAIN sent[t] = 1 .. Len(sent[t])
  BY <1>1, AirIs
<1>3. /\ \A u : u # t => (u \in DOMAIN minfo' <=> u \in DOMAIN minfo)
      /\ \A u \in DOMAIN minfo : u # t => minfo'[u] = minfo[u]
      /\ \/ Completes(t, Added(minfo[t], d))
         \/ Adds(t, Added(minfo[t], d))
         \/ n[t] > 1 /\ k \in {1, n[t]} /\ Starts(t, NewFragment(d))
         \/ ~(n[t] > 1 /\ k \in {1, n[t]}) /\ Single(t, <<Sent(t, k)>>)
  BY HandlerDoes
<1>4. /\ \A j \in DOMAIN air' : \E l \in DOMAIN air : air'[j] = air[l]
      /\ t \notin doubled' => \A j \in DOMAIN air' : air'[j].p.ts = t => air'[j].p.seq # Num(b, t, k)
  BY TakenAir
<1>5. Table(b, n)
  BY DEF StreamInv
<1> HIDE DEF d, t, k
<1> SUFFICES ASSUME NEW u \in DOMAIN minfo', NEW a, a = minfo'[u]
             PROVE  /\ Gathered(b, n, u, a)
                    /\ u \notin doubled' =>
                          /\ Exact(b, n, u, a) /\ ~Complete(a)
                          /\ \A j \in DOMAIN air' : air'[j].p.ts = u =>
                                air'[j].p.seq \notin DOMAIN a.fragments
  <2>1. \A u \in DOMAIN minfo' :
           /\ Gathered(b, n, u, minfo'[u])
           /\ u \notin doubled' =>
                 /\ Exact(b, n, u, minfo'[u]) /\ ~Complete(minfo'[u])
                 /\ \A j \in DOMAIN air' : air'[j].p.ts = u =>
                       air'[j].p.seq \notin DOMAIN minfo'[u].fragments
    OBVIOUS
  <2>2. ASSUME NEW u \in DOMAIN minfo'
        PROVE  /\ Gathered(b, n, u, minfo[u])'
               /\ (u \notin doubled)' => Exact(b, n, u, minfo[u])' /\ Unmet(u, minfo[u])' /\ ~Complete(minfo[u])'
    <3>1. Gathered(b, n, u, minfo[u])'
      BY <2>1, <1>1 DEF Gathered, Pushes, Sent, Num
    <3>2. (u \notin doubled)' => Exact(b, n, u, minfo[u])' /\ Unmet(u, minfo[u])' /\ ~Complete(minfo[u])'
      BY <2>1 DEF Exact, Unmet, Complete, Received, Num
    <3> QED
      BY <3>1, <3>2
  <2> QED
    BY <2>2 DEF Table
<1>6. ASSUME NEW m, u \in DOMAIN minfo, m = minfo[u]
      PROVE  /\ Gathered(b, n, u, m)
             /\ u \notin doubled' =>
                   /\ Exact(b, n, u, m) /\ Unmet(u, m) /\ ~Complete(m)
                   /\ \A j \in DOMAIN air' : air'[j].p.ts = u => air'[j].p.seq \notin DOMAIN m.fragments
  <2>1. /\ Gathered(b, n, u, m)
        /\ u \notin doubled => Exact(b, n, u, m) /\ Unmet(u, m) /\ ~Complete(m)
    BY <1>5, <1>6 DEF Table
  <2>2. u \notin doubled' => u \notin doubled
    BY <1>1
  <2>3. ASSUME Unmet(u, m), NEW j \in DOMAIN air', air'[j].p.ts = u
        PROVE  air'[j].p.seq \notin DOMAIN m.fragments
    <3>1. PICK l \in DOMAIN air : air'[j] = air[l]
      BY <1>4
    <3> QED
      BY <2>3, <3>1 DEF Unmet
  <2> QED
    BY <2>1, <2>2, <2>3
<1>7. CASE u # t
  BY <1>3, <1>6, <1>7
<1>8. CASE u = t
  <2>1. CASE Adds(t, Added(minfo[t], d))
    <3>1. PICK m : m = minfo[t]
      OBVIOUS
    <3>2. t \in DOMAIN minfo /\ a = Added(m, d) /\ ~Complete(a)
      BY <2>1, <1>8, <3>1 DEF Adds
    <3>3. /\ Gathered(b, n, t, m)
          /\ t \notin doubled' =>
                /\ Exact(b, n, t, m) /\ Unmet(t, m)
                /\ \A j \in DOMAIN air' : air'[j].p.ts = t => air'[j].p.seq \notin DOMAIN m.fragments
      BY <1>6, <1>8, <3>1, <3>2
    <3>4. Gathered(b, n, t, a) /\ DOMAIN a.fragments = DOMAIN m.fragments \cup {Num(b, t, k)}
      BY <1>2, <3>2, <3>3, AddedGathered DEF d
    <3>5. ASSUME t \notin doubled'
          PROVE  Exact(b, n, t, a)
      <4>1. Num(b, t, k) \notin DOMAIN m.fragments
        BY <1>1, <1>2, <3>3, <3>5 DEF Unmet, t
      <4> QED
        BY <1>2, <3>2, <3>3, <3>5, <4>1, AddedExact DEF d
    <3>6. ASSUME t \notin doubled', NEW j \in DOMAIN air', air'[j].p.ts = t
          PROVE  air'[j].p.seq \notin DOMAIN a.fragments
      BY <1>4, <3>3, <3>4, <3>6
    <3> QED
      BY <1>8, <3>2, <3>4, <3>5, <3>6
  <2>2. CASE n[t] > 1 /\ k \in {1, n[t]} /\ Starts(t, NewFragment(d))
    <3>1. a = NewFragment(d)
      BY <2>2, <1>8 DEF Starts
    <3>2. /\ Gathered(b, n, t, a) /\ Exact(b, n, t, a) /\ ~Complete(a)
          /\ DOMAIN a.fragments = {Num(b, t, k)}
      BY <1>2, <2>2, <3>1, NewExact DEF d
    <3>3. ASSUME t \notin doubled', NEW j \in DOMAIN air', air'[j].p.ts = t
          PROVE  air'[j].p.seq \notin DOMAIN a.fragments
      BY <1>4, <3>2, <3>3
    <3> QED
      BY <1>8, <3>2, <3>3
  <2> QED
    BY <1>3, <1>8, <2>1, <2>2 DEF Completes, Single
<1> QED
  BY <1>7, <1>8

\* Every frame begins with a packet of its push.
LEMMA AssembledFirst ==
    ASSUME NEW b, NEW n, NEW t, NEW m, Bounds(b, n, t), Gathered(b, n, t, m), m.npkts > 0
    PROVE  /\ \E X : Assembled(m) \in Seq(X)
           /\ Len(Assembled(m)) > 0 /\ Assembled(m)[1].ts = t
<1> DEFINE D == DOMAIN m.fragments
<1>1. /\ m.npkts \in Nat /\ IsFiniteSet(D) /\ D # {}
      /\ \A s \in D : \E i \in 1 .. Len(sent[t]) : s = Num(b, t, i) /\ m.fragments[s] = Sent(t, i)
  BY DEF Gathered
<1>2. D \subseteq Nat
  <2> SUFFICES ASSUME NEW s \in D PROVE s \in Nat
    OBVIOUS
  <2>1. PICK i \in 1 .. Len(sent[t]) : s = Num(b, t, i)
    BY <1>1
  <2>2. i \in Parts /\ b[t] \in Seqs /\ SeqMod \in Nat
    BY RtpAssumption DEF Bounds, Parts
  <2>3. s \in Seqs
    BY <2>1, <2>2, NumValue
  <2> QED
    BY <2>2, <2>3 DEF Seqs
<1> HIDE DEF D
<1>3. 1 <= Cardinality(D)
  <2>1. Cardinality(D) \in Nat
    BY <1>1, FS_CardinalityType
  <2>2. Cardinality(D) # 0
    BY <1>1, FS_EmptySet
  <2> QED
    BY <2>1, <2>2
<1>4. Ranked(D, 1) \in D
  BY <1>1, <1>2, FirstRanked
<1>5. m.fragments[Ranked(D, 1)].ts = t
  <2>1. PICK i \in 1 .. Len(sent[t]) : m.fragments[Ranked(D, 1)] = Sent(t, i)
    BY <1>1, <1>4
  <2>2. Sent(t, i).ts = t
    BY DEF Sent
  <2> QED
    BY <2>1, <2>2
<1>6. /\ \E X : Assembled(m) \in Seq(X)
      /\ Len(Assembled(m)) = m.npkts
      /\ \A i \in 1 .. m.npkts : i <= Cardinality(D) => Assembled(m)[i] = m.fragments[Ranked(D, i)]
  BY <1>1, AssembledValue DEF D
<1>7. 1 \in 1 .. m.npkts
  BY <1>1
<1>8. Assembled(m)[1] = m.fragments[Ranked(D, 1)]
  BY <1>3, <1>6, <1>7
<1> QED
  BY <1>1, <1>5, <1>6, <1>8

LEMMA EntireStays ==
    ASSUME NEW f, NEW n, NEW t, UNCHANGED <<sent, ts>>
    PROVE  Entire(f, n, t) => Entire(f, n, t)'
<1>1. Pushed(t)' = Pushed(t)
  BY DEF Pushed
<1>2. sent' = sent
  OBVIOUS
<1> SUFFICES ASSUME Entire(f, n, t) PROVE Entire(f, n, t)'
  OBVIOUS
<1>3. PICK g : g = Pushed(t)
  OBVIOUS
<1>4. Len(sent[t]) = n[t] /\ (f = g \/ \E k \in 1 .. Len(f) : Turned(f, k, g))
  BY <1>3 DEF Entire
<1>5. Len(sent'[t]) = n[t] /\ Pushed(t)' = g
  BY <1>1, <1>2, <1>3, <1>4
<1>6. CASE f = g
  BY <1>5, <1>6 DEF Entire
<1>7. ASSUME NEW k \in 1 .. Len(f), Turned(f, k, g)
      PROVE  Entire(f, n, t)'
  <2>1. Turned(f, k, Pushed(t))'
    BY <1>5, <1>7 DEF Turned
  <2> QED
    BY <1>5, <2>1 DEF Entire
<1> QED
  BY <1>4, <1>6, <1>7

LEMMA GoodStays ==
    ASSUME NEW f, NEW n, UNCHANGED <<sent, ts>>, doubled \subseteq doubled', Good(f, n)
    PROVE  Good(f, n)'
  BY EntireStays DEF Good, Pushes

\* What has gone into the queue with a packet: nothing, or one good frame.
HandsOver(t, n) ==
    \/ UNCHANGED <<frames, handed>>
    \/ \E f : /\ Good(f, n)' /\ f[1].ts = t
              /\ frames' = Append(frames, f) /\ handed' = Append(handed, f)

LEMMA TakenHands ==
    ASSUME NEW b, NEW n, Reader, StreamInv(b, n), NEW i, Taken(i)
    PROVE  HandsOver(air[i].p.ts, n)
<1>0. PICK t, k, d : t = air[i].p.ts /\ k = air[i].p.part /\ d = Delivered(b, n, t, k)
  OBVIOUS
<1>1. i \in DOMAIN air /\ UNCHANGED <<sent, ts>> /\ doubled \subseteq doubled'
  BY DEF Taken
<1>2. /\ t \in Pushes /\ k \in 1 .. Len(sent[t]) /\ Bounds(b, n, t) /\ air[i].p.seq = Num(b, t, k)
      /\ DOMAIN sent[t] = 1 .. Len(sent[t])
  BY <1>0, <1>1, AirIs
<1>3. \/ Completes(t, Added(minfo[t], d))
      \/ UNCHANGED <<frames, handed>>
      \/ Single(t, <<Sent(t, k)>>)
  BY <1>0, HandlerDoes DEF Adds, Starts
<1>4. Table(b, n)
  BY DEF StreamInv
<1>5. CASE Completes(t, Added(minfo[t], d))
  <2>1. PICK m : m = minfo[t]
    OBVIOUS
  <2>2. PICK a : a = Added(m, d)
    OBVIOUS
  <2>3. /\ t \in DOMAIN minfo /\ Complete(a)
        /\ frames' = Append(frames, Assembled(a)) /\ handed' = Append(handed, Assembled(a))
    BY <1>5, <2>1, <2>2 DEF Completes
  <2>4. /\ Gathered(b, n, t, m)
        /\ t \notin doubled' => Exact(b, n, t, m) /\ Unmet(t, m)
    BY <1>1, <1>4, <2>1, <2>3 DEF Table
  <2>5. Gathered(b, n, t, a) /\ a.npkts = m.npkts + 1 /\ m.npkts \in Nat
    <3>1. a = Added(m, Delivered(b, n, t, k))
      BY <2>2, <1>0
    <3>2. Gathered(b, n, t, a) /\ a.npkts = m.npkts + 1
      BY <1>2, <2>4, <3>1, AddedGathered
    <3> QED
      BY <3>2, <2>4 DEF Gathered
  <2>6. ASSUME t \notin doubled'
        PROVE  Entire(Assembled(a), n, t)
    <3>1. Num(b, t, k) \notin DOMAIN m.fragments
      BY <1>0, <1>1, <1>2, <2>4, <2>6 DEF Unmet
    <3>2. Exact(b, n, t, a)
      BY <1>2, <2>2, <2>4, <2>6, <3>1, <1>0, AddedExact
    <3> QED
      BY <1>2, <2>3, <2>5, <3>2, AssembledEntire
  <2>7. Len(Assembled(a)) > 0 /\ Assembled(a)[1].ts = t
    BY <1>2, <2>5, AssembledFirst
  <2>8. PICK f : f = Assembled(a)
    OBVIOUS
  <2>9. t \notin doubled' => Entire(f, n, t)'
    BY <1>1, <2>6, <2>8, EntireStays
  <2>10. Good(f, n)'
    BY <1>1, <1>2, <2>7, <2>8, <2>9 DEF Good, Pushes
  <2> QED
    BY <1>0, <2>3, <2>7, <2>8, <2>10 DEF HandsOver
<1>6. CASE Single(t, <<Sent(t, k)>>)
  <2>1. PICK f : f = <<Sent(t, k)>>
    OBVIOUS
  <2>2. Len(f) = 1 /\ f[1].ts = t
    BY <2>1 DEF Sent
  <2>3. Good(f, n)'
    BY <1>1, <1>2, <2>2 DEF Good, Pushes
  <2>4. frames' = Append(frames, f) /\ handed' = Append(handed, f)
    BY <1>6, <2>1 DEF Single
  <2> QED
    BY <1>0, <2>2, <2>3, <2>4 DEF HandsOver
<1> QED
  BY <1>0, <1>3, <1>5, <1>6 DEF HandsOver

LEMMA TakenHanded ==
    ASSUME NEW b, NEW n, Reader, StreamInv(b, n), NEW i, Taken(i)
    PROVE  /\ (\E X : handed \in Seq(X))' /\ (\E X : frames \in Seq(X))'
           /\ HandedGood(n)'
<1>1. /\ UNCHANGED <<sent, ts>> /\ doubled \subseteq doubled'
  BY DEF Taken
<1>2. HandsOver(air[i].p.ts, n)
  BY TakenHands
<1>3. PICK X : handed \in Seq(X)
  BY DEF StreamInv, Counts
<1>4. PICK Y : frames \in Seq(Y)
  BY DEF StreamInv, Counts
<1>5. HandedGood(n)
  BY DEF StreamInv
<1>6. CASE UNCHANGED <<frames, handed>>
  <2>1. HandedGood(n)'
    BY <1>1, <1>5, <1>6, GoodStays DEF HandedGood
  <2> QED
    BY <1>3, <1>4, <1>6, <2>1
<1>7. ASSUME NEW f, Good(f, n)', frames' = Append(frames, f), handed' = Append(handed, f)
      PROVE  /\ (\E Z : handed \in Seq(Z))' /\ (\E Z : frames \in Seq(Z))'
             /\ HandedGood(n)'
  <2>1. handed' \in Seq(X \cup {f}) /\ frames' \in Seq(Y \cup {f})
    BY <1>3, <1>4, <1>7
  <2>2. /\ Len(handed) \in Nat /\ DOMAIN handed = 1 .. Len(handed) /\ DOMAIN handed' = 1 .. Len(handed) + 1
        /\ handed'[Len(handed) + 1] = f /\ \A l \in DOMAIN handed : handed'[l] = handed[l]
    BY <1>3, <1>7
  <2>3. ASSUME NEW l \in DOMAIN handed'
        PROVE  Good(handed[l], n)'
    <3>1. CASE l \in DOMAIN handed
      <4>1. PICK g : g = handed[l]
        OBVIOUS
      <4>2. Good(g, n)'
        BY <1>1, <1>5, <3>1, <4>1, GoodStays DEF HandedGood
      <4>3. handed'[l] = g
        BY <2>2, <3>1, <4>1
      <4> QED
        BY <4>2, <4>3 DEF Good, Entire
    <3>2. CASE l \notin DOMAIN handed
      <4>1. handed'[l] = f
        BY <2>2, <3>2
      <4> QED
        BY <1>7, <4>1 DEF Good, Entire
    <3> QED
      BY <3>1, <3>2
  <2> QED
    BY <2>1, <2>3 DEF HandedGood
<1> QED
  BY <1>2, <1>6, <1>7 DEF HandsOver

\* A push that arrives in order is complete with its last packet.
LEMMA InOrder ==
    ASSUME NEW b, NEW n, NEW t, NEW m, NEW k \in 1 .. 2, Bounds(b, n, t),
           Gathered(b, n, t, m), Exact(b, n, t, m), k + 1 \in 1 .. Len(sent[t]),
           DOMAIN m.fragments = {Num(b, t, i) : i \in 1 .. k}, m.s_seq = Num(b, t, 1)
    PROVE  LET a == Added(m, Delivered(b, n, t, k + 1)) IN
           /\ Gathered(b, n, t, a) /\ a.npkts > 0 /\ a.s_seq = Num(b, t, 1)
           /\ DOMAIN a.fragments = {Num(b, t, i) : i \in 1 .. k + 1}
           /\ Complete(a) <=> k + 1 = n[t]
<1> DEFINE a == Added(m, Delivered(b, n, t, k + 1))
           l == n[t]
<1>1. /\ l \in 2 .. 3 /\ k + 1 <= l /\ b[t] \in Seqs /\ SeqMod \in Nat /\ SeqMod > 6 /\ l > 1
      /\ 1 \in Parts /\ k + 1 \in Parts /\ l \in Parts /\ \A i \in 1 .. k + 1 : i \in Parts
  BY RtpAssumption DEF Bounds, Gathered, Parts
<1>2. Num(b, t, k + 1) \notin DOMAIN m.fragments
  <2> SUFFICES ASSUME NEW i \in 1 .. k, Num(b, t, k + 1) = Num(b, t, i) PROVE FALSE
    OBVIOUS
  <2>1. i \in Parts /\ i # k + 1
    BY <1>1
  <2> QED
    BY <2>1, <1>1, NumsDiffer
<1>3. /\ Gathered(b, n, t, a) /\ a.npkts = m.npkts + 1 /\ a.s_seq = Num(b, t, 1)
      /\ DOMAIN a.fragments = DOMAIN m.fragments \cup {Num(b, t, k + 1)}
  <2>1. PICK i \in 1 .. Len(sent[t]) : i = k + 1
    OBVIOUS
  <2>2. LET c == Added(m, Delivered(b, n, t, i)) IN
        /\ Gathered(b, n, t, c) /\ c.npkts = m.npkts + 1 /\ c.s_seq = m.s_seq
        /\ DOMAIN c.fragments = DOMAIN m.fragments \cup {Num(b, t, i)}
    BY <2>1, AddedGathered
  <2> QED
    BY <2>1, <2>2
<1>4. Exact(b, n, t, a)
  BY <1>2, AddedExact
<1>5. DOMAIN a.fragments = {Num(b, t, i) : i \in 1 .. k + 1}
  <2>1. 1 .. k + 1 = (1 .. k) \cup {k + 1}
    OBVIOUS
  <2> HIDE DEF a
  <2> QED
    BY <2>1, <1>3
<1>6. PICK x \in {1, l} :
          /\ a.s_seq = Num(b, t, x)
          /\ \/ a.e_seq = InvalidSeq /\ Num(b, t, l + 1 - x) \notin DOMAIN a.fragments
             \/ a.e_seq = Num(b, t, l + 1 - x) /\ a.e_seq \in DOMAIN a.fragments
  BY <1>4, Zenon DEF Exact
<1> HIDE DEF a
<1>7. x = 1
  <2>1. Num(b, t, x) = Num(b, t, 1) /\ x \in Parts
    BY <1>1, <1>3, <1>6
  <2> QED
    BY <2>1, <1>1, NumsDiffer
<1>8. l + 1 - x = l
  BY <1>1, <1>7
<1>9. CASE k + 1 = l
  <2>1. Num(b, t, l) \in DOMAIN a.fragments
    BY <1>3, <1>9
  <2>2. a.e_seq = Num(b, t, l)
    BY <2>1, <1>6, <1>8
  <2>3. Received(a) = l
    BY <2>2, <1>1, <1>6, <1>7, <1>8, Span
  <2>4. a.npkts = l
    <3>1. a.npkts = Cardinality(DOMAIN a.fragments)
      BY <1>4 DEF Exact
    <3>2. CASE k = 1
      <4>1. 1 .. k + 1 = {1, 2} /\ l = 2
        BY <3>2, <1>9
      <4>2. DOMAIN a.fragments = {Num(b, t, 1), Num(b, t, 2)}
        BY <4>1, <1>5
      <4>3. Num(b, t, 1) # Num(b, t, 2)
        BY <1>1, NumsDiffer DEF Parts
      <4>4. Cardinality(DOMAIN a.fragments) = 2
        <5>1. Cardinality({Num(b, t, 1), Num(b, t, 2)}) = 2
          BY <4>3, PairSize
        <5> QED
          BY <5>1, <4>2
      <4> QED
        BY <3>1, <4>1, <4>4 DEF l
    <3>3. CASE k = 2
      <4>1. 1 .. k + 1 = {1, 2, 3} /\ l = 3
        BY <3>3, <1>9
      <4>2. DOMAIN a.fragments = {Num(b, t, 1), Num(b, t, 2), Num(b, t, 3)}
        BY <4>1, <1>5
      <4>3. Num(b, t, 1) # Num(b, t, 2) /\ Num(b, t, 1) # Num(b, t, 3) /\ Num(b, t, 2) # Num(b, t, 3)
        BY <1>1, NumsDiffer DEF Parts
      <4>4. Cardinality(DOMAIN a.fragments) = 3
        <5>1. Cardinality({Num(b, t, 1), Num(b, t, 2), Num(b, t, 3)}) = 3
          BY <4>3, TripleSize
        <5> QED
          BY <5>1, <4>2
      <4> QED
        BY <3>1, <4>1, <4>4 DEF l
    <3> QED
      BY <3>2, <3>3
  <2>5. a.e_seq # InvalidSeq
    <3>1. a.e_seq \in Seqs
      BY <2>2, <1>1, NumValue
    <3> QED
      BY <3>1, <1>1 DEF Seqs, InvalidSeq
  <2>6. Complete(a)
    BY <2>3, <2>4, <2>5 DEF Complete
  <2> QED
    BY <1>3, <1>5, <1>9, <2>4, <2>6, <1>1 DEF a
<1>10. CASE k + 1 # l
  <2>1. Num(b, t, l) \notin DOMAIN a.fragments
    <3> SUFFICES ASSUME NEW i \in 1 .. k + 1, Num(b, t, l) = Num(b, t, i) PROVE FALSE
      BY <1>5
    <3>1. i \in Parts /\ i # l
      BY <1>1, <1>10
    <3> QED
      BY <3>1, <1>1, NumsDiffer
  <2>2. a.e_seq = InvalidSeq
    BY <2>1, <1>6, <1>8
  <2>3. ~Complete(a)
    BY <2>2 DEF Complete
  <2>4. a.npkts > 0
    <3>1. m.npkts \in Nat
      BY DEF Gathered
    <3> QED
      BY <3>1, <1>3
  <2> QED
    BY <1>3, <1>5, <1>10, <2>3, <2>4 DEF a
<1> QED
  BY <1>9, <1>10

LEMMA HandedMore ==
    ASSUME NEW X, handed \in Seq(X), NEW f, handed' = Append(handed, f)
    PROVE  /\ \A u : u # f[1].ts => (HandedOnce(u) => HandedOnce(u)') /\ (HandedNot(u) => HandedNot(u)')
           /\ HandedNot(f[1].ts) => HandedOnce(f[1].ts)'
<1>1. PICK l : l = Len(handed) + 1
  OBVIOUS
<1>2. /\ DOMAIN handed' = DOMAIN handed \cup {l} /\ l \notin DOMAIN handed
      /\ handed'[l] = f /\ \A j \in DOMAIN handed : handed'[j] = handed[j]
  <2>1. /\ DOMAIN handed = 1 .. Len(handed) /\ Len(handed) \in Nat
        /\ Len(Append(handed, f)) = Len(handed) + 1
        /\ \A j \in 1 .. Len(handed) : Append(handed, f)[j] = handed[j]
        /\ Append(handed, f)[Len(handed) + 1] = f
    BY AppendProperties
  <2>2. Append(handed, f) \in Seq(X \cup {f})
    OBVIOUS
  <2>3. DOMAIN handed' = 1 .. Len(handed) + 1
    BY <2>1, <2>2
  <2>4. 1 .. Len(handed) + 1 = (1 .. Len(handed)) \cup {Len(handed) + 1}
    BY <2>1
  <2> QED
    BY <1>1, <2>1, <2>3, <2>4
<1>3. ASSUME NEW u, u # f[1].ts, HandedOnce(u) PROVE HandedOnce(u)'
  BY <1>2, <1>3 DEF HandedOnce
<1>4. ASSUME NEW u, u # f[1].ts, HandedNot(u) PROVE HandedNot(u)'
  BY <1>2, <1>4 DEF HandedNot
<1>5. ASSUME HandedNot(f[1].ts) PROVE HandedOnce(f[1].ts)'
  <2>1. \A j \in DOMAIN handed' : (handed'[j][1].ts = f[1].ts) <=> (j = l)
    BY <1>2, <1>5 DEF HandedNot
  <2> QED
    BY <2>1, <1>2 DEF HandedOnce
<1> QED
  BY <1>3, <1>4, <1>5

\* The next packet of a push nothing has happened to is the next in order.
LEMMA TakenNext ==
    ASSUME NEW b, NEW n, Reader, StreamInv(b, n), NEW i, Taken(i), NEW t, t = air[i].p.ts,
           Clean(t)', NEW k \in Nat, Arrived(b, n, t, k)
    PROVE  /\ air[i].p.part = k + 1 /\ k + 1 \in 1 .. Len(sent[t])
           /\ \A j \in DOMAIN air' : air'[j].p.ts = t => air'[j].p.part > k + 1
           /\ \A q \in k + 2 .. Len(sent[t]) : \E j \in DOMAIN air' :
                 air'[j].p.ts = t /\ air'[j].p.part = q
<1>1. t \notin doubled' /\ i = 1
  BY DEF Clean, Taken
<1>2. /\ i \in DOMAIN air /\ air \in Seq(Packed) /\ UnderWay(b, n)
  BY DEF Taken, StreamInv, Counts
<1>t. \A j \in DOMAIN air : air[j].p.ts \in Nat /\ air[j].p.part \in Nat
  <2> SUFFICES ASSUME NEW j \in DOMAIN air PROVE air[j].p.ts \in Nat /\ air[j].p.part \in Nat
    OBVIOUS
  <2>1. air[j] \in Packed
    BY <1>2
  <2> QED
    BY <2>1 DEF Packed, Packet
<1>3. PICK q : q = air[i].p.part
  OBVIOUS
<1>4. q \in 1 .. Len(sent[t]) /\ Len(sent[t]) \in Nat
  BY <1>2, <1>3, AirIs DEF Bounds
<1>5. /\ \A j \in DOMAIN air' : \E l \in DOMAIN air : air'[j] = air[l]
      /\ \A j \in DOMAIN air' : air'[j].p.ts = t => air'[j].p.part # q
      /\ \A l \in DOMAIN air \ {i} : \E j \in DOMAIN air' : air'[j] = air[l]
  BY <1>1, <1>3, TakenAir
<1>6. /\ \A j \in DOMAIN air : air[j].p.ts = t => air[j].p.part > k
      /\ \A r \in k + 1 .. Len(sent[t]) : \E j \in DOMAIN air : air[j].p.ts = t /\ air[j].p.part = r
  BY DEF Arrived
<1>7. q > k
  BY <1>2, <1>3, <1>6
<1>8. q = k + 1
  <2> SUFFICES ASSUME q # k + 1 PROVE FALSE
    OBVIOUS
  <2>1. k + 1 \in k + 1 .. Len(sent[t])
    BY <1>4, <1>7
  <2>2. PICK j \in DOMAIN air : air[j].p.ts = t /\ air[j].p.part = k + 1
    BY <1>6, <2>1
  <2>3. j # 1 /\ j \in Nat /\ 1 < j
    BY <1>1, <1>2, <1>3, <2>2
  <2>4. \/ air[1].p.ts < air[j].p.ts
        \/ air[1].p.ts = air[j].p.ts /\ air[1].p.part < air[j].p.part
    BY <1>1, <1>2, <2>3 DEF UnderWay
  <2>5. air[j].p.ts \in Nat
    BY <1>t
  <2>6. air[1].p.part < k + 1
    BY <1>1, <2>2, <2>4, <2>5
  <2> QED
    BY <1>1, <1>3, <1>4, <1>7, <2>6
<1>9. ASSUME NEW j \in DOMAIN air', air'[j].p.ts = t
      PROVE  air'[j].p.part > k + 1
  <2>1. PICK l \in DOMAIN air : air'[j] = air[l]
    BY <1>5
  <2>2. air[l].p.part > k /\ air[l].p.part # k + 1 /\ air[l].p.part \in Nat
    <3>1. air[l].p.ts = t
      BY <1>9, <2>1
    <3> QED
      BY <3>1, <1>t, <1>5, <1>6, <1>8, <1>9, <2>1
  <2> QED
    BY <2>1, <2>2
<1>10. ASSUME NEW r \in k + 2 .. Len(sent[t])
       PROVE  \E j \in DOMAIN air' : air'[j].p.ts = t /\ air'[j].p.part = r
  <2>1. r \in k + 1 .. Len(sent[t]) /\ r # k + 1
    BY <1>4
  <2>2. PICK l \in DOMAIN air : air[l].p.ts = t /\ air[l].p.part = r
    BY <1>6, <2>1
  <2>3. l # i
    BY <1>3, <1>8, <2>1, <2>2
  <2> QED
    BY <1>5, <2>2, <2>3
<1> QED
  BY <1>3, <1>4, <1>8, <1>9, <1>10

LEMMA TakenThis ==
    ASSUME NEW b, NEW n, Reader, StreamInv(b, n), NEW i, Taken(i), NEW t, t = air[i].p.ts,
           Clean(t)', Clean(t), NEW k \in 0 .. n[t], Arrived(b, n, t, k)
    PROVE  k + 1 \in 0 .. n[t] /\ Arrived(b, n, t, k + 1)'
<1>1. i \in DOMAIN air /\ UNCHANGED <<sent, ts>>
  BY DEF Taken
<1>2. /\ Bounds(b, n, t) /\ DOMAIN sent[t] = 1 .. Len(sent[t])
  BY <1>1, AirIs
<1>3. k \in Nat /\ n[t] \in 1 .. 3 /\ k <= n[t] /\ Len(sent[t]) <= n[t] /\ Len(sent[t]) \in Nat
  BY <1>2 DEF Bounds, Parts
<1>4. /\ air[i].p.part = k + 1 /\ k + 1 \in 1 .. Len(sent[t])
      /\ \A j \in DOMAIN air' : air'[j].p.ts = t => air'[j].p.part > k + 1
      /\ \A q \in k + 2 .. Len(sent[t]) : \E j \in DOMAIN air' :
            air'[j].p.ts = t /\ air'[j].p.part = q
  BY <1>3, TakenNext
<1>5. k + 1 \in 0 .. n[t] /\ k < n[t] /\ k + 1 <= Len(sent[t])
  BY <1>3, <1>4
<1>6. PICK d : d = Delivered(b, n, t, k + 1)
  OBVIOUS
<1>7. \/ Completes(t, Added(minfo[t], d))
      \/ Adds(t, Added(minfo[t], d))
      \/ n[t] > 1 /\ k + 1 \in {1, n[t]} /\ Starts(t, NewFragment(d))
      \/ ~(n[t] > 1 /\ k + 1 \in {1, n[t]}) /\ Single(t, <<Sent(t, k + 1)>>)
  BY <1>4, <1>6, HandlerDoes
<1>8. /\ HandedNot(t)
      /\ k = 0 => t \notin DOMAIN minfo
      /\ k # 0 => /\ t \in DOMAIN minfo
                  /\ DOMAIN minfo[t].fragments = {Num(b, t, q) : q \in 1 .. k}
                  /\ minfo[t].s_seq = Num(b, t, 1)
  BY <1>3, <1>5 DEF Arrived
<1>9. PICK X : handed \in Seq(X)
  BY DEF StreamInv, Counts
\* What Arrived(b, n, t, k + 1)' says of the table and of what was handed over.
<1>10. ASSUME /\ k + 1 = n[t] => t \notin DOMAIN minfo' /\ HandedOnce(t)'
              /\ k + 1 # n[t] =>
                    /\ t \in DOMAIN minfo' /\ HandedNot(t)'
                    /\ DOMAIN minfo'[t].fragments = {Num(b, t, q) : q \in 1 .. k + 1}
                    /\ minfo'[t].s_seq = Num(b, t, 1)
       PROVE  Arrived(b, n, t, k + 1)'
  <2>1. sent' = sent /\ k + 1 # 0 /\ k + 1 + 1 = k + 2
    BY <1>1, <1>3
  <2>2. \A q \in k + 1 + 1 .. Len(sent'[t]) : \E j \in DOMAIN air' :
            air'[j].p.ts = t /\ air'[j].p.part = q
    BY <1>4, <2>1
  <2>3. k + 1 <= Len(sent'[t])
    BY <1>5, <2>1
  <2>4. k + 1 \in {0, n[t]} => t \notin DOMAIN minfo'
    BY <1>10, <2>1
  <2>5. k + 1 \notin {0, n[t]} =>
            /\ t \in DOMAIN minfo'
            /\ DOMAIN minfo'[t].fragments = {Num(b, t, q) : q \in 1 .. k + 1}
            /\ minfo'[t].s_seq = Num(b, t, 1)
    BY <1>10
  <2>6. IF k + 1 = n[t] THEN HandedOnce(t)' ELSE HandedNot(t)'
    BY <1>10
  <2> QED
    BY <1>4, <2>2, <2>3, <2>4, <2>5, <2>6 DEF Arrived, Num
<1>11. CASE n[t] = 1
  <2>1. k = 0 /\ ~(n[t] > 1)
    BY <1>3, <1>5, <1>11
  <2>2. Single(t, <<Sent(t, k + 1)>>)
    BY <1>7, <1>8, <2>1 DEF Completes, Adds
  <2>3. PICK f : f = <<Sent(t, k + 1)>>
    OBVIOUS
  <2>4. f[1].ts = t
    BY <2>3 DEF Sent
  <2>5. t \notin DOMAIN minfo' /\ handed' = Append(handed, f)
    BY <2>2, <2>3 DEF Single
  <2>6. HandedOnce(t)'
    BY <1>8, <1>9, <2>4, <2>5, HandedMore
  <2> QED
    BY <1>5, <1>10, <1>11, <2>1, <2>5, <2>6
<1>12. CASE n[t] > 1 /\ k = 0
  <2>1. Starts(t, NewFragment(d))
    BY <1>7, <1>8, <1>12 DEF Completes, Adds
  <2>2. PICK a : a = NewFragment(d)
    OBVIOUS
  <2>3. t \in DOMAIN minfo' /\ minfo'[t] = a /\ handed' = handed
    BY <2>1, <2>2 DEF Starts
  <2>4. PICK q \in 1 .. Len(sent[t]) : q = 1 /\ q = k + 1
    BY <1>4, <1>12
  <2>5. a.s_seq = Num(b, t, 1) /\ DOMAIN a.fragments = {Num(b, t, 1)}
    BY <1>2, <1>6, <1>12, <2>2, <2>4, NewExact
  <2>6. 1 .. k + 1 = {1}
    BY <1>12
  <2>7. DOMAIN minfo'[t].fragments = {Num(b, t, r) : r \in 1 .. k + 1}
    BY <2>3, <2>5, <2>6
  <2>8. HandedNot(t)'
    BY <1>8, <2>3 DEF HandedNot
  <2>9. k + 1 # n[t]
    BY <1>3, <1>12
  <2> QED
    BY <1>5, <1>10, <2>3, <2>5, <2>7, <2>8, <2>9
<1>13. CASE n[t] > 1 /\ k # 0
  <2>1. PICK m : m = minfo[t]
    OBVIOUS
  <2>2. PICK a : a = Added(m, d)
    OBVIOUS
  <2>3. t \in DOMAIN minfo /\ (Completes(t, a) \/ Adds(t, a))
    BY <1>7, <1>8, <1>13, <2>1, <2>2 DEF Starts, Single
  <2>4. Gathered(b, n, t, m) /\ Exact(b, n, t, m)
    BY <2>1, <2>3 DEF StreamInv, Table, Clean
  <2>5. k \in 1 .. 2
    BY <1>3, <1>5, <1>13
  <2>6. DOMAIN m.fragments = {Num(b, t, q) : q \in 1 .. k} /\ m.s_seq = Num(b, t, 1)
    BY <1>8, <1>13, <2>1
  <2>7. /\ Gathered(b, n, t, a) /\ a.npkts > 0 /\ a.s_seq = Num(b, t, 1)
        /\ DOMAIN a.fragments = {Num(b, t, q) : q \in 1 .. k + 1}
        /\ Complete(a) <=> k + 1 = n[t]
    BY <1>2, <1>4, <1>6, <2>2, <2>4, <2>5, <2>6, InOrder
  <2>8. CASE k + 1 = n[t]
    <3>1. Completes(t, a)
      BY <2>3, <2>7, <2>8 DEF Adds
    <3>2. PICK f : f = Assembled(a)
      OBVIOUS
    <3>3. f[1].ts = t
      BY <1>2, <2>7, <3>2, AssembledFirst
    <3>4. t \notin DOMAIN minfo' /\ handed' = Append(handed, f)
      BY <3>1, <3>2 DEF Completes
    <3>5. HandedOnce(t)'
      BY <1>8, <1>9, <3>3, <3>4, HandedMore
    <3> QED
      BY <1>5, <1>10, <2>8, <3>4, <3>5
  <2>9. CASE k + 1 # n[t]
    <3>1. Adds(t, a)
      BY <2>3, <2>7, <2>9 DEF Completes
    <3>2. t \in DOMAIN minfo' /\ minfo'[t] = a /\ handed' = handed
      BY <3>1 DEF Adds
    <3>3. HandedNot(t)'
      BY <1>8, <3>2 DEF HandedNot
    <3> QED
      BY <1>5, <1>10, <2>7, <2>9, <3>2, <3>3
  <2> QED
    BY <2>8, <2>9
<1> QED
  BY <1>3, <1>11, <1>12, <1>13

LEMMA TakenOther ==
    ASSUME NEW b, NEW n, Reader, StreamInv(b, n), NEW i, Taken(i), NEW t, t # air[i].p.ts,
           NEW k, Arrived(b, n, t, k)
    PROVE  Arrived(b, n, t, k)'
<1>1. UNCHANGED sent
  BY DEF Taken
<1>2. /\ \A j \in DOMAIN air' : \E l \in DOMAIN air : air'[j] = air[l]
      /\ \A l \in DOMAIN air : air[l].p.ts = t => \E j \in DOMAIN air' : air'[j] = air[l]
  BY TakenAir
<1>3. /\ t \in DOMAIN minfo' <=> t \in DOMAIN minfo
      /\ t \in DOMAIN minfo => minfo'[t] = minfo[t]
  BY HandlerDoes
<1>4. (HandedOnce(t) => HandedOnce(t)') /\ (HandedNot(t) => HandedNot(t)')
  <2>1. HandsOver(air[i].p.ts, n)
    BY TakenHands
  <2>2. CASE UNCHANGED <<frames, handed>>
    BY <2>2 DEF HandedOnce, HandedNot
  <2>3. ASSUME NEW f, f[1].ts = air[i].p.ts, handed' = Append(handed, f)
        PROVE  (HandedOnce(t) => HandedOnce(t)') /\ (HandedNot(t) => HandedNot(t)')
    <3>1. PICK X : handed \in Seq(X)
      BY DEF StreamInv, Counts
    <3> QED
      BY <2>3, <3>1, HandedMore
  <2> QED
    BY <2>1, <2>2, <2>3 DEF HandsOver
<1>5. \A j \in DOMAIN air' : air'[j].p.ts = t => air'[j].p.part > k
  BY <1>2 DEF Arrived
<1>6. ASSUME NEW q \in k + 1 .. Len(sent'[t])
      PROVE  \E j \in DOMAIN air' : air'[j].p.ts = t /\ air'[j].p.part = q
  <2>1. PICK l \in DOMAIN air : air[l].p.ts = t /\ air[l].p.part = q
    BY <1>1 DEF Arrived
  <2> QED
    BY <1>2, <2>1
<1>7. k <= Len(sent'[t])
  BY <1>1 DEF Arrived
<1>8. k \in {0, n[t]} => t \notin DOMAIN minfo'
  BY <1>3 DEF Arrived
<1>9. k \notin {0, n[t]} =>
          /\ t \in DOMAIN minfo'
          /\ DOMAIN minfo'[t].fragments = {Num(b, t, q) : q \in 1 .. k}
          /\ minfo'[t].s_seq = Num(b, t, 1)
  BY <1>3 DEF Arrived
<1>10. IF k = n[t] THEN HandedOnce(t)' ELSE HandedNot(t)'
  BY <1>4 DEF Arrived
<1> QED
  BY <1>5, <1>6, <1>7, <1>8, <1>9, <1>10 DEF Arrived, Num

LEMMA TakenKeeps ==
    ASSUME NEW b, NEW n, Reader, StreamInv(b, n), NEW i, Taken(i)
    PROVE  StreamInv(b, n)'
<1>1. /\ UNCHANGED <<seq, ts, outbox, sent, source, lost>> /\ faults' \in Nat
      /\ doubled \subseteq doubled' /\ late \subseteq late' /\ air' \in Seq(Packed)
  BY DEF Taken
<1>2. HandedGood(n)' /\ (\E X : handed \in Seq(X))' /\ (\E X : frames \in Seq(X))'
  BY TakenHanded
<1>3. Counts(b, n)'
  <2>1. Counts(b, n)
    BY DEF StreamInv
  <2> QED
    BY <1>1, <1>2, <2>1 DEF Counts, Pushes
<1>4. ToSend(b, n)'
  BY <1>1 DEF StreamInv, ToSend, Pushes, PacketOf, Num
<1>5. UnderWay(b, n)'
  BY TakenAir
<1>6. Table(b, n)'
  BY TakenTable
<1>7. CleanArrive(b, n)'
  <2> SUFFICES ASSUME NEW t \in Pushes, Clean(t)'
               PROVE  \E k \in 0 .. n[t] : Arrived(b, n, t, k)'
    BY <1>1 DEF CleanArrive, Pushes
  <2>1. Clean(t)
    BY <1>1 DEF Clean
  <2>2. PICK k \in 0 .. n[t] : Arrived(b, n, t, k)
    BY <2>1 DEF StreamInv, CleanArrive
  <2>3. CASE t = air[i].p.ts
    BY <2>1, <2>2, <2>3, TakenThis
  <2>4. CASE t # air[i].p.ts
    BY <2>2, <2>4, TakenOther
  <2> QED
    BY <2>3, <2>4
<1> QED
  BY <1>2, <1>3, <1>4, <1>5, <1>6, <1>7 DEF StreamInv

-----------------------------------------------------------------------------
(***************************************************************************)
(* The sender's steps: what has arrived of a push stays what it was.       *)
(***************************************************************************)
Longer(b, n, c, l, t) ==
    /\ t \in Pushes /\ t \in Pushes' /\ c[t] = b[t] /\ l[t] = n[t]
    /\ Len(sent[t]) \in Nat /\ Len(sent'[t]) \in Nat /\ Len(sent[t]) <= Len(sent'[t])
    /\ \A i \in 1 .. Len(sent[t]) : sent'[t][i] = sent[t][i]

LEMMA EntryStays ==
    ASSUME NEW b, NEW n, NEW c, NEW l, NEW t, Longer(b, n, c, l, t), NEW m
    PROVE  /\ Gathered(b, n, t, m) => Gathered(c, l, t, m)'
           /\ Exact(b, n, t, m) => Exact(c, l, t, m)'
<1>1. \A i : Num(c, t, i) = Num(b, t, i)
  BY DEF Num, Longer
<1>2. ASSUME Gathered(b, n, t, m) PROVE Gathered(c, l, t, m)'
  <2>1. ASSUME NEW s \in DOMAIN m.fragments
        PROVE  \E i \in 1 .. Len(sent'[t]) :
                  s = Num(c, t, i) /\ m.fragments[s] = [ts |-> t, part |-> i, of |-> sent'[t][i]]
    <3>1. PICK i \in 1 .. Len(sent[t]) : s = Num(b, t, i) /\ m.fragments[s] = Sent(t, i)
      BY <1>2 DEF Gathered
    <3>2. i \in 1 .. Len(sent'[t]) /\ sent'[t][i] = sent[t][i] /\ Num(c, t, i) = Num(b, t, i)
      BY <1>1 DEF Longer
    <3> QED
      BY <3>1, <3>2 DEF Sent
  <2>2. t \in Pushes' /\ l[t] > 1
    BY <1>2 DEF Longer, Gathered
  <2> QED
    BY <1>2, <2>1, <2>2 DEF Gathered, Sent, Num
<1>3. ASSUME Exact(b, n, t, m) PROVE Exact(c, l, t, m)'
  <2>1. Exact(c, l, t, m) <=> Exact(b, n, t, m)
    BY <1>1 DEF Exact, Longer
  <2> QED
    BY <1>3, <2>1 DEF Exact, Num
<1> QED
  BY <1>2, <1>3

LEMMA FrameStays ==
    ASSUME NEW b, NEW n, NEW c, NEW l, NEW t, Longer(b, n, c, l, t), UNCHANGED doubled,
           sent'[t] = sent[t] \/ Len(sent[t]) < n[t], NEW f, f[1].ts = t, Good(f, n)
    PROVE  Good(f, l)'
<1>1. t \in Pushes' /\ Len(f) > 0
  BY DEF Good, Longer
<1>2. ASSUME Entire(f, n, t) PROVE Entire(f, l, t)'
  <2>1. Len(sent[t]) = n[t] /\ l[t] = n[t] /\ Len(sent[t]) \in Nat
    BY <1>2 DEF Entire, Longer
  <2>2. sent'[t] = sent[t]
    BY <2>1
  <2>3. PICK g : g = Pushed(t)
    OBVIOUS
  <2>4. Pushed(t)' = g
    BY <2>2, <2>3 DEF Pushed
  <2>5. CASE f = g
    BY <2>1, <2>2, <2>4, <2>5 DEF Entire
  <2>6. ASSUME NEW k \in 1 .. Len(f), Turned(f, k, g)
        PROVE  Entire(f, l, t)'
    <3>1. Turned(f, k, Pushed(t))'
      BY <2>4, <2>6 DEF Turned
    <3> QED
      BY <2>1, <2>2, <3>1 DEF Entire
  <2> QED
    BY <1>2, <2>3, <2>5, <2>6 DEF Entire
<1>3. CASE Len(f) = 1 \/ t \in doubled
  BY <1>1, <1>3 DEF Good
<1>4. CASE Entire(f, n, t)
  <2>1. Entire(f, l, t)'
    BY <1>2, <1>4
  <2> QED
    BY <1>1, <2>1 DEF Good
<1> QED
  BY <1>3, <1>4 DEF Good

LEMMA TableStays ==
    ASSUME NEW b, NEW n, NEW c, NEW l, \A t \in DOMAIN minfo : Longer(b, n, c, l, t),
           UNCHANGED <<minfo, doubled>>, Table(b, n),
           \A t \in DOMAIN minfo : \A m :
              Gathered(b, n, t, m) /\ Unmet(t, m) => Unmet(t, m)'
    PROVE  Table(c, l)'
<1> SUFFICES ASSUME NEW t \in DOMAIN minfo
             PROVE  /\ Gathered(c, l, t, minfo[t])'
                    /\ t \notin doubled =>
                          Exact(c, l, t, minfo[t])' /\ Unmet(t, minfo[t])' /\ ~Complete(minfo[t])
  BY DEF Table, Complete, Received
<1>1. PICK m : m = minfo[t] /\ m = minfo'[t]
  OBVIOUS
<1>2. /\ Gathered(b, n, t, m) /\ Longer(b, n, c, l, t)
      /\ t \notin doubled => Exact(b, n, t, m) /\ Unmet(t, m) /\ ~Complete(m)
  BY <1>1 DEF Table
<1>3. /\ Gathered(c, l, t, m)'
      /\ t \notin doubled => Exact(c, l, t, m)' /\ Unmet(t, m)' /\ ~Complete(m)
  BY <1>2, EntryStays
<1>4. Gathered(c, l, t, minfo[t])'
  BY <1>1, <1>3 DEF Gathered
<1>5. t \notin doubled => Exact(c, l, t, minfo[t])'
  BY <1>1, <1>3 DEF Exact
<1>6. t \notin doubled => Unmet(t, minfo[t])'
  BY <1>1, <1>3 DEF Unmet
<1>7. t \notin doubled => ~Complete(minfo[t])
  BY <1>1, <1>3
<1> QED
  BY <1>4, <1>5, <1>6, <1>7

LEMMA HandedStays ==
    ASSUME NEW b, NEW n, NEW c, NEW l, \A t \in Pushes : Longer(b, n, c, l, t),
           \A t \in Pushes : sent'[t] = sent[t] \/ Len(sent[t]) < n[t],
           UNCHANGED <<handed, doubled>>, HandedGood(n)
    PROVE  HandedGood(l)'
<1> SUFFICES ASSUME NEW k \in DOMAIN handed PROVE Good(handed[k], l)'
  BY DEF HandedGood
<1>1. PICK f : f = handed[k] /\ f = handed'[k]
  OBVIOUS
<1>2. Good(f, n) /\ f[1].ts \in Pushes
  BY <1>1 DEF HandedGood, Good
<1>3. PICK t : t = f[1].ts
  OBVIOUS
<1>4. Good(f, l)'
  BY <1>2, <1>3, FrameStays
<1> QED
  BY <1>1, <1>4 DEF Good, Entire

\* A push has been cut into packets; nothing of it is sent yet.
LEMMA PushKeeps ==
    ASSUME NEW b, NEW n, CameraInv, Reader, StreamInv(b, n), Push
    PROVE  \E c \in [Pushes' -> Seqs], l \in [Pushes' -> Parts] : StreamInv(c, l)'
<1>1. /\ source = "stream" /\ cpc = "use" /\ outbox = <<>> /\ outbox' = Packets(jpg.len)
      /\ ts' = ts + 1 /\ sent' = Append(sent, <<>>)
      /\ UNCHANGED <<air, minfo, frames, faults, lost, late, doubled, handed, source>>
  BY DEF Push, PushFrame, ghostsRtp
<1>2. jpg.len \in Parts /\ jpg.len \in 1 .. 3
  BY <1>1 DEF CameraInv, CameraTypes, Picture, Parts
<1>3. /\ ts \in Nat \ {0} /\ seq \in Seqs /\ sent \in Seq(Seq(Nat)) /\ Len(sent) = ts - 1
      /\ b \in [Pushes -> Seqs] /\ n \in [Pushes -> Parts]
  BY <1>1 DEF Reader, StreamInv, Counts
<1>4. PICK u : u = ts
  OBVIOUS
<1> DEFINE c == [t \in 1 .. ts |-> IF t = u THEN seq ELSE b[t]]
           l == [t \in 1 .. ts |-> IF t = u THEN jpg.len ELSE n[t]]
<1>5. /\ Pushes' = 1 .. ts /\ u \in Pushes' /\ u \notin Pushes /\ Pushes = 1 .. u - 1
      /\ \A t \in Pushes' : t \in Pushes \/ t = u
      /\ \A t \in Pushes : t \in Pushes' /\ t # u
      /\ ts' - 1 = u /\ u \in Nat /\ ts \in Nat
  BY <1>1, <1>3, <1>4 DEF Pushes
<1>6. PICK c0, l0 : c0 = c /\ l0 = l
  OBVIOUS
<1>7. /\ c0 \in [Pushes' -> Seqs] /\ l0 \in [Pushes' -> Parts]
  <2>1. c \in [1 .. ts -> Seqs] /\ l \in [1 .. ts -> Parts]
    <3> SUFFICES ASSUME NEW t \in 1 .. ts
                 PROVE  (IF t = u THEN seq ELSE b[t]) \in Seqs /\ (IF t = u THEN jpg.len ELSE n[t]) \in Parts
      OBVIOUS
    <3>1. t = u \/ t \in Pushes
      BY <1>5
    <3> QED
      BY <3>1, <1>2, <1>3
  <2> QED
    BY <2>1, <1>5, <1>6
<1>8. /\ c0[u] = seq /\ l0[u] = jpg.len
      /\ \A t \in Pushes : c0[t] = b[t] /\ l0[t] = n[t]
  <2>1. u \in 1 .. ts /\ \A t \in Pushes : t \in 1 .. ts /\ t # u
    BY <1>5
  <2> QED
    BY <2>1, <1>6
<1> HIDE DEF c, l
<1>9. /\ Len(sent') = ts /\ sent'[u] = <<>> /\ \A t \in Pushes : sent'[t] = sent[t]
      /\ \A t \in Pushes : sent[t] \in Seq(Nat)
  <2>1. /\ Len(sent') = Len(sent) + 1 /\ sent'[Len(sent) + 1] = <<>>
        /\ \A t \in 1 .. Len(sent) : sent'[t] = sent[t]
    BY <1>1, <1>3, AppendProperties
  <2>2. Len(sent) + 1 = ts /\ Pushes = 1 .. Len(sent)
    BY <1>3 DEF Pushes
  <2> QED
    BY <2>1, <2>2, <1>3, <1>4
<1>10. Len(sent'[u]) = 0
  BY <1>9
<1>11. \A t \in Pushes : Longer(b, n, c0, l0, t)
  BY <1>5, <1>8, <1>9 DEF Longer
<1>12. Counts(c0, l0)'
  BY <1>1, <1>5, <1>7, <1>9 DEF StreamInv, Counts
<1>13. ToSend(c0, l0)'
  <2>1. /\ outbox' = Packets(jpg.len) /\ outbox' # <<>> /\ Len(outbox') = jpg.len
        /\ DOMAIN outbox' = 1 .. jpg.len
    <3>1. Len(Packets(jpg.len)) = jpg.len /\ DOMAIN Packets(jpg.len) = 1 .. jpg.len
          /\ Packets(jpg.len) \in Seq(Packet)
      BY <1>2, <1>3, PacketsType
    <3>2. Packets(jpg.len) # <<>>
      BY <1>2, <3>1
    <3> QED
      BY <1>1, <3>1, <3>2
  <2>2. ASSUME NEW i \in DOMAIN outbox'
        PROVE  outbox'[i] = PacketOf(c0, l0, u, i)
    <3>1. i \in 1 .. jpg.len
      BY <2>1
    <3>2. outbox'[i] = [seq |-> (seq + i - 1) % SeqMod, ts |-> ts, part |-> i,
                        marker |-> jpg.len > 1 /\ i \in {1, jpg.len}]
      BY <1>1, <1>2, <3>1, PacketsType
    <3> QED
      BY <3>2, <1>4, <1>8 DEF PacketOf, Num
  <2>3. outbox' # <<>> => ts' > 1 /\ l0[ts' - 1] = Len(sent'[ts' - 1]) + Len(outbox')
    BY <1>1, <1>2, <1>3, <1>5, <1>8, <1>10, <2>1
  <2>4. \A i \in DOMAIN outbox' : outbox'[i] = PacketOf(c0, l0, ts' - 1, Len(sent'[ts' - 1]) + i)
    <3> SUFFICES ASSUME NEW i \in DOMAIN outbox'
                 PROVE  outbox'[i] = PacketOf(c0, l0, ts' - 1, Len(sent'[ts' - 1]) + i)
      OBVIOUS
    <3>1. Len(sent'[u]) + i = i
      <4>1. i \in 1 .. jpg.len
        BY <2>1
      <4> QED
        BY <4>1, <1>10
    <3> QED
      BY <2>2, <3>1, <1>5
  <2>5. \A t \in Pushes' : Len(sent'[t]) <= l0[t]
    <3>1. \A t \in Pushes : Len(sent'[t]) <= l0[t]
      BY <1>8, <1>9 DEF StreamInv, ToSend
    <3>2. Len(sent'[u]) <= l0[u]
      BY <1>2, <1>8, <1>10
    <3> QED
      BY <1>5, <3>1, <3>2
  <2>6. \A t \in Pushes' : Len(sent'[t]) < l0[t] => t \in lost' \/ (t = ts' - 1 /\ outbox' # <<>>)
    <3>1. \A t \in Pushes : Len(sent'[t]) < l0[t] => t \in lost'
      BY <1>1, <1>8, <1>9 DEF StreamInv, ToSend
    <3> QED
      BY <1>5, <2>1, <3>1
  <2> QED
    BY <2>3, <2>4, <2>5, <2>6 DEF ToSend, PacketOf, Num
<1>14. UnderWay(c0, l0)'
  <2>1. UnderWay(b, n)
    BY DEF StreamInv
  <2>2. ASSUME NEW j \in DOMAIN air
        PROVE  LET p == air[j].p IN
               /\ p.ts \in Pushes /\ p.part \in 1 .. Len(sent'[p.ts])
               /\ air[j] = [p |-> PacketOf(c0, l0, p.ts, p.part), data |-> sent'[p.ts][p.part]]
    <3>1. PICK p : p = air[j].p
      OBVIOUS
    <3>2. /\ p.ts \in Pushes /\ p.part \in 1 .. Len(sent[p.ts])
          /\ air[j] = [p |-> PacketOf(b, n, p.ts, p.part), data |-> sent[p.ts][p.part]]
      BY <2>1, <3>1 DEF UnderWay
    <3>3. sent'[p.ts] = sent[p.ts] /\ PacketOf(c0, l0, p.ts, p.part) = PacketOf(b, n, p.ts, p.part)
      BY <3>2, <1>8, <1>9 DEF PacketOf, Num
    <3> QED
      BY <3>1, <3>2, <3>3
  <2>3. \A j \in DOMAIN air' :
          LET p == air'[j].p IN
          /\ p.ts \in Pushes' /\ p.part \in 1 .. Len(sent'[p.ts])
          /\ air'[j] = [p |-> PacketOf(c0, l0, p.ts, p.part), data |-> sent'[p.ts][p.part]]
    BY <1>1, <1>5, <2>2
  <2>4. \A i, j \in DOMAIN air' : i < j =>
          \/ air'[i].p.ts < air'[j].p.ts
          \/ air'[i].p.ts = air'[j].p.ts /\ air'[i].p.part < air'[j].p.part
    BY <1>1, <2>1 DEF UnderWay
  <2> QED
    BY <2>3, <2>4 DEF UnderWay, PacketOf, Num
<1>15. Table(c0, l0)'
  <2>1. \A t \in DOMAIN minfo : t \in Pushes
    BY DEF StreamInv, Table, Gathered
  <2>2. \A t \in DOMAIN minfo : Longer(b, n, c0, l0, t)
    BY <2>1, <1>11
  <2>3. \A t \in DOMAIN minfo : \A m : Unmet(t, m) => Unmet(t, m)'
    BY <1>1 DEF Unmet
  <2>4. Table(b, n) /\ UNCHANGED <<minfo, doubled>>
    BY <1>1 DEF StreamInv
  <2> QED
    BY <2>2, <2>3, <2>4, TableStays
<1>16. HandedGood(l0)'
  BY <1>1, <1>9, <1>11, HandedStays DEF StreamInv
<1>17. CleanArrive(c0, l0)'
  <2> SUFFICES ASSUME NEW t \in Pushes', Clean(t)'
               PROVE  \E k \in 0 .. l0[t] : Arrived(c0, l0, t, k)'
    BY DEF CleanArrive
  <2>1. CASE t \in Pushes
    <3>1. Clean(t)
      BY <1>1 DEF Clean
    <3>2. PICK k \in 0 .. n[t] : Arrived(b, n, t, k)
      BY <2>1, <3>1 DEF StreamInv, CleanArrive
    <3>3. sent'[t] = sent[t] /\ l0[t] = n[t] /\ \A i : Num(c0, t, i) = Num(b, t, i)
      BY <2>1, <1>8, <1>9 DEF Num
    <3>4. (HandedOnce(t) => HandedOnce(t)') /\ (HandedNot(t) => HandedNot(t)')
      BY <1>1 DEF HandedOnce, HandedNot
    <3>5. /\ \A j \in DOMAIN air' : air'[j].p.ts = t => air'[j].p.part > k
          /\ \A i \in k + 1 .. Len(sent'[t]) : \E j \in DOMAIN air' :
                air'[j].p.ts = t /\ air'[j].p.part = i
          /\ k <= Len(sent'[t])
      BY <1>1, <3>2, <3>3 DEF Arrived
    <3>6. /\ k \in {0, l0[t]} => t \notin DOMAIN minfo'
          /\ k \notin {0, l0[t]} =>
                /\ t \in DOMAIN minfo'
                /\ DOMAIN minfo'[t].fragments = {Num(c0, t, i) : i \in 1 .. k}
                /\ minfo'[t].s_seq = Num(c0, t, 1)
      BY <1>1, <3>2, <3>3 DEF Arrived
    <3>7. IF k = l0[t] THEN HandedOnce(t)' ELSE HandedNot(t)'
      BY <3>2, <3>3, <3>4 DEF Arrived
    <3>8. Arrived(c0, l0, t, k)'
      BY <3>5, <3>6, <3>7 DEF Arrived, Num
    <3> QED
      BY <3>2, <3>3, <3>8
  <2>2. CASE t = u
    <3>1. \A j \in DOMAIN air : air[j].p.ts # u
      BY <1>5 DEF StreamInv, UnderWay
    <3>2. u \notin DOMAIN minfo
      BY <1>5 DEF StreamInv, Table, Gathered
    <3>3. HandedNot(u)
      BY <1>5 DEF StreamInv, HandedGood, Good, HandedNot
    <3>4. HandedNot(u)'
      BY <1>1, <3>3 DEF HandedNot
    <3>5. 0 # l0[u] /\ 0 + 1 .. Len(sent'[u]) = {} /\ 0 <= Len(sent'[u]) /\ 0 \in 0 .. l0[u]
      BY <1>2, <1>8, <1>10
    <3>6. Arrived(c0, l0, u, 0)'
      BY <1>1, <3>1, <3>2, <3>4, <3>5 DEF Arrived
    <3> QED
      BY <2>2, <3>5, <3>6
  <2> QED
    BY <1>5, <2>1, <2>2
<1>18. StreamInv(c0, l0)'
  BY <1>12, <1>13, <1>14, <1>15, <1>16, <1>17 DEF StreamInv
<1> QED
  BY <1>7, <1>18

\* The next packet goes out.
LEMMA SendKeeps ==
    ASSUME NEW b, NEW n, CameraInv, Reader, StreamInv(b, n), Send
    PROVE  StreamInv(b, n)'
<1>1. PICK data : data = mem[jpg.buf][Head(outbox).part]
  OBVIOUS
<1>2. /\ source = "stream" /\ cpc = "use" /\ outbox # <<>>
      /\ air' = Append(air, [p |-> Head(outbox), data |-> data])
      /\ outbox' = Tail(outbox)
      /\ sent' = [sent EXCEPT ![Len(sent)] = Append(sent[Len(sent)], data)]
      /\ UNCHANGED <<seq, ts, minfo, frames, faults, lost, late, doubled, handed, source>>
  BY <1>1 DEF Send, SendPacket, ghostsRtp
<1>3. /\ ts \in Nat \ {0} /\ sent \in Seq(Seq(Nat)) /\ Len(sent) = ts - 1 /\ outbox \in Seq(Packet)
      /\ ts > 1 /\ n[ts - 1] = Len(sent[ts - 1]) + Len(outbox) /\ air \in Seq(Packed)
  BY <1>2 DEF Reader, StreamInv, Counts, ToSend
<1>4. PICK u, s : u = ts - 1 /\ s = Len(sent[u])
  OBVIOUS
<1>5. u \in Pushes /\ u \in 1 .. Len(sent) /\ u = Len(sent) /\ Pushes' = Pushes /\ u = ts' - 1
      /\ u \in Nat /\ Pushes = 1 .. u
  BY <1>2, <1>3, <1>4 DEF Pushes
<1>6. /\ Bounds(b, n, u) /\ sent[u] \in Seq(Nat) /\ s \in Nat /\ s + Len(outbox) = n[u]
      /\ Len(outbox) \in Nat /\ Len(outbox) > 0 /\ n[u] \in Parts
  BY <1>2, <1>3, <1>4, <1>5, PushBounds DEF StreamInv, Bounds
<1>7. /\ Len(Tail(outbox)) = Len(outbox) - 1 /\ DOMAIN outbox = 1 .. Len(outbox)
      /\ DOMAIN Tail(outbox) = 1 .. Len(outbox) - 1 /\ Head(outbox) = outbox[1]
      /\ \A i \in 1 .. Len(outbox) - 1 : Tail(outbox)[i] = outbox[i + 1]
  <2>1. /\ Len(Tail(outbox)) = Len(outbox) - 1 /\ DOMAIN outbox = 1 .. Len(outbox)
        /\ Head(outbox) = outbox[1] /\ Tail(outbox) \in Seq(Packet)
    BY <1>2, <1>3
  <2>2. \A i \in 1 .. Len(outbox) - 1 : Tail(outbox)[i] = outbox[i + 1]
    BY <1>2, <1>3
  <2> QED
    BY <2>1, <2>2
<1>8. /\ \A i \in DOMAIN outbox : outbox[i] = PacketOf(b, n, u, s + i)
      /\ Head(outbox) = PacketOf(b, n, u, s + 1) /\ Head(outbox) \in Packet
      /\ Head(outbox).part \in 1 .. jpg.len
  <2>1. \A i \in DOMAIN outbox : outbox[i] = PacketOf(b, n, u, s + i)
    BY <1>4 DEF StreamInv, ToSend
  <2>2. 1 \in DOMAIN outbox /\ outbox[1] \in Packet
    BY <1>3, <1>6, <1>7
  <2> QED
    BY <2>1, <2>2, <1>7 DEF Reader
<1>9. data \in Nat
  BY <1>1, <1>2, <1>8, ReadsMemory
<1>10. /\ sent'[u] = Append(sent[u], data) /\ Len(sent') = Len(sent)
       /\ \A t \in Pushes : t # u => sent'[t] = sent[t]
  <2>1. DOMAIN sent = 1 .. Len(sent)
    BY <1>3
  <2> QED
    BY <2>1, <1>2, <1>3, <1>5
<1>11. /\ Len(sent'[u]) = s + 1 /\ sent'[u][s + 1] = data
       /\ \A i \in 1 .. s : sent'[u][i] = sent[u][i]
  BY <1>4, <1>6, <1>9, <1>10, AppendProperties
<1>12. \A t \in Pushes : Longer(b, n, b, n, t)
  <2> SUFFICES ASSUME NEW t \in Pushes PROVE Longer(b, n, b, n, t)
    OBVIOUS
  <2>1. CASE t = u
    BY <2>1, <1>4, <1>5, <1>6, <1>11 DEF Longer
  <2>2. CASE t # u
    <3>1. Len(sent[t]) \in Nat
      BY PushBounds DEF StreamInv, Bounds
    <3> QED
      BY <2>2, <3>1, <1>5, <1>10 DEF Longer
  <2> QED
    BY <2>1, <2>2
<1>13. PICK e : e = [p |-> PacketOf(b, n, u, s + 1), data |-> data]
  OBVIOUS
<1>14. PICK z : z = Len(air) + 1
  OBVIOUS
<1>15. /\ air' \in Seq(Packed) /\ e \in Packed
       /\ DOMAIN air' = DOMAIN air \cup {z} /\ z \notin DOMAIN air /\ air'[z] = e
       /\ \A j \in DOMAIN air : air'[j] = air[j] /\ j < z /\ j \in Nat
       /\ z \in Nat /\ e.p.ts = u /\ e.p.part = s + 1 /\ e.p.seq = Num(b, u, s + 1)
  <2>1. e \in Packed
    BY <1>8, <1>9, <1>13 DEF Packed
  <2>2. air' = Append(air, e)
    BY <1>2, <1>8, <1>13
  <2>3. /\ DOMAIN air = 1 .. Len(air) /\ Len(air) \in Nat
        /\ air' \in Seq(Packed) /\ Len(air') = Len(air) + 1
        /\ \A j \in 1 .. Len(air) : air'[j] = air[j]
        /\ air'[Len(air) + 1] = e
    BY <1>3, <2>1, <2>2, AppendProperties
  <2>4. DOMAIN air' = 1 .. Len(air) + 1
    BY <2>3
  <2>5. 1 .. Len(air) + 1 = (1 .. Len(air)) \cup {Len(air) + 1}
    BY <2>3
  <2>6. e.p.ts = u /\ e.p.part = s + 1 /\ e.p.seq = Num(b, u, s + 1)
    BY <1>13 DEF PacketOf
  <2> QED
    BY <1>14, <2>1, <2>3, <2>4, <2>5, <2>6
<1>16. Counts(b, n)'
  BY <1>2, <1>3, <1>5, <1>10, <1>15 DEF StreamInv, Counts
<1>17. ToSend(b, n)'
  <2>1. n[u] = Len(sent'[u]) + Len(outbox')
    <3>1. Len(outbox') = Len(outbox) - 1
      BY <1>2, <1>7
    <3> QED
      BY <3>1, <1>6, <1>11
  <2>2. ASSUME NEW i \in DOMAIN outbox'
        PROVE  outbox'[i] = PacketOf(b, n, u, Len(sent'[u]) + i)
    <3>0. i \in 1 .. Len(outbox) - 1
      BY <1>2, <1>7
    <3>1. i \in 1 .. Len(outbox) - 1 /\ i + 1 \in DOMAIN outbox /\ s + (i + 1) = s + 1 + i
      BY <3>0, <1>6, <1>7
    <3>2. outbox'[i] = outbox[i + 1]
      BY <1>2, <1>7, <3>1
    <3>3. outbox[i + 1] = PacketOf(b, n, u, s + (i + 1))
      BY <1>8, <3>1
    <3> QED
      BY <3>1, <3>2, <3>3, <1>11
  <2>3. \A t \in Pushes : Len(sent'[t]) <= n[t]
    <3>1. Len(sent'[u]) <= n[u]
      BY <1>6, <1>11
    <3>2. \A t \in Pushes : t # u => Len(sent'[t]) <= n[t]
      BY <1>10 DEF StreamInv, ToSend
    <3> QED
      BY <3>1, <3>2
  <2>4. \A t \in Pushes : Len(sent'[t]) < n[t] => t \in lost \/ (t = u /\ outbox' # <<>>)
    <3>1. \A t \in Pushes : t # u => (Len(sent'[t]) < n[t] => t \in lost)
      BY <1>4, <1>10 DEF StreamInv, ToSend
    <3>2. Len(sent'[u]) < n[u] => outbox' # <<>>
      <4>1. Len(sent'[u]) < n[u] => Len(outbox') > 0
        BY <1>2, <1>6, <1>7, <1>11
      <4> QED
        BY <4>1
    <3> QED
      BY <3>1, <3>2
  <2> QED
    BY <1>2, <1>3, <1>5, <2>1, <2>2, <2>3, <2>4 DEF ToSend, PacketOf, Num
<1>18. \A j \in DOMAIN air :
          /\ air[j].p.ts \in Pushes /\ air[j].p.part \in 1 .. Len(sent[air[j].p.ts])
          /\ air[j] = [p |-> PacketOf(b, n, air[j].p.ts, air[j].p.part),
                       data |-> sent[air[j].p.ts][air[j].p.part]]
  BY DEF StreamInv, UnderWay
<1>19. UnderWay(b, n)'
  <2>1. ASSUME NEW j \in DOMAIN air'
        PROVE  /\ air'[j].p.ts \in Pushes /\ air'[j].p.part \in 1 .. Len(sent'[air'[j].p.ts])
               /\ air'[j] = [p |-> PacketOf(b, n, air'[j].p.ts, air'[j].p.part),
                             data |-> sent'[air'[j].p.ts][air'[j].p.part]]
    <3>1. CASE j = z
      <4>1. air'[j] = e /\ s + 1 \in 1 .. Len(sent'[u]) /\ sent'[u][s + 1] = data
        BY <3>1, <1>6, <1>11, <1>15
      <4> QED
        BY <4>1, <1>5, <1>13, <1>15
    <3>2. CASE j \in DOMAIN air
      <4>1. PICK t, q : t = air[j].p.ts /\ q = air[j].p.part
        OBVIOUS
      <4>2. t \in Pushes /\ q \in 1 .. Len(sent[t]) /\ air'[j] = air[j]
            /\ air[j] = [p |-> PacketOf(b, n, t, q), data |-> sent[t][q]]
        BY <3>2, <4>1, <1>15, <1>18
      <4>3. q \in 1 .. Len(sent'[t]) /\ sent'[t][q] = sent[t][q]
        BY <4>2, <1>12 DEF Longer
      <4> QED
        BY <4>1, <4>2, <4>3
    <3> QED
      BY <3>1, <3>2, <1>15
  <2>2. ASSUME NEW i \in DOMAIN air', NEW j \in DOMAIN air', i < j
        PROVE  \/ air'[i].p.ts < air'[j].p.ts
               \/ air'[i].p.ts = air'[j].p.ts /\ air'[i].p.part < air'[j].p.part
    <3>1. i \in DOMAIN air
      BY <2>2, <1>15
    <3>2. CASE j = z
      <4>1. air[i].p.ts \in Pushes /\ air[i].p.part \in 1 .. Len(sent[air[i].p.ts])
        BY <3>1, <1>18
      <4>2. air[i].p.ts < u \/ (air[i].p.ts = u /\ air[i].p.part < s + 1)
        BY <4>1, <1>4, <1>5, <1>6
      <4> QED
        BY <3>1, <3>2, <4>2, <1>15
    <3>3. CASE j \in DOMAIN air
      <4>1. \/ air[i].p.ts < air[j].p.ts
            \/ air[i].p.ts = air[j].p.ts /\ air[i].p.part < air[j].p.part
        BY <2>2, <3>1, <3>3 DEF StreamInv, UnderWay
      <4> QED
        BY <3>1, <3>3, <4>1, <1>15
    <3> QED
      BY <3>2, <3>3, <1>15
  <2> QED
    BY <1>5, <2>1, <2>2 DEF UnderWay, PacketOf, Num
<1>20. Table(b, n)'
  <2>1. \A t \in DOMAIN minfo : Longer(b, n, b, n, t)
    BY <1>12 DEF StreamInv, Table, Gathered
  <2>2. ASSUME NEW t \in DOMAIN minfo, NEW m, Gathered(b, n, t, m), Unmet(t, m)
        PROVE  Unmet(t, m)'
    <3>1. ASSUME t = u PROVE Num(b, u, s + 1) \notin DOMAIN m.fragments
      <4> SUFFICES ASSUME Num(b, u, s + 1) \in DOMAIN m.fragments PROVE FALSE
        OBVIOUS
      <4>1. PICK i \in 1 .. s : Num(b, u, s + 1) = Num(b, u, i)
        BY <2>2, <3>1, <1>4 DEF Gathered
      <4>2. i \in Parts /\ s + 1 \in Parts /\ i # s + 1 /\ b[u] \in Seqs
        BY <1>6 DEF Parts, Bounds
      <4> QED
        BY <4>1, <4>2, NumsDiffer
    <3>2. ASSUME NEW j \in DOMAIN air', air'[j].p.ts = t
          PROVE  air'[j].p.seq \notin DOMAIN m.fragments
      <4>1. CASE j = z
        BY <3>1, <3>2, <4>1, <1>15
      <4>2. CASE j \in DOMAIN air
        BY <2>2, <3>2, <4>2, <1>15 DEF Unmet
      <4> QED
        BY <4>1, <4>2, <1>15
    <3> QED
      BY <3>2 DEF Unmet
  <2>3. Table(b, n) /\ UNCHANGED <<minfo, doubled>>
    BY <1>2 DEF StreamInv
  <2> QED
    BY <2>1, <2>2, <2>3, TableStays
<1>21. HandedGood(n)'
  <2>1. \A t \in Pushes : sent'[t] = sent[t] \/ Len(sent[t]) < n[t]
    BY <1>4, <1>6, <1>10
  <2>2. HandedGood(n) /\ UNCHANGED <<handed, doubled>>
    BY <1>2 DEF StreamInv
  <2> QED
    BY <2>1, <2>2, <1>12, HandedStays
<1>22. CleanArrive(b, n)'
  <2> SUFFICES ASSUME NEW t \in Pushes, Clean(t)'
               PROVE  \E k \in 0 .. n[t] : Arrived(b, n, t, k)'
    BY <1>5 DEF CleanArrive
  <2>1. Clean(t)
    BY <1>2 DEF Clean
  <2>2. PICK k \in 0 .. n[t] : Arrived(b, n, t, k)
    BY <2>1 DEF StreamInv, CleanArrive
  <2>3. k \in Nat /\ k <= Len(sent[t]) /\ Len(sent[t]) \in Nat /\ Len(sent[t]) <= Len(sent'[t])
    BY <2>2, <1>12, PushBounds DEF StreamInv, Bounds, Parts, Arrived, Longer
  <2>4. (HandedOnce(t) => HandedOnce(t)') /\ (HandedNot(t) => HandedNot(t)')
    BY <1>2 DEF HandedOnce, HandedNot
  <2>5. \A j \in DOMAIN air' : air'[j].p.ts = t => air'[j].p.part > k
    <3> SUFFICES ASSUME NEW j \in DOMAIN air', air'[j].p.ts = t PROVE air'[j].p.part > k
      OBVIOUS
    <3>1. CASE j = z
      BY <3>1, <2>3, <1>4, <1>6, <1>15
    <3>2. CASE j \in DOMAIN air
      BY <3>2, <2>2, <1>15 DEF Arrived
    <3> QED
      BY <3>1, <3>2, <1>15
  <2>6. \A i \in k + 1 .. Len(sent'[t]) : \E j \in DOMAIN air' : air'[j].p.ts = t /\ air'[j].p.part = i
    <3> SUFFICES ASSUME NEW i \in k + 1 .. Len(sent'[t])
                 PROVE  \E j \in DOMAIN air' : air'[j].p.ts = t /\ air'[j].p.part = i
      OBVIOUS
    <3>1. CASE i \in k + 1 .. Len(sent[t])
      <4>1. PICK j \in DOMAIN air : air[j].p.ts = t /\ air[j].p.part = i
        BY <2>2, <3>1 DEF Arrived
      <4> QED
        BY <4>1, <1>15
    <3>2. CASE i \notin k + 1 .. Len(sent[t])
      <4>1. t = u
        BY <3>2, <1>10
      <4>2. i = s + 1
        BY <3>2, <4>1, <2>3, <1>4, <1>6, <1>11
      <4> QED
        BY <4>1, <4>2, <1>15
    <3> QED
      BY <3>1, <3>2
  <2>7. k <= Len(sent'[t])
    BY <2>3, <1>12 DEF Longer
  <2>8. Arrived(b, n, t, k)'
    BY <1>2, <2>2, <2>4, <2>5, <2>6, <2>7 DEF Arrived, Num
  <2> QED
    BY <2>2, <2>8
<1> QED
  BY <1>16, <1>17, <1>19, <1>20, <1>21, <1>22 DEF StreamInv

\* A step that leaves what the invariant is about alone: sending may stop, a
\* frame may be pulled.
LEMMA StreamRests ==
    ASSUME NEW b, NEW n, StreamInv(b, n),
           UNCHANGED <<ts, air, minfo, faults, lost, late, doubled, handed, outbox, sent, source>>,
           frames' = frames \/ (frames # <<>> /\ frames' = Tail(frames))
    PROVE  StreamInv(b, n)'
<1>1. (\E X : frames \in Seq(X))'
  <2>1. PICK X : frames \in Seq(X)
    BY DEF StreamInv, Counts
  <2>2. frames' \in Seq(X)
    BY <2>1
  <2> QED
    BY <2>2
<1>2. Counts(b, n)'
  BY <1>1 DEF StreamInv, Counts, Pushes
<1>3. ToSend(b, n)' /\ UnderWay(b, n)'
  BY DEF StreamInv, ToSend, UnderWay, Pushes, PacketOf, Num
<1>4. Table(b, n)'
  BY DEF StreamInv, Table, Gathered, Exact, Unmet, Complete, Received, Pushes, Sent, Num
<1>5. HandedGood(n)'
  BY GoodStays DEF StreamInv, HandedGood
<1>6. CleanArrive(b, n)'
  <2> SUFFICES ASSUME NEW t \in Pushes, Clean(t)
               PROVE  \E k \in 0 .. n[t] : Arrived(b, n, t, k)'
    BY DEF CleanArrive, Clean, Pushes
  <2>1. PICK k \in 0 .. n[t] : Arrived(b, n, t, k)
    BY DEF StreamInv, CleanArrive
  <2>2. Arrived(b, n, t, k)'
    BY <2>1 DEF Arrived, HandedOnce, HandedNot, Num
  <2> QED
    BY <2>2
<1> QED
  BY <1>2, <1>3, <1>4, <1>5, <1>6 DEF StreamInv

LEMMA GivesUpKeeps ==
    ASSUME NEW b, NEW n, Reader, StreamInv(b, n), SendGivesUp
    PROVE  StreamInv(b, n)'
<1>1. /\ outbox # <<>> /\ faults > 0 /\ faults' = faults - 1 /\ outbox' = <<>>
      /\ lost' = lost \cup {Head(outbox).ts}
      /\ UNCHANGED <<seq, ts, air, minfo, frames, late, doubled, handed, sent, source>>
  BY DEF SendGivesUp, SendFails
<1>2. Head(outbox).ts = ts - 1
  <2>1. outbox \in Seq(Packet)
    BY DEF Reader
  <2>2. 1 \in DOMAIN outbox /\ Head(outbox) = outbox[1]
    BY <2>1, <1>1
  <2>3. outbox[1] = PacketOf(b, n, ts - 1, Len(sent[ts - 1]) + 1)
    BY <2>2 DEF StreamInv, ToSend
  <2> QED
    BY <2>2, <2>3 DEF PacketOf
<1>3. faults' \in Nat
  BY <1>1 DEF StreamInv, Counts
<1>4. Counts(b, n)'
  BY <1>1, <1>3 DEF StreamInv, Counts, Pushes
<1>5. ToSend(b, n)'
  BY <1>1, <1>2 DEF StreamInv, ToSend, Pushes
<1>6. UnderWay(b, n)'
  BY <1>1 DEF StreamInv, UnderWay, Pushes, PacketOf, Num
<1>7. Table(b, n)'
  BY <1>1 DEF StreamInv, Table, Gathered, Exact, Unmet, Complete, Received, Pushes, Sent, Num
<1>8. HandedGood(n)'
  BY <1>1, GoodStays DEF StreamInv, HandedGood
<1>9. CleanArrive(b, n)'
  <2> SUFFICES ASSUME NEW t \in Pushes, Clean(t)
               PROVE  \E k \in 0 .. n[t] : Arrived(b, n, t, k)'
    BY <1>1 DEF CleanArrive, Clean, Pushes
  <2>1. PICK k \in 0 .. n[t] : Arrived(b, n, t, k)
    BY DEF StreamInv, CleanArrive
  <2>2. Arrived(b, n, t, k)'
    BY <1>1, <2>1 DEF Arrived, HandedOnce, HandedNot, Num
  <2> QED
    BY <2>2
<1> QED
  BY <1>4, <1>5, <1>6, <1>7, <1>8, <1>9 DEF StreamInv

LEMMA LoseKeeps ==
    ASSUME NEW b, NEW n, Reader, StreamInv(b, n), NEW i \in DOMAIN air, Lose(i), UNCHANGED <<sent, source>>
    PROVE  StreamInv(b, n)'
<1>1. /\ air' = Without(air, i) /\ faults > 0 /\ faults' = faults - 1
      /\ lost' = lost \cup {air[i].p.ts} /\ air \in Seq(Packed)
      /\ UNCHANGED <<seq, ts, outbox, minfo, frames, late, doubled, handed, sent, source>>
  BY DEF Lose, StreamInv, Counts
<1>2. air' \in Seq(Packed) /\ Thinned(air', air, i)
  <2>1. i \in 1 .. Len(air)
    BY <1>1
  <2> QED
    BY <1>1, <2>1, WithoutThins
<1>3. faults' \in Nat
  BY <1>1 DEF StreamInv, Counts
<1>4. Counts(b, n)'
  BY <1>1, <1>2, <1>3 DEF StreamInv, Counts, Pushes
<1>5. ToSend(b, n)'
  BY <1>1 DEF StreamInv, ToSend, Pushes, PacketOf, Num
<1>6. UnderWay(b, n)'
  BY <1>1, <1>2, UnderWayThins DEF StreamInv
<1>7. Table(b, n)'
  <2>1. ASSUME NEW t, NEW m, Unmet(t, m) PROVE Unmet(t, m)'
    BY <1>2, <2>1 DEF Unmet, Thinned
  <2>2. \A t \in DOMAIN minfo : Longer(b, n, b, n, t)
    <3> SUFFICES ASSUME NEW t \in DOMAIN minfo PROVE Longer(b, n, b, n, t)
      OBVIOUS
    <3>1. t \in Pushes /\ Pushes' = Pushes
      BY <1>1 DEF StreamInv, Table, Gathered, Pushes
    <3>2. Len(sent[t]) \in Nat
      BY <3>1, PushBounds DEF StreamInv, Bounds
    <3> QED
      BY <1>1, <3>1, <3>2 DEF Longer
  <2>3. Table(b, n)
    BY DEF StreamInv
  <2> QED
    BY <1>1, <2>1, <2>2, <2>3, TableStays
<1>8. HandedGood(n)'
  BY <1>1, GoodStays DEF StreamInv, HandedGood
<1>9. CleanArrive(b, n)'
  <2> SUFFICES ASSUME NEW t \in Pushes, Clean(t), t # air[i].p.ts
               PROVE  \E k \in 0 .. n[t] : Arrived(b, n, t, k)'
    BY <1>1 DEF CleanArrive, Clean, Pushes
  <2>1. PICK k \in 0 .. n[t] : Arrived(b, n, t, k)
    BY DEF StreamInv, CleanArrive
  <2>2. \A j \in DOMAIN air' : air'[j].p.ts = t => air'[j].p.part > k
    BY <1>2, <2>1 DEF Arrived, Thinned
  <2>3. ASSUME NEW q \in k + 1 .. Len(sent'[t])
        PROVE  \E j \in DOMAIN air' : air'[j].p.ts = t /\ air'[j].p.part = q
    <3>1. PICK l \in DOMAIN air : air[l].p.ts = t /\ air[l].p.part = q
      BY <1>1, <2>1 DEF Arrived
    <3>2. l \in DOMAIN air \ {i}
      BY <3>1
    <3> QED
      BY <1>2, <3>1, <3>2 DEF Thinned
  <2>4. (HandedOnce(t) => HandedOnce(t)') /\ (HandedNot(t) => HandedNot(t)')
    BY <1>1 DEF HandedOnce, HandedNot
  <2>5. Arrived(b, n, t, k)'
    BY <1>1, <2>1, <2>2, <2>3, <2>4 DEF Arrived, Num
  <2> QED
    BY <2>5
<1> QED
  BY <1>4, <1>5, <1>6, <1>7, <1>8, <1>9 DEF StreamInv

\* With a camera of its own the viewer has no stream.
LEMMA LocalRests ==
    ASSUME NEW b, NEW n, StreamInv(b, n), source = "local",
           UNCHANGED rtpvars, UNCHANGED source
    PROVE  StreamInv(b, n)'
<1>1. /\ ts = 1 /\ Pushes = {} /\ Pushes' = {}
      /\ UNCHANGED <<ts, outbox, air, minfo, frames, faults, lost, late, doubled, handed, source>>
  BY DEF StreamInv, Counts, Pushes, rtpvars, ghostsRtp
<1>2. outbox = <<>> /\ DOMAIN air = {} /\ DOMAIN minfo = {} /\ DOMAIN handed = {}
  <2>1. outbox = <<>>
    BY <1>1 DEF StreamInv, ToSend
  <2>2. DOMAIN air = {}
    BY <1>1 DEF StreamInv, UnderWay
  <2>3. DOMAIN minfo = {}
    BY <1>1 DEF StreamInv, Table, Gathered
  <2>4. DOMAIN handed = {}
    BY <1>1 DEF StreamInv, HandedGood, Good
  <2> QED
    BY <2>1, <2>2, <2>3, <2>4
<1>3. Counts(b, n)'
  BY <1>1 DEF StreamInv, Counts
<1>4. ToSend(b, n)'
  <2>1. DOMAIN outbox = {}
    BY <1>2
  <2> QED
    BY <1>1, <1>2, <2>1 DEF ToSend
<1>5. UnderWay(b, n)' /\ Table(b, n)' /\ HandedGood(n)' /\ CleanArrive(b, n)'
  BY <1>1, <1>2 DEF UnderWay, Table, HandedGood, CleanArrive
<1> QED
  BY <1>3, <1>4, <1>5 DEF StreamInv

\* Every push has a first sequence number and a number of packets.
StreamOK == \E b \in [Pushes -> Seqs], n \in [Pushes -> Parts] : StreamInv(b, n)

LEMMA StreamStarts == Init => StreamOK
<1> SUFFICES ASSUME Init PROVE StreamOK
  OBVIOUS
<1>1. /\ source \in {"stream", "local"} /\ sent = <<>> /\ ts = 1 /\ outbox = <<>> /\ air = <<>>
      /\ minfo = <<>> /\ frames = <<>> /\ handed = <<>> /\ faults \in Nat
  BY SourcesAssumption, RtpAssumption DEF Init, RtpInit
<1>2. PICK b, n : b = [t \in Pushes |-> 0] /\ n = [t \in Pushes |-> 1]
  OBVIOUS
<1>3. Pushes = {} /\ b \in [Pushes -> Seqs] /\ n \in [Pushes -> Parts]
  BY <1>1, <1>2 DEF Pushes
<1>4. Counts(b, n)
  <2>1. handed \in Seq({}) /\ frames \in Seq({}) /\ air \in Seq(Packed) /\ Len(sent) = 0
    BY <1>1
  <2> QED
    BY <1>1, <1>3, <2>1 DEF Counts
<1>5. DOMAIN outbox = {} /\ DOMAIN air = {} /\ DOMAIN minfo = {} /\ DOMAIN handed = {}
  <2>1. DOMAIN <<>> = {}
    OBVIOUS
  <2> QED
    BY <1>1, <2>1
<1>6. ToSend(b, n) /\ UnderWay(b, n) /\ Table(b, n) /\ HandedGood(n) /\ CleanArrive(b, n)
  BY <1>1, <1>3, <1>5 DEF ToSend, UnderWay, Table, HandedGood, CleanArrive
<1> QED
  BY <1>3, <1>4, <1>6 DEF StreamOK, StreamInv

\* The steps that only read the stream, or do not touch it.
Resting ==
    /\ UNCHANGED <<ts, air, minfo, faults, lost, late, doubled, handed, outbox, sent, source>>
    /\ frames' = frames \/ (frames # <<>> /\ frames' = Tail(frames))

LEMMA StreamSteps ==
    ASSUME [Next]_vars
    PROVE  \/ Push \/ Send \/ SendGivesUp \/ Dispatcher \/ CaptureLocal \/ ReadLocal \/ Resting
           \/ \E i \in DOMAIN air :
                 (Overtake(i) \/ Lose(i) \/ Double(i)) /\ UNCHANGED <<camvars, viewvars, source, sent>>
<1>1. ASSUME Driver \/ Capture \/ DecodeFrame \/ Copy \/ PushEvent \/ Display \/ Close \/ UNCHANGED vars
      PROVE  Resting
  <2>1. UNCHANGED <<rtpvars, source, sent>>
    BY <1>1 DEF Driver, Capture, DecodeFrame, Copy, PushEvent, Display, Close, vars
  <2> QED
    BY <2>1 DEF Resting, rtpvars, ghostsRtp
<1>2. ASSUME Pull PROVE Resting
  BY <1>2 DEF Pull, PullFrame, Resting, ghostsRtp
<1>3. ASSUME Faulty
      PROVE  \E i \in DOMAIN air :
                 (Overtake(i) \/ Lose(i) \/ Double(i)) /\ UNCHANGED <<camvars, viewvars, source, sent>>
  BY <1>3 DEF Faulty, Network
<1> QED
  BY <1>1, <1>2, <1>3 DEF Next, Sender, Decoder

LEMMA StreamKeeps == CameraInv /\ Reader /\ StreamOK /\ [Next]_vars => StreamOK'
<1> SUFFICES ASSUME CameraInv, Reader, StreamOK, [Next]_vars PROVE StreamOK'
  OBVIOUS
<1>1. PICK b \in [Pushes -> Seqs], n \in [Pushes -> Parts] : StreamInv(b, n)
  BY DEF StreamOK
<1>2. CASE Push
  BY <1>1, <1>2, PushKeeps DEF StreamOK
<1>3. ASSUME StreamInv(b, n)', Pushes' = Pushes PROVE StreamOK'
  BY <1>1, <1>3 DEF StreamOK
<1>4. Counts(b, n)
  BY <1>1 DEF StreamInv
<1>5. CASE Send
  <2>1. Pushes' = Pushes
    BY <1>5 DEF Send, SendPacket, Pushes
  <2> QED
    BY <1>1, <1>3, <1>5, <2>1, SendKeeps
<1>6. CASE SendGivesUp
  <2>1. Pushes' = Pushes
    BY <1>6 DEF SendGivesUp, SendFails, Pushes
  <2> QED
    BY <1>1, <1>3, <1>6, <2>1, GivesUpKeeps
<1>7. ASSUME NEW i, Taken(i) PROVE StreamOK'
  <2>1. Pushes' = Pushes
    BY <1>7 DEF Taken, Pushes
  <2> QED
    BY <1>1, <1>3, <1>7, <2>1, TakenKeeps
<1>8. CASE Dispatcher
  BY <1>4, <1>7, <1>8, ReceiveTakes
<1>9. ASSUME NEW i \in DOMAIN air, Overtake(i) \/ Lose(i) \/ Double(i), UNCHANGED <<sent, source>>
      PROVE  StreamOK'
  <2>1. CASE Overtake(i)
    BY <1>4, <1>7, <1>9, <2>1, OvertakeTakes
  <2>2. CASE Double(i)
    BY <1>4, <1>7, <1>9, <2>2, DoubleTakes
  <2>3. CASE Lose(i)
    <3>1. Pushes' = Pushes
      BY <2>3 DEF Lose, Pushes
    <3> QED
      BY <1>1, <1>3, <1>9, <2>3, <3>1, LoseKeeps
  <2> QED
    BY <1>9, <2>1, <2>2, <2>3
<1>10. CASE CaptureLocal \/ ReadLocal
  <2>1. source = "local" /\ UNCHANGED rtpvars /\ UNCHANGED source
    BY <1>10 DEF CaptureLocal, ReadLocal, Reader
  <2>2. Pushes' = Pushes
    BY <2>1 DEF rtpvars, Pushes
  <2> QED
    BY <1>1, <1>3, <2>1, <2>2, LocalRests
<1>11. CASE Resting
  <2>1. Pushes' = Pushes
    BY <1>11 DEF Resting, Pushes
  <2>2. StreamInv(b, n)'
    BY <1>1, <1>11, StreamRests DEF Resting
  <2> QED
    BY <1>3, <2>1, <2>2
<1> QED
  BY <1>2, <1>5, <1>6, <1>8, <1>9, <1>10, <1>11, StreamSteps

LEMMA StreamAlways == Spec => [](RingInv /\ StreamOK)
<1>1. StreamOK /\ RingInv /\ [Next]_vars => StreamOK'
  BY StreamKeeps DEF RingInv
<1> QED
  BY <1>1, RingAlways, StreamStarts, PTL DEF Spec

\* All packets of an untouched push have arrived once none is left to be sent and
\* none is under way: it has been handed over.
LEMMA AllArrived ==
    ASSUME NEW b, NEW n, Reader, StreamInv(b, n), NEW t \in Pushes, Clean(t),
           ~ \E i \in DOMAIN outbox : outbox[i].ts = t, ~ \E i \in DOMAIN air : air[i].p.ts = t
    PROVE  HandedOnce(t)
<1>1. PICK k \in 0 .. n[t] : Arrived(b, n, t, k)
  BY DEF StreamInv, CleanArrive
<1>2. /\ Len(sent[t]) \in Nat /\ Len(sent[t]) <= n[t] /\ n[t] \in Nat
  BY PushBounds DEF StreamInv, Bounds, Parts
<1>3. Len(sent[t]) = n[t]
  <2> SUFFICES ASSUME Len(sent[t]) < n[t] PROVE FALSE
    BY <1>2
  <2>1. t = ts - 1 /\ outbox # <<>>
    BY DEF StreamInv, ToSend, Clean
  <2>2. outbox \in Seq(Packet)
    BY DEF Reader
  <2>3. 1 \in DOMAIN outbox
    BY <2>1, <2>2
  <2>4. outbox[1] = PacketOf(b, n, ts - 1, Len(sent[ts - 1]) + 1)
    BY <2>3 DEF StreamInv, ToSend
  <2>5. outbox[1].ts = t
    BY <2>1, <2>4 DEF PacketOf
  <2> QED
    BY <2>3, <2>5
<1>4. k = n[t]
  <2>1. \A i \in k + 1 .. Len(sent[t]) : FALSE
    BY <1>1 DEF Arrived
  <2>2. k <= n[t] /\ k \in Nat
    BY <1>1, <1>2
  <2> QED
    BY <1>2, <1>3, <2>1, <2>2
<1> QED
  BY <1>1, <1>4 DEF Arrived

LEMMA StreamArrives == Reader /\ StreamOK => FramesArrive
<1> SUFFICES ASSUME Reader, NEW b, NEW n, StreamInv(b, n) PROVE FramesArrive
  BY DEF StreamOK
<1>1. NothingMadeUp
  <2> SUFFICES ASSUME NEW k \in DOMAIN handed
               PROVE  LET f == handed[k]
                          t == f[1].ts
                      IN  \/ Len(f) = 1
                          \/ t \in doubled
                          \/ f = Pushed(t)
                          \/ \E i \in 1 .. Len(f) : SubSeq(f, i, Len(f)) \o SubSeq(f, 1, i - 1) = Pushed(t)
    BY DEF NothingMadeUp
  <2>1. PICK f : f = handed[k]
    OBVIOUS
  <2>2. Good(f, n)
    BY <2>1 DEF StreamInv, HandedGood
  <2> QED
    BY <2>1, <2>2 DEF Good, Entire, Turned
<1>2. UntouchedArrives
  <2> SUFFICES ASSUME NEW t \in Pushes, Clean(t),
                      ~ \E i \in DOMAIN outbox : outbox[i].ts = t,
                      ~ \E i \in DOMAIN air : air[i].p.ts = t
               PROVE  Cardinality({k \in DOMAIN handed : handed[k][1].ts = t}) = 1
    BY DEF UntouchedArrives, Pushes, Clean
  <2>1. HandedOnce(t)
    BY AllArrived
  <2>2. PICK k \in DOMAIN handed : \A l \in DOMAIN handed : (handed[l][1].ts = t) <=> (l = k)
    BY <2>1 DEF HandedOnce
  <2>3. {l \in DOMAIN handed : handed[l][1].ts = t} = {k}
    BY <2>2
  <2> QED
    BY <2>3, FS_Singleton
<1> QED
  BY <1>1, <1>2 DEF FramesArrive

\* What the sender cuts up in push_media_frame() the receiver puts together again
\* in packet_handler(): only whole pushes or single packets reach the application,
\* and a push no packet of which met with a fault reaches it exactly once.
THEOREM FramesArriveAlways == Spec => []FramesArrive
<1>1. RingInv /\ StreamOK => FramesArrive
  BY StreamArrives DEF RingInv
<1> QED
  BY <1>1, StreamAlways, PTL

-----------------------------------------------------------------------------
(***************************************************************************)
(* What is shown, stage by stage.                                          *)
(***************************************************************************)
LEMMA HalfStays ==
    ASSUME NEW x, NEW y, NEW z, NEW w, Half(x, y, z, w), \A v : NotAhead(v) => NotAhead(v)'
    PROVE  Half(x, y, z, w)'
  BY DEF Half, Before, Torn

\* The viewer's own steps leave alone what is still to come.
LEMMA SupplyRests ==
    ASSUME UNCHANGED <<source, frames, air, ts, outbox, sent>>
    PROVE  (\A v : NotAhead(v) => NotAhead(v)') /\ (Queue => Queue')
<1>1. \A v : NotAhead(v) => NotAhead(v)'
  BY DEF NotAhead
<1>2. Queue => Queue'
  BY DEF Queue, Pushes
<1> QED
  BY <1>1, <1>2

\* A step that does not change what the viewer holds.
LEMMA ViewRests ==
    ASSUME Stages, UNCHANGED <<texture, tbuff, bmp, input>>,
           \A v : NotAhead(v) => NotAhead(v)', Queue'
    PROVE  Stages'
<1>1. ASSUME NEW h \in {1, 2} PROVE Half(texture[h], tbuff[h], bmp, InputTs)'
  <2>1. PICK x, y, z, w : x = texture[h] /\ y = tbuff[h] /\ z = bmp /\ w = InputTs
    OBVIOUS
  <2>2. Half(x, y, z, w)
    BY <2>1 DEF Stages
  <2>3. Half(x, y, z, w)'
    BY <2>2, HalfStays
  <2>4. x = texture'[h] /\ y = tbuff'[h] /\ z = bmp' /\ w = InputTs'
    BY <2>1 DEF InputTs
  <2> QED
    BY <2>3, <2>4 DEF Half, NotAhead
<1>2. (texture \in [{1, 2} -> Nat] /\ tbuff \in [{1, 2} -> Nat])'
  BY DEF Stages
<1> QED
  BY <1>1, <1>2 DEF Stages

\* A step of the viewer, half by half.
LEMMA ViewMoves ==
    ASSUME Stages, \A v : NotAhead(v) => NotAhead(v)', Queue',
           texture' \in [{1, 2} -> Nat], tbuff' \in [{1, 2} -> Nat],
           NEW z, z = bmp', NEW w, w = InputTs',
           \A h \in {1, 2} :
               \E x, y : x = texture'[h] /\ y = tbuff'[h] /\ Half(x, y, z, w)'
    PROVE  Stages'
<1>1. ASSUME NEW h \in {1, 2} PROVE Half(texture[h], tbuff[h], bmp, InputTs)'
  <2>1. PICK x, y : x = texture'[h] /\ y = tbuff'[h] /\ Half(x, y, z, w)'
    OBVIOUS
  <2> QED
    BY <2>1 DEF Half, NotAhead
<1> QED
  BY <1>1 DEF Stages

\* Nothing is earlier than a torn picture.
LEMMA TornFirst ==
    ASSUME NEW b, NEW n, Reader, StreamInv(b, n), Queue
    PROVE  NotAhead(Torn)
<1>1. ts \in Nat \ {0} /\ Len(sent) \in Nat
  BY DEF Reader
<1>2. \A i \in DOMAIN frames : frames[i][1].ts \in Nat
  BY <1>1 DEF Queue, Pushes
<1>3. \A j \in DOMAIN air : air[j].p.ts \in Nat
  BY <1>1 DEF StreamInv, UnderWay, Pushes
<1> QED
  BY <1>1, <1>2, <1>3 DEF NotAhead, Torn

\* The two halves are copied one after the other, and shown one after the other.
LEMMA CopyKeeps ==
    ASSUME Stages, Copy
    PROVE  Stages'
<1>1. /\ UNCHANGED <<source, frames, air, ts, outbox, sent, texture, bmp, input>>
      /\ \E g \in {1, 2} : tbuff' = [tbuff EXCEPT ![g] = bmp]
  BY DEF Copy, CopyHalves, rtpvars, displayvars
<1>2. PICK g \in {1, 2} : tbuff' = [tbuff EXCEPT ![g] = bmp]
  BY <1>1
<1>3. PICK z, w : z = bmp /\ w = InputTs /\ z = bmp' /\ w = InputTs'
  BY <1>1 DEF InputTs
<1>4. (\A v : NotAhead(v) => NotAhead(v)') /\ Queue'
  BY <1>1, SupplyRests DEF Stages
<1>5. /\ texture \in [{1, 2} -> Nat] /\ tbuff \in [{1, 2} -> Nat]
      /\ \A h \in {1, 2} : Half(texture[h], tbuff[h], z, w)
  BY <1>3 DEF Stages
<1>6. z \in Nat
  BY <1>5 DEF Half, NotAhead
<1>7. texture' \in [{1, 2} -> Nat] /\ tbuff' \in [{1, 2} -> Nat]
  BY <1>1, <1>2, <1>3, <1>5, <1>6
<1>8. ASSUME NEW h \in {1, 2}
      PROVE  \E x, y : x = texture'[h] /\ y = tbuff'[h] /\ Half(x, y, z, w)'
  <2>1. PICK x, y, y2 : x = texture[h] /\ y = tbuff[h] /\ y2 = tbuff'[h]
    OBVIOUS
  <2>2. x = texture'[h] /\ (y2 = y \/ y2 = z)
    BY <1>1, <1>2, <1>3, <1>5, <2>1
  <2>3. Half(x, y, z, w)
    BY <1>5, <2>1
  <2>4. Half(x, y2, z, w)
    BY <2>2, <2>3 DEF Half, Before, NotAhead
  <2>5. Half(x, y2, z, w)'
    BY <2>4, <1>4, HalfStays
  <2> QED
    BY <2>1, <2>2, <2>5
<1> QED
  BY <1>3, <1>4, <1>7, <1>8, ViewMoves

LEMMA UploadKeeps ==
    ASSUME Stages, Upload, UNCHANGED <<camvars, rtpvars, source, sent>>
    PROVE  Stages'
<1>1. /\ UNCHANGED <<source, frames, air, ts, outbox, sent, tbuff, bmp, input>>
      /\ \E g \in {1, 2} : texture' = [texture EXCEPT ![g] = tbuff[g]]
  BY DEF Upload, rtpvars, decodervars
<1>2. PICK g \in {1, 2} : texture' = [texture EXCEPT ![g] = tbuff[g]]
  BY <1>1
<1>3. PICK z, w : z = bmp /\ w = InputTs /\ z = bmp' /\ w = InputTs'
  BY <1>1 DEF InputTs
<1>4. (\A v : NotAhead(v) => NotAhead(v)') /\ Queue'
  BY <1>1, SupplyRests DEF Stages
<1>5. /\ texture \in [{1, 2} -> Nat] /\ tbuff \in [{1, 2} -> Nat]
      /\ \A h \in {1, 2} : Half(texture[h], tbuff[h], z, w)
  BY <1>3 DEF Stages
<1>6. texture' \in [{1, 2} -> Nat] /\ tbuff' \in [{1, 2} -> Nat]
  BY <1>1, <1>2, <1>5
<1>7. ASSUME NEW h \in {1, 2}
      PROVE  \E x, y : x = texture'[h] /\ y = tbuff'[h] /\ Half(x, y, z, w)'
  <2>1. PICK x, y, x2 : x = texture[h] /\ y = tbuff[h] /\ x2 = texture'[h]
    OBVIOUS
  <2>2. y = tbuff'[h] /\ (x2 = x \/ x2 = y)
    BY <1>1, <1>2, <1>5, <2>1
  <2>3. Half(x, y, z, w)
    BY <1>5, <2>1
  <2>4. Half(x2, y, z, w)
    BY <2>2, <2>3 DEF Half, Before, NotAhead
  <2>5. Half(x2, y, z, w)'
    BY <2>4, <1>4, HalfStays
  <2> QED
    BY <2>1, <2>2, <2>5
<1> QED
  BY <1>3, <1>4, <1>6, <1>7, ViewMoves

\* What was decoded is what was taken in, or torn; what was taken in is used up.
LEMMA DecodeKeeps ==
    ASSUME NEW b, NEW n, Reader, StreamInv(b, n), Stages, DecodeFrame
    PROVE  Stages'
<1>1. /\ UNCHANGED <<source, frames, air, ts, outbox, sent, texture, tbuff>>
      /\ input' = <<>>
      /\ bmp' \in {bmp, Torn} \/ (Whole(input) /\ bmp' = input[1].ts)
  BY DEF DecodeFrame, Decode, rtpvars, displayvars
<1>2. PICK z, w, z2 : z = bmp /\ w = InputTs /\ z2 = bmp'
  OBVIOUS
<1>3. InputTs' = Torn /\ z2 \in {z, Torn, w}
  <2>1. Whole(input) => input # <<>>
    <3>1. DOMAIN <<1, 1, 1>> = 1 .. 3 /\ Len(<<>>) = 0
      OBVIOUS
    <3> QED
      BY <3>1 DEF Whole
  <2> QED
    BY <1>1, <1>2, <2>1 DEF InputTs
<1>4. (\A v : NotAhead(v) => NotAhead(v)') /\ Queue'
  BY <1>1, SupplyRests DEF Stages
<1>5. NotAhead(Torn)
  BY TornFirst DEF Stages
<1>6. /\ texture \in [{1, 2} -> Nat] /\ tbuff \in [{1, 2} -> Nat]
      /\ \A h \in {1, 2} : Half(texture[h], tbuff[h], z, w)
  BY <1>2 DEF Stages
<1>7. ASSUME NEW h \in {1, 2}
      PROVE  \E x, y : x = texture'[h] /\ y = tbuff'[h] /\ Half(x, y, z2, Torn)'
  <2>1. PICK x, y : x = texture[h] /\ y = tbuff[h]
    OBVIOUS
  <2>2. Half(x, y, z, w)
    BY <1>6, <2>1
  <2>3. Half(x, y, z2, Torn)
    BY <1>3, <1>5, <2>2 DEF Half, Before
  <2>4. Half(x, y, z2, Torn)'
    BY <1>4, <2>3, HalfStays
  <2> QED
    BY <1>1, <2>1, <2>4
<1> QED
  BY <1>1, <1>2, <1>3, <1>4, <1>6, <1>7, ViewMoves

\* The oldest frame in the queue becomes the decoder's input.
LEMMA PullKeeps ==
    ASSUME NEW b, NEW n, Reader, StreamInv(b, n), Stages, Pull
    PROVE  Stages'
<1>1. /\ source = "stream" /\ frames # <<>> /\ frames' = Tail(frames) /\ input' = Head(frames)
      /\ UNCHANGED <<source, air, ts, outbox, sent, texture, tbuff, bmp>>
  BY DEF Pull, PullFrame, displayvars
<1>2. PICK X : frames \in Seq(X)
  BY DEF StreamInv, Counts
<1>3. /\ 1 \in DOMAIN frames /\ Head(frames) = frames[1]
      /\ \A i \in DOMAIN frames' : /\ i + 1 \in DOMAIN frames /\ frames'[i] = frames[i + 1]
                                   /\ i \in Nat /\ 1 < i + 1
  <2>1. Len(frames') = Len(frames) - 1 /\ frames' \in Seq(X) /\ Len(frames) \in Nat /\ Len(frames) > 0
    BY <1>1, <1>2
  <2>2. DOMAIN frames = 1 .. Len(frames) /\ DOMAIN frames' = 1 .. Len(frames) - 1
    BY <1>2, <2>1
  <2>3. \A i \in 1 .. Len(frames) - 1 : frames'[i] = frames[i + 1]
    BY <1>1, <1>2
  <2> QED
    BY <1>1, <1>2, <2>1, <2>2, <2>3
<1>4. Queue
  BY DEF Stages
<1>5. Queue'
  <2>1. \A i, j \in DOMAIN frames' : i < j => frames'[i][1].ts <= frames'[j][1].ts
    <3> SUFFICES ASSUME NEW i \in DOMAIN frames', NEW j \in DOMAIN frames', i < j
                 PROVE  frames'[i][1].ts <= frames'[j][1].ts
      OBVIOUS
    <3>1. i + 1 < j + 1 /\ i + 1 \in DOMAIN frames /\ j + 1 \in DOMAIN frames
      BY <1>3
    <3> QED
      BY <1>3, <1>4, <3>1 DEF Queue
  <2>2. \A i \in DOMAIN frames' : frames'[i][1].ts \in Pushes
    BY <1>3, <1>4 DEF Queue
  <2>3. \A i \in DOMAIN frames' : \A j \in DOMAIN air : frames'[i][1].ts <= air[j].p.ts
    BY <1>3, <1>4 DEF Queue
  <2> QED
    BY <1>1, <2>1, <2>2, <2>3 DEF Queue, Pushes
<1>6. \A v : NotAhead(v) => NotAhead(v)'
  BY <1>1, <1>3 DEF NotAhead
<1>7. PICK z, w, w2 : z = bmp /\ w = InputTs /\ w2 = InputTs'
  OBVIOUS
<1>8. w2 = Torn \/ w2 = frames[1][1].ts
  BY <1>1, <1>3, <1>7 DEF InputTs
<1>9. NotAhead(w2)'
  <2>1. CASE w2 = Torn
    BY <2>1, <1>4, <1>6, TornFirst
  <2>2. CASE w2 = frames[1][1].ts
    <3>1. w2 \in Nat /\ w2 <= ts - 1 /\ ts \in Nat
      BY <1>3, <1>4, <2>2 DEF Queue, Pushes, Reader
    <3>2. \A i \in DOMAIN frames' : w2 <= frames'[i][1].ts
      BY <1>3, <1>4, <2>2 DEF Queue
    <3>3. \A j \in DOMAIN air : w2 <= air[j].p.ts
      BY <1>3, <1>4, <2>2 DEF Queue
    <3> QED
      BY <1>1, <3>1, <3>2, <3>3 DEF NotAhead
  <2> QED
    BY <1>8, <2>1, <2>2
<1>10. ASSUME NEW v, NotAhead(v) PROVE Before(v, w2)
  BY <1>1, <1>3, <1>8, <1>10 DEF NotAhead, Before
<1>11. /\ texture \in [{1, 2} -> Nat] /\ tbuff \in [{1, 2} -> Nat]
       /\ \A h \in {1, 2} : Half(texture[h], tbuff[h], z, w)
  BY <1>7 DEF Stages
<1>12. ASSUME NEW h \in {1, 2}
       PROVE  \E x, y : x = texture'[h] /\ y = tbuff'[h] /\ Half(x, y, z, w2)'
  <2>1. PICK x, y : x = texture[h] /\ y = tbuff[h]
    OBVIOUS
  <2>2. Half(x, y, z, w)
    BY <1>11, <2>1
  <2>3. NotAhead(x) /\ NotAhead(y) /\ NotAhead(z)
    BY <2>2 DEF Half
  <2>4. NotAhead(x)' /\ NotAhead(y)' /\ NotAhead(z)'
    BY <1>6, <2>3
  <2>5. Before(x, w2) /\ Before(y, w2) /\ Before(z, w2)
    BY <1>10, <2>3
  <2>6. Half(x, y, z, w2)'
    BY <1>9, <2>2, <2>4, <2>5 DEF Half, Before, Torn
  <2> QED
    BY <1>1, <2>1, <2>6
<1> QED
  BY <1>1, <1>5, <1>6, <1>7, <1>11, <1>12, ViewMoves

\* The local decoder reads on: its input is the last picture captured.
LEMMA ReadKeeps ==
    ASSUME Reader, Stages, ReadLocal
    PROVE  Stages'
<1>1. /\ source = "local" /\ sent \in Seq(Seq(Nat)) /\ Len(sent) > 0 /\ input \in Seq(Piece)
  BY DEF ReadLocal, Reader
<1>2. PICK e : /\ input' = Append(input, e) /\ e.ts = Len(sent)
  BY DEF ReadLocal
<1>3. Len(sent') = Len(sent)
  <2>1. PICK d : sent' = [sent EXCEPT ![Len(sent)] = d]
    BY DEF ReadLocal
  <2> QED
    BY <1>1, <2>1
<1>4. UNCHANGED <<source, frames, air, ts, outbox, texture, tbuff, bmp>>
  BY DEF ReadLocal, rtpvars, displayvars
<1>5. \A v : NotAhead(v) => NotAhead(v)'
  BY <1>3, <1>4 DEF NotAhead
<1>6. Queue'
  BY <1>4 DEF Stages, Queue, Pushes
<1>7. PICK z, w, w2 : z = bmp /\ w = InputTs /\ w2 = InputTs'
  OBVIOUS
<1>8. w2 = w \/ w2 = Len(sent)
  <2>1. input' # <<>> /\ w2 = input'[1].ts
    <3>1. Len(input') = Len(input) + 1
      BY <1>1, <1>2
    <3>2. input' # <<>>
      BY <1>1, <3>1
    <3> QED
      BY <1>7, <3>2 DEF InputTs
  <2>2. CASE input = <<>>
    BY <1>2, <2>1, <2>2
  <2>3. CASE input # <<>>
    <3>1. 1 \in 1 .. Len(input)
      BY <1>1, <2>3
    <3>2. input'[1] = input[1]
      BY <1>1, <1>2, <3>1
    <3> QED
      BY <1>7, <2>1, <2>3, <3>2 DEF InputTs
  <2> QED
    BY <2>2, <2>3
<1>9. /\ texture \in [{1, 2} -> Nat] /\ tbuff \in [{1, 2} -> Nat]
      /\ \A h \in {1, 2} : Half(texture[h], tbuff[h], z, w)
  BY <1>7 DEF Stages
<1>10. Len(sent) \in Nat
  BY <1>1
<1>11. ASSUME NEW h \in {1, 2}
       PROVE  \E x, y : x = texture'[h] /\ y = tbuff'[h] /\ Half(x, y, z, w2)'
  <2>1. PICK x, y : x = texture[h] /\ y = tbuff[h]
    OBVIOUS
  <2>2. Half(x, y, z, w)
    BY <1>9, <2>1
  <2>3. Half(x, y, z, w2)
    BY <1>1, <1>8, <1>10, <2>2 DEF Half, Before, NotAhead
  <2>4. Half(x, y, z, w2)'
    BY <1>5, <2>3, HalfStays
  <2> QED
    BY <1>4, <2>1, <2>4
<1> QED
  BY <1>4, <1>5, <1>6, <1>7, <1>9, <1>11, ViewMoves

\* What is pushed, sent, lost or put into the queue comes after all that is shown.
LEMMA PushLater ==
    ASSUME Reader, Queue, Push
    PROVE  Queue' /\ \A v : NotAhead(v) => NotAhead(v)'
<1>1. /\ source = "stream" /\ ts' = ts + 1 /\ UNCHANGED <<source, frames, air>> /\ ts \in Nat
  BY DEF Push, PushFrame, Reader
<1>2. Queue'
  BY <1>1 DEF Queue, Pushes
<1>3. \A v : NotAhead(v) => NotAhead(v)'
  BY <1>1 DEF NotAhead
<1> QED
  BY <1>2, <1>3

LEMMA SendLater ==
    ASSUME NEW b, NEW n, Reader, StreamInv(b, n), Queue, Send
    PROVE  Queue' /\ \A v : NotAhead(v) => NotAhead(v)'
<1>1. PICK data : air' = Append(air, [p |-> Head(outbox), data |-> data])
  BY DEF Send, SendPacket
<1>2. /\ source = "stream" /\ outbox # <<>> /\ UNCHANGED <<source, frames, ts>>
      /\ ts \in Nat /\ outbox \in Seq(Packet) /\ air \in Seq(Packed)
  BY DEF Send, SendPacket, Reader, StreamInv, Counts
<1>3. Head(outbox).ts = ts - 1
  <2>1. 1 \in DOMAIN outbox /\ Head(outbox) = outbox[1]
    BY <1>2
  <2>2. outbox[1] = PacketOf(b, n, ts - 1, Len(sent[ts - 1]) + 1)
    BY <2>1 DEF StreamInv, ToSend
  <2> QED
    BY <2>1, <2>2 DEF PacketOf
<1>4. PICK e : e = [p |-> Head(outbox), data |-> data]
  OBVIOUS
<1>e. e.p.ts = ts - 1
  BY <1>3, <1>4
<1>5. \A j \in DOMAIN air' : air'[j] = e \/ (j \in DOMAIN air /\ air'[j] = air[j])
  <2>1. air \in Seq(Packed \cup {e}) /\ Len(air) \in Nat /\ DOMAIN air = 1 .. Len(air)
    BY <1>2
  <2>2. air' = Append(air, e)
    BY <1>1, <1>4
  <2>3. /\ Len(air') = Len(air) + 1 /\ air' \in Seq(Packed \cup {e})
        /\ air'[Len(air) + 1] = e /\ \A j \in 1 .. Len(air) : air'[j] = air[j]
    BY <2>1, <2>2, AppendProperties
  <2>4. DOMAIN air' = 1 .. Len(air) + 1
    BY <2>3
  <2> QED
    BY <2>1, <2>3, <2>4
<1>6. Queue'
  <2>1. \A i \in DOMAIN frames : \A j \in DOMAIN air' : frames[i][1].ts <= air'[j].p.ts
    <3> SUFFICES ASSUME NEW i \in DOMAIN frames, NEW j \in DOMAIN air'
                 PROVE  frames[i][1].ts <= air'[j].p.ts
      OBVIOUS
    <3>1. frames[i][1].ts <= ts - 1
      BY <1>2 DEF Queue, Pushes
    <3>2. j \in DOMAIN air => frames[i][1].ts <= air[j].p.ts
      BY DEF Queue
    <3> QED
      BY <1>e, <1>5, <3>1, <3>2
  <2> QED
    BY <1>2, <2>1 DEF Queue, Pushes
<1>7. ASSUME NEW v, NotAhead(v) PROVE NotAhead(v)'
  <2>1. v <= ts - 1 /\ v <= ts /\ v \in Nat /\ \A i \in DOMAIN frames : v <= frames[i][1].ts
    BY <1>2, <1>7 DEF NotAhead
  <2>2. \A j \in DOMAIN air' : v <= air'[j].p.ts
    BY <1>2, <1>e, <1>5, <1>7, <2>1 DEF NotAhead
  <2> QED
    BY <1>2, <2>1, <2>2 DEF NotAhead
<1> QED
  BY <1>6, <1>7

LEMMA GivesUpLater ==
    ASSUME Queue, SendGivesUp
    PROVE  Queue' /\ \A v : NotAhead(v) => NotAhead(v)'
<1>1. outbox' = <<>> /\ UNCHANGED <<source, frames, air, ts, sent>>
  BY DEF SendGivesUp, SendFails
<1>2. \A v : NotAhead(v) => NotAhead(v)'
  BY <1>1 DEF NotAhead
<1>3. Queue'
  BY <1>1 DEF Queue, Pushes
<1> QED
  BY <1>2, <1>3

LEMMA LoseLater ==
    ASSUME NEW b, NEW n, StreamInv(b, n), Queue, NEW i \in DOMAIN air, Lose(i), UNCHANGED <<source, sent>>
    PROVE  Queue' /\ \A v : NotAhead(v) => NotAhead(v)'
<1>1. air' = Without(air, i) /\ UNCHANGED <<source, frames, ts, outbox, sent>> /\ air \in Seq(Packed)
  BY DEF Lose, StreamInv, Counts
<1>2. i \in 1 .. Len(air)
  BY <1>1
<1>3. \A j \in DOMAIN air' : \E l \in DOMAIN air : air'[j] = air[l]
  BY <1>1, <1>2, WithoutThins DEF Thinned
<1>4. \A v : NotAhead(v) => NotAhead(v)'
  BY <1>1, <1>3 DEF NotAhead
<1>5. Queue'
  BY <1>1, <1>3 DEF Queue, Pushes
<1> QED
  BY <1>4, <1>5

\* The oldest packet arrives: what it completes is no later than the rest.
LEMMA TakenLater ==
    ASSUME NEW b, NEW n, Reader, StreamInv(b, n), Queue, Taken(1)
    PROVE  Queue' /\ \A v : NotAhead(v) => NotAhead(v)'
<1>1. /\ 1 \in DOMAIN air /\ UNCHANGED <<source, sent, ts, outbox>>
      /\ \A j \in DOMAIN air' : \E l \in DOMAIN air : air'[j] = air[l]
  BY TakenAir DEF Taken
<1>2. PICK t : t = air[1].p.ts
  OBVIOUS
<1>3. /\ t \in Pushes /\ t \in Nat
      /\ \A l \in DOMAIN air : t <= air[l].p.ts
  <2>1. air \in Seq(Packed) /\ \A l \in DOMAIN air : air[l].p.ts \in Nat
    BY DEF StreamInv, Counts, UnderWay, Pushes
  <2>2. t \in Pushes
    BY <1>1, <1>2 DEF StreamInv, UnderWay
  <2>3. ASSUME NEW l \in DOMAIN air PROVE t <= air[l].p.ts
    <3>1. l = 1 \/ 1 < l
      BY <2>1
    <3>2. 1 < l => air[1].p.ts <= air[l].p.ts
      <4>1. 1 < l => air[1].p.ts < air[l].p.ts \/ air[1].p.ts = air[l].p.ts
        BY <1>1 DEF StreamInv, UnderWay
      <4> QED
        BY <1>1, <2>1, <4>1
    <3> QED
      BY <1>1, <1>2, <2>1, <3>1, <3>2
  <2> QED
    BY <1>1, <1>2, <2>1, <2>2, <2>3
<1>4. HandsOver(t, n)
  BY <1>2, TakenHands
<1>5. \A j \in DOMAIN air' : t <= air'[j].p.ts
  BY <1>1, <1>3
<1>6. CASE UNCHANGED frames
  <2>1. \A v : NotAhead(v) => NotAhead(v)'
    BY <1>1, <1>6 DEF NotAhead
  <2>2. Queue'
    BY <1>1, <1>6 DEF Queue, Pushes
  <2> QED
    BY <2>1, <2>2
<1>7. ASSUME NEW f, f[1].ts = t, frames' = Append(frames, f)
      PROVE  Queue' /\ \A v : NotAhead(v) => NotAhead(v)'
  <2>1. PICK X : frames \in Seq(X)
    BY DEF StreamInv, Counts
  <2>2. PICK z : z = Len(frames) + 1
    OBVIOUS
  <2>3. /\ z \in Nat /\ DOMAIN frames' = DOMAIN frames \cup {z} /\ frames'[z] = f
        /\ \A i \in DOMAIN frames : i \in Nat /\ i < z /\ frames'[i] = frames[i]
    <3>1. frames \in Seq(X \cup {f}) /\ Len(frames) \in Nat /\ DOMAIN frames = 1 .. Len(frames)
      BY <2>1
    <3>2. /\ Len(frames') = Len(frames) + 1 /\ frames' \in Seq(X \cup {f})
          /\ \A i \in 1 .. Len(frames) : frames'[i] = frames[i]
          /\ frames'[Len(frames) + 1] = f
      BY <1>7, <3>1, AppendProperties
    <3>3. DOMAIN frames' = 1 .. Len(frames) + 1
      BY <3>2
    <3>4. 1 .. Len(frames) + 1 = (1 .. Len(frames)) \cup {Len(frames) + 1}
      BY <3>1
    <3> QED
      BY <2>2, <3>1, <3>2, <3>3, <3>4
  <2>4. \A i \in DOMAIN frames : frames[i][1].ts <= t
    BY <1>1, <1>2 DEF Queue
  <2>5. Queue'
    <3>1. \A i, j \in DOMAIN frames' : i < j => frames'[i][1].ts <= frames'[j][1].ts
      <4> SUFFICES ASSUME NEW i \in DOMAIN frames', NEW j \in DOMAIN frames', i < j
                   PROVE  frames'[i][1].ts <= frames'[j][1].ts
        OBVIOUS
      <4>1. i \in DOMAIN frames
        BY <2>3
      <4>2. CASE j = z
        BY <1>7, <2>3, <2>4, <4>1, <4>2
      <4>3. CASE j \in DOMAIN frames
        BY <2>3, <4>1, <4>3 DEF Queue
      <4> QED
        BY <2>3, <4>2, <4>3
    <3>2. \A i \in DOMAIN frames' : frames'[i][1].ts \in Pushes
      BY <1>3, <1>7, <2>3 DEF Queue
    <3>3. ASSUME NEW i \in DOMAIN frames', NEW j \in DOMAIN air'
          PROVE  frames'[i][1].ts <= air'[j].p.ts
      <4>1. CASE i = z
        BY <1>5, <1>7, <2>3, <4>1
      <4>2. CASE i \in DOMAIN frames
        BY <1>1, <2>3, <4>2 DEF Queue
      <4> QED
        BY <2>3, <4>1, <4>2
    <3> QED
      BY <1>1, <3>1, <3>2, <3>3 DEF Queue, Pushes
  <2>6. ASSUME NEW v, NotAhead(v) PROVE NotAhead(v)'
    <3>1. source = "stream" => \A i \in DOMAIN frames' : v <= frames'[i][1].ts
      BY <1>1, <1>2, <1>7, <2>3, <2>6 DEF NotAhead
    <3>2. source = "stream" => \A j \in DOMAIN air' : v <= air'[j].p.ts
      BY <1>1, <2>6 DEF NotAhead
    <3> QED
      BY <1>1, <2>6, <3>1, <3>2 DEF NotAhead
  <2> QED
    BY <2>5, <2>6
<1> QED
  BY <1>4, <1>6, <1>7 DEF HandsOver

\* Which packet a step of the stream takes: the oldest one, as long as nothing
\* overtakes.
LEMMA OldestTaken ==
    ASSUME NEW b, NEW n, Counts(b, n), late' = {},
           \/ Dispatcher
           \/ \E i \in DOMAIN air : (Overtake(i) \/ Double(i)) /\ UNCHANGED <<source, sent>>
    PROVE  Taken(1)
<1>1. CASE Dispatcher
  BY <1>1, ReceiveTakes
<1>2. ASSUME NEW i \in DOMAIN air, Overtake(i) \/ Double(i), UNCHANGED <<source, sent>>
      PROVE  Taken(1)
  <2>1. ~Overtake(i)
    BY <1>2, OvertakeTakes
  <2>2. Taken(i) /\ i = 1
    BY <1>2, <2>1, DoubleTakes
  <2> QED
    BY <2>2
<1> QED
  BY <1>1, <1>2

LEMMA ViewStarts == Init => ViewInv
<1> SUFFICES ASSUME Init PROVE Stages
  BY DEF ViewInv
<1>1. /\ source \in {"stream", "local"} /\ sent = <<>> /\ ts = 1 /\ outbox = <<>> /\ air = <<>> /\ frames = <<>>
      /\ input = <<>> /\ bmp = 0 /\ tbuff = <<0, 0>> /\ texture = <<0, 0>>
  BY SourcesAssumption DEF Init, RtpInit, ViewInit, Torn
<1>2. DOMAIN frames = {} /\ DOMAIN air = {} /\ Len(sent) = 0
  <2>1. DOMAIN <<>> = {} /\ Len(<<>>) = 0
    OBVIOUS
  <2> QED
    BY <1>1, <2>1
<1>3. NotAhead(0)
  BY <1>1, <1>2 DEF NotAhead
<1>4. Half(0, 0, 0, 0)
  BY <1>3 DEF Half, Before, Torn
<1>5. texture \in [{1, 2} -> Nat] /\ tbuff \in [{1, 2} -> Nat]
      /\ InputTs = 0 /\ \A h \in {1, 2} : texture[h] = 0 /\ tbuff[h] = 0
  BY <1>1 DEF InputTs, Torn
<1>6. Queue
  BY <1>2 DEF Queue
<1> QED
  BY <1>1, <1>4, <1>5, <1>6 DEF Stages

\* The ghost only grows.
LEMMA LateGrows == [Next]_vars => late \subseteq late'
<1> SUFFICES ASSUME [Next]_vars PROVE late \subseteq late'
  OBVIOUS
<1>1. CASE Resting \/ CaptureLocal \/ ReadLocal
  BY <1>1 DEF Resting, CaptureLocal, ReadLocal, rtpvars, ghostsRtp
<1>2. CASE Push \/ Send \/ SendGivesUp \/ Dispatcher
  BY <1>2 DEF Push, PushFrame, Send, SendPacket, SendGivesUp, SendFails, Dispatcher, Receive, ghostsRtp
<1>3. ASSUME NEW i \in DOMAIN air, Overtake(i) \/ Lose(i) \/ Double(i)
      PROVE  late \subseteq late'
  BY <1>3 DEF Overtake, Lose, Double
<1> QED
  BY <1>1, <1>2, <1>3, StreamSteps

LEMMA ViewKeeps == CameraInv /\ Reader /\ StreamOK /\ ViewInv /\ [Next]_vars => ViewInv'
<1> SUFFICES ASSUME Reader, StreamOK, ViewInv, [Next]_vars, late' = {} PROVE Stages'
  BY DEF ViewInv
<1>1. PICK b \in [Pushes -> Seqs], n \in [Pushes -> Parts] : StreamInv(b, n)
  BY DEF StreamOK
<1>2. Stages /\ Queue /\ Counts(b, n)
  BY <1>1, LateGrows DEF ViewInv, Stages, StreamInv
<1>3. ASSUME UNCHANGED <<texture, tbuff, bmp, input>>, Queue' /\ \A v : NotAhead(v) => NotAhead(v)'
      PROVE  Stages'
  BY <1>2, <1>3, ViewRests
<1>4. ASSUME UNCHANGED viewvars, Queue' /\ \A v : NotAhead(v) => NotAhead(v)'
      PROVE  Stages'
  BY <1>3, <1>4 DEF viewvars
<1>5. CASE Driver \/ Capture \/ PushEvent \/ (TakeEvent /\ UNCHANGED <<camvars, rtpvars, source, sent>>)
           \/ Close \/ UNCHANGED vars
  <2>1. UNCHANGED <<rtpvars, source, sent, texture, tbuff, bmp, input>>
    BY <1>5 DEF Driver, Capture, PushEvent, Notify, TakeEvent, Close, Quit, vars, viewvars, decodervars,
                displayvars
  <2>2. Queue' /\ \A v : NotAhead(v) => NotAhead(v)'
    BY <1>2, <2>1, SupplyRests DEF rtpvars
  <2> QED
    BY <1>3, <2>1, <2>2
<1>6. CASE Push
  BY <1>2, <1>4, <1>6, PushLater DEF Push
<1>7. CASE Send
  BY <1>1, <1>2, <1>4, <1>7, SendLater DEF Send
<1>8. CASE SendGivesUp
  BY <1>2, <1>4, <1>8, GivesUpLater DEF SendGivesUp
<1>9. CASE Dispatcher
  <2>1. Taken(1)
    BY <1>2, <1>9, OldestTaken
  <2> QED
    BY <1>1, <1>2, <1>4, <1>9, <2>1, TakenLater DEF Dispatcher
<1>10. ASSUME NEW i \in DOMAIN air, Overtake(i) \/ Lose(i) \/ Double(i), UNCHANGED <<viewvars, source, sent>>
       PROVE  Stages'
  <2>1. CASE Lose(i)
    BY <1>1, <1>2, <1>4, <1>10, <2>1, LoseLater
  <2>2. CASE Overtake(i) \/ Double(i)
    <3>1. Taken(1)
      BY <1>2, <1>10, <2>2, OldestTaken
    <3> QED
      BY <1>1, <1>2, <1>4, <1>10, <3>1, TakenLater
  <2> QED
    BY <1>10, <2>1, <2>2
<1>11. CASE CaptureLocal
  <2>1. /\ source = "local" /\ sent' = Append(sent, <<>>) /\ sent \in Seq(Seq(Nat))
        /\ UNCHANGED <<source, frames, air, ts, outbox, texture, tbuff, bmp, input>>
    BY <1>11 DEF CaptureLocal, rtpvars, displayvars, Reader
  <2>2. Len(sent) \in Nat /\ Len(sent') = Len(sent) + 1
    BY <2>1
  <2>3. \A v : NotAhead(v) => NotAhead(v)'
    BY <2>1, <2>2 DEF NotAhead
  <2>4. Queue'
    BY <1>2, <2>1 DEF Queue, Pushes
  <2> QED
    BY <1>3, <2>1, <2>3, <2>4
<1>12. CASE Pull \/ ReadLocal \/ DecodeFrame \/ Copy
  BY <1>1, <1>2, <1>12, PullKeeps, ReadKeeps, DecodeKeeps, CopyKeeps
<1>13. CASE Upload /\ UNCHANGED <<camvars, rtpvars, source, sent>>
  BY <1>2, <1>13, UploadKeeps
<1>14. CASE Faulty
  BY <1>10, <1>14 DEF Faulty, Network
<1>15. CASE Display
  BY <1>5, <1>13, <1>15 DEF Display
<1> QED
  BY <1>5, <1>6, <1>7, <1>8, <1>9, <1>11, <1>12, <1>14, <1>15 DEF Next, Sender, Decoder

\* As long as no packet overtakes another, no half of the screen goes back to an
\* earlier picture, at whatever moment main()'s SDL_UpdateTexture reads what
\* refresh_video() is just copying into tbuff.
THEOREM ShownInOrderAlways == Spec => ShownInOrder
<1>1. Spec => [](RingInv /\ StreamOK /\ ViewInv)
  <2>1. RingInv /\ StreamOK /\ ViewInv /\ [Next]_vars => ViewInv'
    BY ViewKeeps DEF RingInv
  <2> QED
    BY <2>1, ViewStarts, StreamAlways, PTL DEF Spec
<1>2. RingInv /\ StreamOK /\ ViewInv /\ [Next]_vars =>
        [late' = {} => \A h \in {1, 2} : texture'[h] = Torn \/ texture'[h] >= texture[h]]_texture
  <2> SUFFICES ASSUME ViewInv, [Next]_vars, texture' # texture, late' = {}, NEW h \in {1, 2}
               PROVE  texture'[h] = Torn \/ texture'[h] >= texture[h]
    BY Zenon
  <2>1. Stages
    BY LateGrows DEF ViewInv
  <2>2. Half(texture[h], tbuff[h], bmp, InputTs) /\ texture \in [{1, 2} -> Nat] /\ tbuff \in [{1, 2} -> Nat]
    BY <2>1 DEF Stages
  <2>3. Upload
    BY DEF Next, Driver, Capture, Sender, Push, Send, SendGivesUp, Dispatcher, Faulty, Decoder, Pull,
           CaptureLocal, ReadLocal, DecodeFrame, Decode, Copy, CopyHalves, PushEvent, Notify, Display,
           TakeEvent, Close, Quit, viewvars, displayvars, vars
  <2>4. texture'[h] = texture[h] \/ texture'[h] = tbuff[h]
    BY <2>2, <2>3 DEF Upload
  <2>5. texture[h] \in Nat /\ tbuff[h] \in Nat /\ Before(texture[h], tbuff[h])
    BY <2>2 DEF Half
  <2> QED
    BY <2>4, <2>5 DEF Before
<1> QED
  BY <1>1, <1>2, PTL DEF Spec, ShownInOrder
=============================================================================
