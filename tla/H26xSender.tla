----------------------------- MODULE H26xSender -----------------------------
(***************************************************************************)
(* uvgRTP, formats/h264.cc, h265.cc, h266.cc over h26x.cc and queue.cc:    *)
(* how one push_frame() of a video frame becomes RTP packets.  The frame   *)
(* is a sequence of NAL units behind start codes; units that fit a packet  *)
(* are collected for an aggregation packet, others are cut into fragments. *)
(* The sender's state is a record, every function of the code an operator  *)
(* from one such record to the next.                                       *)
(***************************************************************************)
EXTENDS Naturals, SequencesExt

CONSTANTS
    SeqSpace,       \* RTP sequence numbers are counted modulo this (2^16)
    PayloadSize,    \* rtp::get_payload_size()
    Frames          \* the frames that may be pushed, byte by byte

ASSUME SenderAssumption ==
    /\ SeqSpace \in Nat \ {0} /\ PayloadSize \in Nat \ {0}
    /\ Frames \in Seq(Seq(Nat))
    /\ \A k \in DOMAIN Frames : Len(Frames[k]) >= 8     \* the stopper lies inside

-----------------------------------------------------------------------------
(***************************************************************************)
(* find_h26x_start_code() of formats/h26x.cc: where the next NAL unit of a *)
(* frame begins.  The scan goes four bytes at a time from where the last   *)
(* start code ended, and jumps eight at a time over bytes none of which is *)
(* zero, which can hold no start code.                                     *)
(***************************************************************************)

\* For the time of the scan the last byte before a multiple of eight is zero,
\* which stops the jumps.  Offsets count from 0.
Stopper(d) == (Len(d) - (Len(d) % 8)) - 1
At(d, i) == IF i = Stopper(d) THEN 0 ELSE d[i + 1]
Word(d, i) == [k \in 1 .. 4 |-> At(d, i + k - 1)]

HasZero(w) == \E k \in 1 .. 4 : w[k] = 0
NoZeros == <<1, 1, 1, 1>>       \* prev = UINT32_MAX

NoHit == [step |-> 0, len |-> 0]

\* What a word and the one before it reveal: the start code ends step bytes into
\* the word and is taken for len bytes long.
FindH26xStart(prev, w) ==
    CASE w = <<0, 0, 0, 1>> -> [step |-> 4, len |-> 4]
      [] SubSeq(w, 1, 3) = <<0, 0, 1>> -> [step |-> 3, len |-> IF prev[4] = 0 THEN 4 ELSE 3]
      [] w[1] # 0 /\ SubSeq(w, 2, 4) = <<0, 0, 1>> -> [step |-> 4, len |-> 4]
      [] OTHER -> NoHit

\* A start code whose 1 is the first or the second byte of this word.  The first
\* is looked for only in a word without zeros.
AcrossWords(prev, w) ==
    CASE ~HasZero(w) /\ w[1] = 1 /\ prev[3] = 0 /\ prev[4] = 0 ->
            [step |-> 1, len |-> IF prev[2] = 0 THEN 4 ELSE 3]
      [] w[1] = 0 /\ w[2] = 1 /\ prev[4] = 0 ->
            [step |-> 2, len |-> IF prev[3] = 0 THEN 4 ELSE 3]
      [] OTHER -> NoHit

\* (Faulty: looks at one word at a time.)
HitInWord(prev, w) == FindH26xStart(prev, w)
Hit(prev, w) == IF FindH26xStart(prev, w) # NoHit THEN FindH26xStart(prev, w) ELSE AcrossWords(prev, w)

\* [offset, len] of the first start code the scan sees from offset on; the last
\* eight bytes are not looked at.
NotFound == [offset |-> 0, len |-> 0]
FindStartCode(d, offset) ==
    LET prev(i) == IF i = offset THEN NoZeros ELSE Word(d, i - 4)
        hits == {i \in offset .. Len(d) : /\ (i - offset) % 4 = 0 /\ i + 8 < Len(d)
                                          /\ Hit(prev(i), Word(d, i)) # NoHit}
        i == Min(hits)
        h == Hit(prev(i), Word(d, i))
    IN  IF hits = {} THEN NotFound ELSE [offset |-> i + h.step, len |-> h.len]

\* The loop of push_h26x_frame(): one unit from each start code to the next,
\* [from, to) in bytes.
CutFrame(d) ==
    LET rest[o \in 0 .. Len(d)] ==
            LET c == FindStartCode(d, o)
            IN  IF c = NotFound THEN <<[from |-> o, to |-> Len(d)]>>
                ELSE <<[from |-> o, to |-> c.offset - c.len]>> \o rest[c.offset]
    IN  rest[FindStartCode(d, 0).offset]

-----------------------------------------------------------------------------
(***************************************************************************)
(* What a start code is: 0, 0, 1, and a 0 before it if there is one.       *)
(***************************************************************************)
StartsAfter(d) == {o \in 3 .. Len(d) : d[o - 2] = 0 /\ d[o - 1] = 0 /\ d[o] = 1}
CodeLength(d, o) == IF o > 3 /\ d[o - 3] = 0 THEN 4 ELSE 3

TrueUnits(d) ==
    LET S == StartsAfter(d)
        from(n) == CHOOSE o \in S : Cardinality({x \in S : x < o}) = n - 1
        to(n) == IF n = Cardinality(S) THEN Len(d) ELSE from(n + 1) - CodeLength(d, from(n + 1))
    IN  [n \in 1 .. Cardinality(S) |-> [from |-> from(n), to |-> to(n)]]

\* Frames the scan divides as it should: start codes have four bytes, no other
\* byte is zero, and the last unit is long enough.
PlainFrame(d) ==
    LET S == StartsAfter(d)
        inCode(i) == \E o \in S : i \in o - 3 .. o
    IN  /\ S # {} /\ Max(S) + 12 <= Len(d)
        /\ \A o \in S : CodeLength(d, o) = 4
        /\ \A i \in 1 .. Len(d) : d[i] = 0 => inCode(i)

-----------------------------------------------------------------------------
(***************************************************************************)
(* push_h26x_frame() of a format.                                          *)
(***************************************************************************)

Formats == {"H264", "H265", "H266"}

\* The units push_h26x_frame() finds in each frame.  (As a concatenation TLC works
\* it out once.)
Cut == <<>> \o [k \in DOMAIN Frames |-> CutFrame(Frames[k])]

\* Bytes stand for what the first one of a NAL unit says the unit is.
Intra == 2
Inter == 3

\* The packets a unit of len bytes takes; one with no more than the payload and
\* three bytes is not cut, one of three bytes or less is refused.
HeaderSize(fmt) == IF fmt = "H264" THEN 1 ELSE 2
Parts(fmt, len) ==
    CASE len <= 3 -> 0
      [] len > 3 /\ len <= PayloadSize + 3 -> 1
      [] OTHER -> (len - HeaderSize(fmt) + PayloadSize - 1) \div PayloadSize

\* A NAL unit: the push it belongs to, its kind, its bytes and its packets.
Unit(fmt, ts, k, c) ==
    [ts |-> ts, type |-> Frames[k][c.from + 1], from |-> c.from, to |-> c.to,
     frags |-> IF c.to < c.from THEN 0 ELSE Parts(fmt, c.to - c.from)]

\* What a packet carries: whole units, or part k of one.
Units(us) == [kind |-> "single", units |-> us, part |-> 0]
Aggregate(us) == [kind |-> "aggregate", units |-> us, part |-> 0]
Part(u, k) == [kind |-> "fragment", units |-> <<u>>, part |-> k]

\* An aggregation packet whose length fields no longer hold what they should.
Spoilt(load) == IF load.kind = "aggregate" THEN [load EXCEPT !.kind = "spoilt"] ELSE load
SpoiltPackets(q) == [i \in DOMAIN q |-> [h |-> q[i].h, load |-> Spoilt(q[i].load)]]

-----------------------------------------------------------------------------
(***************************************************************************)
(* The frame queue.  A transaction goes back to the pool and comes out     *)
(* again for the next frame: there is never a second one.                  *)
(***************************************************************************)
NewSender(fmt, first) ==
    [fmt |-> fmt,
     seq |-> first,     \* rtp::seq_
     open |-> FALSE,    \* active_ is not null
     packets |-> <<>>,  \* its packets: index of the header, load
     headers |-> <<>>,  \* its rtp_headers, never cleared
     used |-> 0,        \* rtphdr_ptr
     queued |-> FALSE,  \* its key is in queued_, where flush_queue() leaves it
     nalus |-> <<>>,    \* aggr_pkt_info_.nalus
     made |-> FALSE,    \* aggr_pkt_info_.aggr_pkt is not empty
     out |-> <<>>,      \* packets handed to sendmmsg
     ret |-> "RTP_OK"]

InitTransaction(s) == [s EXCEPT !.open = TRUE, !.used = 0, !.out = <<>>, !.ret = "RTP_OK"]

\* The packets are forgotten only if the transaction's key is in queued_.
DeinitTransaction(s) ==
    [s EXCEPT !.open = FALSE, !.packets = IF s.queued THEN <<>> ELSE @]

\* Everything below reads through active_.
Crash(s) == [s EXCEPT !.ret = "crash"]

PutAt(q, i, x) == IF i <= Len(q) THEN [q EXCEPT ![i] = x] ELSE Append(q, x)

EnqueueMessage(s, ts, load) ==
    IF ~s.open THEN Crash(s)
    ELSE [s EXCEPT !.headers = PutAt(@, s.used + 1, [seq |-> s.seq, ts |-> ts]),
                   !.packets = Append(@, [h |-> s.used + 1, load |-> load]),
                   !.used = @ + 1, !.seq = (@ + 1) % SeqSpace]

FlushQueue(s) ==
    IF s.ret = "crash" \/ ~s.open THEN Crash(s)
    ELSE IF s.packets = <<>> THEN [DeinitTransaction(s) EXCEPT !.ret = "RTP_INVALID_VALUE"]
    ELSE DeinitTransaction(
            [s EXCEPT !.queued = TRUE, !.ret = "RTP_OK",
                      !.out = @ \o [i \in DOMAIN s.packets |->
                                [seq |-> s.headers[s.packets[i].h].seq,
                                 ts |-> s.headers[s.packets[i].h].ts,
                                 load |-> s.packets[i].load]]])

-----------------------------------------------------------------------------
(***************************************************************************)
(* NAL units.                                                              *)
(***************************************************************************)

\* make_aggregation_pkt(): a lone unit goes out at once as it is.  The length
\* fields of the packet live in nalus, in network order from now on: a second
\* packet made of the same units has wrong lengths, and so then has the first.
MakeAggregationPkt(s, ts) ==
    IF s.ret = "crash" \/ s.nalus = <<>> THEN s
    ELSE IF Len(s.nalus) = 1 THEN FlushQueue(EnqueueMessage(s, ts, Units(s.nalus)))
    ELSE IF ~s.made THEN EnqueueMessage([s EXCEPT !.made = TRUE], ts, Aggregate(s.nalus))
    ELSE LET t == EnqueueMessage(s, ts, Aggregate(s.nalus))
         IN  [t EXCEPT !.packets = SpoiltPackets(@)]

ClearAggregationInfo(s) == [s EXCEPT !.nalus = <<>>, !.made = FALSE]

\* A unit that fits a packet and has others behind it.  The vector may move in
\* memory, and with it the lengths an aggregation packet refers to.
Collect(s, u) ==
    [s EXCEPT !.nalus = Append(@, u), !.ret = "RTP_NOT_READY",
              !.packets = IF s.made THEN SpoiltPackets(@) ELSE @]

\* The last unit of the frame, if it fits a packet.  Behind collected units it
\* is not sent itself.
PushSmallLast(s, ts, u) ==
    IF s.nalus = <<>> THEN FlushQueue(EnqueueMessage(s, ts, Units(<<u>>)))
    ELSE ClearAggregationInfo(FlushQueue(MakeAggregationPkt(s, ts)))

Fragments(s, ts, u) ==
    LET after[k \in 0 .. u.frags] ==
            IF k = 0 THEN s ELSE EnqueueMessage(after[k - 1], ts, Part(u, k))
    IN  after[u.frags]

\* A unit in fragments is in the queue: the last thing push_nal_unit() does.
Fragmented(t, more) ==
    CASE t.ret = "crash" -> t
      [] t.ret # "crash" /\ more -> [t EXCEPT !.ret = "RTP_NOT_READY"]
      [] OTHER -> FlushQueue(t)
Cleared(t, more) == IF more THEN t ELSE ClearAggregationInfo(t)

PushSmall(s, ts, u, more) == IF more THEN Collect(s, u) ELSE PushSmallLast(s, ts, u)

\* h265.cc; h264.cc keeps the collected units for the next frame.
PushNal265(s, ts, u, more) ==
    Fragmented(Cleared(Fragments(MakeAggregationPkt(s, ts), ts, u), more), more)
PushNal264(s, ts, u, more) ==
    Fragmented(Fragments(MakeAggregationPkt(s, ts), ts, u), more)

\* h266.cc knows no aggregation packets.
PushNal266(s, ts, u, more) ==
    IF u.frags > 1 THEN Fragmented(Fragments(s, ts, u), more)
    ELSE Fragmented(EnqueueMessage(s, ts, Units(<<u>>)), more)

PushNalUnit(s, ts, u, more) ==
    CASE u.frags = 0 -> [s EXCEPT !.ret = "RTP_INVALID_VALUE"]
      [] u.frags = 1 /\ s.fmt # "H266" -> PushSmall(s, ts, u, more)
      [] u.frags > 1 /\ s.fmt = "H264" -> PushNal264(s, ts, u, more)
      [] u.frags > 1 /\ s.fmt = "H265" -> PushNal265(s, ts, u, more)
      [] u.frags > 0 /\ s.fmt = "H266" -> PushNal266(s, ts, u, more)

\* push_h26x_frame(): a frame shorter than a packet goes into one as it is; else
\* unit by unit, where anything but RTP_NOT_READY before the last unit gives
\* the frame up.
Fits(k) == Len(Frames[k]) < PayloadSize
WholeFrame(ts, k) ==
    LET o == FindStartCode(Frames[k], 0).offset
    IN  [ts |-> ts, type |-> Frames[k][o + 1], from |-> o, to |-> Len(Frames[k]), frags |-> 1]

PushUnit(t, ts, u, more) ==
    IF t.ret \in {"crash", "RTP_INVALID_VALUE"} THEN t ELSE PushNalUnit(t, ts, u, more)
PushUnits(s, ts, k) ==
    LET last == Len(Cut[k])
        after[n \in 0 .. last] ==
            IF n = 0 THEN s
            ELSE PushUnit(after[n - 1], ts, Unit(s.fmt, ts, k, Cut[k][n]), n < last)
    IN  after[last]
GivenUp(t) == IF t.ret = "RTP_INVALID_VALUE" /\ t.open THEN DeinitTransaction(t) ELSE t

PushH26xFrame(s, ts, k) ==
    IF Fits(k) THEN FlushQueue(EnqueueMessage(s, ts, Units(<<WholeFrame(ts, k)>>)))
    ELSE GivenUp(PushUnits(s, ts, k))

PushFrame(s, ts, k) == PushH26xFrame(InitTransaction(s), ts, k)

=============================================================================
