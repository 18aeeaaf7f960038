----------------------------- MODULE H26xStream -----------------------------
(***************************************************************************)
(* A uvgRTP video stream: one side pushes frames, the packets travel over  *)
(* UDP, the packet dispatcher of the other side hands NAL units back.      *)
(***************************************************************************)
EXTENDS H26xReceiver

CONSTANTS
    Uses,       \* formats used
    Films,      \* [play, faults]: frames to push, one after the other, and how
                \* many packets the network loses, swaps or doubles meanwhile
    FirstSeqs,  \* the random number a stream may start from
    InFlight    \* bound: packets under way when the next frame is pushed

ASSUME StreamAssumption ==
    /\ FirstSeqs \subseteq 0 .. SeqSpace - 1 /\ Uses \subseteq Formats
    /\ \A f \in Films : f.play \in Seq(DOMAIN Frames) /\ f.faults \in Nat

VARIABLES
    film,       \* numbers of the frames pushed
    idelay,     \* the stream was made without RCE_NO_H26X_INTRA_DELAY
    ts,         \* the last push: pushes have timestamps 1, 2, ...
    sender, air, faults,
    old,        \* frames in progress longer than the longest delay
    carried,    \* ghost: carried[t]: the packets push t sent, in order
    lost, late, doubled, aged,  \* ghosts: the pushes that met with each fault
    givenUp     \* ghost: the pushes of which the receiver gave a fragment up

ghosts == <<carried, lost, late, doubled, aged, givenUp>>
vars == <<rcvvars, film, idelay, ts, sender, air, faults, old, ghosts>>

Init ==
    /\ ReceiverInit
    /\ \E f \in Films : film = f.play /\ faults = f.faults
    /\ idelay \in BOOLEAN /\ ts = 0 /\ air = <<>> /\ old = {}
    /\ sender \in {NewSender(fmt, n) : fmt \in Uses, n \in FirstSeqs}
    /\ carried = <<>> /\ lost = {} /\ late = {} /\ doubled = {} /\ aged = {}
    /\ givenUp = {}

Push ==
    /\ ts < Len(film) /\ sender.ret # "crash" /\ Len(air) <= InFlight
    /\ ts' = ts + 1
    /\ \E s \in {PushFrame(sender, ts + 1, film[ts + 1])} :
       /\ sender' = [s EXCEPT !.out = <<>>]
       /\ air' = air \o s.out
       /\ carried' = Append(carried, s.out)
    /\ UNCHANGED <<rcvvars, film, idelay, faults, old, lost, late, doubled, aged, givenUp>>

Without(q, i) == SubSeq(q, 1, i - 1) \o SubSeq(q, i + 1, Len(q))

\* The receiver takes packet i; the clock of a frame starts with its entry.
Arrives(i) ==
    LET p == air[i] IN
    /\ PacketHandler(sender.fmt, p, p.ts \in old, idelay)
    /\ old' = old \cap DOMAIN frames'
    /\ givenUp' = IF p.ts \in DOMAIN frames \ DOMAIN frames' /\ handed' = handed
                  THEN givenUp \cup {p.ts} ELSE givenUp
    /\ UNCHANGED <<film, idelay, ts, sender, carried, lost, aged>>

Receive ==
    /\ air # <<>>
    /\ Arrives(1) /\ air' = Tail(air)
    /\ UNCHANGED <<faults, late, doubled>>

Overtake(i) ==
    /\ i \in 2 .. Len(air) /\ faults > 0
    /\ Arrives(i) /\ air' = Without(air, i) /\ faults' = faults - 1
    /\ late' = late \cup {air[j].ts : j \in 1 .. i} /\ UNCHANGED doubled

Double(i) ==
    /\ i \in DOMAIN air /\ faults > 0
    /\ Arrives(i) /\ faults' = faults - 1
    /\ doubled' = doubled \cup {air[i].ts}
    /\ late' = late \cup {air[j].ts : j \in 1 .. i - 1} /\ UNCHANGED air

Lose(i) ==
    /\ i \in DOMAIN air /\ faults > 0
    /\ air' = Without(air, i) /\ faults' = faults - 1 /\ lost' = lost \cup {air[i].ts}
    /\ UNCHANGED <<rcvvars, film, idelay, ts, sender, old, carried, late, doubled, aged, givenUp>>

\* A frame in progress gets older than RCC_PKT_MAX_DELAY (100 ms by default).
Age(t) ==
    /\ t \in DOMAIN frames \ old
    /\ old' = old \cup {t} /\ aged' = aged \cup {t}
    /\ UNCHANGED <<rcvvars, film, idelay, ts, sender, air, faults, carried, lost, late, doubled, givenUp>>

Network == \E i \in DOMAIN air : Overtake(i) \/ Double(i) \/ Lose(i)

Next == Push \/ Receive \/ Network \/ \E t \in DOMAIN frames : Age(t)

Spec == Init /\ [][Next]_vars

-----------------------------------------------------------------------------
(***************************************************************************)
(* Properties.                                                             *)
(***************************************************************************)

TrueCut == <<>> \o [k \in DOMAIN Frames |-> TrueUnits(Frames[k])]

\* Frames the sender handles as its comments say: plain ones with no unit of
\* three bytes or less, and no units that fit a packet beside others, except two
\* or more of them in front of exactly one that does not (h265.cc), or anywhere
\* (h266.cc).
OrderlyFor(fmt, k) ==
    LET us == TrueCut[k]
        last == Len(us)
        size(n) == us[n].to - us[n].from
        small(n) == size(n) <= PayloadSize + 3
    IN  /\ PlainFrame(Frames[k])
        /\ \A n \in 1 .. last : size(n) > 3
        /\ \/ last = 1
           \/ ~Fits(k) /\ fmt = "H266"
           \/ \A n \in 1 .. last : ~small(n)
           \/ fmt = "H265" /\ last > 2 /\ ~small(last) /\ \A n \in 1 .. last - 1 : small(n)

OrderlyFrames == [f \in Uses |-> {k \in DOMAIN Frames : OrderlyFor(f, k)}]

\* The units of push t, part by part.
UnitsOf(t) ==
    LET k == film[t]
        us == TrueCut[k]
        u(n) == [Unit(sender.fmt, t, k, us[n]) EXCEPT !.frags = IF Fits(k) THEN 1 ELSE @]
        parts(x) == IF x.frags = 1 THEN <<<<x, 0>>>> ELSE [i \in 1 .. x.frags |-> <<x, i>>]
    IN  FlattenSeq([n \in DOMAIN us |-> parts(u(n))])

CarriedUnits(t) ==
    FlattenSeq([i \in DOMAIN carried[t] |->
        LET l == carried[t][i].load IN [j \in DOMAIN l.units |-> <<l.units[j], l.part>>]])

\* A push sends every unit of its frame once, with all of its bytes, in order and
\* nothing else, as long as it and all pushes before it were of orderly frames.
OrderlyFramesSent ==
    \A t \in 1 .. ts :
        (\A i \in 1 .. t : film[i] \in OrderlyFrames[sender.fmt]) =>
            CarriedUnits(t) = UnitsOf(t) /\ (t = ts => sender.ret # "crash")

\* Whatever the frame, what is sent as a unit begins behind a start code and ends
\* where the next one begins or at most a byte early; start codes may be missed.
\* (The byte the scan makes zero can turn up a code that is not there.)
CutAtStartCodes ==
    \A t \in 1 .. ts :
        LET d == Frames[film[t]]
            ends == {o - CodeLength(d, o) : o \in StartsAfter(d)} \cup {Len(d)}
            spoilt == \E i \in {Stopper(d) - 1, Stopper(d), Stopper(d) + 1} : i + 1 \in DOMAIN d /\ d[i + 1] = 0
        IN  spoilt \/ \A i \in DOMAIN CarriedUnits(t) :
                LET u == CarriedUnits(t)[i][1] IN
                u.ts = t => u.from \in StartsAfter(d) /\ (u.to \in ends \/ u.to + 1 \in ends)

FramesSent == OrderlyFramesSent /\ CutAtStartCodes

\* The parts of unit u, in order.
Whole(u) == [k \in 1 .. u.frags |-> Part(u, k)]

\* Push t sent what is its own, and no other push sent anything under its
\* timestamp.  (A frame given up half-way may leave its packets in the
\* transaction, h264.cc leaves its collected units.)
OwnOnly(t) ==
    /\ \A i \in DOMAIN carried[t] :
          LET p == carried[t][i] IN
          p.ts = t /\ \A j \in DOMAIN p.load.units : p.load.units[j].ts = t
    /\ \A n \in DOMAIN carried \ {t} : \A i \in DOMAIN carried[n] : carried[n][i].ts # t

\* The push's fragments belong to one unit, and their numbers do not wrap.
Simple(t) ==
    \A i, j \in DOMAIN carried[t] :
        LET p == carried[t][i]
            q == carried[t][j]
        IN  i < j /\ p.load.kind = "fragment" /\ q.load.kind = "fragment"
                => p.load.units = q.load.units /\ p.seq < q.seq

\* What is put together from fragments is one unit that was pushed, all of it and
\* in order, although the handler only counts: unless a packet was doubled, or
\* packets changed their order in a push that wraps or has two such units.
UnitsIntact ==
    \A i \in DOMAIN handed :
        LET h == handed[i] IN
        \/ h.loads = <<>> \/ h.ts \in doubled \/ ~OwnOnly(h.ts)
        \/ h.ts \in late \cup lost /\ ~Simple(h.ts)
        \/ h.loads = Whole(h.loads[1].units[1])

\* A unit that went out in a push no packet of which was lost, overtaken, doubled
\* or too long under way reaches the application exactly once.
Untouched(t) ==
    /\ t \notin lost \cup late \cup doubled \cup aged
    /\ \A i \in DOMAIN air : air[i].ts # t
UnitsArriveOnce ==
    \A t \in 1 .. ts : Untouched(t) /\ OwnOnly(t) =>
        \A i \in DOMAIN carried[t] :
            LET l == carried[t][i].load IN
            CASE l.kind = "fragment" ->
                    Cardinality({j \in DOMAIN handed : handed[j].ts = t /\ handed[j].loads = Whole(l.units[1])}) = 1
              [] l.kind \in {"single", "aggregate"} ->
                    Cardinality({j \in DOMAIN handed : handed[j].ts = t /\ handed[j].units = l.units}) = 1
              [] OTHER -> TRUE

\* A frame given up because it took too long leaves nothing behind, whatever of
\* it arrives later.
GivenUpForGood == DOMAIN frames \cap givenUp = {}

=============================================================================
