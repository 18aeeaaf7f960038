---------------------------- MODULE H26xReceiver ----------------------------
(***************************************************************************)
(* uvgRTP, packet_handler() of h264.cc, h265.cc and h266.cc: packets of a  *)
(* video stream back into NAL units, in any order of arrival.  The three   *)
(* handlers differ in the bits of the headers only, and h266.cc has no     *)
(* aggregation packets.                                                    *)
(***************************************************************************)
EXTENDS H26xSender, Functions

VARIABLES
    frames,     \* h265_frame_info_t::frames: timestamp -> what has arrived
    dropped,    \* h265_frame_info_t::dropped: timestamps given up
    handed      \* NAL units returned to the application: [units, part] loads

rcvvars == <<frames, dropped, handed>>

ReceiverInit == frames = <<>> /\ dropped = {} /\ handed = <<>>

None == SeqSpace        \* INVALID_SEQ, no 16 bit number

IsStart(p) == p.load.kind = "fragment" /\ p.load.part = 1
IsEnd(p) == p.load.kind = "fragment" /\ p.load.part = p.load.units[1].frags

\* What __get_nal() takes for an intra frame: type 19, which is one in H.265 only.
IsIntra265(p) == p.load.units[1].type = Intra
IsIntra264(p) == FALSE
IsIntra266(p) == FALSE

\* Where a fragment goes in the map, seen from the first fragment: behind it,
\* also when the numbers have wrapped in between.  (Faulty: by number alone.)
PlaceByNumber(start, seq) == seq
Place(start, seq) == IF start > seq THEN SeqSpace + seq ELSE seq

\* The map m with x stored under k, and with all that f has stored as well.
With(m, k, x) == [i \in DOMAIN m \cup {k} |-> IF i = k THEN x ELSE m[i]]
WithAll(m, f) == [i \in DOMAIN m \cup DOMAIN f |-> IF i \in DOMAIN f THEN f[i] ELSE m[i]]

\* A frame's first packet to arrive is stored under its own number.
NewFrame(p) ==
    [s |-> IF IsStart(p) THEN p.seq ELSE None,
     e |-> IF IsEnd(p) THEN p.seq ELSE None,
     n |-> 1, fragments |-> With(<<>>, p.seq, p.load), temporary |-> <<>>]

\* A further packet.  Fragments that come before the first one of their unit
\* wait in temporary until it shows up.
AddPacket(f, p) ==
    LET e == IF IsEnd(p) THEN p.seq ELSE f.e
        place(i) == Place(p.seq, f.temporary[i].seq)
        waiting == DOMAIN f.temporary
        \* Of two with the same place the later one stays.
        placed == [k \in {place(i) : i \in waiting} |->
                      f.temporary[Max({i \in waiting : place(i) = k})].load]
    IN
    CASE IsStart(p) ->
            [s |-> p.seq, e |-> e, n |-> f.n + 1, temporary |-> <<>>,
             fragments |-> WithAll(With(f.fragments, p.seq, p.load), placed)]
      [] ~IsStart(p) /\ f.s # None ->
            [f EXCEPT !.e = e, !.n = @ + 1,
                      !.fragments = With(@, Place(f.s, p.seq), p.load)]
      [] OTHER ->
            [f EXCEPT !.e = e, !.n = @ + 1, !.temporary = Append(@, [seq |-> p.seq, load |-> p.load])]

\* As many packets as there are numbers between the first and the last.
\* (Faulty: forgets the wrap.)
CompleteNoWrap(f) == f.s # None /\ f.e # None /\ f.e + 1 = f.n + f.s
Complete(f) ==
    /\ f.s # None /\ f.e # None
    /\ (IF f.s > f.e THEN SeqSpace - f.s + f.e + 1 ELSE f.e - f.s + 1) = f.n

\* The fragments in the order of the map's keys.
InOrder(f) ==
    LET S == DOMAIN f.fragments
    IN  [i \in 1 .. Cardinality(S) |->
            f.fragments[CHOOSE k \in S : Cardinality({x \in S : x < k}) = i - 1]]

Handed(x) == handed' = Append(handed, x)

Forget(ts) == frames' = Restrict(frames, DOMAIN frames \ {ts})

\* __drop_frame() and its timestamp remembered.  (Faulty: not remembered.)
DropFrameForgets(ts) == Forget(ts) /\ UNCHANGED dropped
DropFrame(ts) == Forget(ts) /\ dropped' = dropped \cup {ts}

\* Single units and aggregation packets go straight to the application; what a
\* spoilt aggregation packet yields is anything.
HandleWhole(p) ==
    /\ \/ p.load.kind \in {"single", "aggregate"} /\ Handed([ts |-> p.ts, units |-> p.load.units, loads |-> <<>>])
       \/ p.load.kind = "spoilt" /\ Handed([ts |-> p.ts, units |-> <<>>, loads |-> <<>>])
    /\ UNCHANGED <<frames, dropped>>

\* Of an intra frame in progress only its own call knows ("intra" is a local
\* variable), so a complete unit is always returned.  An incomplete one that is
\* too old is given up, unless it belongs to an intra frame to be waited for.
HandleFragment(p, late, wait) ==
    LET f == AddPacket(frames[p.ts], p) IN
    \/ /\ p.ts \notin DOMAIN frames /\ p.ts \in dropped
       /\ UNCHANGED rcvvars
    \/ /\ p.ts \notin DOMAIN frames /\ p.ts \notin dropped
       /\ frames' = With(frames, p.ts, NewFrame(p))
       /\ UNCHANGED <<dropped, handed>>
    \/ /\ p.ts \in DOMAIN frames /\ Complete(f)
       /\ Handed([ts |-> p.ts, units |-> <<>>, loads |-> InOrder(f)])
       /\ Forget(p.ts) /\ UNCHANGED dropped
    \/ /\ p.ts \in DOMAIN frames /\ ~Complete(f) /\ late /\ ~wait
       /\ DropFrame(p.ts) /\ UNCHANGED handed
    \/ /\ p.ts \in DOMAIN frames /\ ~Complete(f) /\ (wait \/ ~late)
       /\ frames' = [frames EXCEPT ![p.ts] = f] /\ UNCHANGED <<dropped, handed>>

\* packet_handler() of the three formats.  late: the frame's first packet came in
\* longer ago than the longest delay; idelay: wait for intra frames.
PacketHandler265(p, late, idelay) ==
    IF p.load.kind = "fragment" THEN HandleFragment(p, late, idelay /\ IsIntra265(p))
    ELSE HandleWhole(p)
PacketHandler264(p, late, idelay) ==
    IF p.load.kind = "fragment" THEN HandleFragment(p, late, idelay /\ IsIntra264(p))
    ELSE HandleWhole(p)
PacketHandler266(p, late, idelay) ==
    IF p.load.kind = "fragment" THEN HandleFragment(p, late, idelay /\ IsIntra266(p))
    ELSE HandleWhole(p)

PacketHandler(fmt, p, late, idelay) ==
    CASE fmt = "H264" -> PacketHandler264(p, late, idelay)
      [] fmt = "H265" -> PacketHandler265(p, late, idelay)
      [] OTHER -> PacketHandler266(p, late, idelay)

=============================================================================
