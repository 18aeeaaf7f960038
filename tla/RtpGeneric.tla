----------------------------- MODULE RtpGeneric -----------------------------
(***************************************************************************)
(* A uvgRTP stream of format RTP_FORMAT_GENERIC with RCE_FRAGMENT_GENERIC, *)
(* the way videostream and recvjpegsdl create it: push_frame() cuts a      *)
(* frame into packets, the packet dispatcher of the other side puts them   *)
(* together again and pull_frame() hands the result over.  UDP in between  *)
(* loses, reorders and duplicates.                                         *)
(***************************************************************************)
EXTENDS Naturals, Sequences, FiniteSets, Functions

CONSTANTS
    SeqMod,     \* RTP sequence numbers are counted modulo this (2^16)
    FirstSeqs,  \* the random number a stream may start from
    Faults      \* how many packets the network loses, swaps or doubles

ASSUME RtpAssumption ==
    /\ SeqMod \in Nat /\ SeqMod > 6 /\ FirstSeqs \subseteq 0 .. SeqMod - 1
    /\ Faults \in Nat

VARIABLES
    seq,        \* rtp::seq_
    ts,         \* the timestamp of the next push: a push takes a millisecond or more
    outbox,     \* the transaction's packets that sendmmsg has not sent yet
    air,        \* packets under way, in the order they were sent
    minfo,      \* media_frame_info: timestamp -> fragments received so far
    frames,     \* frames_, the queue pull_frame() reads
    faults,     \* faults the network may still make
    lost, late, doubled,    \* ghosts: the timestamps that met with each fault
    handed      \* ghost: every frame that ever went into frames_

ghostsRtp == <<lost, late, doubled>>
rtpvars == <<seq, ts, outbox, air, minfo, frames, faults, ghostsRtp, handed>>

InvalidSeq == SeqMod    \* INVALID_SEQ: no 16 bit number

RtpInit ==
    /\ seq \in FirstSeqs /\ ts = 1
    /\ outbox = <<>> /\ air = <<>>
    /\ minfo = <<>> /\ frames = <<>>
    /\ faults = Faults /\ lost = {} /\ late = {} /\ doubled = {} /\ handed = <<>>

-----------------------------------------------------------------------------
\* The sender.

\* push_media_frame(): one packet without a marker if the frame fits, else the
\* first and the last packet of the frame carry one.
Packets(len) ==
    [i \in 1 .. len |->
        [seq |-> (seq + i - 1) % SeqMod, ts |-> ts, part |-> i,
         marker |-> len > 1 /\ i \in {1, len}]]

PushFrame(len) ==
    /\ outbox = <<>>
    /\ outbox' = Packets(len)
    /\ seq' = (seq + len) % SeqMod /\ ts' = ts + 1
    /\ UNCHANGED <<air, minfo, frames, faults, ghostsRtp, handed>>

\* sendmmsg reads the payload where the application left it, packet by packet.
SendPacket(data) ==
    /\ outbox # <<>>
    /\ air' = Append(air, [p |-> Head(outbox), data |-> data])
    /\ outbox' = Tail(outbox)
    /\ UNCHANGED <<seq, ts, minfo, frames, faults, ghostsRtp, handed>>

\* sendmmsg fails: flush_queue() gives the transaction up with RTP_SEND_ERROR,
\* the numbers of the packets not sent are used up.
SendFails ==
    /\ outbox # <<>> /\ faults > 0
    /\ faults' = faults - 1 /\ lost' = lost \cup {Head(outbox).ts}
    /\ outbox' = <<>>
    /\ UNCHANGED <<seq, ts, air, minfo, frames, late, doubled, handed>>

-----------------------------------------------------------------------------
\* The receiver: media::packet_handler() behind the packet dispatcher.

Known(t) == t \in DOMAIN minfo
Fragment(d) == [ts |-> d.p.ts, part |-> d.p.part, of |-> d.data]

\* A packet of a timestamp already in the table.
AddFragment(d) ==
    LET m == minfo[d.p.ts] IN
    [m EXCEPT !.npkts = @ + 1,
              !.fragments = [s \in DOMAIN @ \cup {d.p.seq} |->
                                IF s = d.p.seq THEN Fragment(d) ELSE @[s]],
              !.e_seq = IF d.p.marker THEN d.p.seq ELSE @]

\* A first packet of a timestamp, taken for the start of its frame.
NewFragment(d) ==
    [npkts |-> 1, s_seq |-> d.p.seq, e_seq |-> InvalidSeq,
     fragments |-> [s \in {d.p.seq} |-> Fragment(d)]]

\* How many packets lie between the two markers.
Received(m) == IF m.s_seq > m.e_seq THEN SeqMod - m.s_seq + m.e_seq + 1
               ELSE m.e_seq - m.s_seq + 1

\* (Faulty: complete as soon as both ends are there.)
CompleteAtEnd(m) == m.e_seq # InvalidSeq
Complete(m) == m.e_seq # InvalidSeq /\ Received(m) = m.npkts

\* The frame handed out: fragments is a std::map, so they come in the order of
\* their sequence numbers.  (A doubled packet was counted but kept once: the
\* space for it stays unwritten at the end.)
Unwritten == [ts |-> 0, part |-> 0, of |-> 0]
Assembled(m) ==
    LET S == DOMAIN m.fragments
        at(i) == CHOOSE s \in S : Cardinality({x \in S : x < s}) = i - 1
    IN  [i \in 1 .. m.npkts |-> IF i <= Cardinality(S) THEN m.fragments[at(i)]
                                ELSE Unwritten]

\* pkt_dispatcher::return_frame(), no receive hook being installed.
\* (Faulty: to the front of the queue.)
ReturnFrameFirst(f) == frames' = <<f>> \o frames /\ handed' = Append(handed, f)
ReturnFrame(f) == frames' = Append(frames, f) /\ handed' = Append(handed, f)

PacketHandler(d) ==
    LET t == d.p.ts
        m == AddFragment(d)
    IN  \/ /\ Known(t) /\ Complete(m)
           /\ ReturnFrame(Assembled(m))
           /\ minfo' = Restrict(minfo, DOMAIN minfo \ {t})
        \/ /\ Known(t) /\ ~Complete(m)
           /\ minfo' = [minfo EXCEPT ![t] = m]
           /\ UNCHANGED <<frames, handed>>
        \/ /\ ~Known(t) /\ d.p.marker
           /\ minfo' = [x \in DOMAIN minfo \cup {t} |->
                            IF x = t THEN NewFragment(d) ELSE minfo[x]]
           /\ UNCHANGED <<frames, handed>>
        \/ /\ ~Known(t) /\ ~d.p.marker     \* RTP_PKT_READY as it is
           /\ ReturnFrame(<<Fragment(d)>>)
           /\ UNCHANGED minfo

Without(s, i) == SubSeq(s, 1, i - 1) \o SubSeq(s, i + 1, Len(s))

\* The oldest packet under way arrives.
Receive ==
    /\ air # <<>>
    /\ PacketHandler(Head(air)) /\ air' = Tail(air)
    /\ UNCHANGED <<seq, ts, outbox, faults, ghostsRtp>>

\* A packet overtakes the ones before it.
Overtake(i) ==
    /\ i \in 2 .. Len(air) /\ faults > 0
    /\ PacketHandler(air[i]) /\ air' = Without(air, i)
    /\ faults' = faults - 1
    /\ late' = late \cup {air[j].p.ts : j \in 1 .. i}
    /\ UNCHANGED <<seq, ts, outbox, lost, doubled>>

Lose(i) ==
    /\ i \in DOMAIN air /\ faults > 0
    /\ air' = Without(air, i)
    /\ faults' = faults - 1 /\ lost' = lost \cup {air[i].p.ts}
    /\ UNCHANGED <<seq, ts, outbox, minfo, frames, late, doubled, handed>>

\* A packet arrives and a copy of it is still under way.
Double(i) ==
    /\ i \in DOMAIN air /\ faults > 0
    /\ PacketHandler(air[i])
    /\ faults' = faults - 1 /\ doubled' = doubled \cup {air[i].p.ts}
    /\ late' = late \cup {air[j].p.ts : j \in 1 .. i - 1}
    /\ UNCHANGED <<seq, ts, outbox, air, lost>>

Network == \E i \in DOMAIN air : Overtake(i) \/ Lose(i) \/ Double(i)

\* pull_frame(): the dispatcher has put a frame into the queue.
PullFrame ==
    /\ frames # <<>> /\ frames' = Tail(frames)
    /\ UNCHANGED <<seq, ts, outbox, air, minfo, faults, ghostsRtp, handed>>

=============================================================================
