---------------------------- MODULE MediaSession ----------------------------
(***************************************************************************)
(* Two ends of a uvgRTP media stream (session.cc, media_stream.cc): the    *)
(* keys are agreed on by ZRTP or given by the user, RTP packets pass the   *)
(* RTCP and the SRTP handler on their way to the application, and the RTCP *)
(* threads report to each other on a second pair of sockets.               *)
(***************************************************************************)
EXTENDS Zrtp, Rtcp

CONSTANTS
    Configs,        \* flags and bounds of the streams looked at
    FirstSeqs,      \* the random number a stream may start from
    ReportsInFlight \* bound: reports under way to one end

ASSUME SessionAssumption ==
    /\ FirstSeqs \subseteq 0 .. Top /\ ReportsInFlight \in Nat \ {0}
    /\ \A c \in Configs : /\ {c.auth, c.replay, c.null, c.rtcp} \subseteq BOOLEAN
                           /\ c.senders \subseteq Peers /\ {c.packets, c.faults} \subseteq Nat

VARIABLES
    config,     \* the flags of the stream, the same at both ends
    open,       \* media_stream::init() or add_srtp_ctx() has returned at both ends
    first,      \* endpoint -> the sequence number it started from
    sent,       \* endpoint -> RTP packets sent
    srtp,       \* endpoint -> SRTP context; SRTCP has the same keys
    rtcp,       \* endpoint -> RTCP instance
    number,     \* endpoint -> rtcp_pkt_sent_count_, kept where it is used
    stopped,    \* endpoint -> destroy_stream() has been called
    air,        \* endpoint -> RTP packets under way to it
    reports,    \* endpoint -> RTCP packets under way to it
    handed,     \* endpoint -> the last frame given to the application
    heard,      \* endpoint -> the last report that came in
    arrived,    \* ghost: endpoint -> the packets that have come in
    readable,   \* ghost: endpoint -> those handed up readable
    jumped,     \* ghost: endpoint -> the packets RTCP ignored for a large jump
    unknown,    \* ghost: endpoints that first heard of the other one in a report
    faults,     \* faults of the network left
    topHit      \* ghost: a fault has hit a packet with the highest number

mediavars == <<first, sent, srtp, rtcp, number, stopped, air, reports, handed, heard,
               arrived, readable, jumped, unknown, faults, topHit>>
vars == <<zrtpvars, config, open, mediavars>>

NoFrame == [n |-> 0, clear |-> TRUE, again |-> FALSE]
NoReport == [count |-> 0, blocks |-> 0, clear |-> TRUE, number |-> 0]
UserKey == "user's key"

Init ==
    /\ config \in Configs /\ ZrtpInit
    /\ IF config.keys = "ZRTP" THEN mode \in {"DH3k", "MULT"}
       ELSE mode = "DH3k" /\ hvi = CHOOSE p \in Peers : TRUE
    /\ open = (config.keys # "ZRTP")
    /\ \E f \in [config.senders -> FirstSeqs] :
           first = [p \in Peers |-> IF p \in config.senders THEN f[p] ELSE 0]
    /\ sent = [p \in Peers |-> 0]
    /\ srtp = [p \in Peers |-> Context(UserKey, UserKey)]
    /\ rtcp = [p \in Peers |-> Instance(config.rtcp)]
    /\ number = [p \in Peers |-> 0] /\ stopped = [p \in Peers |-> FALSE]
    /\ air = [p \in Peers |-> <<>>] /\ reports = [p \in Peers |-> <<>>]
    /\ handed = [p \in Peers |-> NoFrame] /\ heard = [p \in Peers |-> NoReport]
    /\ arrived = [p \in Peers |-> {}] /\ readable = [p \in Peers |-> {}] /\ jumped = [p \in Peers |-> {}] /\ unknown = {}
    /\ faults = config.faults /\ topHit = FALSE

\* media_stream::init(zrtp) goes on after the handshake with the keys of
\* get_srtp_keys(); nothing of the handshake is looked at again.
Open ==
    /\ ~open /\ AllDone /\ \A p \in Peers : Agreed(p)
    /\ open' = TRUE
    /\ srtp' = [p \in Peers |-> Context(LocalKey(p), RemoteKey(p))]
    /\ ep' = [p \in Peers |-> Idle] /\ inbox' = [p \in Peers |-> <<>>]
    /\ hvi' = CHOOSE p \in Peers : TRUE
    /\ mode' = "DH3k" /\ waits' = 0 /\ mishaps' = {}
    /\ UNCHANGED <<config, first, sent, rtcp, number, stopped, air, reports, handed, heard,
                   arrived, readable, jumped, unknown, faults, topHit>>

Handshake == ~open /\ ZrtpNext /\ UNCHANGED <<config, open, mediavars>>

-----------------------------------------------------------------------------
\* RTP.

Alive(p) == open /\ ~stopped[p] /\ ~rtcp[p].crashed

\* push_frame() of a frame that fits a packet; two frames have the same timestamp.
Packet(p) == [n |-> sent[p], seq |-> (first[p] + sent[p]) % SeqMod,
              ts |-> 1 + (sent[p] \div 2), cipher |-> Plain, tag |-> NoTag]

Send(p) ==
    /\ Alive(p) /\ p \in config.senders /\ sent[p] < config.packets
    /\ LET out == IF config.keys = "none" THEN [ctx |-> srtp[p], pkt |-> Packet(p)]
                  ELSE Protect(config, srtp[p], Packet(p))
       IN  /\ srtp' = [srtp EXCEPT ![p] = out.ctx]
           /\ air' = [air EXCEPT ![Other(p)] = Append(@, out.pkt)]
    /\ sent' = [sent EXCEPT ![p] = @ + 1]
    /\ rtcp' = [rtcp EXCEPT ![p] = NoteSent(@)]
    /\ UNCHANGED <<zrtpvars, config, open, first, number, stopped, reports, handed, heard,
                   arrived, readable, jumped, unknown, faults, topHit>>

\* call_aux_handlers(): RTCP, SRTP, media.  A handler's error ends its case of the
\* switch and not the loop: the next handler gets the packet all the same.
Handle(p, pkt) ==
    LET taken == TakeRtp(rtcp[p], pkt.seq)
        in == IF config.keys = "none" THEN [ctx |-> srtp[p], clear |-> TRUE]
              ELSE Unprotect(config, srtp[p], pkt)
        ignored == rtcp[p].part # Nobody /\ rtcp[p].part.probation = 0
                   /\ taken.part.stats.received = rtcp[p].part.stats.received
    IN  /\ rtcp' = [rtcp EXCEPT ![p] = taken]
        /\ srtp' = [srtp EXCEPT ![p] = in.ctx]
        /\ handed' = [handed EXCEPT ![p] = [n |-> pkt.n, clear |-> in.clear, again |-> pkt.n \in readable[p]]]
        /\ arrived' = [arrived EXCEPT ![p] = @ \cup {pkt.n}]
        /\ readable' = [readable EXCEPT ![p] = IF in.clear THEN @ \cup {pkt.n} ELSE @]
        /\ jumped' = [jumped EXCEPT ![p] = IF ignored THEN @ \cup {pkt.n} ELSE @]

ReceiveRtp(p) ==
    /\ Alive(p) /\ air[p] # <<>>
    /\ Handle(p, Head(air[p])) /\ air' = [air EXCEPT ![p] = Tail(@)]
    /\ UNCHANGED <<zrtpvars, config, open, first, sent, number, stopped, reports, heard, unknown, faults, topHit>>

HitsTop(pkts) == \E pkt \in pkts : pkt.seq = Top

Overtake(p) ==
    /\ Alive(p) /\ faults > 0 /\ Len(air[p]) > 1
    /\ Handle(p, air[p][2]) /\ air' = [air EXCEPT ![p] = <<Head(@)>> \o SubSeq(@, 3, Len(@))]
    /\ faults' = faults - 1 /\ topHit' = (topHit \/ HitsTop({air[p][1], air[p][2]}))
    /\ UNCHANGED <<zrtpvars, config, open, first, sent, number, stopped, reports, heard, unknown>>

Double(p) ==
    /\ Alive(p) /\ faults > 0 /\ air[p] # <<>>
    /\ Handle(p, Head(air[p])) /\ faults' = faults - 1 /\ topHit' = (topHit \/ HitsTop({Head(air[p])}))
    /\ UNCHANGED <<zrtpvars, config, open, first, sent, number, stopped, air, reports, heard, unknown>>

Lose(p) ==
    /\ faults > 0 /\ air[p] # <<>> /\ air' = [air EXCEPT ![p] = Tail(@)]
    /\ faults' = faults - 1 /\ topHit' = (topHit \/ HitsTop({Head(air[p])}))
    /\ UNCHANGED <<zrtpvars, config, open, first, sent, srtp, rtcp, number, stopped, reports, handed, heard,
                   arrived, readable, jumped, unknown>>

-----------------------------------------------------------------------------
\* RTCP: the runner of an endpoint.

Listens(p) == Alive(p) /\ config.rtcp /\ ~rtcp[p].deaf
SendTo(p, msg) ==
    reports' = [reports EXCEPT ![p] = IF Listens(p) THEN Append(@, msg) ELSE @]

\* The number a report carries, counted up to two cycles of the 16 bits it is
\* encrypted under: any later one fails the same way.
NextNumber(p) ==
    CASE config.keys = "none" -> 0
      [] config.keys # "none" /\ number[p] + 1 < 2 * SeqMod -> number[p] + 1
      [] OTHER -> SeqMod

\* Nothing has come in for MIN_TIMEOUT: poll() times out.  (Whoever is not deaf
\* has said no goodbye yet, and its participant has the socket.)
ReportTimeout(p) ==
    /\ Listens(p) /\ reports[p] = <<>> /\ Len(reports[Other(p)]) < ReportsInFlight
    /\ number' = [number EXCEPT ![p] = NextNumber(p)]
    /\ IF ~MayReport(rtcp[p]) \/ Unsent(rtcp[p]) THEN UNCHANGED reports
       ELSE SendTo(Other(p), [report |-> Report(rtcp[p]), srtcp |-> ProtectReport(srtp[p], number'[p])])
    /\ UNCHANGED <<zrtpvars, config, open, first, sent, srtp, rtcp, stopped, air, handed, heard,
                   arrived, readable, jumped, unknown, faults, topHit>>

ByeMessage == [report |-> [kind |-> "BYE"]]

\* A packet that comes in is handled, and ends the wait for this time.
ReceiveReport(p) ==
    /\ Listens(p) /\ reports[p] # <<>>
    /\ LET msg == Head(reports[p]) IN
       IF msg = ByeMessage
       THEN /\ rtcp' = [rtcp EXCEPT ![p] = TakeBye(@)]
            /\ reports' = [reports EXCEPT ![p] = IF rtcp'[p].deaf THEN <<>> ELSE Tail(@)]
            /\ UNCHANGED <<heard, unknown>>
       ELSE /\ \E leftover \in Leftovers : rtcp' = [rtcp EXCEPT ![p] = TakeReport(@, leftover)]
            /\ reports' = [reports EXCEPT ![p] = Tail(@)]
            /\ heard' = [heard EXCEPT ![p] = [count |-> msg.report.count, blocks |-> msg.report.blocks,
                                              clear |-> ReportClear(srtp[p], msg.srtcp),
                                              number |-> msg.srtcp.index]]
            /\ unknown' = IF rtcp[p].part = Nobody THEN unknown \cup {p} ELSE unknown
    /\ UNCHANGED <<zrtpvars, config, open, first, sent, srtp, number, stopped, air, handed,
                   arrived, readable, jumped, faults, topHit>>

LoseReport(p) ==
    /\ faults > 0 /\ reports[p] # <<>> /\ reports' = [reports EXCEPT ![p] = Tail(@)]
    /\ faults' = faults - 1
    /\ UNCHANGED <<zrtpvars, config, open, first, sent, srtp, rtcp, number, stopped, air, handed, heard,
                   arrived, readable, jumped, unknown, topHit>>

\* destroy_stream(): the dispatcher is stopped, then RTCP says goodbye.  The runner
\* may still be in poll(), and finds its instance deleted when it wakes up; what it
\* does then is undefined, and left out.
Stop(p) ==
    /\ Alive(p) /\ config.rtcp
    /\ IF ReachesNobody(rtcp[p])
       THEN rtcp' = [rtcp EXCEPT ![p].crashed = TRUE] /\ UNCHANGED <<stopped, reports>>
       ELSE /\ stopped' = [stopped EXCEPT ![p] = TRUE] /\ UNCHANGED rtcp
            /\ IF Unsent(rtcp[p]) THEN UNCHANGED reports ELSE SendTo(Other(p), ByeMessage)
    /\ UNCHANGED <<zrtpvars, config, open, first, sent, srtp, number, air, handed, heard,
                   arrived, readable, jumped, unknown, faults, topHit>>

-----------------------------------------------------------------------------
Runner(p) == ReportTimeout(p) \/ ReceiveReport(p)
Network(p) == Overtake(p) \/ Double(p) \/ Lose(p) \/ LoseReport(p)

Next ==
    \/ Handshake \/ Open
    \/ \E p \in Peers : Send(p) \/ ReceiveRtp(p) \/ Runner(p) \/ Network(p) \/ Stop(p)

\* The RTCP threads run; nobody has to push frames or to stop.
Spec == Init /\ [][Next]_vars /\ \A p \in Peers : WF_vars(Runner(p))

-----------------------------------------------------------------------------
\* Properties.

RolledOver == \E p \in config.senders, k \in 0 .. config.packets - 1 :
    k < sent[p] /\ (first[p] + k) % SeqMod = Top
OneWay == Cardinality(config.senders) = 1

\* The application gets the other end's frames as they were sent, whatever the
\* network does to the packets: without a cipher always; with one until a
\* packet with the highest sequence number has been sent, and beyond it in a
\* one-way stream without authentication whose packet with that number was not
\* lost, doubled or overtaken.  Authenticated with replay protection a packet is
\* readable once and no more (srtp.cc recv_packet_handler(), base.cc
\* is_replayed_packet()); what is refused is handed up all the same, as it came.
MediaReadable == \A p \in Peers : handed[p] # NoFrame =>
    LET once == config.keys # "none" /\ config.auth /\ config.replay
    IN  /\ (config.null \/ ~RolledOver \/ (~config.auth /\ OneWay /\ ~topHit))
              /\ ~(once /\ handed[p].again) => handed[p].clear
        /\ once /\ handed[p].again => ~handed[p].clear

\* What an end that got to know the other one by its packets reports of it is
\* never worse than what has happened: the packets called dropped were sent, and
\* have not come in or came in after a jump (rtcp.cc update_participant_seq(),
\* update_session_statistics()).  The header of a report announces the blocks
\* it has, and a report is readable until its number outgrows 16 bits.
Missing(p) == (0 .. sent[Other(p)] - 1) \ (arrived[p] \ jumped[p])
ReportsTrue == \A p \in Peers :
    /\ rtcp[p].part # Nobody /\ p \notin unknown =>
           rtcp[p].part.stats.dropped <= Cardinality(Missing(p))
    /\ heard[p].count = heard[p].blocks
    /\ heard[p].number < SeqMod => heard[p].clear

\* As long as an end that has heard the other one send stays, and nobody leaves
\* or crashes, the ends do not fall silent: reports keep being sent.  (Only one
\* end may: reports that come in postpone one's own, rtcp_runner.cc:33.)
Attended == open /\ config.rtcp /\ (\E p \in Peers : rtcp[p].senders > 0)
            /\ \A p \in Peers : ~stopped[p] /\ ~rtcp[p].crashed
Reports(p) == ReportTimeout(p) /\ reports' # reports
SomeoneReports == <>[]Attended => []<><<\E p \in Peers : Reports(p)>>_vars

=============================================================================
