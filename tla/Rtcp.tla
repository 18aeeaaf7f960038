-------------------------------- MODULE Rtcp --------------------------------
(***************************************************************************)
(* uvgRTP's RTCP instance (rtcp.cc, rtcp/...): what it notes of the one    *)
(* participant at the other end from the RTP packets that come in, and the *)
(* reports and goodbyes it makes of that.  The state of an instance is a   *)
(* record, the operators give its next value.                              *)
(***************************************************************************)
EXTENDS Srtp, Integers

CONSTANTS
    MaxDropout,     \* MAX_DROPOUT: 3000
    MaxMisorder,    \* MAX_MISORDER: 100
    Leftovers       \* what probation may hold when nobody has written to it

ASSUME RtcpAssumption ==
    /\ {MaxDropout, MaxMisorder} \subseteq Nat \ {0} /\ MaxDropout + MaxMisorder < SeqMod
    /\ Leftovers \subseteq Nat

MinSequential == 2
ZeroStats == [base |-> 0, max |-> 0, bad |-> 0, cycles |-> 0, received |-> 0, dropped |-> 0]
Nobody == [stats |-> ZeroStats, probation |-> -1, socket |-> FALSE]

\* Instance: with RCE_RTCP a participant with a socket waits for its SSRC.
Instance(uses) ==
    [initial |-> IF uses THEN 1 ELSE 0,     \* initial_participants_
     part |-> Nobody,                       \* participants_: there is but one other end
     receivers |-> 0,                       \* num_receivers_
     senders |-> 0,                         \* senders_
     role |-> "RECEIVER",                   \* our_role_
     deaf |-> FALSE,                        \* its socket is closed
     crashed |-> FALSE]

\* add_participant(ssrc): without one that waits, it is only there for statistics
\* and its socket pointer is never set.
AddParticipant(r, leftover) ==
    [r EXCEPT !.initial = IF @ > 0 THEN @ - 1 ELSE 0,
              !.part = [stats |-> ZeroStats, probation |-> leftover, socket |-> r.initial > 0],
              !.receivers = @ + 1]

InitSeq(stats, seq) == [stats EXCEPT !.base = seq, !.max = seq, !.bad = 1 % SeqMod]

InitNewParticipant(r, seq) ==
    LET added == AddParticipant(r, MinSequential)
    IN  [added EXCEPT !.part.stats = InitSeq(@, seq), !.senders = @ + 1]

-----------------------------------------------------------------------------
\* update_participant_seq(): the participant afterwards, and whether the packet
\* counts.  Sequence numbers are compared as ints: the one after the last of a
\* cycle is none in sequence.

Counts(p) == [p |-> p, ok |-> TRUE]
Ignored(p) == [p |-> p, ok |-> FALSE]

Probation(p, seq, stats) ==
    CASE seq # p.stats.max + 1 ->
             Ignored([p EXCEPT !.probation = MinSequential - 1, !.stats.max = seq])
      [] seq = p.stats.max + 1 /\ p.probation > 1 ->
             Ignored([p EXCEPT !.probation = @ - 1, !.stats.max = seq])
      [] seq = p.stats.max + 1 /\ p.probation = 1 ->
             Counts([p EXCEPT !.probation = 0, !.stats = stats])
\* The first packet stays the base the others are counted from.
OnProbationNoReset(p, seq) == Probation(p, seq, [p.stats EXCEPT !.max = seq])
OnProbation(p, seq) == Probation(p, seq, InitSeq(p.stats, seq))

\* cycles has 16 bits.
InOrder(p, seq) ==
    Counts([p EXCEPT !.stats.max = seq,
                     !.stats.cycles = IF seq < p.stats.max THEN (@ + SeqMod) % SeqMod ELSE @])

LargeJump(p, seq) ==
    IF seq = p.stats.bad THEN Counts([p EXCEPT !.stats = InitSeq(@, seq)])
    ELSE Ignored([p EXCEPT !.stats.bad = (seq + 1) % SeqMod])

UpdateParticipantSeq(p, seq) ==
    LET udelta == (seq - p.stats.max) % SeqMod
    IN  CASE p.probation > 0 -> OnProbation(p, seq)
          [] p.probation = 0 /\ udelta < MaxDropout -> InOrder(p, seq)
          [] p.probation = 0 /\ udelta \in MaxDropout .. SeqMod - MaxMisorder -> LargeJump(p, seq)
          [] OTHER -> Counts(p)

\* update_session_statistics().
Expected(stats) == stats.cycles + stats.max - stats.base + 1
UpdateSessionStatistics(r) ==
    LET received == r.part.stats.received + 1
        dropped == Expected(r.part.stats) - received
    IN  [r EXCEPT !.part.stats.received = received,
                  !.part.stats.dropped = IF dropped >= 0 THEN dropped ELSE 0]

\* recv_packet_handler().
TakeRtp(r, seq) ==
    IF r.part = Nobody THEN UpdateSessionStatistics(InitNewParticipant(r, seq))
    ELSE LET u == UpdateParticipantSeq(r.part, seq)
             updated == [r EXCEPT !.part = u.p]
         IN  IF u.ok THEN UpdateSessionStatistics(updated) ELSE updated

\* send_packet_handler_vec().
NoteSent(r) == [r EXCEPT !.role = "SENDER"]

-----------------------------------------------------------------------------
\* The runner.  The header of a report says how many blocks there are.

ReportBlocks(r) == IF r.part = Nobody THEN 0 ELSE 1

\* Only those that send report.
MayReportSender(r) == r.senders > 0 /\ r.role = "SENDER"
\* generate_report(): only who has heard a sender reports anything.
MayReport(r) == r.senders > 0

Report(r) == [kind |-> IF r.role = "SENDER" THEN "SR" ELSE "RR",
              count |-> r.receivers, blocks |-> ReportBlocks(r),
              dropped |-> IF r.part = Nobody THEN 0 ELSE r.part.stats.dropped]

\* A report or a goodbye goes to the participant, through its socket.
Unsent(r) == r.part = Nobody
ReachesNobody(r) == r.part # Nobody /\ ~r.part.socket

\* handle_sender_report_packet(), handle_receiver_report_packet().
TakeReport(r, leftover) == IF r.part = Nobody THEN AddParticipant(r, leftover) ELSE r

\* handle_bye_packet(): the participant goes, the counts stay.
TakeBye(r) ==
    CASE r.part = Nobody -> r
      [] ReachesNobody(r) -> [r EXCEPT !.crashed = TRUE]
      [] OTHER -> [r EXCEPT !.part = Nobody, !.deaf = TRUE]

=============================================================================
