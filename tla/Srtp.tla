-------------------------------- MODULE Srtp --------------------------------
(***************************************************************************)
(* uvgRTP's SRTP contexts (srtp/base.cc, srtp.cc, srtcp.cc).  A packet is  *)
(* encrypted under an index made of its sequence number and the roll-over  *)
(* counter of the context, which is not sent: both ends have to count the  *)
(* same.  A context has one counter for both directions.                   *)
(***************************************************************************)
EXTENDS Naturals

CONSTANTS
    SeqMod,     \* sequence numbers are counted modulo this (2^16)
    MaxOff      \* MAX_OFF: 10000

ASSUME SrtpAssumption == SeqMod \in Nat \ {0} /\ MaxOff \in Nat \ {0}

Top == SeqMod - 1
Plain == "plain"        \* not encrypted
NoTag == "no tag"

\* init(): keys are derived from the local and the remote master key.
Context(local, remote) == [roc |-> 0, rts |-> 0, local |-> local, remote |-> remote, seen |-> {}]

Index(roc, seq) == roc * SeqMod + seq
Roll(ctx, seq) == IF seq = Top THEN [ctx EXCEPT !.roc = @ + 1] ELSE ctx

\* send_packet_handler(): the payload is encrypted under the counter as it was,
\* the tag is made with the counter as it is then.  A null cipher counts nothing.
ProtectCounting(flags, ctx, after, pkt) ==
    [ctx |-> after,
     pkt |-> [pkt EXCEPT !.cipher = IF flags.null THEN Plain ELSE <<ctx.local, Index(ctx.roc, pkt.seq)>>,
                         !.tag = IF flags.auth THEN <<ctx.local, after.roc>> ELSE NoTag]]
\* The counter is moved by the first packet after the wrap.
ProtectLate(flags, ctx, pkt) ==
    ProtectCounting(flags, ctx, IF flags.null \/ pkt.seq # 0 THEN ctx ELSE [ctx EXCEPT !.roc = @ + 1], pkt)
Protect(flags, ctx, pkt) ==
    ProtectCounting(flags, ctx, IF flags.null THEN ctx ELSE Roll(ctx, pkt.seq), pkt)

\* A packet that was overtaken around the wrap: never, the sum is an int.
LatePacket(ctx, pkt) == pkt.ts = ctx.rts /\ pkt.seq + MaxOff < MaxOff

\* recv_packet_handler(): what becomes of the context, and of the packet, which
\* stays as it is unless its tag is right and new.
Authentic(ctx, pkt) == pkt.tag = <<ctx.remote, ctx.roc>>
Digest(ctx, pkt) == <<pkt.n, ctx.roc>>
Replayed(flags, ctx, pkt) == flags.replay /\ Digest(ctx, pkt) \in ctx.seen
Refused(flags, ctx, pkt) == flags.auth /\ (~Authentic(ctx, pkt) \/ Replayed(flags, ctx, pkt))

Remember(flags, ctx, pkt) ==
    IF flags.auth /\ flags.replay /\ Authentic(ctx, pkt)
    THEN [ctx EXCEPT !.seen = @ \cup {Digest(ctx, pkt)}] ELSE ctx

Decrypt(ctx, pkt) ==
    LET roc == IF LatePacket(ctx, pkt) THEN ctx.roc - 1 ELSE ctx.roc
        rolled == Roll(ctx, pkt.seq)
    IN  [ctx |-> IF pkt.seq = Top THEN [rolled EXCEPT !.rts = pkt.ts] ELSE ctx,
         clear |-> pkt.cipher = <<ctx.remote, Index(roc, pkt.seq)>>]

\* clear says whether the payload handed up is what was sent.  A refused packet is
\* not: it is still encrypted or, under the null cipher, has its tag at the end.
Unprotect(flags, ctx, pkt) ==
    LET known == Remember(flags, ctx, pkt) IN
    CASE Refused(flags, ctx, pkt)                  -> [ctx |-> ctx, clear |-> FALSE]
      [] ~Refused(flags, ctx, pkt) /\ flags.null   -> [ctx |-> known, clear |-> TRUE]
      [] ~Refused(flags, ctx, pkt) /\ ~flags.null  -> Decrypt(known, pkt)

\* SRTCP: the index is a running number which the report carries; it is encrypted
\* under the number's low bits only, encrypt() taking a uint16_t.  The counter in
\* the tag never moves.
ProtectReport(ctx, number) == [cipher |-> <<ctx.local, number % SeqMod>>, index |-> number, tag |-> <<ctx.local, 0>>]
ReportClear(ctx, r) == r.tag = <<ctx.remote, 0>> /\ r.cipher = <<ctx.remote, r.index>>

=============================================================================
