-------------------------------- MODULE Zrtp --------------------------------
(***************************************************************************)
(* The ZRTP handshake of uvgRTP's zrtp::init(): two endpoints say Hello,   *)
(* settle with Commit who is the initiator, exchange their halves of the   *)
(* Diffie-Hellman secret (or, for a further stream, reuse the first one:   *)
(* multistream mode) and confirm the derived key to each other, over UDP.  *)
(*                                                                         *)
(* Every phase of the handshake is the same loop: send, wait for a         *)
(* message or for the timeout, and go round again, at most so many times.  *)
(* An endpoint's state is a record; the operators below give its next      *)
(* value and what it sends.                                                *)
(***************************************************************************)
EXTENDS Naturals, Sequences, FiniteSets

CONSTANTS
    Peers,          \* the two endpoints
    HelloTries,     \* how often Hello is sent: 20 in begin_session()
    Tries,          \* how often anything else is sent: 10
    LateStart,      \* timeouts an endpoint may have before the other one starts
    HandshakeFaults \* faults of the network during a handshake

ASSUME ZrtpAssumption ==
    /\ IsFiniteSet(Peers) /\ Cardinality(Peers) = 2
    /\ {HelloTries, Tries} \subseteq Nat \ {0}
    /\ {LateStart, HandshakeFaults} \subseteq Nat

VARIABLES
    ep,         \* endpoint -> its state
    inbox,      \* endpoint -> messages under way to it or in its socket, in order
    hvi,        \* the endpoint whose hash value (or nonce) is the larger one
    mode,       \* key_agreement_type: DH3k or MULT
    waits,      \* timeouts before both have started
    mishaps     \* ghost: what the network did, <<fault, type of message>>

zrtpvars == <<ep, inbox, hvi, mode, waits, mishaps>>

Other(p) == CHOOSE q \in Peers : q # p
None == "none"
NoKey == {}
Garbage == "garbage"    \* what is read out of a datagram that is no ZRTP message

-----------------------------------------------------------------------------
\* Messages.  All copies a phase sends are equal, so a message is known by its
\* type and its sender; a Confirm also carries what its MAC was made with.

Message(t, p, key) == [t |-> t, from |-> p, key |-> key]
NotZrtp == Message("Other", Garbage, NoKey)

\* recv_msg() returns -RTP_INVALID_VALUE, which is 4, for anything that is no
\* ZRTP message, and 4 is also the number of ZRTP_FT_DH_PART1.
Type(m) == IF m.t = "Other" THEN "DHPart1" ELSE m.t

Hello(p) == Message("Hello", p, NoKey)
HelloAck(p) == Message("HelloACK", p, NoKey)
Commit(p) == Message("Commit", p, NoKey)
DhKeyExchange(p, part) == Message(IF part = 1 THEN "DHPart1" ELSE "DHPart2", p, NoKey)

\* What the MAC of a Confirm is made with: only generate_shared_secrets_dh() derives
\* those keys, multistream mode goes on with the ones of the first stream.
FirstStream == {"first stream"}
MacKey(e) == IF mode = "DH3k" THEN e.s0 ELSE FirstStream
Confirm(p, e, part) == Message(IF part = 1 THEN "Confirm1" ELSE "Confirm2", p, MacKey(e))
ConfAck(p) == Message("Conf2ACK", p, NoKey)

\* What a phase sends each time round.
Sends(p, e) ==
    CASE e.at = "hello"    -> Hello(p)
      [] e.at = "commit"   -> Commit(p)
      [] e.at = "dh1"      -> DhKeyExchange(p, 1)
      [] e.at = "dh2"      -> DhKeyExchange(p, 2)
      [] e.at = "confirm1" -> Confirm(p, e, 1)
      [] e.at = "confirm2" -> Confirm(p, e, 2)

\* parse_msg(): what is kept of the other side's messages.
ParseHello(e, m) == [e EXCEPT !.hello = IF @ = None THEN m.from ELSE @]
ParseCommit(e, m) == [e EXCEPT !.commit = m.from]
ParseDh(e, m) == [e EXCEPT !.dh = IF m.t \in {"DHPart1", "DHPart2"} THEN m.from ELSE Garbage]

Waiting == {"hello", "commit", "dh1", "dh2", "confirm1", "confirm2"}
Limit(at) == IF at = "hello" THEN HelloTries ELSE Tries

Idle == [at |-> "idle", i |-> 0, role |-> None, ret |-> None, s0 |-> NoKey,
         hello |-> None, commit |-> None, dh |-> None, h0 |-> None]

\* The outcome of a step: the endpoint's next state and what it sends.
Step(e, out) == [e |-> e, out |-> out]
Done(e, ret) == [e EXCEPT !.at = "done", !.i = 0, !.ret = ret]
Enter(p, e, at) ==
    LET next == [e EXCEPT !.at = at, !.i = 0]
    IN  Step(next, <<Sends(p, next)>>)
Again(p, e) ==
    IF e.i + 1 < Limit(e.at)
    THEN Step([e EXCEPT !.i = @ + 1], <<Sends(p, e)>>)
    ELSE Step(Done(e, "RTP_TIMEOUT"), <<>>)
Before(out, step) == [step EXCEPT !.out = out \o @]

-----------------------------------------------------------------------------
\* Keys.  s0 is a hash: equal for two endpoints when everything hashed is; it is
\* the set of that one record, to tell it from NoKey.

Ordered(e, own, remote) ==
    IF e.role = "INITIATOR" THEN <<own, remote>> ELSE <<remote, own>>

Secrets(p, e, kdf, commit, dh) ==
    {[kdf |-> kdf, zids |-> Ordered(e, p, e.hello),
      hello |-> IF e.role = "INITIATOR" THEN e.hello ELSE p, commit |-> commit, dh |-> dh]}
HashedCommit(p, e) == IF e.role = "INITIATOR" THEN p ELSE e.commit

\* The Commit the initiator hashes is the one it received: seen in a contention.
SecretsDhReceived(p, e) == Secrets(p, e, "ZRTP-HMAC-KDF", e.commit, Ordered(e, p, e.dh))
SecretsDh(p, e) == Secrets(p, e, "ZRTP-HMAC-KDF", HashedCommit(p, e), Ordered(e, p, e.dh))
SecretsMsm(p, e) == Secrets(p, e, "ZRTP MSK", HashedCommit(p, e), <<None, None>>)

\* parse_msg() of a Confirm: its MAC must come from the same key; only then is
\* the sender's first hash known.
ConfirmParsed(e, m) == m.t \in {"Confirm1", "Confirm2"} /\ m.key = MacKey(e)

\* validate_session(): the MACs of the messages kept from the other side.
\* (Multistream mode keeps the DHPart of the first stream.)
Valid(e) ==
    /\ e.hello = e.h0
    /\ e.role = "RESPONDER" => e.commit = e.h0
    /\ mode = "DH3k" => e.dh = e.h0

-----------------------------------------------------------------------------
\* What each phase makes of a message.

\* A HelloACK ends the phase once the other side's Hello is there.
ReceiveHello(p, e, m) ==
    CASE m.t = "Hello" -> Before(<<HelloAck(p)>>, Again(p, ParseHello(e, m)))
      [] m.t = "HelloACK" /\ e.hello # None -> Step([e EXCEPT !.at = "drain"], <<>>)
      [] OTHER -> Again(p, e)

\* init_dhm() and init_msm() after init_session(): the responder's first phase,
RespondStart(p, e) ==
    IF mode = "DH3k" THEN Enter(p, e, "dh1")
    ELSE LET derived == [e EXCEPT !.s0 = SecretsMsm(p, e)] IN Enter(p, derived, "confirm1")

InitiatorFinalize(p, e, m) ==
    LET parsed == [e EXCEPT !.h0 = m.from]
    IN  IF ConfirmParsed(e, m) /\ Valid(parsed) THEN Enter(p, parsed, "confirm2")
        ELSE Step(Done(e, "RTP_INVALID_VALUE"), <<>>)

\* and the initiator's, which reads the message that ended init_session() again.
InitiateStart(p, e, m) ==
    IF mode = "DH3k"
    THEN LET parsed == ParseDh(e, m)
         IN  Enter(p, [parsed EXCEPT !.s0 = SecretsDh(p, parsed)], "dh2")
    ELSE InitiatorFinalize(p, [e EXCEPT !.s0 = SecretsMsm(p, e)], m)

Responds(e, m) == [ParseCommit(e, m) EXCEPT !.role = "RESPONDER"]
WeAreInitiator(p) == hvi = p

ReceiveCommit(p, e, m) ==
    CASE m.t = "Commit" /\ WeAreInitiator(p)  -> Again(p, ParseCommit(e, m))
      [] m.t = "Commit" /\ ~WeAreInitiator(p) -> RespondStart(p, Responds(e, m))
      [] Type(m) \in {"DHPart1", "Confirm1"}  -> InitiateStart(p, e, m)
      [] OTHER -> Again(p, e)

ReceiveDhPart1(p, e, m) ==
    IF m.t = "DHPart2"
    THEN LET parsed == ParseDh(e, m)
         IN  Enter(p, [parsed EXCEPT !.s0 = SecretsDh(p, parsed)], "confirm1")
    ELSE Again(p, e)

ReceiveDhPart2(p, e, m) ==
    IF m.t = "Confirm1" THEN InitiatorFinalize(p, e, m) ELSE Again(p, e)

\* A Confirm2 with the wrong MAC only costs a try.
ResponderFinalize(p, e, m) ==
    LET parsed == [e EXCEPT !.h0 = m.from]
    IN  IF m.t # "Confirm2" \/ ~ConfirmParsed(e, m) THEN Again(p, e)
        ELSE IF Valid(parsed)
             THEN Step(Done(parsed, "RTP_OK"), <<ConfAck(p)>>)
             ELSE Step(Done(parsed, "RTP_INVALID_VALUE"), <<>>)

\* Any message at all is an acknowledgement.
ReceiveConfAckAny(p, e, m) == Step(Done(e, "RTP_OK"), <<>>)
ReceiveConfAck(p, e, m) ==
    IF m.t = "Conf2ACK" THEN Step(Done(e, "RTP_OK"), <<>>) ELSE Again(p, e)

RecvMsg(p, e, m) ==
    CASE e.at = "hello"    -> ReceiveHello(p, e, m)
      [] e.at = "commit"   -> ReceiveCommit(p, e, m)
      [] e.at = "dh1"      -> ReceiveDhPart1(p, e, m)
      [] e.at = "dh2"      -> ReceiveDhPart2(p, e, m)
      [] e.at = "confirm1" -> ResponderFinalize(p, e, m)
      [] e.at = "confirm2" -> ReceiveConfAck(p, e, m)

-----------------------------------------------------------------------------
\* Steps of an endpoint.

ZrtpInit ==
    /\ ep = [p \in Peers |-> Idle]
    /\ inbox = [p \in Peers |-> <<>>]
    /\ hvi \in Peers
    /\ waits = 0 /\ mishaps = {}

\* A datagram for a port nobody has bound is gone.
Take(p, step, rest) ==
    /\ ep' = [ep EXCEPT ![p] = step.e]
    /\ inbox' = [inbox EXCEPT ![p] = rest,
                              ![Other(p)] = IF ep[Other(p)].at = "idle" THEN @ ELSE @ \o step.out]

\* init_connection() binds the socket; generating keys takes a while.
Bind(p) ==
    /\ ep[p].at = "idle" /\ ep' = [ep EXCEPT ![p].at = "bound"]
    /\ UNCHANGED <<inbox, hvi, mode, waits, mishaps>>

Begin(p) ==
    /\ ep[p].at = "bound" /\ Take(p, Enter(p, ep[p], "hello"), inbox[p])
    /\ UNCHANGED <<hvi, mode, waits, mishaps>>

Receive(p) ==
    /\ ep[p].at \in Waiting /\ inbox[p] # <<>>
    /\ Take(p, RecvMsg(p, ep[p], Head(inbox[p])), Tail(inbox[p]))
    /\ UNCHANGED <<hvi, mode, waits, mishaps>>

\* init_session() first reads what is there already: nothing but a Commit counts.
Drain(p) ==
    /\ ep[p].at = "drain" /\ inbox[p] # <<>>
    /\ LET m == Head(inbox[p])
       IN  Take(p, IF m.t = "Commit" THEN RespondStart(p, Responds(ep[p], m))
                   ELSE Step(ep[p], <<>>), Tail(inbox[p]))
    /\ UNCHANGED <<hvi, mode, waits, mishaps>>

\* Nothing is there (any more): what inbox still holds is under way.
Commits(p) ==
    /\ ep[p].at = "drain"
    /\ Take(p, Enter(p, [ep[p] EXCEPT !.role = "INITIATOR"], "commit"), inbox[p])
    /\ UNCHANGED <<hvi, mode, waits, mishaps>>

\* After the handshake the socket belongs to the media stream, whose
\* packet_handler() drops ZRTP messages; after a failure it is closed.
Swallow(p) ==
    /\ ep[p].at = "done" /\ inbox[p] # <<>>
    /\ inbox' = [inbox EXCEPT ![p] = Tail(@)]
    /\ UNCHANGED <<ep, hvi, mode, waits, mishaps>>

-----------------------------------------------------------------------------
\* Time and the network.

TimesOut(p) == Again(p, ep[p])
Silent == \A p \in Peers : inbox[p] = <<>> /\ ep[p].at # "drain"
Started == \A p \in Peers : ep[p].at \notin {"idle", "bound"}

\* The timeouts are long against everything else: with nothing under way they
\* end the wait of one endpoint or of both at once.
Timeout(p) ==
    /\ ep[p].at \in Waiting /\ Silent
    /\ Started \/ waits < LateStart
    /\ Take(p, TimesOut(p), <<>>)
    /\ waits' = IF Started THEN waits ELSE waits + 1
    /\ UNCHANGED <<hvi, mode, mishaps>>

BothTimeOut ==
    /\ Silent /\ \A p \in Peers : ep[p].at \in Waiting
    /\ ep' = [p \in Peers |-> TimesOut(p).e]
    /\ inbox' = [p \in Peers |-> TimesOut(Other(p)).out]
    /\ UNCHANGED <<hvi, mode, waits, mishaps>>

\* Something took longer than the timeout.
TooEarly(p) ==
    /\ ep[p].at \in Waiting /\ inbox[p] # <<>>
    /\ Take(p, TimesOut(p), inbox[p])
    /\ mishaps' = mishaps \cup {<<"late", Head(inbox[p]).t>>}
    /\ UNCHANGED <<hvi, mode, waits>>

LoseMessage(p) ==
    /\ inbox[p] # <<>> /\ inbox' = [inbox EXCEPT ![p] = Tail(@)]
    /\ mishaps' = mishaps \cup {<<"lost", Head(inbox[p]).t>>}
    /\ UNCHANGED <<ep, hvi, mode, waits>>

DoubleMessage(p) ==
    /\ inbox[p] # <<>> /\ inbox' = [inbox EXCEPT ![p] = <<Head(@)>> \o @]
    /\ mishaps' = mishaps \cup {<<"doubled", Head(inbox[p]).t>>}
    /\ UNCHANGED <<ep, hvi, mode, waits>>

OvertakeMessage(p) ==
    /\ Len(inbox[p]) > 1 /\ inbox[p][1] # inbox[p][2]
    /\ inbox' = [inbox EXCEPT ![p] = <<@[2], @[1]>> \o SubSeq(@, 3, Len(@))]
    /\ mishaps' = mishaps \cup {<<"overtaken", Head(inbox[p]).t>>}
    /\ UNCHANGED <<ep, hvi, mode, waits>>

\* Media of an earlier stream, or whatever else is sent to the port.
Stray(p) ==
    /\ ep[p].at \notin {"idle", "done"}
    /\ inbox' = [inbox EXCEPT ![p] = <<NotZrtp>> \o @]
    /\ mishaps' = mishaps \cup {<<"stray", "Other">>}
    /\ UNCHANGED <<ep, hvi, mode, waits>>

\* At most one fault of a kind, and HandshakeFaults in all.
Mishap ==
    /\ Cardinality(mishaps) < HandshakeFaults /\ \E p \in Peers : ep[p].at # "done"
    /\ \E p \in Peers :
        \/ TooEarly(p) \/ LoseMessage(p) \/ DoubleMessage(p) \/ OvertakeMessage(p) \/ Stray(p)
    /\ mishaps' # mishaps

EndpointStep(p) ==
    \/ Bind(p) \/ Begin(p) \/ Receive(p) \/ Drain(p) \/ Commits(p) \/ Swallow(p) \/ Timeout(p)

ZrtpNext == (\E p \in Peers : EndpointStep(p)) \/ BothTimeOut \/ Mishap

-----------------------------------------------------------------------------
AllDone == \A p \in Peers : ep[p].at = "done"
Agreed(p) == ep[p].ret = "RTP_OK"

\* get_srtp_keys(): what an endpoint protects its own packets with, and what it
\* reads the other one's with.
LocalKey(p) == <<ep[p].s0, ep[p].role>>
RemoteKey(p) == <<ep[p].s0, IF ep[p].role = "INITIATOR" THEN "RESPONDER" ELSE "INITIATOR">>

\* An endpoint whose handshake has succeeded knows that the other one holds the
\* same secret in the other role: the initiator, that the responder succeeded
\* too; the responder, that the initiator has at least checked all it received.
KeysAgree == \A p \in Peers : Agreed(p) =>
    /\ LocalKey(p) = RemoteKey(Other(p))
    /\ IF ep[p].role = "INITIATOR" THEN Agreed(Other(p))
       ELSE ep[Other(p)].at \in {"confirm2", "done"} /\ ep[Other(p)].h0 = p

\* The faults a handshake may die of.  An endpoint that has its HelloACK answers
\* no further Hello, so the other one must not need another; Conf2ACK is sent
\* once (zrtp.cc:567); a datagram that is no ZRTP message counts as a DHPart1.
Fatal == {<<"lost", "Hello">>, <<"overtaken", "Hello">>, <<"lost", "HelloACK">>,
          <<"lost", "Conf2ACK">>, <<"stray", "Other">>}

\* Of every other fault it recovers: both endpoints end with RTP_OK however late
\* one of them started, whoever wins the contention, and whichever other message
\* is lost, doubled, overtaken or late.
HandshakeRight == AllDone /\ mishaps \cap Fatal = {} => \A p \in Peers : Agreed(p)

=============================================================================
