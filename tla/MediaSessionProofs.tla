------------------------- MODULE MediaSessionProofs -------------------------
(***************************************************************************)
(* Two endpoints of uvgRTP, for every set of configurations, every number  *)
(* of packets a stream may send, every size of the sequence numbers, and   *)
(* every network: what a handshake that succeeded promises of the other    *)
(* end, which packets the application reads, and what the ends report.     *)
(*                                                                         *)
(* The handshake.  Every message says something of its sender that no      *)
(* later step can undo: from Commit on one end is the initiator, a Confirm *)
(* has its MAC from a secret that its sender goes on using.  A further     *)
(* stream keeps the MAC keys of the first one, so there its Confirm proves *)
(* nothing of the new secret; but once the roles are settled, there is     *)
(* only one secret it can be (Msk).  HandshakeInv says that of each end,   *)
(* of each message that has not been read, and of each end that has agreed *)
(* on a key about the other one.                                           *)
(*                                                                         *)
(* The streams.  A packet is readable when the receiver's roll-over        *)
(* counter is the sender's of the time of sending.  MediaInv follows the   *)
(* counter along the queue of packets under way (Flow): a packet that ends *)
(* a cycle moves it, a lost or overtaken one that does not leaves it       *)
(* alone.  Where the network may break that, the configuration or the      *)
(* number of packets keeps the counters at zero (Quiet).                   *)
(*                                                                         *)
(* The reports.  What a participant's statistics say is compared with the  *)
(* packets that have come in: the base and the last number are those of    *)
(* two of them, and every one counted from the base on is among those that *)
(* were received (Tally).  That a late packet is told from a jump takes    *)
(* the order of the queue: only a fault of the network holds one back      *)
(* (Flight).                                                               *)
(***************************************************************************)
EXTENDS MediaSession, FiniteSetTheorems, SequenceTheorems, TLAPS

-----------------------------------------------------------------------------
\* The two ends, and queues of messages.

LEMMA TwoPeers == \A p \in Peers : /\ Other(p) \in Peers /\ Other(p) # p /\ Other(Other(p)) = p
                                   /\ \A q \in Peers : q = p \/ q = Other(p)
<1> SUFFICES ASSUME NEW p \in Peers
             PROVE  /\ Other(p) \in Peers /\ Other(p) # p /\ Other(Other(p)) = p
                    /\ \A q \in Peers : q = p \/ q = Other(p)
    OBVIOUS
<1>1. IsFiniteSet(Peers \ {p}) /\ Cardinality(Peers \ {p}) = 1
    BY ZrtpAssumption, FS_RemoveElement
<1>2. PICK q : Peers \ {p} = {q}
    BY <1>1, FS_Singleton
<1>3. Peers = {p, q} /\ q # p
    BY <1>2
<1>4. Other(p) \in Peers /\ Other(p) # p
    BY <1>3 DEF Other
<1>5. Other(q) \in Peers /\ Other(q) # q
    BY <1>3 DEF Other
<1> QED BY <1>3, <1>4, <1>5

IsQueue(s) == \E S : s \in Seq(S)
Elems(s) == {s[i] : i \in 1 .. Len(s)}

LEMMA EmptyQueue == IsQueue(<<>>) /\ Elems(<<>>) = {}
<1>1. <<>> \in Seq({}) /\ Len(<<>>) = 0
    OBVIOUS
<1> QED BY <1>1 DEF IsQueue, Elems

LEMMA SingleQueue == ASSUME NEW m PROVE IsQueue(<<m>>) /\ Elems(<<m>>) = {m}
<1>1. <<m>> \in Seq({m}) /\ Len(<<m>>) = 1 /\ <<m>>[1] = m
    OBVIOUS
<1>2. IsQueue(<<m>>)
    BY <1>1 DEF IsQueue
<1>3. 1 .. Len(<<m>>) = {1}
    BY <1>1
<1> QED BY <1>1, <1>2, <1>3, Zenon DEF Elems

LEMMA TailQueue ==
    ASSUME NEW s, IsQueue(s), s # <<>>
    PROVE  /\ IsQueue(Tail(s)) /\ Elems(Tail(s)) \subseteq Elems(s) /\ Head(s) \in Elems(s)
<1>1. PICK S : s \in Seq(S)
    BY DEF IsQueue
<1>2. Tail(s) \in Seq(S) /\ Len(Tail(s)) = Len(s) - 1 /\ Len(s) \in Nat \ {0}
    BY <1>1
<1>3. \A i \in 1 .. Len(Tail(s)) : Tail(s)[i] = s[i + 1] /\ i + 1 \in 1 .. Len(s)
    BY <1>1, <1>2
<1>4. Head(s) = s[1] /\ 1 \in 1 .. Len(s)
    BY <1>1, <1>2
<1> QED BY <1>2, <1>3, <1>4 DEF IsQueue, Elems

LEMMA JoinedQueue ==
    ASSUME NEW s, NEW t, IsQueue(s), IsQueue(t)
    PROVE  IsQueue(s \o t) /\ Elems(s \o t) \subseteq Elems(s) \cup Elems(t)
<1>1. PICK S : s \in Seq(S)
    BY DEF IsQueue
<1>2. PICK T : t \in Seq(T)
    BY DEF IsQueue
<1>3. s \in Seq(S \cup T) /\ t \in Seq(S \cup T)
    BY <1>1, <1>2
<1>4. s \o t \in Seq(S \cup T) /\ Len(s \o t) = Len(s) + Len(t) /\ Len(s) \in Nat /\ Len(t) \in Nat
    BY <1>3
<1>5. \A i \in 1 .. Len(s \o t) : \/ i \in 1 .. Len(s) /\ (s \o t)[i] = s[i]
                                  \/ i - Len(s) \in 1 .. Len(t) /\ (s \o t)[i] = t[i - Len(s)]
    BY <1>3, <1>4
<1> QED BY <1>4, <1>5 DEF IsQueue, Elems

LEMMA SwappedQueue ==
    ASSUME NEW s, IsQueue(s), Len(s) > 1
    PROVE  LET t == <<s[2], s[1]>> \o SubSeq(s, 3, Len(s))
           IN  IsQueue(t) /\ Elems(t) \subseteq Elems(s)
<1>1. PICK S : s \in Seq(S)
    BY DEF IsQueue
<1> DEFINE a == <<s[2], s[1]>>
           b == SubSeq(s, 3, Len(s))
<1>2. Len(s) \in Nat /\ 1 \in 1 .. Len(s) /\ 2 \in 1 .. Len(s)
    BY <1>1
<1>3. IsQueue(a) /\ Elems(a) \subseteq Elems(s)
  <2>1. a \in Seq({s[1], s[2]}) /\ Len(a) = 2 /\ a[1] = s[2] /\ a[2] = s[1]
    OBVIOUS
  <2> QED BY <2>1, <1>2 DEF IsQueue, Elems
<1>4. IsQueue(b) /\ Elems(b) \subseteq Elems(s)
  <2>1. b \in Seq(S)
    BY <1>1, <1>2
  <2>2. \A i \in 1 .. Len(b) : i + 2 \in 1 .. Len(s) /\ b[i] = s[i + 2]
    BY <1>1, <1>2
  <2> QED BY <2>1, <2>2 DEF IsQueue, Elems
<1> HIDE DEF a, b
<1>5. IsQueue(a \o b) /\ Elems(a \o b) \subseteq Elems(s)
    BY <1>3, <1>4, JoinedQueue
<1> QED BY <1>5 DEF a, b

-----------------------------------------------------------------------------
\* What is always true of a handshake.

Fields == {"at", "i", "role", "ret", "s0", "hello", "commit", "dh", "h0"}

\* The one secret there can be in multistream mode, of initiator i and responder r.
Msk(i, r) == {[kdf |-> "ZRTP MSK", zids |-> <<i, r>>, hello |-> r, commit |-> i, dh |-> <<None, None>>]}
Single(md) == md # "DH3k"

\* What is true of endpoint p in the state e and of the mode md,
EndpointOK(md, p, e) ==
    /\ DOMAIN e = Fields
    /\ e.hello \in {None, Other(p)}
    /\ e.at \in {"drain", "commit"} => e.hello # None
    /\ Single(md) => e.at \notin {"dh1", "dh2"}
    /\ Single(md) /\ e.at = "confirm1" => e.s0 = Msk(Other(p), p)
    /\ Single(md) /\ e.at = "confirm2" => e.s0 = Msk(p, Other(p))
    /\ e.at \in {"dh1", "confirm1"} => e.role = "RESPONDER"
    /\ e.at \in {"commit", "dh2", "confirm2"} => e.role = "INITIATOR"
    /\ e.at = "confirm2" => e.h0 = Other(p)
    /\ e.ret = "RTP_OK" => e.at = "done" /\ e.role \in {"RESPONDER", "INITIATOR"}

\* what a message from q in the state e says of it,
Backed(md, m, q, e) ==
    /\ m.t # "Other" => m.from = q
    /\ m.t = "Confirm1" => /\ IF Single(md) THEN e.s0 = Msk(Other(q), q) ELSE m.key = e.s0
                           /\ e.role = "RESPONDER" /\ e.at \in {"confirm1", "done"}
    /\ m.t = "Confirm2" => /\ IF Single(md) THEN e.s0 = Msk(q, Other(q)) ELSE m.key = e.s0
                           /\ e.role = "INITIATOR"
                           /\ e.at \in {"confirm2", "done"} /\ e.h0 = Other(q)
    /\ m.t = "Conf2ACK" => e.ret = "RTP_OK" /\ e.role = "RESPONDER"

\* and what p, agreed in the state e, may know of the other one in the state f.
Paired(p, e, f) ==
    /\ e.s0 = f.s0
    /\ e.role = "INITIATOR" => f.role = "RESPONDER" /\ f.ret = "RTP_OK"
    /\ e.role = "RESPONDER" => /\ f.role = "INITIATOR"
                               /\ f.at \in {"confirm2", "done"} /\ f.h0 = p

\* A key that is used stays, and with it the role and whom it was checked with.
Kept(e, n) ==
    /\ e.at \in {"confirm1", "confirm2", "done"} => n.s0 = e.s0 /\ n.role = e.role
    /\ e.at \in {"confirm2", "done"} => n.h0 = e.h0
    /\ e.at = "confirm1" => n.at \in {"confirm1", "done"}
    /\ e.at = "confirm2" => n.at \in {"confirm2", "done"}
    /\ e.at = "done" => n.at = "done"
    /\ e.ret = "RTP_OK" => n.ret = "RTP_OK"

HandshakeInv ==
    /\ DOMAIN ep = Peers /\ DOMAIN inbox = Peers
    /\ \A p \in Peers :
           /\ EndpointOK(mode, p, ep[p])
           /\ ep[p].ret = "RTP_OK" => Paired(p, ep[p], ep[Other(p)])
           /\ IsQueue(inbox[p])
           /\ \A m \in Elems(inbox[p]) : Backed(mode, m, Other(p), ep[Other(p)])

LEMMA HandshakeInvAgrees == HandshakeInv => KeysAgree
<1> SUFFICES ASSUME HandshakeInv, NEW p \in Peers, Agreed(p)
             PROVE  /\ LocalKey(p) = RemoteKey(Other(p))
                    /\ IF ep[p].role = "INITIATOR" THEN Agreed(Other(p))
                       ELSE ep[Other(p)].at \in {"confirm2", "done"} /\ ep[Other(p)].h0 = p
    BY DEF KeysAgree
<1> DEFINE e == ep[p]
           f == ep[Other(p)]
<1>1. EndpointOK(mode, p, e) /\ Paired(p, e, f) /\ e.role \in {"RESPONDER", "INITIATOR"}
    BY DEF HandshakeInv, Agreed, EndpointOK
<1>2. LocalKey(p) = <<e.s0, e.role>>
    BY DEF LocalKey
<1>3. RemoteKey(Other(p)) = <<f.s0, IF f.role = "INITIATOR" THEN "RESPONDER" ELSE "INITIATOR">>
    BY DEF RemoteKey
<1> HIDE DEF e, f
<1>4. LocalKey(p) = RemoteKey(Other(p))
    BY <1>1, <1>2, <1>3 DEF Paired
<1>5. IF e.role = "INITIATOR" THEN f.ret = "RTP_OK" ELSE f.at \in {"confirm2", "done"} /\ f.h0 = p
    BY <1>1 DEF Paired
<1> QED BY <1>4, <1>5 DEF e, f, Agreed

\* What an endpoint does next leaves all that true when it is right in itself:
Right(md, p, e, f, n) ==
    EndpointOK(md, p, n) /\ Kept(e, n) /\ (n.ret = "RTP_OK" => e.ret = "RTP_OK" \/ Paired(p, n, f))

LEMMA KeptBacks ==
    ASSUME NEW m, NEW q, NEW e, NEW n, Backed(mode, m, q, e), Kept(e, n), EndpointOK(mode, q, e)
    PROVE  Backed(mode, m, q, n)
BY DEF Backed, Kept, EndpointOK

LEMMA KeptPairs ==
    ASSUME NEW p, NEW q, NEW e, NEW f, NEW n, Paired(p, e, f), Kept(f, n), EndpointOK(mode, q, f),
           e.role \in {"RESPONDER", "INITIATOR"}
    PROVE  Paired(p, e, n)
BY DEF Paired, Kept, EndpointOK

LEMMA HandshakeMoves ==
    ASSUME HandshakeInv, mode' = mode, DOMAIN ep' = Peers, DOMAIN inbox' = Peers,
           \A p \in Peers : Right(mode, p, ep[p], ep[Other(p)], ep'[p]),
           \A p \in Peers : IsQueue(inbox'[p]),
           \A p \in Peers : \A m \in Elems(inbox'[p]) :
               m \in Elems(inbox[p]) \/ Backed(mode, m, Other(p), ep'[Other(p)])
    PROVE  HandshakeInv'
<1> SUFFICES ASSUME NEW p \in Peers
             PROVE  /\ EndpointOK(mode, p, ep'[p])
                    /\ ep'[p].ret = "RTP_OK" => Paired(p, ep'[p], ep'[Other(p)])
                    /\ IsQueue(inbox'[p])
                    /\ \A m \in Elems(inbox'[p]) : Backed(mode, m, Other(p), ep'[Other(p)])
    BY DEF HandshakeInv
<1> DEFINE q == Other(p)
<1>1. q \in Peers
    BY TwoPeers
<1>2. /\ EndpointOK(mode, p, ep[p]) /\ EndpointOK(mode, q, ep[q])
      /\ Right(mode, p, ep[p], ep[q], ep'[p]) /\ Kept(ep[q], ep'[q])
    BY <1>1 DEF HandshakeInv, Right
<1>3. ASSUME ep'[p].ret = "RTP_OK" PROVE Paired(p, ep'[p], ep'[q])
  <2>1. Paired(p, ep'[p], ep[q])
    <3>1. CASE ep[p].ret = "RTP_OK"
      <4>1. Paired(p, ep[p], ep[q])
        BY <3>1 DEF HandshakeInv
      <4>2. ep[p].at = "done" /\ Kept(ep[p], ep'[p])
        BY <3>1, <1>2 DEF EndpointOK, Right
      <4> QED BY <4>1, <4>2 DEF Kept, Paired
    <3>2. CASE ep[p].ret # "RTP_OK"
      BY <3>2, <1>2, <1>3 DEF Right
    <3> QED BY <3>1, <3>2
  <2>2. ep'[p].role \in {"RESPONDER", "INITIATOR"}
    BY <1>2, <1>3 DEF Right, EndpointOK
  <2> QED BY <2>1, <2>2, <1>2, KeptPairs
<1>4. ASSUME NEW m \in Elems(inbox'[p]) PROVE Backed(mode, m, q, ep'[q])
  <2>1. CASE m \in Elems(inbox[p])
    <3>1. Backed(mode, m, q, ep[q])
      BY <2>1 DEF HandshakeInv
    <3> QED BY <3>1, <1>2, KeptBacks
  <2> QED BY <2>1
<1>5. EndpointOK(mode, p, ep'[p])
    BY <1>2 DEF Right
<1>6. IsQueue(inbox'[p])
    OBVIOUS
<1> HIDE DEF q
<1>7. q = Other(p)
    BY DEF q
<1> QED BY <1>3, <1>4, <1>5, <1>6, <1>7, Zenon

-----------------------------------------------------------------------------
\* What each phase makes of a message.

Outcome(md, p, e, f, s) ==
    /\ Right(md, p, e, f, s.e) /\ IsQueue(s.out)
    /\ \A m \in Elems(s.out) : Backed(md, m, p, s.e)

\* The fields the invariant speaks of.
Alike(e, g) ==
    /\ DOMAIN e = Fields /\ DOMAIN g = Fields
    /\ g.at = e.at /\ g.role = e.role /\ g.ret = e.ret /\ g.s0 = e.s0 /\ g.h0 = e.h0

LEMMA AlikeOutcome ==
    ASSUME NEW p, NEW e, NEW f, NEW g, NEW s, Alike(e, g), Outcome(mode, p, g, f, s)
    PROVE  Outcome(mode, p, e, f, s)
BY DEF Outcome, Alike, Right, Kept

LEMMA ParsedAlike ==
    ASSUME NEW p, NEW e, NEW m, EndpointOK(mode, p, e)
    PROVE  /\ Alike(e, ParseHello(e, m))
           /\ m.from = Other(p) => EndpointOK(mode, p, ParseHello(e, m))
           /\ Alike(e, ParseCommit(e, m)) /\ EndpointOK(mode, p, ParseCommit(e, m))
           /\ ParseCommit(e, m).hello = e.hello /\ ParseCommit(e, m).commit = m.from
           /\ Alike(e, ParseDh(e, m)) /\ EndpointOK(mode, p, ParseDh(e, m))
           /\ ParseDh(e, m).hello = e.hello
<1>1. /\ Alike(e, ParseHello(e, m))
      /\ ParseHello(e, m).hello = IF e.hello = None THEN m.from ELSE e.hello
    BY DEF EndpointOK, Alike, ParseHello, Fields
<1>2. /\ Alike(e, ParseCommit(e, m))
      /\ ParseCommit(e, m).hello = e.hello /\ ParseCommit(e, m).commit = m.from
    BY DEF EndpointOK, Alike, ParseCommit, Fields
<1>3. Alike(e, ParseDh(e, m)) /\ ParseDh(e, m).hello = e.hello
    BY DEF EndpointOK, Alike, ParseDh, Fields
<1> QED BY <1>1, <1>2, <1>3 DEF EndpointOK, Alike

LEMMA DoneFields ==
    ASSUME NEW e, NEW ret, DOMAIN e = Fields
    PROVE  LET d == Done(e, ret)
           IN  /\ DOMAIN d = Fields /\ d.at = "done" /\ d.ret = ret
               /\ d.role = e.role /\ d.s0 = e.s0 /\ d.h0 = e.h0 /\ d.hello = e.hello
BY DEF Done, Fields

LEMMA EnterFields ==
    ASSUME NEW p, NEW e, NEW at, DOMAIN e = Fields
    PROVE  LET n == Enter(p, e, at).e
           IN  /\ DOMAIN n = Fields /\ n.at = at /\ n.ret = e.ret
               /\ n.role = e.role /\ n.s0 = e.s0 /\ n.h0 = e.h0 /\ n.hello = e.hello
               /\ Enter(p, e, at).out = <<Sends(p, n)>>
BY DEF Enter, Step, Fields

\* What a phase sends is backed by its state.
LEMMA SendsBacked ==
    ASSUME NEW p, NEW e, EndpointOK(mode, p, e), e.at \in Waiting
    PROVE  Backed(mode, Sends(p, e), p, e)
<1>1. CASE e.at = "hello"
    BY <1>1 DEF Sends, Hello, Message, Backed
<1>2. CASE e.at = "commit"
    BY <1>2 DEF Sends, Commit, Message, Backed
<1>3. CASE e.at = "dh1"
    BY <1>3 DEF Sends, DhKeyExchange, Message, Backed
<1>4. CASE e.at = "dh2"
    BY <1>4 DEF Sends, DhKeyExchange, Message, Backed
<1>5. CASE e.at = "confirm1"
    BY <1>5 DEF Sends, Confirm, MacKey, Message, Backed, EndpointOK, Single
<1>6. CASE e.at = "confirm2"
    BY <1>6 DEF Sends, Confirm, MacKey, Message, Backed, EndpointOK, Single
<1> QED BY <1>1, <1>2, <1>3, <1>4, <1>5, <1>6 DEF Waiting

LEMMA AcksBacked ==
    ASSUME NEW p, NEW e
    PROVE  /\ Backed(mode, HelloAck(p), p, e) /\ Backed(mode, NotZrtp, p, e)
           /\ e.ret = "RTP_OK" /\ e.role = "RESPONDER" => Backed(mode, ConfAck(p), p, e)
BY DEF Backed, HelloAck, NotZrtp, ConfAck, Message

\* The wait ends without anything new: a message sent again, or RTP_TIMEOUT.
LEMMA AgainOutcome ==
    ASSUME NEW p, NEW e, NEW f, EndpointOK(mode, p, e), e.at \in Waiting
    PROVE  Outcome(mode, p, e, f, Again(p, e))
<1>1. e.ret # "RTP_OK" /\ e.at # "done"
    BY DEF EndpointOK, Waiting
<1>2. CASE e.i + 1 < Limit(e.at)
  <2> DEFINE n == [e EXCEPT !.i = @ + 1]
  <2>1. Alike(e, n) /\ n.hello = e.hello
    BY DEF EndpointOK, Alike, Fields
  <2>2. Again(p, e) = Step(n, <<Sends(p, e)>>)
    BY <1>2, Zenon DEF Again
  <2>3. Again(p, e).e = n /\ Again(p, e).out = <<Sends(p, e)>>
    BY <2>2 DEF Step
  <2> HIDE DEF n
  <2>4. Right(mode, p, e, f, n) /\ EndpointOK(mode, p, n)
    BY <1>1, <2>1 DEF Right, Kept, Alike, EndpointOK
  <2>5. Backed(mode, Sends(p, e), p, n)
    BY SendsBacked, <2>1 DEF Backed, Alike
  <2> QED BY <2>3, <2>4, <2>5, SingleQueue DEF Outcome
<1>3. CASE ~(e.i + 1 < Limit(e.at))
  <2> DEFINE n == Done(e, "RTP_TIMEOUT")
  <2>1. Again(p, e) = Step(n, <<>>)
    BY <1>3, Zenon DEF Again
  <2>2. Again(p, e).e = n /\ Again(p, e).out = <<>>
    BY <2>1 DEF Step
  <2>3. /\ DOMAIN n = Fields /\ n.at = "done" /\ n.ret = "RTP_TIMEOUT"
        /\ n.role = e.role /\ n.s0 = e.s0 /\ n.h0 = e.h0 /\ n.hello = e.hello
    BY DoneFields DEF EndpointOK
  <2> HIDE DEF n
  <2>4. Right(mode, p, e, f, n)
    BY <1>1, <2>3 DEF Right, Kept, EndpointOK
  <2> QED BY <2>2, <2>4, EmptyQueue DEF Outcome
<1> QED BY <1>2, <1>3

\* A handshake that ends: what was agreed on stays, with RTP_OK both are paired.
LEMMA DoneOutcome ==
    ASSUME NEW p, NEW e, NEW f, NEW g, NEW ret, NEW out,
           EndpointOK(mode, p, e), e.at \in Waiting,
           DOMAIN g = Fields, g.hello \in {None, Other(p)},
           e.at \in {"confirm1", "confirm2"} => g.role = e.role /\ g.s0 = e.s0,
           e.at = "confirm2" => g.h0 = e.h0,
           ret = "RTP_OK" => g.role \in {"RESPONDER", "INITIATOR"} /\ Paired(p, g, f),
           \/ out = <<>>
           \/ out = <<ConfAck(p)>> /\ ret = "RTP_OK" /\ g.role = "RESPONDER"
    PROVE  Outcome(mode, p, e, f, Step(Done(g, ret), out))
<1> DEFINE n == Done(g, ret)
<1>1. e.ret # "RTP_OK" /\ e.at # "done"
    BY DEF EndpointOK, Waiting
<1>2. /\ DOMAIN n = Fields /\ n.at = "done" /\ n.ret = ret
      /\ n.role = g.role /\ n.s0 = g.s0 /\ n.h0 = g.h0 /\ n.hello = g.hello
    BY DoneFields
<1>3. Step(n, out).e = n /\ Step(n, out).out = out
    BY DEF Step
<1> HIDE DEF n
<1>4. EndpointOK(mode, p, n) /\ Kept(e, n)
    BY <1>1, <1>2 DEF EndpointOK, Kept
<1>5. ret = "RTP_OK" => Paired(p, n, f)
    BY <1>2 DEF Paired
<1>6. IsQueue(out) /\ \A m \in Elems(out) : Backed(mode, m, p, n)
  <2>1. CASE out = <<>>
    BY <2>1, EmptyQueue
  <2>2. CASE out = <<ConfAck(p)>> /\ ret = "RTP_OK" /\ g.role = "RESPONDER"
    BY <2>2, <1>2, SingleQueue, AcksBacked
  <2> QED BY <2>1, <2>2
<1> QED
  <2>1. Outcome(mode, p, e, f, Step(n, out))
    BY <1>2, <1>3, <1>4, <1>5, <1>6 DEF Outcome, Right
  <2> QED BY <2>1 DEF n

\* A phase that is entered before any key is used.
LEMMA EnterOutcome ==
    ASSUME NEW p, NEW e, NEW f, NEW g, NEW at \in Waiting,
           EndpointOK(mode, p, e), e.at \notin {"confirm1", "confirm2", "done"},
           DOMAIN g = Fields, g.ret = e.ret, g.hello \in {None, Other(p)},
           at = "commit" => g.hello # None, at # "drain",
           Single(mode) => at \notin {"dh1", "dh2"},
           Single(mode) /\ at = "confirm1" => g.s0 = Msk(Other(p), p),
           Single(mode) /\ at = "confirm2" => g.s0 = Msk(p, Other(p)),
           at \in {"dh1", "confirm1"} => g.role = "RESPONDER",
           at \in {"commit", "dh2", "confirm2"} => g.role = "INITIATOR",
           at = "confirm2" => g.h0 = Other(p)
    PROVE  Outcome(mode, p, e, f, Enter(p, g, at))
<1> DEFINE s == Enter(p, g, at)
<1>1. e.ret # "RTP_OK"
    BY DEF EndpointOK
<1>2. /\ DOMAIN s.e = Fields /\ s.e.at = at /\ s.e.ret = g.ret
      /\ s.e.role = g.role /\ s.e.s0 = g.s0 /\ s.e.h0 = g.h0 /\ s.e.hello = g.hello
      /\ s.out = <<Sends(p, s.e)>>
    BY EnterFields
<1> HIDE DEF s
<1>3. EndpointOK(mode, p, s.e) /\ Right(mode, p, e, f, s.e)
    BY <1>1, <1>2 DEF EndpointOK, Right, Kept
<1>4. Backed(mode, Sends(p, s.e), p, s.e)
    BY <1>2, <1>3, SendsBacked
<1>5. Outcome(mode, p, e, f, s)
    BY <1>2, <1>3, <1>4, SingleQueue DEF Outcome
<1> QED BY <1>5 DEF s

LEMMA AgainRecord ==
    ASSUME NEW p, NEW e
    PROVE  DOMAIN Again(p, e) = {"e", "out"}
BY DEF Again, Step

LEMMA BeforeOutcome ==
    ASSUME NEW p, NEW e, NEW f, NEW s, Outcome(mode, p, e, f, s), DOMAIN s = {"e", "out"}
    PROVE  Outcome(mode, p, e, f, Before(<<HelloAck(p)>>, s))
<1> DEFINE out == <<HelloAck(p)>> \o s.out
<1>1. Before(<<HelloAck(p)>>, s).e = s.e /\ Before(<<HelloAck(p)>>, s).out = out
    BY DEF Before
<1>2. IsQueue(out) /\ Elems(out) \subseteq {HelloAck(p)} \cup Elems(s.out)
    BY SingleQueue, JoinedQueue DEF Outcome
<1> HIDE DEF out
<1>3. \A m \in Elems(out) : Backed(mode, m, p, s.e)
    BY <1>2, AcksBacked DEF Outcome
<1> QED BY <1>1, <1>2, <1>3 DEF Outcome

LEMMA HelloOutcome ==
    ASSUME NEW p, NEW e, NEW f, NEW m, EndpointOK(mode, p, e), e.at = "hello",
           Backed(mode, m, Other(p), f)
    PROVE  Outcome(mode, p, e, f, ReceiveHello(p, e, m))
<1>1. Outcome(mode, p, e, f, Again(p, e))
    BY AgainOutcome DEF Waiting
<1>2. ASSUME m.t = "Hello"
      PROVE  Outcome(mode, p, e, f, Before(<<HelloAck(p)>>, Again(p, ParseHello(e, m))))
  <2> DEFINE g == ParseHello(e, m)
  <2>0. m.from = Other(p)
    BY <1>2 DEF Backed
  <2>1. Alike(e, g) /\ EndpointOK(mode, p, g) /\ g.at = "hello"
    BY <2>0, ParsedAlike DEF Alike
  <2> HIDE DEF g
  <2>2. Outcome(mode, p, g, f, Again(p, g))
    BY <2>1, AgainOutcome DEF Waiting
  <2>3. Outcome(mode, p, e, f, Again(p, g))
    BY <2>1, <2>2, AlikeOutcome
  <2>4. Outcome(mode, p, e, f, Before(<<HelloAck(p)>>, Again(p, g)))
    BY <2>3, AgainRecord, BeforeOutcome
  <2> QED BY <2>4 DEF g
<1>3. ASSUME e.hello # None
      PROVE  Outcome(mode, p, e, f, Step([e EXCEPT !.at = "drain"], <<>>))
  <2> DEFINE n == [e EXCEPT !.at = "drain"]
  <2>1. /\ DOMAIN n = Fields /\ n.at = "drain" /\ n.ret = e.ret
        /\ n.role = e.role /\ n.s0 = e.s0 /\ n.h0 = e.h0 /\ n.hello = e.hello
    BY DEF EndpointOK, Fields
  <2>2. Step(n, <<>>).e = n /\ Step(n, <<>>).out = <<>>
    BY DEF Step
  <2> HIDE DEF n
  <2>3. Right(mode, p, e, f, n)
    BY <1>3, <2>1 DEF Right, Kept, EndpointOK
  <2>4. Outcome(mode, p, e, f, Step(n, <<>>))
    BY <2>2, <2>3, EmptyQueue DEF Outcome
  <2> QED BY <2>4 DEF n
<1>4. CASE m.t = "Hello"
    BY <1>2, <1>4 DEF ReceiveHello
<1>5. CASE m.t = "HelloACK" /\ e.hello # None
    BY <1>3, <1>5 DEF ReceiveHello
<1>6. CASE m.t # "Hello" /\ ~(m.t = "HelloACK" /\ e.hello # None)
    BY <1>1, <1>6 DEF ReceiveHello
<1> QED BY <1>4, <1>5, <1>6

\* Whoever has received a Commit is the responder.
LEMMA RespondOutcome ==
    ASSUME NEW p, NEW e, NEW f, NEW m, EndpointOK(mode, p, e), e.at \in {"commit", "drain"},
           m.from = Other(p)
    PROVE  Outcome(mode, p, e, f, RespondStart(p, Responds(e, m)))
<1> DEFINE g == Responds(e, m)
           h == [g EXCEPT !.s0 = SecretsMsm(p, g)]
<1>1. /\ DOMAIN g = Fields /\ g.ret = e.ret /\ g.role = "RESPONDER"
      /\ g.hello = Other(p) /\ g.commit = Other(p)
  <2>1. /\ Alike(e, ParseCommit(e, m))
        /\ ParseCommit(e, m).hello = e.hello /\ ParseCommit(e, m).commit = m.from
    BY DEF EndpointOK, Alike, ParseCommit, Fields
  <2>2. e.hello = Other(p)
    BY DEF EndpointOK
  <2> QED BY <2>1, <2>2 DEF Responds, Alike, Fields
<1>2. /\ DOMAIN h = Fields /\ h.ret = g.ret /\ h.role = g.role /\ h.hello = g.hello
      /\ h.s0 = Msk(Other(p), p)
  <2>1. h.s0 = SecretsMsm(p, g)
    BY <1>1 DEF Fields
  <2>2. SecretsMsm(p, g) = Msk(Other(p), p)
    BY <1>1 DEF SecretsMsm, Secrets, HashedCommit, Ordered, Msk
  <2> QED BY <1>1, <2>1, <2>2 DEF Fields
<1>3. RespondStart(p, g) = IF mode = "DH3k" THEN Enter(p, g, "dh1") ELSE Enter(p, h, "confirm1")
    BY DEF RespondStart
<1> HIDE DEF g, h
<1>4. ASSUME mode = "DH3k" PROVE Outcome(mode, p, e, f, Enter(p, g, "dh1"))
  <2>1. ~Single(mode)
    BY <1>4 DEF Single
  <2> QED BY <1>1, <2>1, EnterOutcome DEF Waiting
<1>5. Outcome(mode, p, e, f, Enter(p, h, "confirm1"))
    BY <1>1, <1>2, EnterOutcome DEF Waiting
<1>6. Outcome(mode, p, e, f, RespondStart(p, g))
    BY <1>3, <1>4, <1>5
<1> QED BY <1>6 DEF g

\* The initiator checks the Confirm1 of the other end before it answers.
LEMMA FinalizeOutcome ==
    ASSUME NEW p, NEW e, NEW f, NEW g, NEW m,
           EndpointOK(mode, p, e), e.at \in {"commit", "dh2"},
           DOMAIN g = Fields, g.ret = e.ret, g.role = "INITIATOR", g.hello \in {None, Other(p)},
           Single(mode) => g.s0 = Msk(p, Other(p)),
           Backed(mode, m, Other(p), f)
    PROVE  Outcome(mode, p, e, f, InitiatorFinalize(p, g, m))
<1> DEFINE h == [g EXCEPT !.h0 = m.from]
<1>1. /\ DOMAIN h = Fields /\ h.ret = g.ret /\ h.role = g.role /\ h.h0 = m.from
      /\ h.hello = g.hello /\ h.s0 = g.s0
    BY DEF Fields
<1>2. Outcome(mode, p, e, f, Step(Done(g, "RTP_INVALID_VALUE"), <<>>))
  <2>1. e.at \in Waiting /\ e.at \notin {"confirm1", "confirm2"}
    BY DEF Waiting
  <2> QED BY <2>1, DoneOutcome
<1>3. ASSUME ConfirmParsed(g, m) PROVE Outcome(mode, p, e, f, Enter(p, h, "confirm2"))
  <2>1. m.from = Other(p)
    BY <1>3 DEF ConfirmParsed, Backed
  <2> HIDE DEF h
  <2> QED BY <1>1, <2>1, EnterOutcome DEF Waiting
<1>4. InitiatorFinalize(p, g, m) =
          IF ConfirmParsed(g, m) /\ Valid(h) THEN Enter(p, h, "confirm2")
          ELSE Step(Done(g, "RTP_INVALID_VALUE"), <<>>)
    BY DEF InitiatorFinalize
<1> HIDE DEF h
<1> QED BY <1>2, <1>3, <1>4

LEMMA InitiateOutcome ==
    ASSUME NEW p, NEW e, NEW f, NEW m,
           EndpointOK(mode, p, e), e.at = "commit", Backed(mode, m, Other(p), f)
    PROVE  Outcome(mode, p, e, f, InitiateStart(p, e, m))
<1> DEFINE a == [e EXCEPT !.s0 = SecretsMsm(p, e)]
           b == ParseDh(e, m)
           c == [b EXCEPT !.s0 = SecretsDh(p, b)]
<1>1. e.role = "INITIATOR" /\ e.hello = Other(p)
    BY DEF EndpointOK
<1>2. /\ DOMAIN a = Fields /\ a.ret = e.ret /\ a.role = e.role /\ a.hello = e.hello
      /\ a.s0 = Msk(p, Other(p))
  <2>1. a.s0 = SecretsMsm(p, e)
    BY DEF EndpointOK, Fields
  <2>2. SecretsMsm(p, e) = Msk(p, Other(p))
    BY <1>1 DEF SecretsMsm, Secrets, HashedCommit, Ordered, Msk
  <2> QED BY <2>1, <2>2 DEF EndpointOK, Fields
<1>3. DOMAIN b = Fields /\ b.ret = e.ret /\ b.role = e.role /\ b.hello = e.hello
    BY ParsedAlike DEF Alike
<1>4. DOMAIN c = Fields /\ c.ret = b.ret /\ c.role = b.role /\ c.hello = b.hello
    BY <1>3 DEF Fields
<1>5. InitiateStart(p, e, m) = IF mode = "DH3k" THEN Enter(p, c, "dh2") ELSE InitiatorFinalize(p, a, m)
    BY DEF InitiateStart
<1> HIDE DEF a, b, c
<1>6. ASSUME mode = "DH3k" PROVE Outcome(mode, p, e, f, Enter(p, c, "dh2"))
  <2>1. ~Single(mode)
    BY <1>6 DEF Single
  <2> QED BY <1>1, <1>3, <1>4, <2>1, EnterOutcome DEF Waiting
<1>7. Outcome(mode, p, e, f, InitiatorFinalize(p, a, m))
    BY <1>1, <1>2, FinalizeOutcome
<1> QED BY <1>5, <1>6, <1>7

LEMMA CommitOutcome ==
    ASSUME NEW p, NEW e, NEW f, NEW m,
           EndpointOK(mode, p, e), e.at = "commit", Backed(mode, m, Other(p), f)
    PROVE  Outcome(mode, p, e, f, ReceiveCommit(p, e, m))
<1>1. Outcome(mode, p, e, f, Again(p, e))
    BY AgainOutcome DEF Waiting
<1>2. Outcome(mode, p, e, f, Again(p, ParseCommit(e, m)))
  <2> DEFINE g == ParseCommit(e, m)
  <2>1. Alike(e, g) /\ EndpointOK(mode, p, g) /\ g.at = "commit"
    BY ParsedAlike DEF Alike
  <2> HIDE DEF g
  <2>2. Outcome(mode, p, e, f, Again(p, g))
    BY <2>1, AgainOutcome, AlikeOutcome DEF Waiting
  <2> QED BY <2>2 DEF g
<1>3. ASSUME m.t = "Commit" PROVE Outcome(mode, p, e, f, RespondStart(p, Responds(e, m)))
    BY <1>3, RespondOutcome DEF Backed
<1>4. Outcome(mode, p, e, f, InitiateStart(p, e, m))
    BY InitiateOutcome
<1>5. CASE m.t = "Commit"
  <2>1. Type(m) = "Commit"
    BY <1>5 DEF Type
  <2> QED BY <1>2, <1>3, <1>5, <2>1 DEF ReceiveCommit
<1>6. CASE m.t # "Commit"
    BY <1>1, <1>4, <1>6 DEF ReceiveCommit
<1> QED BY <1>5, <1>6

LEMMA DhPart1Outcome ==
    ASSUME NEW p, NEW e, NEW f, NEW m, EndpointOK(mode, p, e), e.at = "dh1"
    PROVE  Outcome(mode, p, e, f, ReceiveDhPart1(p, e, m))
<1> DEFINE b == ParseDh(e, m)
           c == [b EXCEPT !.s0 = SecretsDh(p, b)]
<1>1. Outcome(mode, p, e, f, Again(p, e))
    BY AgainOutcome DEF Waiting
<1>2. /\ DOMAIN b = Fields /\ b.ret = e.ret /\ b.role = "RESPONDER"
      /\ b.hello \in {None, Other(p)}
    BY ParsedAlike DEF Alike, EndpointOK
<1>3. DOMAIN c = Fields /\ c.ret = b.ret /\ c.role = b.role /\ c.hello = b.hello
    BY <1>2 DEF Fields
<1>4. ReceiveDhPart1(p, e, m) = IF m.t = "DHPart2" THEN Enter(p, c, "confirm1") ELSE Again(p, e)
    BY DEF ReceiveDhPart1
<1> HIDE DEF b, c
<1>5. Outcome(mode, p, e, f, Enter(p, c, "confirm1"))
  <2>1. ~Single(mode)
    BY DEF EndpointOK
  <2> QED BY <1>2, <1>3, <2>1, EnterOutcome DEF Waiting
<1> QED BY <1>1, <1>4, <1>5

\* The secret behind a Confirm2 is the initiator's, and it is the responder's as
\* well: the MAC shows it, or there is only one it can be.
LEMMA ResponderOutcome ==
    ASSUME NEW p \in Peers, NEW e, NEW f, NEW m,
           EndpointOK(mode, p, e), e.at = "confirm1", Backed(mode, m, Other(p), f)
    PROVE  Outcome(mode, p, e, f, ResponderFinalize(p, e, m))
<1> DEFINE h == [e EXCEPT !.h0 = m.from]
<1>1. Outcome(mode, p, e, f, Again(p, e))
    BY AgainOutcome DEF Waiting
<1>2. /\ DOMAIN h = Fields /\ h.role = e.role /\ h.s0 = e.s0 /\ e.role = "RESPONDER"
      /\ h.hello \in {None, Other(p)}
    BY DEF EndpointOK, Fields
<1>3. e.at \in Waiting
    BY DEF Waiting
<1>4. ResponderFinalize(p, e, m) =
          IF m.t # "Confirm2" \/ ~ConfirmParsed(e, m) THEN Again(p, e)
          ELSE IF Valid(h) THEN Step(Done(h, "RTP_OK"), <<ConfAck(p)>>)
               ELSE Step(Done(h, "RTP_INVALID_VALUE"), <<>>)
    BY DEF ResponderFinalize
<1> HIDE DEF h
<1>5. Outcome(mode, p, e, f, Step(Done(h, "RTP_INVALID_VALUE"), <<>>))
    BY <1>2, <1>3, DoneOutcome
<1>6. ASSUME m.t = "Confirm2", ConfirmParsed(e, m)
      PROVE  Outcome(mode, p, e, f, Step(Done(h, "RTP_OK"), <<ConfAck(p)>>))
  <2>1. Other(Other(p)) = p /\ m.key = MacKey(e)
    BY <1>6, TwoPeers DEF ConfirmParsed
  <2>2. ASSUME Single(mode) PROVE Paired(p, h, f)
    BY <1>2, <1>6, <2>1, <2>2 DEF Paired, Backed, EndpointOK
  <2>3. ASSUME ~Single(mode) PROVE Paired(p, h, f)
    BY <1>2, <1>6, <2>1, <2>3 DEF Paired, Backed, MacKey, Single
  <2>4. Paired(p, h, f)
    BY <2>2, <2>3
  <2> QED BY <1>2, <1>3, <2>4, DoneOutcome
<1> QED BY <1>1, <1>4, <1>5, <1>6

LEMMA ConfAckOutcome ==
    ASSUME NEW p \in Peers, NEW e, NEW f, NEW m,
           EndpointOK(mode, p, e), e.at = "confirm2", Backed(mode, m, Other(p), f),
           f.ret = "RTP_OK" => Paired(Other(p), f, e)
    PROVE  Outcome(mode, p, e, f, ReceiveConfAck(p, e, m))
<1>1. Outcome(mode, p, e, f, Again(p, e))
    BY AgainOutcome DEF Waiting
<1>2. /\ DOMAIN e = Fields /\ e.role = "INITIATOR" /\ e.at \in Waiting
      /\ e.hello \in {None, Other(p)}
    BY DEF EndpointOK, Waiting
<1>3. ASSUME m.t = "Conf2ACK" PROVE Outcome(mode, p, e, f, Step(Done(e, "RTP_OK"), <<>>))
  <2>1. Paired(p, e, f)
    BY <1>2, <1>3 DEF Paired, Backed
  <2> QED BY <1>2, <2>1, DoneOutcome
<1> QED BY <1>1, <1>3 DEF ReceiveConfAck

LEMMA RecvMsgOutcome ==
    ASSUME NEW p \in Peers, NEW e, NEW f, NEW m,
           EndpointOK(mode, p, e), e.at \in Waiting, Backed(mode, m, Other(p), f),
           f.ret = "RTP_OK" => Paired(Other(p), f, e)
    PROVE  Outcome(mode, p, e, f, RecvMsg(p, e, m))
<1>1. ASSUME e.at = "hello" PROVE Outcome(mode, p, e, f, RecvMsg(p, e, m))
    BY <1>1, HelloOutcome DEF RecvMsg
<1>2. ASSUME e.at = "commit" PROVE Outcome(mode, p, e, f, RecvMsg(p, e, m))
    BY <1>2, CommitOutcome DEF RecvMsg
<1>3. ASSUME e.at = "dh1" PROVE Outcome(mode, p, e, f, RecvMsg(p, e, m))
    BY <1>3, DhPart1Outcome DEF RecvMsg
<1>4. ASSUME e.at = "dh2" PROVE Outcome(mode, p, e, f, RecvMsg(p, e, m))
  <2>1. Outcome(mode, p, e, f, Again(p, e))
    BY AgainOutcome
  <2>2. DOMAIN e = Fields /\ e.role = "INITIATOR" /\ e.hello \in {None, Other(p)} /\ ~Single(mode)
    BY <1>4 DEF EndpointOK
  <2>3. Outcome(mode, p, e, f, InitiatorFinalize(p, e, m))
    BY <1>4, <2>2, FinalizeOutcome
  <2>4. Outcome(mode, p, e, f, ReceiveDhPart2(p, e, m))
    BY <2>1, <2>3 DEF ReceiveDhPart2
  <2> QED BY <1>4, <2>4 DEF RecvMsg
<1>5. ASSUME e.at = "confirm1" PROVE Outcome(mode, p, e, f, RecvMsg(p, e, m))
    BY <1>5, ResponderOutcome DEF RecvMsg
<1>6. ASSUME e.at = "confirm2" PROVE Outcome(mode, p, e, f, RecvMsg(p, e, m))
    BY <1>6, ConfAckOutcome DEF RecvMsg
<1> QED BY <1>1, <1>2, <1>3, <1>4, <1>5, <1>6 DEF Waiting

-----------------------------------------------------------------------------
\* Steps.

LEMMA Stays ==
    ASSUME NEW p, NEW e, NEW f, EndpointOK(mode, p, e)
    PROVE  Right(mode, p, e, f, e)
BY DEF Right, Kept, EndpointOK

LEMMA TakeKeeps ==
    ASSUME HandshakeInv, NEW p \in Peers, NEW step, NEW rest, Take(p, step, rest), mode' = mode,
           Outcome(mode, p, ep[p], ep[Other(p)], step),
           IsQueue(rest), Elems(rest) \subseteq Elems(inbox[p])
    PROVE  HandshakeInv'
<1> DEFINE q == Other(p)
           more == IF ep[q].at = "idle" THEN inbox[q] ELSE inbox[q] \o step.out
<1>1. q \in Peers /\ q # p /\ Other(q) = p /\ (\A r \in Peers : r = p \/ r = q)
    BY TwoPeers
<1>2. /\ DOMAIN ep = Peers /\ DOMAIN inbox = Peers /\ IsQueue(inbox[q])
      /\ EndpointOK(mode, p, ep[p]) /\ EndpointOK(mode, q, ep[q])
    BY <1>1 DEF HandshakeInv
<1>3. /\ Right(mode, p, ep[p], ep[q], step.e) /\ IsQueue(step.out)
      /\ \A m \in Elems(step.out) : Backed(mode, m, p, step.e)
    BY DEF Outcome
<1>4. DOMAIN ep' = Peers /\ ep'[p] = step.e /\ ep'[q] = ep[q]
    BY <1>1, <1>2 DEF Take
<1>5. DOMAIN inbox' = Peers /\ inbox'[p] = rest /\ inbox'[q] = more
    BY <1>1, <1>2 DEF Take
<1>6. IsQueue(more) /\ Elems(more) \subseteq Elems(inbox[q]) \cup Elems(step.out)
    BY <1>2, <1>3, JoinedQueue
<1> HIDE DEF q, more
<1>7. Right(mode, q, ep[q], ep[p], ep'[q])
    BY <1>2, <1>4, Stays
<1>8. \A r \in Peers : Right(mode, r, ep[r], ep[Other(r)], ep'[r])
  <2>1. Other(p) = q
    BY DEF q
  <2> QED BY <1>1, <1>3, <1>4, <1>7, <2>1
<1>9. \A r \in Peers : IsQueue(inbox'[r])
    BY <1>1, <1>5, <1>6
<1>10. \A m \in Elems(inbox'[p]) : m \in Elems(inbox[p])
    BY <1>5
<1>11. \A m \in Elems(inbox'[q]) : m \in Elems(inbox[q]) \/ Backed(mode, m, Other(q), ep'[Other(q)])
    BY <1>1, <1>3, <1>4, <1>5, <1>6
<1>12. \A r \in Peers : \A m \in Elems(inbox'[r]) :
           m \in Elems(inbox[r]) \/ Backed(mode, m, Other(r), ep'[Other(r)])
    BY <1>1, <1>10, <1>11
<1> QED BY <1>4, <1>5, <1>8, <1>9, <1>12, HandshakeMoves

LEMMA InboxKeeps ==
    ASSUME HandshakeInv, NEW p \in Peers, NEW t, mode' = mode, ep' = ep,
           inbox' = [inbox EXCEPT ![p] = t], IsQueue(t), Elems(t) \subseteq Elems(inbox[p]) \cup {NotZrtp}
    PROVE  HandshakeInv'
<1>1. DOMAIN ep' = Peers /\ DOMAIN inbox' = Peers
    BY DEF HandshakeInv
<1>2. \A r \in Peers : Right(mode, r, ep[r], ep[Other(r)], ep'[r])
    BY Stays DEF HandshakeInv
<1>3. \A r \in Peers : inbox'[r] = IF r = p THEN t ELSE inbox[r]
    BY DEF HandshakeInv
<1>4. \A r \in Peers : IsQueue(inbox'[r])
    BY <1>3 DEF HandshakeInv
<1>5. \A r \in Peers : \A m \in Elems(inbox'[r]) :
          m \in Elems(inbox[r]) \/ Backed(mode, m, Other(r), ep'[Other(r)])
    BY <1>3, AcksBacked
<1> QED BY <1>1, <1>2, <1>4, <1>5, HandshakeMoves

LEMMA EndpointStepKeeps ==
    ASSUME HandshakeInv, NEW p \in Peers, EndpointStep(p)
    PROVE  HandshakeInv'
<1> DEFINE e == ep[p]
           f == ep[Other(p)]
<1>1. /\ EndpointOK(mode, p, e) /\ IsQueue(inbox[p]) /\ DOMAIN ep = Peers /\ DOMAIN inbox = Peers
      /\ f.ret = "RTP_OK" => Paired(Other(p), f, e)
      /\ \A m \in Elems(inbox[p]) : Backed(mode, m, Other(p), f)
    BY TwoPeers DEF HandshakeInv
<1>2. ASSUME Bind(p) PROVE HandshakeInv'
  <2> DEFINE n == [e EXCEPT !.at = "bound"]
  <2>1. /\ DOMAIN n = Fields /\ n.at = "bound" /\ n.ret = e.ret
        /\ n.role = e.role /\ n.s0 = e.s0 /\ n.h0 = e.h0 /\ n.hello = e.hello
    BY <1>1 DEF EndpointOK, Fields
  <2>2. e.at = "idle" /\ ep' = [ep EXCEPT ![p] = n] /\ inbox' = inbox /\ mode' = mode
    BY <1>2, Zenon DEF Bind
  <2> HIDE DEF n
  <2>3. Right(mode, p, e, f, n)
    BY <1>1, <2>1, <2>2 DEF Right, Kept, EndpointOK
  <2>4. \A r \in Peers : ep'[r] = IF r = p THEN n ELSE ep[r]
    BY <1>1, <2>2
  <2>5. \A r \in Peers : Right(mode, r, ep[r], ep[Other(r)], ep'[r])
    BY <2>3, <2>4, Stays DEF HandshakeInv
  <2>6. DOMAIN ep' = Peers /\ DOMAIN inbox' = Peers /\ (\A r \in Peers : IsQueue(inbox'[r]))
    BY <1>1, <2>2 DEF HandshakeInv
  <2> QED BY <2>2, <2>5, <2>6, HandshakeMoves
<1>3. ASSUME Begin(p) PROVE HandshakeInv'
  <2>1. Outcome(mode, p, e, f, Enter(p, e, "hello"))
    BY <1>1, <1>3, EnterOutcome DEF Begin, EndpointOK, Waiting
  <2> QED BY <1>1, <1>3, <2>1, TakeKeeps DEF Begin
<1>4. ASSUME Receive(p) PROVE HandshakeInv'
  <2>1. /\ IsQueue(Tail(inbox[p])) /\ Elems(Tail(inbox[p])) \subseteq Elems(inbox[p])
        /\ Head(inbox[p]) \in Elems(inbox[p])
    BY <1>1, <1>4, TailQueue DEF Receive
  <2>2. Outcome(mode, p, e, f, RecvMsg(p, e, Head(inbox[p])))
    BY <1>1, <1>4, <2>1, RecvMsgOutcome DEF Receive
  <2> QED BY <1>4, <2>1, <2>2, TakeKeeps DEF Receive
<1>5. ASSUME Drain(p) PROVE HandshakeInv'
  <2> DEFINE m == Head(inbox[p])
             s == IF m.t = "Commit" THEN RespondStart(p, Responds(e, m)) ELSE Step(e, <<>>)
  <2>1. IsQueue(Tail(inbox[p])) /\ Elems(Tail(inbox[p])) \subseteq Elems(inbox[p])
    BY <1>1, <1>5, TailQueue DEF Drain
  <2>2. ASSUME m.t = "Commit" PROVE Outcome(mode, p, e, f, RespondStart(p, Responds(e, m)))
    <3>1. e.at = "drain" /\ m \in Elems(inbox[p])
      BY <1>1, <1>5, TailQueue DEF Drain
    <3>2. m.from = Other(p)
      BY <1>1, <2>2, <3>1 DEF Backed
    <3> QED BY <1>1, <3>1, <3>2, RespondOutcome
  <2>3. Outcome(mode, p, e, f, Step(e, <<>>))
    <3>1. Step(e, <<>>).e = e /\ Step(e, <<>>).out = <<>>
      BY DEF Step
    <3> QED BY <1>1, <3>1, Stays, EmptyQueue DEF Outcome
  <2>4. Outcome(mode, p, e, f, s)
    BY <2>2, <2>3
  <2>5. Take(p, s, Tail(inbox[p])) /\ mode' = mode
    BY <1>5, Zenon DEF Drain
  <2> HIDE DEF s
  <2> QED BY <2>1, <2>4, <2>5, TakeKeeps
<1>6. ASSUME Commits(p) PROVE HandshakeInv'
  <2> DEFINE g == [e EXCEPT !.role = "INITIATOR"]
  <2>1. DOMAIN g = Fields /\ g.ret = e.ret /\ g.role = "INITIATOR" /\ g.hello = e.hello
    BY <1>1 DEF EndpointOK, Fields
  <2>2. e.at = "drain" /\ Take(p, Enter(p, g, "commit"), inbox[p]) /\ mode' = mode
    BY <1>6, Zenon DEF Commits
  <2>0. g.hello \in {None, Other(p)} /\ g.hello # None
    BY <1>1, <2>1, <2>2 DEF EndpointOK
  <2> HIDE DEF g
  <2>3. Outcome(mode, p, e, f, Enter(p, g, "commit"))
    BY <1>1, <2>0, <2>1, <2>2, EnterOutcome DEF Waiting
  <2> QED BY <1>1, <2>2, <2>3, TakeKeeps
<1>7. ASSUME Swallow(p) PROVE HandshakeInv'
  <2>1. IsQueue(Tail(inbox[p])) /\ Elems(Tail(inbox[p])) \subseteq Elems(inbox[p])
    BY <1>1, <1>7, TailQueue DEF Swallow
  <2> QED BY <1>7, <2>1, InboxKeeps DEF Swallow
<1>8. ASSUME Timeout(p) PROVE HandshakeInv'
  <2>1. Outcome(mode, p, e, f, TimesOut(p)) /\ inbox[p] = <<>>
    BY <1>1, <1>8, AgainOutcome DEF Timeout, TimesOut, Silent
  <2> QED BY <1>1, <1>8, <2>1, TakeKeeps DEF Timeout
<1> QED BY <1>2, <1>3, <1>4, <1>5, <1>6, <1>7, <1>8 DEF EndpointStep

LEMMA BothTimeOutKeeps == HandshakeInv /\ BothTimeOut => HandshakeInv'
<1> SUFFICES ASSUME HandshakeInv, BothTimeOut PROVE HandshakeInv'
    OBVIOUS
<1>1. \A p \in Peers : Outcome(mode, p, ep[p], ep[Other(p)], TimesOut(p))
    BY AgainOutcome DEF BothTimeOut, HandshakeInv, TimesOut
<1>2. mode' = mode /\ DOMAIN ep' = Peers /\ (\A p \in Peers : ep'[p] = TimesOut(p).e)
    BY DEF BothTimeOut
<1>3. DOMAIN inbox' = Peers /\ (\A p \in Peers : inbox'[p] = TimesOut(Other(p)).out)
    BY DEF BothTimeOut
<1>4. \A p \in Peers : Right(mode, p, ep[p], ep[Other(p)], ep'[p])
    BY <1>1, <1>2 DEF Outcome
<1>5. \A p \in Peers : IsQueue(inbox'[p]) /\ \A m \in Elems(inbox'[p]) : Backed(mode, m, Other(p), ep'[Other(p)])
    BY <1>1, <1>2, <1>3, TwoPeers DEF Outcome
<1> QED BY <1>2, <1>3, <1>4, <1>5, HandshakeMoves

LEMMA MishapKeeps == HandshakeInv /\ Mishap => HandshakeInv'
<1> SUFFICES ASSUME HandshakeInv, NEW p \in Peers,
                    \/ TooEarly(p) \/ LoseMessage(p) \/ DoubleMessage(p) \/ OvertakeMessage(p) \/ Stray(p)
             PROVE  HandshakeInv'
    BY DEF Mishap
<1>1. EndpointOK(mode, p, ep[p]) /\ IsQueue(inbox[p])
    BY DEF HandshakeInv
<1>2. ASSUME TooEarly(p) PROVE HandshakeInv'
  <2>1. Outcome(mode, p, ep[p], ep[Other(p)], TimesOut(p))
    BY <1>1, <1>2, AgainOutcome DEF TooEarly, TimesOut
  <2> QED BY <1>1, <1>2, <2>1, TakeKeeps DEF TooEarly
<1>3. ASSUME LoseMessage(p) PROVE HandshakeInv'
  <2>1. IsQueue(Tail(inbox[p])) /\ Elems(Tail(inbox[p])) \subseteq Elems(inbox[p])
    BY <1>1, <1>3, TailQueue DEF LoseMessage
  <2> QED BY <1>3, <2>1, InboxKeeps DEF LoseMessage
<1>4. ASSUME DoubleMessage(p) PROVE HandshakeInv'
  <2> DEFINE t == <<Head(inbox[p])>> \o inbox[p]
  <2>1. IsQueue(t) /\ Elems(t) \subseteq {Head(inbox[p])} \cup Elems(inbox[p])
    BY <1>1, SingleQueue, JoinedQueue
  <2>2. Head(inbox[p]) \in Elems(inbox[p])
    BY <1>1, <1>4, TailQueue DEF DoubleMessage
  <2>3. mode' = mode /\ ep' = ep /\ inbox' = [inbox EXCEPT ![p] = t]
    BY <1>4 DEF DoubleMessage
  <2> HIDE DEF t
  <2> QED BY <2>1, <2>2, <2>3, InboxKeeps
<1>5. ASSUME OvertakeMessage(p) PROVE HandshakeInv'
  <2> DEFINE t == <<inbox[p][2], inbox[p][1]>> \o SubSeq(inbox[p], 3, Len(inbox[p]))
  <2>1. IsQueue(t) /\ Elems(t) \subseteq Elems(inbox[p])
    BY <1>1, <1>5, SwappedQueue DEF OvertakeMessage
  <2>2. mode' = mode /\ ep' = ep /\ inbox' = [inbox EXCEPT ![p] = t]
    BY <1>5 DEF OvertakeMessage
  <2> HIDE DEF t
  <2> QED BY <2>1, <2>2, InboxKeeps
<1>6. ASSUME Stray(p) PROVE HandshakeInv'
  <2> DEFINE t == <<NotZrtp>> \o inbox[p]
  <2>1. IsQueue(t) /\ Elems(t) \subseteq {NotZrtp} \cup Elems(inbox[p])
    BY <1>1, SingleQueue, JoinedQueue
  <2>2. mode' = mode /\ ep' = ep /\ inbox' = [inbox EXCEPT ![p] = t]
    BY <1>6 DEF Stray
  <2> HIDE DEF t
  <2> QED BY <2>1, <2>2, InboxKeeps
<1> QED BY <1>2, <1>3, <1>4, <1>5, <1>6

LEMMA ZrtpNextKeeps == HandshakeInv /\ ZrtpNext => HandshakeInv'
BY EndpointStepKeeps, BothTimeOutKeeps, MishapKeeps DEF ZrtpNext

LEMMA IdleOK == \A md, p : EndpointOK(md, p, Idle) /\ Idle.ret # "RTP_OK"
BY DEF EndpointOK, Idle, Fields, None

LEMMA IdleHandshake ==
    ASSUME ep = [p \in Peers |-> Idle], inbox = [p \in Peers |-> <<>>]
    PROVE  HandshakeInv
<1>1. \A p \in Peers : EndpointOK(mode, p, Idle) /\ Idle.ret # "RTP_OK"
    BY IdleOK
<1> QED BY <1>1, EmptyQueue DEF HandshakeInv

LEMMA HandshakeInvInductive == HandshakeInv /\ [Next]_vars => HandshakeInv'
<1> SUFFICES ASSUME HandshakeInv, [Next]_vars PROVE HandshakeInv'
    OBVIOUS
<1>1. CASE Handshake
    BY <1>1, ZrtpNextKeeps DEF Handshake
<1>2. CASE Open
  <2>1. ep' = [p \in Peers |-> Idle] /\ inbox' = [p \in Peers |-> <<>>]
    BY <1>2 DEF Open
  <2>2. \A p \in Peers : EndpointOK(mode', p, Idle) /\ Idle.ret # "RTP_OK"
    BY IdleOK
  <2> QED BY <2>1, <2>2, EmptyQueue DEF HandshakeInv
<1>3. CASE UNCHANGED zrtpvars
    BY <1>3 DEF HandshakeInv, zrtpvars
<1>4. ASSUME NEW p \in Peers, Send(p) \/ ReceiveRtp(p) \/ Runner(p) \/ Network(p) \/ Stop(p)
      PROVE  UNCHANGED zrtpvars
    BY <1>4 DEF Send, ReceiveRtp, Runner, ReportTimeout, ReceiveReport, Network, Overtake, Double, Lose,
                LoseReport, Stop
<1>5. CASE UNCHANGED vars
    BY <1>5 DEF HandshakeInv, vars, zrtpvars
<1> QED BY <1>1, <1>2, <1>3, <1>4, <1>5 DEF Next

\* What the states of the two ends, and the messages between them that have not
\* been read, say of each other in every reachable state of two handshakes
\* (the phases of zrtp.cc init(), and receiver.cc, which parses the messages).
THEOREM HandshakeInvAlways == Spec => []HandshakeInv
<1>1. Init => HandshakeInv
    BY IdleHandshake DEF Init, ZrtpInit
<1> QED BY <1>1, HandshakeInvInductive, PTL DEF Spec

\* An end whose handshake has succeeded knows that the other one holds the same
\* secret in the other role, whatever the network lost, doubled, delayed or
\* mixed in, in the three-message and in the multistream mode (zrtp.cc init()).
THEOREM KeysAgreeAlways == Spec => []KeysAgree
BY HandshakeInvAlways, HandshakeInvAgrees, PTL

-----------------------------------------------------------------------------
\* What the SRTP handler makes of a packet.

CtxFields == {"roc", "rts", "local", "remote", "seen"}
ContextOK(ctx) == DOMAIN ctx = CtxFields /\ ctx.roc \in Nat
Bump(seq) == IF seq = Top THEN 1 ELSE 0

LEMMA RollFields ==
    ASSUME NEW ctx, NEW seq, ContextOK(ctx)
    PROVE  LET r == Roll(ctx, seq)
           IN  /\ ContextOK(r) /\ r.roc = ctx.roc + Bump(seq)
               /\ r.local = ctx.local /\ r.remote = ctx.remote /\ r.seen = ctx.seen
<1>1. CASE seq = Top
    BY <1>1 DEF Roll, Bump, ContextOK, CtxFields
<1>2. CASE seq # Top
    BY <1>2 DEF Roll, Bump, ContextOK
<1> QED BY <1>1, <1>2

LEMMA RememberFields ==
    ASSUME NEW flags, NEW ctx, NEW pkt, ContextOK(ctx)
    PROVE  LET r == Remember(flags, ctx, pkt)
           IN  /\ ContextOK(r) /\ r.roc = ctx.roc /\ r.local = ctx.local /\ r.remote = ctx.remote
               /\ r.seen = IF flags.auth /\ flags.replay /\ Authentic(ctx, pkt)
                           THEN ctx.seen \cup {Digest(ctx, pkt)} ELSE ctx.seen
<1>1. CASE flags.auth /\ flags.replay /\ Authentic(ctx, pkt)
  <2>1. Remember(flags, ctx, pkt) = [ctx EXCEPT !.seen = @ \cup {Digest(ctx, pkt)}]
    BY <1>1 DEF Remember
  <2> QED BY <1>1, <2>1 DEF ContextOK, CtxFields
<1>2. CASE ~(flags.auth /\ flags.replay /\ Authentic(ctx, pkt))
    BY <1>2 DEF Remember
<1> QED BY <1>1, <1>2

LEMMA DecryptFields ==
    ASSUME NEW ctx, NEW pkt, ContextOK(ctx), pkt.seq \in Nat
    PROVE  LET d == Decrypt(ctx, pkt)
           IN  /\ ContextOK(d.ctx) /\ d.ctx.roc = ctx.roc + Bump(pkt.seq)
               /\ d.ctx.local = ctx.local /\ d.ctx.remote = ctx.remote /\ d.ctx.seen = ctx.seen
               /\ d.clear <=> pkt.cipher = <<ctx.remote, Index(ctx.roc, pkt.seq)>>
<1> DEFINE d == Decrypt(ctx, pkt)
           rolled == Roll(ctx, pkt.seq)
           marked == [rolled EXCEPT !.rts = pkt.ts]
<1>1. ~LatePacket(ctx, pkt)
    BY SrtpAssumption DEF LatePacket
<1>2. d.ctx = IF pkt.seq = Top THEN marked ELSE ctx
    BY DEF Decrypt
<1>3. d.clear <=> pkt.cipher = <<ctx.remote, Index(ctx.roc, pkt.seq)>>
    BY <1>1 DEF Decrypt
<1>4. /\ ContextOK(rolled) /\ rolled.roc = ctx.roc + Bump(pkt.seq)
      /\ rolled.local = ctx.local /\ rolled.remote = ctx.remote /\ rolled.seen = ctx.seen
    BY RollFields
<1> HIDE DEF rolled, d
<1>5. /\ ContextOK(marked) /\ marked.roc = rolled.roc /\ marked.local = rolled.local
      /\ marked.remote = rolled.remote /\ marked.seen = rolled.seen
    BY <1>4 DEF ContextOK, CtxFields
<1> HIDE DEF marked
<1>6. CASE pkt.seq = Top
    BY <1>2, <1>3, <1>4, <1>5, <1>6 DEF d
<1>7. CASE pkt.seq # Top
  <2>1. Bump(pkt.seq) = 0 /\ ctx.roc + 0 = ctx.roc
    BY <1>7 DEF Bump, ContextOK
  <2> QED BY <1>2, <1>3, <1>7, <2>1 DEF d
<1> QED BY <1>6, <1>7

\* The context afterwards, and when the packet is readable.
Handled(flags, ctx, pkt, u) ==
    LET refused == Refused(flags, ctx, pkt)
    IN  /\ ContextOK(u.ctx) /\ u.ctx.local = ctx.local /\ u.ctx.remote = ctx.remote
        /\ u.ctx.roc = ctx.roc + (IF refused \/ flags.null THEN 0 ELSE Bump(pkt.seq))
        /\ u.ctx.seen = IF flags.auth /\ flags.replay /\ ~refused
                        THEN ctx.seen \cup {Digest(ctx, pkt)} ELSE ctx.seen
        /\ u.clear <=> /\ ~refused
                       /\ flags.null \/ pkt.cipher = <<ctx.remote, Index(ctx.roc, pkt.seq)>>

LEMMA UnprotectFields ==
    ASSUME NEW flags, NEW ctx, NEW pkt, ContextOK(ctx), pkt.seq \in Nat
    PROVE  Handled(flags, ctx, pkt, Unprotect(flags, ctx, pkt))
<1> SUFFICES LET u == Unprotect(flags, ctx, pkt)
                 refused == Refused(flags, ctx, pkt)
             IN  /\ ContextOK(u.ctx) /\ u.ctx.local = ctx.local /\ u.ctx.remote = ctx.remote
                 /\ u.ctx.roc = ctx.roc + (IF refused \/ flags.null THEN 0 ELSE Bump(pkt.seq))
                 /\ u.ctx.seen = IF flags.auth /\ flags.replay /\ ~refused
                                 THEN ctx.seen \cup {Digest(ctx, pkt)} ELSE ctx.seen
                 /\ u.clear <=> /\ ~refused
                                /\ flags.null \/ pkt.cipher = <<ctx.remote, Index(ctx.roc, pkt.seq)>>
    BY DEF Handled
<1> DEFINE u == Unprotect(flags, ctx, pkt)
           known == Remember(flags, ctx, pkt)
           refused == Refused(flags, ctx, pkt)
<1>1. /\ ContextOK(known) /\ known.roc = ctx.roc /\ known.local = ctx.local /\ known.remote = ctx.remote
      /\ known.seen = IF flags.auth /\ flags.replay /\ Authentic(ctx, pkt)
                      THEN ctx.seen \cup {Digest(ctx, pkt)} ELSE ctx.seen
    BY RememberFields
<1>2. ctx.roc + 0 = ctx.roc
    BY DEF ContextOK
<1>3. ASSUME refused PROVE u = [ctx |-> ctx, clear |-> FALSE]
    BY <1>3 DEF Unprotect
<1>4. ASSUME ~refused, flags.null PROVE u = [ctx |-> known, clear |-> TRUE]
    BY <1>4 DEF Unprotect
<1>5. ASSUME ~refused, ~flags.null PROVE u = Decrypt(known, pkt)
    BY <1>5 DEF Unprotect
<1>6. ~refused /\ flags.auth => Authentic(ctx, pkt)
    BY DEF Refused
<1>7. CASE refused
    BY <1>2, <1>3, <1>7
<1>8. CASE ~refused /\ flags.null
    BY <1>1, <1>2, <1>4, <1>6, <1>8
<1>9. CASE ~refused /\ ~flags.null
  <2> DEFINE d == Decrypt(known, pkt)
  <2>1. /\ ContextOK(d.ctx) /\ d.ctx.roc = known.roc + Bump(pkt.seq)
        /\ d.ctx.local = known.local /\ d.ctx.remote = known.remote /\ d.ctx.seen = known.seen
        /\ d.clear <=> pkt.cipher = <<known.remote, Index(known.roc, pkt.seq)>>
    BY <1>1, DecryptFields
  <2>2. u = d
    BY <1>5, <1>9
  <2> HIDE DEF d, known, refused, u
  <2>3. /\ ContextOK(u.ctx) /\ u.ctx.local = ctx.local /\ u.ctx.remote = ctx.remote
        /\ u.ctx.roc = ctx.roc + (IF refused \/ flags.null THEN 0 ELSE Bump(pkt.seq))
        /\ u.ctx.seen = IF flags.auth /\ flags.replay /\ ~refused
                        THEN ctx.seen \cup {Digest(ctx, pkt)} ELSE ctx.seen
    BY <1>1, <1>6, <1>9, <2>1, <2>2
  <2>4. u.clear <=> /\ ~refused
                    /\ flags.null \/ pkt.cipher = <<ctx.remote, Index(ctx.roc, pkt.seq)>>
    BY <1>1, <1>9, <2>1, <2>2
  <2> QED BY <2>3, <2>4 DEF u, refused
<1> QED BY <1>7, <1>8, <1>9

\* What it makes of a packet that is sent.
Sealed(flags, ctx, pkt, o) ==
    /\ ContextOK(o.ctx) /\ o.ctx.local = ctx.local /\ o.ctx.remote = ctx.remote
    /\ o.ctx.seen = ctx.seen
    /\ o.ctx.roc = ctx.roc + (IF flags.null THEN 0 ELSE Bump(pkt.seq))
    /\ o.pkt.n = pkt.n /\ o.pkt.seq = pkt.seq
    /\ flags.auth => o.pkt.tag = <<ctx.local, o.ctx.roc>>
    /\ ~flags.null => o.pkt.cipher = <<ctx.local, Index(ctx.roc, pkt.seq)>>

LEMMA ProtectFields ==
    ASSUME NEW flags, NEW ctx, NEW pkt, ContextOK(ctx),
           DOMAIN pkt = {"n", "seq", "ts", "cipher", "tag"}
    PROVE  Sealed(flags, ctx, pkt, Protect(flags, ctx, pkt))
<1> DEFINE after == IF flags.null THEN ctx ELSE Roll(ctx, pkt.seq)
           o == Protect(flags, ctx, pkt)
<1>1. /\ ContextOK(after) /\ after.local = ctx.local /\ after.remote = ctx.remote
      /\ after.seen = ctx.seen
      /\ after.roc = ctx.roc + (IF flags.null THEN 0 ELSE Bump(pkt.seq))
  <2>1. ctx.roc + 0 = ctx.roc
    BY DEF ContextOK
  <2>2. CASE flags.null
    BY <2>1, <2>2
  <2>3. CASE ~flags.null
    BY <2>3, RollFields
  <2> QED BY <2>2, <2>3
<1> HIDE DEF after
<1>2. o = ProtectCounting(flags, ctx, after, pkt)
    BY DEF Protect, after
<1>3. o.ctx = after
    BY <1>2 DEF ProtectCounting
<1>4. o.pkt = [pkt EXCEPT !.cipher = IF flags.null THEN Plain ELSE <<ctx.local, Index(ctx.roc, pkt.seq)>>,
                          !.tag = IF flags.auth THEN <<ctx.local, after.roc>> ELSE NoTag]
    BY <1>2 DEF ProtectCounting
<1> HIDE DEF o
<1>5. /\ o.pkt.n = pkt.n /\ o.pkt.seq = pkt.seq
      /\ flags.auth => o.pkt.tag = <<ctx.local, after.roc>>
      /\ ~flags.null => o.pkt.cipher = <<ctx.local, Index(ctx.roc, pkt.seq)>>
    BY <1>4
<1>6. Sealed(flags, ctx, pkt, o)
    BY <1>1, <1>3, <1>5 DEF Sealed
<1> QED BY <1>6 DEF o

-----------------------------------------------------------------------------
\* Roll-over counters along a queue of packets.

\* The sequence number and the cycle of packet n of a stream started from f.
Num(f, n) == (f + n) % SeqMod
Cyc(f, n) == (f + n) \div SeqMod

LEMMA NextCycle ==
    ASSUME NEW f \in Nat, NEW n \in Nat
    PROVE  /\ Num(f, n) \in 0 .. Top /\ Cyc(f, n) \in Nat
           /\ Cyc(f, n + 1) = Cyc(f, n) + Bump(Num(f, n))
<1> DEFINE x == f + n
           k == x \div SeqMod
           r == x % SeqMod
           l == (x + 1) \div SeqMod
           t == (x + 1) % SeqMod
<1>1. SeqMod \in Nat \ {0}
    BY SrtpAssumption
<1>2. k \in Nat /\ r \in 0 .. SeqMod - 1 /\ x = SeqMod * k + r
    BY <1>1
<1>3. l \in Nat /\ t \in 0 .. SeqMod - 1 /\ x + 1 = SeqMod * l + t
    BY <1>1
<1>4. Cyc(f, n) = k /\ Num(f, n) = r /\ Cyc(f, n + 1) = l
    BY DEF Cyc, Num
<1> HIDE DEF x, k, r, l, t
<1>5. SeqMod * l + t = SeqMod * k + r + 1
    BY <1>2, <1>3
<1>6. ~(l < k)
  <2> SUFFICES ASSUME l + 1 <= k PROVE FALSE
      BY <1>2, <1>3
  <2>1. SeqMod * (l + 1) <= SeqMod * k
      BY <1>1, <1>2, <1>3
  <2> QED BY <2>1, <1>1, <1>2, <1>3, <1>5
<1>7. ~(l > k + 1)
  <2> SUFFICES ASSUME k + 2 <= l PROVE FALSE
      BY <1>2, <1>3
  <2>1. SeqMod * (k + 2) <= SeqMod * l
      BY <1>1, <1>2, <1>3
  <2> QED BY <2>1, <1>1, <1>2, <1>3, <1>5
<1>8. CASE l = k
    BY <1>1, <1>2, <1>3, <1>4, <1>5, <1>8 DEF Bump, Top
<1>9. CASE l = k + 1
  <2>1. SeqMod * l = SeqMod * k + SeqMod
    BY <1>1, <1>2, <1>9
  <2> QED BY <1>1, <1>2, <1>3, <1>4, <1>5, <1>9, <2>1 DEF Bump, Top
<1> QED BY <1>2, <1>3, <1>6, <1>7, <1>8, <1>9

LEMMA FirstCycle ==
    ASSUME NEW f \in 0 .. Top
    PROVE  Cyc(f, 0) = 0
<1>1. SeqMod \in Nat \ {0} /\ f \in Nat /\ f < SeqMod
    BY SrtpAssumption DEF Top
<1> DEFINE k == f \div SeqMod
           r == f % SeqMod
<1>2. k \in Nat /\ r \in 0 .. SeqMod - 1 /\ f = SeqMod * k + r
    BY <1>1
<1>3. Cyc(f, 0) = k
    BY <1>1 DEF Cyc
<1> HIDE DEF k, r
<1>4. ~(k >= 1)
  <2> SUFFICES ASSUME k >= 1 PROVE FALSE
      OBVIOUS
  <2>1. SeqMod * k >= SeqMod
      BY <1>1, <1>2
  <2> QED BY <1>1, <1>2, <2>1
<1> QED BY <1>2, <1>3, <1>4

\* The packets s, and after them the one with number n, which is yet to come,
\* lead on from the counter roc.
At(s, n, i) == IF i <= Len(s) THEN s[i].n ELSE n
Flow(s, f, roc, n) ==
    /\ Cyc(f, At(s, n, 1)) = roc
    /\ \A i \in 1 .. Len(s) : Cyc(f, At(s, n, i + 1)) = Cyc(f, At(s, n, i)) + Bump(Num(f, At(s, n, i)))

LEMMA FlowSent ==
    ASSUME NEW s, NEW f \in Nat, NEW roc, NEW n \in Nat, NEW pkt, IsQueue(s), Flow(s, f, roc, n), pkt.n = n
    PROVE  Flow(Append(s, pkt), f, roc, n + 1)
<1>1. PICK S : s \in Seq(S)
    BY DEF IsQueue
<1>2. s \in Seq(S \cup {pkt})
    BY <1>1
<1> DEFINE t == Append(s, pkt)
<1>3. Len(s) \in Nat /\ Len(t) = Len(s) + 1 /\ t[Len(s) + 1] = pkt
      /\ \A i \in 1 .. Len(s) : t[i] = s[i]
    BY <1>2
<1> HIDE DEF t
<1>4. \A i \in 1 .. Len(s) + 1 : At(t, n + 1, i) = At(s, n, i)
    BY <1>3 DEF At
<1>5. At(t, n + 1, Len(t) + 1) = n + 1 /\ At(s, n, Len(s) + 1) = n
    BY <1>3 DEF At
<1>6. Cyc(f, At(t, n + 1, 1)) = roc
    BY <1>3, <1>4 DEF Flow
<1>7. ASSUME NEW i \in 1 .. Len(t)
      PROVE  Cyc(f, At(t, n + 1, i + 1)) = Cyc(f, At(t, n + 1, i)) + Bump(Num(f, At(t, n + 1, i)))
  <2>1. CASE i <= Len(s)
    <3>1. i \in 1 .. Len(s) /\ i \in 1 .. Len(s) + 1 /\ i + 1 \in 1 .. Len(s) + 1
      BY <1>3, <2>1
    <3> QED BY <1>4, <3>1 DEF Flow
  <2>2. CASE i = Len(t)
    <3>1. At(t, n + 1, i) = n /\ At(t, n + 1, i + 1) = n + 1
      BY <1>3, <1>4, <1>5, <2>2
    <3> QED BY <3>1, NextCycle
  <2> QED BY <1>3, <2>1, <2>2
<1> QED BY <1>6, <1>7 DEF Flow, t

LEMMA FlowTaken ==
    ASSUME NEW s, NEW f, NEW roc, NEW n, IsQueue(s), Flow(s, f, roc, n), s # <<>>
    PROVE  /\ Cyc(f, Head(s).n) = roc
           /\ Flow(Tail(s), f, roc + Bump(Num(f, Head(s).n)), n)
<1>1. PICK S : s \in Seq(S)
    BY DEF IsQueue
<1>2. Len(s) \in Nat \ {0} /\ Head(s) = s[1] /\ Len(Tail(s)) = Len(s) - 1
      /\ \A i \in 1 .. Len(s) - 1 : Tail(s)[i] = s[i + 1]
    BY <1>1
<1>3. \A i \in 1 .. Len(s) : At(Tail(s), n, i) = At(s, n, i + 1)
    BY <1>2 DEF At
<1>4. At(s, n, 1) = Head(s).n
    BY <1>2 DEF At
<1>5. Cyc(f, At(s, n, 1 + 1)) = Cyc(f, At(s, n, 1)) + Bump(Num(f, At(s, n, 1)))
    BY <1>2 DEF Flow
<1>6. Cyc(f, Head(s).n) = roc
    BY <1>4 DEF Flow
<1>7. Cyc(f, At(Tail(s), n, 1)) = roc + Bump(Num(f, Head(s).n))
  <2>1. 1 \in 1 .. Len(s)
    BY <1>2
  <2> QED BY <2>1, <1>3, <1>4, <1>5, <1>6
<1>8. ASSUME NEW i \in 1 .. Len(Tail(s))
      PROVE  Cyc(f, At(Tail(s), n, i + 1)) = Cyc(f, At(Tail(s), n, i)) + Bump(Num(f, At(Tail(s), n, i)))
  <2>1. i \in 1 .. Len(s) /\ i + 1 \in 1 .. Len(s)
    BY <1>2
  <2>2. Cyc(f, At(s, n, i + 1 + 1)) = Cyc(f, At(s, n, i + 1)) + Bump(Num(f, At(s, n, i + 1)))
    BY <2>1 DEF Flow
  <2> QED BY <1>3, <2>1, <2>2
<1> QED BY <1>6, <1>7, <1>8 DEF Flow

\* A packet that does not end a cycle can go without the counter noticing,
LEMMA FlowLost ==
    ASSUME NEW s, NEW f, NEW roc \in Nat, NEW n, IsQueue(s), Flow(s, f, roc, n), s # <<>>,
           Num(f, Head(s).n) # Top
    PROVE  Flow(Tail(s), f, roc, n)
<1>1. roc + Bump(Num(f, Head(s).n)) = roc
    BY DEF Bump
<1> QED BY <1>1, FlowTaken

\* The second of a queue is taken out.
LEMMA SecondOut ==
    ASSUME NEW S, NEW s \in Seq(S), Len(s) > 1
    PROVE  LET t == <<Head(s)>> \o SubSeq(s, 3, Len(s))
           IN  /\ Len(t) = Len(s) - 1 /\ t[1] = s[1]
               /\ \A i \in 2 .. Len(s) - 1 : t[i] = s[i + 1]
<1> DEFINE a == <<Head(s)>>
           b == SubSeq(s, 3, Len(s))
           l == Len(s)
<1>1. l \in Nat /\ l >= 2 /\ Head(s) = s[1] /\ Head(s) \in S
    BY HeadTailProperties
<1>2. a \in Seq(S) /\ Len(a) = 1 /\ a[1] = s[1]
    BY <1>1
<1>3. 3 \in Int /\ l \in Int /\ \A i \in 3 .. l : s[i] \in S
    BY <1>1
<1>4. /\ b \in Seq(S) /\ Len(b) = IF 3 <= l THEN l - 3 + 1 ELSE 0
      /\ \A i \in 1 .. l - 3 + 1 : b[i] = s[3 + i - 1]
    BY <1>3, SubSeqProperties
<1> HIDE DEF a, b, l
<1>5. Len(b) = l - 2
    BY <1>1, <1>4
<1>6. \A i \in 1 .. l - 2 : b[i] = s[i + 2]
  <2> SUFFICES ASSUME NEW i \in 1 .. l - 2 PROVE b[i] = s[i + 2]
      OBVIOUS
  <2>1. i \in 1 .. l - 3 + 1 /\ 3 + i - 1 = i + 2
      BY <1>1
  <2> QED BY <1>4, <2>1
<1>7. /\ Len(a \o b) = Len(a) + Len(b)
      /\ \A i \in 1 .. Len(a) + Len(b) : (a \o b)[i] = IF i <= Len(a) THEN a[i] ELSE b[i - Len(a)]
    BY <1>2, <1>4, ConcatProperties
<1>8. Len(a \o b) = l - 1 /\ (a \o b)[1] = s[1]
    BY <1>1, <1>2, <1>5, <1>7
<1>9. ASSUME NEW i \in 2 .. l - 1 PROVE (a \o b)[i] = s[i + 1]
  <2>1. i - 1 \in 1 .. l - 2 /\ (i - 1) + 2 = i + 1 /\ ~(i <= 1) /\ i \in 1 .. 1 + (l - 2)
    BY <1>1
  <2>2. (a \o b)[i] = b[i - 1]
    BY <1>2, <1>5, <1>7, <2>1
  <2> QED BY <1>6, <2>1, <2>2
<1> QED BY <1>8, <1>9 DEF a, b, l

\* and so can the second of two.
LEMMA FlowOvertaken ==
    ASSUME NEW s, NEW f, NEW roc \in Nat, NEW n, IsQueue(s), Flow(s, f, roc, n), Len(s) > 1,
           Num(f, s[1].n) # Top, Num(f, s[2].n) # Top
    PROVE  /\ Cyc(f, s[2].n) = roc
           /\ Flow(<<Head(s)>> \o SubSeq(s, 3, Len(s)), f, roc, n)
<1>1. PICK S : s \in Seq(S)
    BY DEF IsQueue
<1> DEFINE t == <<Head(s)>> \o SubSeq(s, 3, Len(s))
<1>2. Len(s) \in Nat /\ Head(s) = s[1] /\ 1 \in 1 .. Len(s) /\ 2 \in 1 .. Len(s)
    BY <1>1
<1>3. Len(t) = Len(s) - 1 /\ t[1] = s[1] /\ \A i \in 2 .. Len(s) - 1 : t[i] = s[i + 1]
    BY <1>1, SecondOut
<1> HIDE DEF t
<1>4. At(s, n, 1) = s[1].n /\ At(s, n, 2) = s[2].n /\ At(t, n, 1) = s[1].n
    BY <1>2, <1>3 DEF At
<1>5. \A i \in 2 .. Len(s) : At(t, n, i) = At(s, n, i + 1)
    BY <1>2, <1>3 DEF At
<1>6. Cyc(f, At(s, n, 1)) = roc
    BY DEF Flow
<1>7. Cyc(f, At(s, n, 2)) = roc
  <2>1. Cyc(f, At(s, n, 1 + 1)) = Cyc(f, At(s, n, 1)) + Bump(Num(f, At(s, n, 1)))
    BY <1>2 DEF Flow
  <2>2. Bump(Num(f, At(s, n, 1))) = 0
    BY <1>4 DEF Bump
  <2> QED BY <1>6, <2>1, <2>2
<1>8. Cyc(f, At(s, n, 3)) = roc
  <2>1. Cyc(f, At(s, n, 2 + 1)) = Cyc(f, At(s, n, 2)) + Bump(Num(f, At(s, n, 2)))
    BY <1>2 DEF Flow
  <2>2. Bump(Num(f, At(s, n, 2))) = 0
    BY <1>4 DEF Bump
  <2> QED BY <1>7, <2>1, <2>2
<1>9. ASSUME NEW i \in 1 .. Len(t)
      PROVE  Cyc(f, At(t, n, i + 1)) = Cyc(f, At(t, n, i)) + Bump(Num(f, At(t, n, i)))
  <2>1. CASE i = 1
    <3>1. At(t, n, i + 1) = At(s, n, 3)
      BY <1>2, <1>5, <2>1
    <3>2. Bump(Num(f, At(t, n, i))) = 0 /\ Cyc(f, At(t, n, i)) = roc
      BY <1>4, <1>6, <2>1 DEF Bump
    <3> QED BY <1>8, <3>1, <3>2
  <2>2. CASE i # 1
    <3>1. i \in 2 .. Len(s) /\ i + 1 \in 2 .. Len(s) /\ i + 1 \in 1 .. Len(s)
      BY <1>2, <1>3, <2>2
    <3>2. Cyc(f, At(s, n, i + 1 + 1)) = Cyc(f, At(s, n, i + 1)) + Bump(Num(f, At(s, n, i + 1)))
      BY <3>1 DEF Flow
    <3> QED BY <1>5, <3>1, <3>2
  <2> QED BY <2>1, <2>2
<1>10. Flow(t, f, roc, n)
    BY <1>4, <1>6, <1>9 DEF Flow
<1> QED BY <1>4, <1>7, <1>10 DEF t

-----------------------------------------------------------------------------
\* What is always true of packets under way and of those that have come in.

Coded == config.keys # "none"
Once == Coded /\ config.auth /\ config.replay
Quiet == config.null \/ ~RolledOver
Chained == ~config.null /\ ~config.auth /\ OneWay /\ ~topHit

SessionOK ==
    /\ config \in Configs
    /\ first \in [Peers -> 0 .. Top] /\ sent \in [Peers -> Nat]
    /\ DOMAIN srtp = Peers /\ DOMAIN air = Peers /\ DOMAIN handed = Peers /\ DOMAIN readable = Peers
    /\ \A p \in Peers :
           /\ sent[p] <= config.packets
           /\ ContextOK(srtp[p]) /\ srtp[p].remote = srtp[Other(p)].local
           /\ IsQueue(air[p])
           /\ ~open => sent[p] = 0 /\ air[p] = <<>>

\* A packet under way to p is one of the other end's, protected as it was sent.
PacketOK(p, pkt) ==
    LET q == Other(p) IN
    /\ pkt.n \in Nat /\ pkt.n < sent[q] /\ q \in config.senders
    /\ pkt.seq = Num(first[q], pkt.n)
    /\ Coded /\ config.auth => \E r \in Nat : pkt.tag = <<srtp[q].local, r>>
    /\ Coded /\ Quiet => /\ config.auth => pkt.tag = <<srtp[q].local, 0>>
                         /\ ~config.null => pkt.cipher = <<srtp[q].local, Index(0, pkt.seq)>>
    /\ Coded /\ Chained => pkt.cipher = <<srtp[q].local, Index(Cyc(first[q], pkt.n), pkt.seq)>>

AirOK(p) ==
    /\ \A pkt \in Elems(air[p]) : PacketOK(p, pkt)
    /\ \A a, b \in Elems(air[p]) : a.n = b.n => a = b

\* What p remembers covers what it has read,
ReadOK(p) ==
    /\ \A n \in readable[p] : n \in Nat /\ n < sent[Other(p)]
    /\ Once => \A pkt \in Elems(air[p]) : pkt.n \in readable[p] =>
                   \A r \in Nat : pkt.tag = <<srtp[p].remote, r>> => <<pkt.n, r>> \in srtp[p].seen

\* and while no counter moves it has read what it remembers.
QuietOK(p) == Coded /\ Quiet => srtp[p].roc = 0 /\ \A d \in srtp[p].seen : d[1] \in readable[p]

\* In one direction without authentication the counter of the receiver follows.
FlowOK(p) ==
    LET q == Other(p) IN
    Coded /\ Chained /\ q \in config.senders =>
        srtp[q].roc = Cyc(first[q], sent[q]) /\ Flow(air[p], first[q], srtp[p].roc, sent[q])

\* What MediaReadable says of what was handed up last.
Favourable == config.null \/ ~RolledOver \/ (~config.auth /\ OneWay /\ ~topHit)
HandedOK(p) ==
    /\ Favourable /\ ~(Once /\ handed[p].again) => handed[p].clear
    /\ Once /\ handed[p].again => ~handed[p].clear

MediaInv ==
    SessionOK /\ \A p \in Peers : AirOK(p) /\ ReadOK(p) /\ QuietOK(p) /\ FlowOK(p) /\ HandedOK(p)

LEMMA MediaInvReadable == MediaInv => MediaReadable
BY DEF MediaInv, HandedOK, Favourable, MediaReadable, Once, Coded

LEMMA ConfigFacts ==
    ASSUME config \in Configs
    PROVE  /\ config.auth \in BOOLEAN /\ config.replay \in BOOLEAN /\ config.null \in BOOLEAN
           /\ config.rtcp \in BOOLEAN
           /\ config.senders \subseteq Peers /\ config.packets \in Nat
BY SessionAssumption

LEMMA OneSender ==
    ASSUME config \in Configs, OneWay, NEW p \in Peers, p \in config.senders
    PROVE  Other(p) \notin config.senders
<1>1. IsFiniteSet(config.senders)
    BY ConfigFacts, FS_Subset, ZrtpAssumption
<1>2. PICK x : config.senders = {x}
    BY <1>1, FS_Singleton DEF OneWay
<1> QED BY <1>2, TwoPeers

\* The conditions of the invariant only get harder to meet.
Later ==
    /\ config' = config /\ first' = first /\ (topHit => topHit')
    /\ \A p \in Peers : sent'[p] \in Nat /\ sent'[p] >= sent[p]

LEMMA Backwards ==
    ASSUME SessionOK, Later
    PROVE  /\ Quiet' => Quiet
           /\ Chained' => Chained
           /\ Favourable' => Favourable
           /\ (Once' <=> Once) /\ (Coded' <=> Coded)
<1>1. config' = config /\ first' = first
    BY DEF Later
<1>2. RolledOver => RolledOver'
  <2> SUFFICES ASSUME NEW p \in config.senders, NEW k \in 0 .. config.packets - 1,
                      k < sent[p], (first[p] + k) % SeqMod = Top
               PROVE  RolledOver'
      BY DEF RolledOver
  <2>1. p \in Peers /\ k \in Nat
    BY ConfigFacts DEF SessionOK
  <2>2. k < sent'[p]
    BY <2>1 DEF Later, SessionOK
  <2> QED BY <1>1, <2>2 DEF RolledOver
<1>3. OneWay' <=> OneWay
    BY <1>1 DEF OneWay
<1>4. ~topHit' => ~topHit
    BY DEF Later
<1> QED BY <1>1, <1>2, <1>3, <1>4 DEF Quiet, Chained, Favourable, Once, Coded

LEMMA NoneRolledOver ==
    ASSUME SessionOK, ~RolledOver, NEW q \in config.senders, NEW n \in Nat, n < sent[q]
    PROVE  Num(first[q], n) # Top
<1>1. q \in Peers
    BY ConfigFacts DEF SessionOK
<1>2. config.packets \in Nat /\ sent[q] \in Nat /\ sent[q] <= config.packets
    BY <1>1, ConfigFacts DEF SessionOK
<1>3. n \in 0 .. config.packets - 1
    BY <1>2
<1> QED BY <1>3 DEF RolledOver, Num

LEMMA SameMedia ==
    ASSUME MediaInv,
           UNCHANGED <<config, open, first, sent, srtp, air, handed, readable, topHit>>
    PROVE  MediaInv'
<1>1. SessionOK'
    BY DEF MediaInv, SessionOK
<1>2. (Coded' <=> Coded) /\ (Once' <=> Once) /\ (Quiet' <=> Quiet) /\ (Chained' <=> Chained)
      /\ (Favourable' <=> Favourable)
    BY DEF Coded, Once, Quiet, Chained, Favourable, RolledOver, OneWay
<1> SUFFICES ASSUME NEW p \in Peers
             PROVE  (AirOK(p) /\ ReadOK(p) /\ QuietOK(p) /\ FlowOK(p) /\ HandedOK(p))'
    BY <1>1 DEF MediaInv
<1>3. AirOK(p) /\ ReadOK(p) /\ QuietOK(p) /\ FlowOK(p) /\ HandedOK(p)
    BY DEF MediaInv
<1>4. AirOK(p)'
    BY <1>2, <1>3 DEF AirOK, PacketOK
<1>5. ReadOK(p)'
    BY <1>2, <1>3 DEF ReadOK
<1>6. QuietOK(p)' /\ FlowOK(p)' /\ HandedOK(p)'
    BY <1>2, <1>3 DEF QuietOK, FlowOK, HandedOK
<1> QED BY <1>4, <1>5, <1>6

\* A packet that comes in and the queue t it leaves.
LEMMA HandleKeeps ==
    ASSUME MediaInv, NEW p \in Peers, NEW pkt \in Elems(air[p]), NEW t, Handle(p, pkt),
           DOMAIN air' = Peers, air'[p] = t, air'[Other(p)] = air[Other(p)],
           IsQueue(t), Elems(t) \subseteq Elems(air[p]),
           open, open' = open, config' = config, first' = first, sent' = sent, topHit => topHit',
           Coded /\ Chained' => /\ Cyc(first[Other(p)], pkt.n) = srtp[p].roc
                                /\ Flow(t, first[Other(p)], srtp[p].roc + Bump(pkt.seq), sent[Other(p)])
    PROVE  MediaInv'
<1> DEFINE q == Other(p)
           ctx == srtp[p]
           u == Unprotect(config, ctx, pkt)
           in == IF config.keys = "none" THEN [ctx |-> ctx, clear |-> TRUE] ELSE u
           refused == Refused(config, ctx, pkt)
           digest == Digest(ctx, pkt)
<1>1. q \in Peers /\ q # p /\ Other(q) = p /\ (\A r \in Peers : r = p \/ r = q)
    BY TwoPeers
<1>2. SessionOK /\ ContextOK(ctx) /\ ctx.roc \in Nat /\ ctx.remote = srtp[q].local
    BY DEF MediaInv, SessionOK, ContextOK
<1>3. /\ config.auth \in BOOLEAN /\ config.replay \in BOOLEAN /\ config.null \in BOOLEAN
      /\ sent[q] \in Nat /\ first[q] \in Nat
    BY <1>1, <1>2, ConfigFacts DEF SessionOK
<1>4. PacketOK(p, pkt) /\ pkt.seq \in Nat
  <2>1. PacketOK(p, pkt)
    BY DEF MediaInv, AirOK
  <2>2. pkt.n \in Nat /\ pkt.seq = Num(first[q], pkt.n)
    BY <2>1 DEF PacketOK
  <2>3. Num(first[q], pkt.n) \in 0 .. Top
    BY <1>3, <2>2, NextCycle
  <2>4. Top \in Nat
    BY SrtpAssumption DEF Top
  <2> QED BY <2>1, <2>2, <2>3, <2>4
<1>5. Later
    BY <1>2 DEF Later, SessionOK
<1>6. /\ Quiet' => Quiet
      /\ Chained' => Chained
      /\ Favourable' => Favourable
      /\ (Once' <=> Once) /\ (Coded' <=> Coded)
    BY <1>2, <1>5, Backwards
<1>7. Coded => /\ ContextOK(in.ctx) /\ in.ctx.local = ctx.local /\ in.ctx.remote = ctx.remote
               /\ in.ctx.roc = ctx.roc + (IF refused \/ config.null THEN 0 ELSE Bump(pkt.seq))
               /\ in.ctx.seen = IF config.auth /\ config.replay /\ ~refused
                                THEN ctx.seen \cup {digest} ELSE ctx.seen
               /\ in.clear <=> /\ ~refused
                               /\ config.null \/ pkt.cipher = <<ctx.remote, Index(ctx.roc, pkt.seq)>>
  <2>1. Coded => in = u
    BY DEF Coded
  <2>2. Handled(config, ctx, pkt, u)
    BY <1>2, <1>4, UnprotectFields
  <2> HIDE DEF in, u
  <2>3. Coded => Handled(config, ctx, pkt, in)
    BY <2>1, <2>2
  <2> QED BY <2>3, Zenon DEF Handled
<1>8. ~Coded => in.ctx = ctx /\ in.clear
    BY DEF Coded
<1>9. /\ srtp' = [srtp EXCEPT ![p] = in.ctx]
      /\ handed' = [handed EXCEPT ![p] = [n |-> pkt.n, clear |-> in.clear, again |-> pkt.n \in readable[p]]]
      /\ readable' = [readable EXCEPT ![p] = IF in.clear THEN @ \cup {pkt.n} ELSE @]
    BY DEF Handle
<1> HIDE DEF in
<1>10. /\ srtp'[p] = in.ctx /\ srtp'[q] = srtp[q] /\ DOMAIN srtp' = Peers
       /\ air'[p] = t /\ air'[q] = air[q] /\ DOMAIN air' = Peers
    BY <1>1, <1>2, <1>9 DEF SessionOK
<1>11. /\ readable'[p] = IF in.clear THEN readable[p] \cup {pkt.n} ELSE readable[p]
       /\ readable'[q] = readable[q] /\ DOMAIN readable' = Peers
    BY <1>1, <1>2, <1>9 DEF SessionOK
<1>12. /\ handed'[p].clear = in.clear /\ handed'[p].again = (pkt.n \in readable[p])
       /\ handed'[q] = handed[q] /\ DOMAIN handed' = Peers
    BY <1>1, <1>2, <1>9 DEF SessionOK
<1>13. digest = <<pkt.n, ctx.roc>> /\ (refused <=> config.auth /\ (~Authentic(ctx, pkt) \/ (config.replay /\ digest \in ctx.seen)))
       /\ (Authentic(ctx, pkt) <=> pkt.tag = <<ctx.remote, ctx.roc>>)
    BY DEF Refused, Replayed, Digest, Authentic
<1> HIDE DEF u, refused, digest
<1>14. /\ ContextOK(in.ctx) /\ in.ctx.local = ctx.local /\ in.ctx.remote = ctx.remote
       /\ ctx.seen \subseteq in.ctx.seen
    BY <1>2, <1>7, <1>8
<1> HIDE DEF q, ctx
<1>15. q = Other(p) /\ ctx = srtp[p]
    BY DEF q, ctx
<1>16. SessionOK'
  <2>1. \A r \in Peers : ContextOK(srtp'[r]) /\ srtp'[r].local = srtp[r].local
                         /\ srtp'[r].remote = srtp[r].remote
    BY <1>1, <1>2, <1>10, <1>14, <1>15 DEF SessionOK
  <2>2. \A r \in Peers : srtp'[r].remote = srtp'[Other(r)].local
    BY <2>1, TwoPeers, <1>2 DEF SessionOK
  <2>3. \A r \in Peers : IsQueue(air'[r])
    BY <1>1, <1>2, <1>10 DEF SessionOK
  <2> QED BY <1>2, <1>10, <1>11, <1>12, <2>1, <2>2, <2>3 DEF SessionOK
<1>17. \A r \in Peers : Elems(air'[r]) \subseteq Elems(air[r]) /\ srtp'[r].local = srtp[r].local
                        /\ srtp'[r].remote = srtp[r].remote
    BY <1>1, <1>10, <1>14, <1>15
<1>18. ASSUME NEW r \in Peers PROVE AirOK(r)'
  <2>1. AirOK(r) /\ Other(r) \in Peers
    BY TwoPeers DEF MediaInv
  <2>2. \A x \in Elems(air'[r]) : PacketOK(r, x)'
    BY <1>6, <1>17, <2>1 DEF AirOK, PacketOK
  <2>3. \A a, b \in Elems(air'[r]) : a.n = b.n => a = b
    BY <1>17, <2>1 DEF AirOK
  <2> QED BY <2>2, <2>3 DEF AirOK
<1>19. ReadOK(q)'
  <2>1. ReadOK(q)
    BY <1>1 DEF MediaInv
  <2> QED BY <1>6, <1>10, <1>11, <2>1 DEF ReadOK
<1>20. ReadOK(p)'
  <2>1. ReadOK(p)
    BY DEF MediaInv
  <2>2. \A n \in readable'[p] : n \in Nat /\ n < sent'[Other(p)]
    BY <1>4, <1>11, <2>1 DEF ReadOK, PacketOK
  <2>3. ASSUME Once, NEW x \in Elems(air'[p]), x.n \in readable'[p], NEW r \in Nat,
               x.tag = <<srtp'[p].remote, r>>
        PROVE  <<x.n, r>> \in srtp'[p].seen
    <3>1. x \in Elems(air[p]) /\ x.tag = <<ctx.remote, r>>
      BY <1>15, <1>17, <2>3
    <3>2. CASE x.n \in readable[p]
      BY <1>10, <1>14, <1>15, <2>1, <2>3, <3>1, <3>2 DEF ReadOK
    <3>3. CASE x.n \notin readable[p]
      <4>1. in.clear /\ x.n = pkt.n
        BY <1>11, <2>3, <3>3
      <4>2. x = pkt
        BY <3>1, <4>1 DEF MediaInv, AirOK
      <4>3. ~refused /\ config.auth /\ config.replay /\ Coded
        BY <1>7, <2>3, <4>1 DEF Once
      <4>4. pkt.tag = <<ctx.remote, ctx.roc>>
        BY <1>13, <4>3
      <4>5. r = ctx.roc
        BY <3>1, <4>2, <4>4
      <4>6. digest \in in.ctx.seen
        BY <1>7, <4>3
      <4> QED BY <1>10, <1>13, <4>2, <4>5, <4>6
    <3> QED BY <3>2, <3>3
  <2> QED BY <1>6, <2>2, <2>3 DEF ReadOK
<1>21. QuietOK(q)'
  <2>1. QuietOK(q)
    BY <1>1 DEF MediaInv
  <2> QED BY <1>6, <1>10, <1>11, <2>1 DEF QuietOK
<1>22. ASSUME Coded, Quiet PROVE ctx.roc = 0 /\ (\A d \in ctx.seen : d[1] \in readable[p])
  <2>1. QuietOK(p)
    BY DEF MediaInv
  <2> QED BY <1>15, <1>22, <2>1 DEF QuietOK
<1>23. ASSUME Coded, Quiet, ~refused PROVE in.clear
  <2>1. config.null \/ pkt.cipher = <<ctx.remote, Index(ctx.roc, pkt.seq)>>
    BY <1>2, <1>4, <1>15, <1>22, <1>23 DEF PacketOK
  <2> QED BY <1>7, <1>23, <2>1
<1>24. QuietOK(p)'
  <2> SUFFICES ASSUME Coded, Quiet'
               PROVE  srtp'[p].roc = 0 /\ \A d \in srtp'[p].seen : d[1] \in readable'[p]
      BY <1>6 DEF QuietOK
  <2>1. Quiet
    BY <1>6
  <2>2. in.ctx.roc = 0
    <3>1. CASE refused \/ config.null
      BY <1>7, <1>22, <2>1, <3>1
    <3>2. CASE ~refused /\ ~config.null
      <4>1. ~RolledOver
        BY <2>1, <3>2 DEF Quiet
      <4>2. pkt.seq # Top
        BY <1>2, <1>4, <4>1, NoneRolledOver DEF PacketOK
      <4> QED BY <1>7, <1>22, <2>1, <4>2 DEF Bump
    <3> QED BY <3>1, <3>2
  <2>3. ASSUME NEW d \in in.ctx.seen PROVE d[1] \in readable'[p]
    <3>1. CASE d \in ctx.seen
      BY <1>11, <1>22, <2>1, <3>1
    <3>2. CASE d \notin ctx.seen
      <4>1. d = digest /\ ~refused
        BY <1>7, <2>3, <3>2
      <4>2. d[1] = pkt.n
        BY <1>13, <4>1
      <4> QED BY <1>11, <1>23, <2>1, <4>1, <4>2
    <3> QED BY <3>1, <3>2
  <2> QED BY <1>10, <2>2, <2>3
<1>25. FlowOK(p)'
  <2> SUFFICES ASSUME Coded, Chained', q \in config.senders
               PROVE  srtp'[q].roc = Cyc(first[q], sent[q]) /\ Flow(air'[p], first[q], srtp'[p].roc, sent[q])
      BY <1>6, <1>15 DEF FlowOK
  <2>1. FlowOK(p) /\ Chained
    BY <1>6 DEF MediaInv
  <2>2. srtp[q].roc = Cyc(first[q], sent[q])
    BY <1>15, <2>1 DEF FlowOK
  <2>3. in.ctx.roc = ctx.roc + Bump(pkt.seq)
    BY <1>7, <1>13, <2>1 DEF Chained
  <2> QED BY <1>10, <1>15, <2>2, <2>3
<1>26. FlowOK(q)'
  <2>1. Chained => p \notin config.senders
    <3>1. q \in config.senders
      BY <1>4, <1>15 DEF PacketOK
    <3> QED BY <1>1, <1>2, <3>1, OneSender DEF Chained, SessionOK
  <2> QED BY <1>1, <1>6, <2>1 DEF FlowOK
<1>27. HandedOK(q)'
  <2>1. HandedOK(q)
    BY <1>1 DEF MediaInv
  <2> QED BY <1>6, <1>12, <2>1 DEF HandedOK
<1>28. ASSUME Favourable, Favourable', ~(Once /\ pkt.n \in readable[p]) PROVE in.clear
  <2>1. CASE ~Coded
    BY <1>8, <2>1
  <2>2. CASE Coded /\ Quiet
    <3>1. ~refused
      <4>1. config.auth => Authentic(ctx, pkt)
        BY <1>2, <1>4, <1>13, <1>15, <1>22, <2>2 DEF PacketOK
      <4>2. config.auth /\ config.replay => digest \notin ctx.seen
        <5> SUFFICES ASSUME config.auth, config.replay, digest \in ctx.seen PROVE FALSE
            OBVIOUS
        <5>1. digest[1] = pkt.n
          BY <1>13
        <5>2. pkt.n \in readable[p]
          BY <1>22, <2>2, <5>1
        <5> QED BY <1>28, <2>2, <5>2 DEF Once
      <4> QED BY <1>13, <4>1, <4>2
    <3> QED BY <1>23, <2>2, <3>1
  <2>3. CASE Coded /\ ~Quiet
    <3>1. Chained /\ Chained' /\ ~config.null
      BY <1>28, <1>6, <2>3 DEF Favourable, Quiet, Chained, RolledOver, OneWay
    <3>2. pkt.cipher = <<srtp[q].local, Index(Cyc(first[q], pkt.n), pkt.seq)>>
      BY <1>4, <1>15, <2>3, <3>1 DEF PacketOK
    <3>3. pkt.cipher = <<ctx.remote, Index(ctx.roc, pkt.seq)>>
      BY <1>2, <1>15, <2>3, <3>1, <3>2
    <3>4. ~refused
      BY <1>13, <3>1 DEF Chained
    <3> QED BY <1>7, <2>3, <3>3, <3>4
  <2> QED BY <2>1, <2>2, <2>3
<1>29. ASSUME Once, pkt.n \in readable[p] PROVE ~in.clear
  <2> SUFFICES ASSUME in.clear PROVE FALSE
      OBVIOUS
  <2>1. Coded /\ config.auth /\ config.replay /\ ~refused
    BY <1>7, <1>29 DEF Once
  <2>2. pkt.tag = <<ctx.remote, ctx.roc>> /\ digest \notin ctx.seen
    BY <1>13, <2>1
  <2>3. <<pkt.n, ctx.roc>> \in ctx.seen
    BY <1>2, <1>15, <1>29, <2>2 DEF MediaInv, ReadOK
  <2> QED BY <1>13, <2>2, <2>3
<1>30. HandedOK(p)'
  <2>1. Favourable' /\ ~(Once' /\ handed'[p].again) => handed'[p].clear
    BY <1>6, <1>12, <1>28
  <2>2. Once' /\ handed'[p].again => ~handed'[p].clear
    BY <1>6, <1>12, <1>29
  <2> QED BY <2>1, <2>2 DEF HandedOK
<1>31. \A r \in Peers : (ReadOK(r) /\ QuietOK(r) /\ FlowOK(r) /\ HandedOK(r))'
    BY <1>1, <1>19, <1>20, <1>21, <1>24, <1>25, <1>26, <1>27, <1>30
<1> QED BY <1>16, <1>18, <1>31 DEF MediaInv


LEMMA AppendQueue ==
    ASSUME NEW s, NEW x, IsQueue(s)
    PROVE  IsQueue(Append(s, x)) /\ Elems(Append(s, x)) \subseteq Elems(s) \cup {x}
<1>1. PICK S : s \in Seq(S)
    BY DEF IsQueue
<1>2. s \in Seq(S \cup {x})
    BY <1>1
<1>3. Append(s, x) \in Seq(S \cup {x}) /\ Len(Append(s, x)) = Len(s) + 1 /\ Len(s) \in Nat
      /\ Append(s, x)[Len(s) + 1] = x /\ \A i \in 1 .. Len(s) : Append(s, x)[i] = s[i]
    BY <1>2
<1>4. \A i \in 1 .. Len(Append(s, x)) : i \in 1 .. Len(s) \/ i = Len(s) + 1
    BY <1>3
<1> QED BY <1>3, <1>4 DEF IsQueue, Elems

\* A packet that is sent.
LEMMA SendKeeps ==
    ASSUME MediaInv, NEW p \in Peers, Send(p)
    PROVE  MediaInv'
<1> DEFINE q == Other(p)
           ctx == srtp[p]
           pkt == Packet(p)
           out == IF config.keys = "none" THEN [ctx |-> ctx, pkt |-> pkt] ELSE Protect(config, ctx, pkt)
<1>1. q \in Peers /\ q # p /\ Other(q) = p /\ (\A r \in Peers : r = p \/ r = q)
    BY TwoPeers
<1>2. SessionOK /\ ContextOK(ctx) /\ ctx.roc \in Nat
    BY DEF MediaInv, SessionOK, ContextOK
<1>3. /\ config.auth \in BOOLEAN /\ config.replay \in BOOLEAN /\ config.null \in BOOLEAN
      /\ config.packets \in Nat
      /\ sent[p] \in Nat /\ first[p] \in Nat /\ sent[q] \in Nat /\ first[q] \in Nat
    BY <1>1, <1>2, ConfigFacts DEF SessionOK
<1>4. /\ open /\ p \in config.senders /\ sent[p] < config.packets
      /\ sent' = [sent EXCEPT ![p] = @ + 1]
      /\ UNCHANGED <<config, open, first, handed, readable, topHit>>
    BY DEF Send, Alive
<1>5. /\ srtp' = [srtp EXCEPT ![p] = out.ctx]
      /\ air' = [air EXCEPT ![q] = Append(@, out.pkt)]
    BY DEF Send
<1>6. pkt.n = sent[p] /\ pkt.seq = Num(first[p], sent[p])
      /\ DOMAIN pkt = {"n", "seq", "ts", "cipher", "tag"}
    BY DEF Packet, Num
<1> HIDE DEF pkt
<1>7. Coded => Sealed(config, ctx, pkt, out)
  <2>1. Coded => out = Protect(config, ctx, pkt)
    BY DEF Coded
  <2>2. Sealed(config, ctx, pkt, Protect(config, ctx, pkt))
    BY <1>2, <1>6, ProtectFields
  <2> HIDE DEF out
  <2> QED BY <2>1, <2>2
<1>8. ~Coded => out.ctx = ctx /\ out.pkt = pkt
    BY DEF Coded
<1> HIDE DEF out
<1>9. /\ ContextOK(out.ctx) /\ out.ctx.local = ctx.local /\ out.ctx.remote = ctx.remote
      /\ out.ctx.seen = ctx.seen
      /\ out.pkt.n = sent[p] /\ out.pkt.seq = Num(first[p], sent[p])
    BY <1>2, <1>6, <1>7, <1>8 DEF Sealed
<1>10. Coded => /\ out.ctx.roc = ctx.roc + (IF config.null THEN 0 ELSE Bump(Num(first[p], sent[p])))
                /\ config.auth => out.pkt.tag = <<ctx.local, out.ctx.roc>>
                /\ ~config.null => out.pkt.cipher = <<ctx.local, Index(ctx.roc, out.pkt.seq)>>
  <2>1. out.pkt.seq = pkt.seq /\ pkt.seq = Num(first[p], sent[p])
    BY <1>6, <1>9
  <2> QED BY <1>7, <2>1, Zenon DEF Sealed
<1>11. /\ srtp'[p] = out.ctx /\ srtp'[q] = srtp[q] /\ DOMAIN srtp' = Peers
       /\ air'[q] = Append(air[q], out.pkt) /\ air'[p] = air[p] /\ DOMAIN air' = Peers
    BY <1>1, <1>2, <1>5 DEF SessionOK
<1>12. sent' \in [Peers -> Nat] /\ sent'[p] = sent[p] + 1 /\ sent'[q] = sent[q]
    BY <1>1, <1>2, <1>3, <1>4 DEF SessionOK
<1>13. /\ IsQueue(air[q]) /\ IsQueue(air'[q])
       /\ \A x \in Elems(air'[q]) : x \in Elems(air[q]) \/ x = out.pkt
  <2>1. IsQueue(air[q])
    BY <1>1, <1>2 DEF SessionOK
  <2> QED BY <2>1, <1>11, AppendQueue
<1>14. Later
    BY <1>1, <1>2, <1>3, <1>4, <1>12 DEF Later, SessionOK
<1>15. /\ Quiet' => Quiet
       /\ Chained' => Chained
       /\ Favourable' => Favourable
       /\ (Once' <=> Once) /\ (Coded' <=> Coded)
    BY <1>2, <1>14, Backwards
<1>16. Quiet' => config.null \/ Num(first[p], sent[p]) # Top
  <2> SUFFICES ASSUME Num(first[p], sent[p]) = Top PROVE RolledOver'
      BY <1>4 DEF Quiet
  <2>1. sent[p] \in 0 .. config.packets - 1 /\ sent[p] < sent'[p]
    BY <1>3, <1>4, <1>12
  <2> QED BY <1>4, <2>1 DEF RolledOver, Num
<1> HIDE DEF q, ctx
<1>17. q = Other(p) /\ ctx = srtp[p]
    BY DEF q, ctx
<1>18. \A r \in Peers : srtp'[r].local = srtp[r].local /\ srtp'[r].remote = srtp[r].remote
                        /\ ContextOK(srtp'[r])
    BY <1>1, <1>2, <1>9, <1>11, <1>17 DEF SessionOK
<1>19. SessionOK'
  <2>1. \A r \in Peers : srtp'[r].remote = srtp'[Other(r)].local
    BY <1>18, TwoPeers, <1>2 DEF SessionOK
  <2>2. \A r \in Peers : IsQueue(air'[r])
    BY <1>1, <1>2, <1>11, <1>13 DEF SessionOK
  <2>3. \A r \in Peers : sent'[r] <= config.packets
    BY <1>1, <1>2, <1>3, <1>4, <1>12 DEF SessionOK
  <2> QED BY <1>2, <1>4, <1>11, <1>12, <1>18, <2>1, <2>2, <2>3 DEF SessionOK
<1>20. \A r \in Peers : \A x : PacketOK(r, x) => PacketOK(r, x)'
  <2> SUFFICES ASSUME NEW r \in Peers, NEW x, PacketOK(r, x) PROVE PacketOK(r, x)'
      OBVIOUS
  <2>1. Other(r) \in Peers
    BY TwoPeers
  <2>2. x.n \in Nat /\ x.n < sent'[Other(r)]
    BY <2>1, <1>2, <1>14 DEF PacketOK, Later, SessionOK
  <2> QED BY <1>4, <1>15, <1>18, <2>1, <2>2 DEF PacketOK
<1>21. ASSUME NEW x, x = out.pkt PROVE PacketOK(q, x)'
  <2>1. out.pkt.n \in Nat /\ out.pkt.n < sent'[p] /\ p \in config.senders
        /\ out.pkt.seq = Num(first[p], out.pkt.n)
    BY <1>3, <1>4, <1>9, <1>12
  <2>2. ASSUME Coded, config.auth PROVE \E r \in Nat : out.pkt.tag = <<srtp'[p].local, r>>
    <3>1. out.pkt.tag = <<ctx.local, out.ctx.roc>> /\ out.ctx.roc \in Nat
      BY <1>9, <1>10, <2>2 DEF ContextOK
    <3> QED BY <1>9, <1>11, <3>1
  <2>3. ASSUME Coded, Quiet'
        PROVE  /\ config.auth => out.pkt.tag = <<srtp'[p].local, 0>>
               /\ ~config.null => out.pkt.cipher = <<srtp'[p].local, Index(0, out.pkt.seq)>>
    <3>1. ctx.roc = 0
      BY <1>15, <1>17, <2>3 DEF MediaInv, QuietOK
    <3>2. out.ctx.roc = 0
      BY <1>10, <1>16, <2>3, <3>1 DEF Bump
    <3> QED BY <1>9, <1>10, <1>11, <2>3, <3>1, <3>2
  <2>4. ASSUME Coded, Chained'
        PROVE  out.pkt.cipher = <<srtp'[p].local, Index(Cyc(first[p], out.pkt.n), out.pkt.seq)>>
    <3>1. FlowOK(q) /\ Chained
      BY <1>1, <1>15, <2>4 DEF MediaInv
    <3>2. ctx.roc = Cyc(first[p], sent[p])
      BY <1>1, <1>4, <1>17, <2>4, <3>1 DEF FlowOK
    <3>3. out.pkt.cipher = <<ctx.local, Index(ctx.roc, out.pkt.seq)>>
      BY <1>10, <2>4, <3>1 DEF Chained
    <3> QED BY <1>9, <1>11, <3>2, <3>3
  <2> QED BY <1>1, <1>4, <1>15, <1>21, <2>1, <2>2, <2>3, <2>4 DEF PacketOK
<1>22. AirOK(p)'
  <2>1. AirOK(p)
    BY DEF MediaInv
  <2> QED BY <2>1, <1>11, <1>20 DEF AirOK
<1>23. AirOK(q)'
  <2>1. AirOK(q)
    BY <1>1 DEF MediaInv
  <2>2. \A x \in Elems(air'[q]) : PacketOK(q, x)'
    BY <2>1, <1>1, <1>13, <1>20, <1>21 DEF AirOK
  <2>3. \A x \in Elems(air[q]) : x.n # out.pkt.n
    <3>1. \A x \in Elems(air[q]) : x.n \in Nat /\ x.n < sent[p]
      BY <2>1, <1>1 DEF AirOK, PacketOK
    <3> QED BY <1>3, <1>9, <3>1
  <2>4. \A a, b \in Elems(air'[q]) : a.n = b.n => a = b
    BY <1>13, <2>1, <2>3 DEF AirOK
  <2> QED BY <2>2, <2>4 DEF AirOK
<1>24. ReadOK(p)'
  <2>1. ReadOK(p)
    BY DEF MediaInv
  <2>2. \A n \in readable'[p] : n \in Nat /\ n < sent'[Other(p)]
    BY <2>1, <1>4, <1>12, <1>17 DEF ReadOK
  <2>3. srtp'[p].seen = srtp[p].seen /\ srtp'[p].remote = srtp[p].remote
    BY <1>9, <1>11, <1>17
  <2> QED BY <1>4, <1>11, <1>15, <2>1, <2>2, <2>3 DEF ReadOK
<1>25. ReadOK(q)'
  <2>1. ReadOK(q)
    BY <1>1 DEF MediaInv
  <2>2. \A n \in readable[q] : n \in Nat /\ n < sent[p]
    BY <2>1, <1>1 DEF ReadOK
  <2>3. \A n \in readable'[q] : n \in Nat /\ n < sent'[p]
    BY <2>2, <1>3, <1>4, <1>12
  <2>4. out.pkt.n \notin readable'[q]
    BY <2>2, <1>3, <1>4, <1>9
  <2> QED BY <1>1, <1>4, <1>11, <1>13, <1>15, <2>1, <2>3, <2>4 DEF ReadOK
<1>26. QuietOK(p)'
  <2>1. QuietOK(p)
    BY DEF MediaInv
  <2>2. Coded /\ Quiet' => out.ctx.roc = 0
    BY <1>10, <1>15, <1>16, <1>17, <2>1 DEF QuietOK, Bump
  <2> QED BY <1>4, <1>9, <1>11, <1>15, <1>17, <2>1, <2>2 DEF QuietOK
<1>27. QuietOK(q)'
  <2>1. QuietOK(q)
    BY <1>1 DEF MediaInv
  <2> QED BY <1>4, <1>11, <1>15, <2>1 DEF QuietOK
<1>28. FlowOK(p)'
  <2>1. Chained => q \notin config.senders
    BY <1>2, <1>4, <1>17, OneSender DEF Chained, SessionOK
  <2> QED BY <1>4, <1>15, <1>17, <2>1 DEF FlowOK
<1>29. FlowOK(q)'
  <2> SUFFICES ASSUME Coded, Chained'
               PROVE  /\ srtp'[p].roc = Cyc(first[p], sent'[p])
                      /\ Flow(air'[q], first[p], srtp'[q].roc, sent'[p])
      BY <1>1, <1>4, <1>15 DEF FlowOK
  <2>1. FlowOK(q) /\ Chained
    BY <1>1, <1>15 DEF MediaInv
  <2>2. ctx.roc = Cyc(first[p], sent[p]) /\ Flow(air[q], first[p], srtp[q].roc, sent[p])
    BY <1>1, <1>4, <1>17, <2>1 DEF FlowOK
  <2>3. srtp'[p].roc = Cyc(first[p], sent[p] + 1)
    BY <1>3, <1>10, <1>11, <2>1, <2>2, NextCycle DEF Chained
  <2>4. Flow(air'[q], first[p], srtp[q].roc, sent[p] + 1)
    BY <1>3, <1>9, <1>11, <1>13, <2>2, FlowSent
  <2> QED BY <1>11, <1>12, <2>3, <2>4
<1>30. ASSUME NEW r \in Peers PROVE HandedOK(r)'
  <2>1. HandedOK(r)
    BY DEF MediaInv
  <2> QED BY <1>4, <1>15, <2>1 DEF HandedOK
<1>31. \A r \in Peers : (AirOK(r) /\ ReadOK(r) /\ QuietOK(r) /\ FlowOK(r))'
    BY <1>1, <1>22, <1>23, <1>24, <1>25, <1>26, <1>27, <1>28, <1>29
<1> QED BY <1>19, <1>30, <1>31 DEF MediaInv

\* What the flow is for the packets of the queue of p.
LEMMA FlowHere ==
    ASSUME MediaInv, NEW p \in Peers, Coded, Chained, air[p] # <<>>
    PROVE  LET f == first[Other(p)]
           IN  /\ Flow(air[p], f, srtp[p].roc, sent[Other(p)])
               /\ f \in Nat /\ srtp[p].roc \in Nat /\ IsQueue(air[p]) /\ Head(air[p]) \in Elems(air[p])
               /\ \A pkt \in Elems(air[p]) : pkt.seq = Num(f, pkt.n)
<1>1. IsQueue(air[p]) /\ srtp[p].roc \in Nat /\ Other(p) \in Peers
    BY TwoPeers DEF MediaInv, SessionOK, ContextOK
<1>2. Head(air[p]) \in Elems(air[p])
    BY <1>1, TailQueue
<1>3. \A pkt \in Elems(air[p]) : pkt.seq = Num(first[Other(p)], pkt.n) /\ Other(p) \in config.senders
    BY DEF MediaInv, AirOK, PacketOK
<1>4. Flow(air[p], first[Other(p)], srtp[p].roc, sent[Other(p)])
    BY <1>2, <1>3 DEF MediaInv, FlowOK
<1>5. first[Other(p)] \in Nat
    BY <1>1 DEF MediaInv, SessionOK
<1> QED BY <1>1, <1>2, <1>3, <1>4, <1>5

LEMMA TopHit ==
    ASSUME NEW S, NEW pkt \in S, topHit' = (topHit \/ HitsTop(S)), Chained'
    PROVE  pkt.seq # Top
BY DEF Chained, HitsTop

LEMMA ReceiveRtpKeeps ==
    ASSUME MediaInv, NEW p \in Peers, ReceiveRtp(p)
    PROVE  MediaInv'
<1> DEFINE q == Other(p)
           pkt == Head(air[p])
<1>1. /\ open /\ open' = open /\ config' = config /\ first' = first /\ sent' = sent /\ topHit' = topHit
      /\ Handle(p, pkt) /\ air[p] # <<>> /\ air' = [air EXCEPT ![p] = Tail(@)]
    BY DEF ReceiveRtp, Alive
<1>2. IsQueue(air[p])
    BY DEF MediaInv, SessionOK
<1>3. IsQueue(Tail(air[p])) /\ Elems(Tail(air[p])) \subseteq Elems(air[p]) /\ pkt \in Elems(air[p])
    BY <1>1, <1>2, TailQueue
<1>4. ASSUME Coded, Chained'
      PROVE  /\ Cyc(first[q], pkt.n) = srtp[p].roc
             /\ Flow(Tail(air[p]), first[q], srtp[p].roc + Bump(pkt.seq), sent[q])
  <2>1. Chained
    BY <1>1, <1>4 DEF Chained, OneWay
  <2>2. Flow(air[p], first[q], srtp[p].roc, sent[q]) /\ pkt.seq = Num(first[q], pkt.n)
    BY <1>1, <1>3, <1>4, <2>1, FlowHere
  <2> QED BY <1>1, <1>2, <2>2, FlowTaken
<1>5. DOMAIN air' = Peers /\ air'[p] = Tail(air[p]) /\ air'[q] = air[q]
    BY <1>1, TwoPeers DEF MediaInv, SessionOK
<1> QED BY <1>1, <1>3, <1>4, <1>5, HandleKeeps

LEMMA OvertakeKeeps ==
    ASSUME MediaInv, NEW p \in Peers, Overtake(p)
    PROVE  MediaInv'
<1> DEFINE q == Other(p)
           s == air[p]
           pkt == s[2]
           t == <<Head(s)>> \o SubSeq(s, 3, Len(s))
<1>1. /\ open /\ open' = open /\ config' = config /\ first' = first /\ sent' = sent
      /\ topHit' = (topHit \/ HitsTop({s[1], s[2]}))
      /\ Handle(p, pkt) /\ Len(s) > 1 /\ air' = [air EXCEPT ![p] = t]
    BY DEF Overtake, Alive
<1>2. IsQueue(s)
    BY DEF MediaInv, SessionOK
<1>3. PICK S : s \in Seq(S)
    BY <1>2 DEF IsQueue
<1>4. /\ Len(s) \in Nat /\ 1 \in 1 .. Len(s) /\ 2 \in 1 .. Len(s) /\ s # <<>>
      /\ Head(s) = s[1] /\ s[1] \in Elems(s) /\ s[2] \in Elems(s)
    BY <1>1, <1>3 DEF Elems
<1>5. IsQueue(t) /\ Elems(t) \subseteq Elems(s)
  <2>1. IsQueue(<<Head(s)>>) /\ Elems(<<Head(s)>>) = {Head(s)}
    BY SingleQueue
  <2>2. IsQueue(SubSeq(s, 3, Len(s))) /\ Elems(SubSeq(s, 3, Len(s))) \subseteq Elems(s)
    <3> DEFINE b == SubSeq(s, 3, Len(s))
    <3>1. b \in Seq(S)
      BY <1>3, <1>4
    <3>2. \A i \in 1 .. Len(b) : i + 2 \in 1 .. Len(s) /\ b[i] = s[i + 2]
      BY <1>3, <1>4
    <3> QED BY <3>1, <3>2 DEF IsQueue, Elems
  <2> HIDE DEF s
  <2> QED BY <1>4, <2>1, <2>2, JoinedQueue
<1>6. ASSUME Coded, Chained'
      PROVE  /\ Cyc(first[q], pkt.n) = srtp[p].roc
             /\ Flow(t, first[q], srtp[p].roc + Bump(pkt.seq), sent[q])
  <2>1. Chained /\ s[1].seq # Top /\ s[2].seq # Top
    BY <1>1, <1>6, TopHit DEF Chained, OneWay
  <2>2. /\ Flow(s, first[q], srtp[p].roc, sent[q]) /\ srtp[p].roc \in Nat
        /\ s[1].seq = Num(first[q], s[1].n) /\ s[2].seq = Num(first[q], s[2].n)
    BY <1>4, <1>6, <2>1, FlowHere
  <2>3. srtp[p].roc + Bump(pkt.seq) = srtp[p].roc
    BY <2>1, <2>2 DEF Bump
  <2>4. Num(first[q], s[1].n) # Top /\ Num(first[q], s[2].n) # Top
    BY <2>1, <2>2
  <2>5. Cyc(first[q], s[2].n) = srtp[p].roc /\ Flow(t, first[q], srtp[p].roc, sent[q])
    BY <1>1, <1>2, <2>2, <2>4, FlowOvertaken
  <2> QED BY <2>3, <2>5
<1>7. DOMAIN air' = Peers /\ air'[p] = t /\ air'[q] = air[q]
    BY <1>1, TwoPeers DEF MediaInv, SessionOK
<1> QED BY <1>1, <1>4, <1>5, <1>6, <1>7, HandleKeeps

LEMMA DoubleKeeps ==
    ASSUME MediaInv, NEW p \in Peers, Double(p)
    PROVE  MediaInv'
<1> DEFINE q == Other(p)
           s == air[p]
           pkt == Head(s)
<1>1. /\ open /\ open' = open /\ config' = config /\ first' = first /\ sent' = sent
      /\ topHit' = (topHit \/ HitsTop({pkt}))
      /\ Handle(p, pkt) /\ s # <<>> /\ air' = air
    BY DEF Double, Alive
<1>2. IsQueue(s) /\ DOMAIN air' = Peers
    BY <1>1 DEF MediaInv, SessionOK
<1>3. pkt \in Elems(s)
    BY <1>1, <1>2, TailQueue
<1>4. ASSUME Coded, Chained'
      PROVE  /\ Cyc(first[q], pkt.n) = srtp[p].roc
             /\ Flow(s, first[q], srtp[p].roc + Bump(pkt.seq), sent[q])
  <2>1. Chained /\ pkt.seq # Top
    BY <1>1, <1>4, TopHit DEF Chained, OneWay
  <2>2. Flow(s, first[q], srtp[p].roc, sent[q]) /\ srtp[p].roc \in Nat
    BY <1>1, <1>4, <2>1, FlowHere
  <2>3. srtp[p].roc + Bump(pkt.seq) = srtp[p].roc
    BY <2>1, <2>2 DEF Bump
  <2> QED BY <1>1, <1>2, <2>2, <2>3, FlowTaken
<1> QED BY <1>1, <1>2, <1>3, <1>4, HandleKeeps

LEMMA LoseKeeps ==
    ASSUME MediaInv, NEW p \in Peers, Lose(p)
    PROVE  MediaInv'
<1> DEFINE q == Other(p)
           t == Tail(air[p])
<1>1. /\ UNCHANGED <<config, open, first, sent, srtp, handed, readable>>
      /\ topHit' = (topHit \/ HitsTop({Head(air[p])}))
      /\ air[p] # <<>> /\ air' = [air EXCEPT ![p] = t]
    BY DEF Lose
<1>2. q \in Peers /\ q # p /\ (\A r \in Peers : r = p \/ r = q)
    BY TwoPeers
<1>3. SessionOK /\ IsQueue(air[p]) /\ open
    BY <1>1 DEF MediaInv, SessionOK
<1>4. IsQueue(t) /\ Elems(t) \subseteq Elems(air[p]) /\ Head(air[p]) \in Elems(air[p])
    BY <1>1, <1>3, TailQueue
<1>5. DOMAIN air' = Peers /\ air'[p] = t /\ air'[q] = air[q]
    BY <1>1, <1>2, <1>3 DEF SessionOK
<1>6. Later
  <2>1. topHit => topHit'
    BY <1>1
  <2>2. \A r \in Peers : sent'[r] \in Nat /\ sent'[r] >= sent[r]
    BY <1>1, <1>3 DEF SessionOK
  <2> QED BY <1>1, <2>1, <2>2 DEF Later
<1>7. /\ Quiet' => Quiet
      /\ Chained' => Chained
      /\ Favourable' => Favourable
      /\ (Once' <=> Once) /\ (Coded' <=> Coded)
    BY <1>3, <1>6, Backwards
<1> HIDE DEF q, t
<1>8. \A r \in Peers : Elems(air'[r]) \subseteq Elems(air[r]) /\ IsQueue(air'[r])
    BY <1>2, <1>3, <1>4, <1>5 DEF SessionOK
<1>9. SessionOK'
    BY <1>1, <1>3, <1>5, <1>8 DEF SessionOK
<1> SUFFICES ASSUME NEW r \in Peers
             PROVE  (AirOK(r) /\ ReadOK(r) /\ QuietOK(r) /\ FlowOK(r) /\ HandedOK(r))'
    BY <1>9 DEF MediaInv
<1>10. AirOK(r) /\ ReadOK(r) /\ QuietOK(r) /\ FlowOK(r) /\ HandedOK(r)
    BY DEF MediaInv
<1>11. AirOK(r)'
  <2>1. \A x \in Elems(air'[r]) : PacketOK(r, x)'
    BY <1>1, <1>7, <1>8, <1>10 DEF AirOK, PacketOK
  <2>2. \A a, b \in Elems(air'[r]) : a.n = b.n => a = b
    BY <1>8, <1>10 DEF AirOK
  <2> QED BY <2>1, <2>2 DEF AirOK
<1>12. ReadOK(r)' /\ QuietOK(r)'
    BY <1>1, <1>7, <1>8, <1>10 DEF ReadOK, QuietOK
<1>13. HandedOK(r)'
    BY <1>1, <1>7, <1>10 DEF HandedOK
<1>14. FlowOK(r)'
  <2>1. CASE r = q
    BY <1>1, <1>5, <1>7, <1>10, <2>1 DEF FlowOK
  <2>2. CASE r = p
    <3>1. q = Other(p)
      BY DEF q
    <3> SUFFICES ASSUME Coded, Chained', q \in config.senders
                 PROVE  Flow(t, first[q], srtp[p].roc, sent[q])
        BY <1>1, <1>5, <1>7, <1>10, <2>2, <3>1 DEF FlowOK
    <3>2. Chained /\ Head(air[p]).seq # Top
      BY <1>1, <1>7, TopHit
    <3>3. /\ Flow(air[p], first[q], srtp[p].roc, sent[q]) /\ srtp[p].roc \in Nat
          /\ Head(air[p]).seq = Num(first[q], Head(air[p]).n)
      BY <1>1, <1>4, <3>1, <3>2, FlowHere
    <3> QED BY <1>1, <1>3, <3>2, <3>3, FlowLost DEF t
  <2> QED BY <1>2, <2>1, <2>2
<1> QED BY <1>11, <1>12, <1>13, <1>14

LEMMA EmptyFlow ==
    ASSUME NEW f \in 0 .. Top
    PROVE  Cyc(f, 0) = 0 /\ Flow(<<>>, f, 0, 0)
<1>1. Cyc(f, 0) = 0
    BY FirstCycle
<1>2. Len(<<>>) = 0 /\ At(<<>>, 0, 1) = 0
    BY DEF At
<1> QED BY <1>1, <1>2 DEF Flow

LEMMA ContextFields ==
    ASSUME NEW l, NEW r
    PROVE  /\ ContextOK(Context(l, r)) /\ Context(l, r).roc = 0 /\ Context(l, r).seen = {}
           /\ Context(l, r).local = l /\ Context(l, r).remote = r
BY DEF Context, ContextOK, CtxFields

\* A stream on which nothing has been sent yet, with keys that fit.
LEMMA FreshMedia ==
    ASSUME config \in Configs, first \in [Peers -> 0 .. Top],
           sent = [p \in Peers |-> 0], air = [p \in Peers |-> <<>>], readable = [p \in Peers |-> {}],
           DOMAIN srtp = Peers, DOMAIN handed = Peers,
           \A p \in Peers : /\ ContextOK(srtp[p]) /\ srtp[p].roc = 0 /\ srtp[p].seen = {}
                            /\ srtp[p].remote = srtp[Other(p)].local
                            /\ HandedOK(p)
    PROVE  MediaInv
<1>1. SessionOK
    BY ConfigFacts, EmptyQueue DEF SessionOK
<1> SUFFICES ASSUME NEW p \in Peers
             PROVE  AirOK(p) /\ ReadOK(p) /\ QuietOK(p) /\ FlowOK(p)
    BY <1>1 DEF MediaInv
<1>2. Other(p) \in Peers
    BY TwoPeers
<1>3. AirOK(p) /\ ReadOK(p) /\ QuietOK(p)
    BY EmptyQueue DEF AirOK, ReadOK, QuietOK
<1>4. FlowOK(p)
    BY <1>2, EmptyFlow DEF FlowOK
<1> QED BY <1>3, <1>4

LEMMA OpenKeeps ==
    ASSUME MediaInv, KeysAgree, Open
    PROVE  MediaInv'
<1>1. SessionOK /\ ~open
    BY DEF MediaInv, Open
<1>2. UNCHANGED <<config, first, sent, air, handed, readable, topHit>>
    BY DEF Open
<1>3. \A p \in Peers : sent[p] = 0 /\ air[p] = <<>>
    BY <1>1 DEF SessionOK
<1>4. \A p \in Peers : readable[p] = {}
  <2> SUFFICES ASSUME NEW p \in Peers, NEW n \in readable[p] PROVE FALSE
      OBVIOUS
  <2>1. n \in Nat /\ n < sent[Other(p)]
    BY DEF MediaInv, ReadOK
  <2> QED BY <2>1, <1>3, TwoPeers
<1>5. \A p \in Peers : srtp'[p] = Context(LocalKey(p), RemoteKey(p))
    BY DEF Open
<1>6. \A p \in Peers : RemoteKey(p) = LocalKey(Other(p))
  <2> SUFFICES ASSUME NEW p \in Peers PROVE RemoteKey(p) = LocalKey(Other(p))
      OBVIOUS
  <2>1. Other(p) \in Peers /\ Other(Other(p)) = p
    BY TwoPeers
  <2>2. Agreed(Other(p))
    BY <2>1 DEF Open
  <2> QED BY <2>1, <2>2 DEF KeysAgree
<1>7. \A p \in Peers : ContextOK(srtp'[p]) /\ srtp'[p].roc = 0 /\ srtp'[p].seen = {}
                       /\ srtp'[p].local = LocalKey(p) /\ srtp'[p].remote = RemoteKey(p)
    BY <1>5, ContextFields
<1>8. \A p \in Peers : srtp'[p].remote = srtp'[Other(p)].local
    BY <1>6, <1>7, TwoPeers
<1>9. DOMAIN srtp' = Peers
    BY DEF Open
<1>10. Later
    BY <1>1, <1>2 DEF Later, SessionOK
<1>11. /\ Favourable' => Favourable
       /\ (Once' <=> Once) /\ (Coded' <=> Coded)
    BY <1>1, <1>10, Backwards
<1>12. SessionOK'
    BY <1>1, <1>2, <1>3, <1>7, <1>8, <1>9 DEF SessionOK
<1> SUFFICES ASSUME NEW p \in Peers
             PROVE  (AirOK(p) /\ ReadOK(p) /\ QuietOK(p) /\ FlowOK(p) /\ HandedOK(p))'
    BY <1>12 DEF MediaInv
<1>13. HandedOK(p)'
    BY <1>2, <1>11 DEF MediaInv, HandedOK
<1>14. air'[p] = <<>> /\ readable'[p] = {}
    BY <1>2, <1>3, <1>4
<1>15. AirOK(p)' /\ ReadOK(p)' /\ QuietOK(p)'
    BY <1>7, <1>14, EmptyQueue DEF AirOK, ReadOK, QuietOK
<1>16. FlowOK(p)'
  <2>1. Other(p) \in Peers /\ first'[Other(p)] \in 0 .. Top
    BY <1>1, <1>2, TwoPeers DEF SessionOK
  <2>2. sent'[Other(p)] = 0 /\ srtp'[p].roc = 0 /\ srtp'[Other(p)].roc = 0
    BY <1>2, <1>3, <1>7, <2>1
  <2> QED BY <1>14, <2>1, <2>2, EmptyFlow DEF FlowOK
<1> QED BY <1>13, <1>15, <1>16

LEMMA MediaInvInductive == MediaInv /\ KeysAgree /\ [Next]_vars => MediaInv'
<1> SUFFICES ASSUME MediaInv, KeysAgree, [Next]_vars PROVE MediaInv'
    OBVIOUS
<1> DEFINE Same == UNCHANGED <<config, open, first, sent, srtp, air, handed, readable, topHit>>
<1>1. CASE Handshake
    BY <1>1, SameMedia DEF Handshake, mediavars
<1>2. CASE Open
    BY <1>2, OpenKeeps
<1>3. CASE UNCHANGED vars
    BY <1>3, SameMedia DEF vars, mediavars
<1>4. ASSUME NEW p \in Peers, Send(p) \/ ReceiveRtp(p) \/ Runner(p) \/ Network(p) \/ Stop(p)
      PROVE  MediaInv'
  <2>1. CASE Send(p)
    BY <2>1, SendKeeps
  <2>2. CASE ReceiveRtp(p)
    BY <2>2, ReceiveRtpKeeps
  <2>3. CASE Runner(p)
    <3>1. Same
      BY <2>3 DEF Runner, ReportTimeout, ReceiveReport
    <3> QED BY <3>1, SameMedia
  <2>4. CASE Overtake(p)
    BY <2>4, OvertakeKeeps
  <2>5. CASE Double(p)
    BY <2>5, DoubleKeeps
  <2>6. CASE Lose(p)
    BY <2>6, LoseKeeps
  <2>7. CASE LoseReport(p)
    <3>1. Same
      BY <2>7 DEF LoseReport
    <3> QED BY <3>1, SameMedia
  <2>8. CASE Stop(p)
    <3>1. Same
      BY <2>8 DEF Stop
    <3> QED BY <3>1, SameMedia
  <2> QED BY <1>4, <2>1, <2>2, <2>3, <2>4, <2>5, <2>6, <2>7, <2>8 DEF Network
<1> QED BY <1>1, <1>2, <1>3, <1>4 DEF Next

LEMMA MediaInvInit == Init => MediaInv
<1> SUFFICES ASSUME Init PROVE MediaInv
    OBVIOUS
<1>1. config \in Configs /\ sent = [p \in Peers |-> 0] /\ air = [p \in Peers |-> <<>>]
      /\ readable = [p \in Peers |-> {}] /\ handed = [p \in Peers |-> NoFrame]
      /\ srtp = [p \in Peers |-> Context(UserKey, UserKey)]
    BY DEF Init
<1>2. first \in [Peers -> 0 .. Top]
  <2>1. PICK f \in [config.senders -> FirstSeqs] :
            first = [p \in Peers |-> IF p \in config.senders THEN f[p] ELSE 0]
    BY DEF Init
  <2>2. 0 \in 0 .. Top /\ FirstSeqs \subseteq 0 .. Top
    BY SrtpAssumption, SessionAssumption DEF Top
  <2> QED BY <2>1, <2>2
<1>3. \A p \in Peers : HandedOK(p)
    BY <1>1 DEF HandedOK, NoFrame
<1>4. \A p \in Peers : /\ ContextOK(srtp[p]) /\ srtp[p].roc = 0 /\ srtp[p].seen = {}
                       /\ srtp[p].remote = srtp[Other(p)].local
    BY <1>1, TwoPeers, ContextFields
<1> QED BY <1>1, <1>2, <1>3, <1>4, FreshMedia

\* The application gets the other end's frames as they were sent wherever the
\* roll-over counters of both ends are bound to agree, a frame that was readable
\* once is refused when it comes again, and what is refused is handed up
\* encrypted (srtp.cc send_packet_handler(), recv_packet_handler()).
THEOREM MediaReadableAlways == Spec => []MediaReadable
<1>1. Spec => []MediaInv
    BY MediaInvInit, MediaInvInductive, KeysAgreeAlways, PTL DEF Spec
<1> QED BY <1>1, MediaInvReadable, PTL

-----------------------------------------------------------------------------
\* Sequence numbers of a stream: two packets of it less than a cycle apart.

LEMMA ModFacts ==
    ASSUME NEW a \in Int
    PROVE  a % SeqMod \in 0 .. Top /\ a \div SeqMod \in Int /\ a = SeqMod * (a \div SeqMod) + (a % SeqMod)
BY SrtpAssumption DEF Top

LEMMA CyclesApart ==
    ASSUME NEW x \in Int, NEW y \in Int, x < y
    PROVE  SeqMod * x + SeqMod <= SeqMod * y
<1>1. SeqMod \in Nat
    BY SrtpAssumption
<1> DEFINE d == y - x - 1
<1>2. d \in Nat /\ y = x + 1 + d
    OBVIOUS
<1> HIDE DEF d
<1>3. SeqMod * y = SeqMod * x + SeqMod + SeqMod * d /\ SeqMod * d \in Nat /\ SeqMod * x \in Int
    BY <1>1, <1>2
<1> QED BY <1>1, <1>3

LEMMA SameRest ==
    ASSUME NEW x \in Int, NEW y \in Int, NEW r \in 0 .. Top, NEW s \in 0 .. Top,
           SeqMod * x + r = SeqMod * y + s
    PROVE  x = y /\ r = s
<1>1. SeqMod \in Nat /\ SeqMod * x \in Int /\ SeqMod * y \in Int /\ Top = SeqMod - 1
    BY SrtpAssumption DEF Top
<1>2. ~(x < y)
  <2> SUFFICES ASSUME x < y PROVE FALSE
      OBVIOUS
  <2>1. SeqMod * x + SeqMod <= SeqMod * y
    BY CyclesApart
  <2> QED BY <1>1, <2>1
<1>3. ~(y < x)
  <2> SUFFICES ASSUME y < x PROVE FALSE
      OBVIOUS
  <2>1. SeqMod * y + SeqMod <= SeqMod * x
    BY CyclesApart
  <2> QED BY <1>1, <2>1
<1>4. x = y
    BY <1>2, <1>3
<1> QED BY <1>1, <1>4

LEMMA NumFacts ==
    ASSUME NEW f \in 0 .. Top, NEW n \in Nat
    PROVE  Num(f, n) \in 0 .. Top /\ \E k \in Int : f + n = SeqMod * k + Num(f, n)
<1>1. f + n \in Int
    BY SrtpAssumption DEF Top
<1> QED BY <1>1, ModFacts, Zenon DEF Num

\* Numbers never lie further apart than their packets.
LEMMA NumSpan ==
    ASSUME NEW f \in 0 .. Top, NEW b \in Nat, NEW t \in Nat, b <= t
    PROVE  Num(f, t) - Num(f, b) <= t - b
<1> DEFINE r == Num(f, b)
           s == Num(f, t)
<1>1. PICK k \in Int : f + b = SeqMod * k + r
    BY NumFacts
<1>2. PICK l \in Int : f + t = SeqMod * l + s
    BY NumFacts
<1>3. r \in 0 .. Top /\ s \in 0 .. Top /\ f \in Int /\ Top \in Int /\ SeqMod \in Nat /\ Top = SeqMod - 1
  <2>1. r \in 0 .. Top /\ s \in 0 .. Top
    BY NumFacts
  <2> QED BY <2>1, SrtpAssumption DEF Top
<1> HIDE DEF r, s
<1> DEFINE u == SeqMod * k
           v == SeqMod * l
<1>4. u \in Int /\ v \in Int
    BY <1>3
<1>5. ~(l < k)
  <2> SUFFICES ASSUME l < k PROVE FALSE
      OBVIOUS
  <2>1. v + SeqMod <= u
    BY CyclesApart
  <2> HIDE DEF u, v
  <2> QED BY <1>1, <1>2, <1>3, <1>4, <2>1 DEF u, v
<1>6. u <= v
  <2>1. CASE k = l
    BY <1>4, <2>1
  <2>2. CASE k < l
    <3>1. u + SeqMod <= v
      BY <2>2, CyclesApart
    <3> HIDE DEF u, v
    <3> QED BY <1>3, <1>4, <3>1
  <2> QED BY <1>5, <2>1, <2>2
<1>7. f + b = u + r /\ f + t = v + s
    BY <1>1, <1>2
<1> HIDE DEF u, v
<1>8. s - r <= t - b
    BY <1>3, <1>4, <1>6, <1>7
<1> QED BY <1>8 DEF r, s

\* A packet that is nearly as late has not the next number.
LEMMA NumNext ==
    ASSUME NEW f \in 0 .. Top, NEW n \in Nat, NEW l \in Nat, n <= l, l - n < Top
    PROVE  Num(f, n) # Num(f, l) + 1
<1> SUFFICES ASSUME Num(f, n) = Num(f, l) + 1 PROVE FALSE
    OBVIOUS
<1> DEFINE s == Num(f, n)
           r == Num(f, l)
<1>1. PICK k \in Int : f + n = SeqMod * k + s
    BY NumFacts
<1>2. PICK j \in Int : f + l = SeqMod * j + r
    BY NumFacts
<1>3. r \in 0 .. Top /\ s \in 0 .. Top /\ f \in Int /\ Top \in Int /\ SeqMod \in Nat /\ Top = SeqMod - 1
  <2>1. r \in 0 .. Top /\ s \in 0 .. Top
    BY NumFacts
  <2> QED BY <2>1, SrtpAssumption DEF Top
<1>4. s = r + 1
    OBVIOUS
<1> HIDE DEF r, s
<1> DEFINE u == SeqMod * k
           v == SeqMod * j
           d == l - n + 1
<1>5. u \in Int /\ v \in Int
    BY <1>3
<1>6. d \in 0 .. Top /\ d > 0 /\ 0 \in 0 .. Top
    BY <1>3
<1>7. f + n = u + s /\ f + l = v + r
    BY <1>1, <1>2
<1>8. v + 0 = u + d
  <2> HIDE DEF u, v
  <2> QED BY <1>3, <1>4, <1>5, <1>7
<1>9. d = 0
  <2>1. SeqMod * j + 0 = SeqMod * k + d
    BY <1>8
  <2> HIDE DEF d
  <2> QED BY <1>6, <2>1, SameRest
<1> QED BY <1>6, <1>9

\* A packet that is a little late is recognised by its number.
LEMMA NumLate ==
    ASSUME NEW f \in 0 .. Top, NEW n \in Nat, NEW t \in Nat, n < t, t - n < SeqMod
    PROVE  (Num(f, n) - Num(f, t)) % SeqMod = SeqMod - (t - n)
<1> DEFINE s == Num(f, n)
           r == Num(f, t)
           a == s - r
           m == a % SeqMod
           c == a \div SeqMod
           d == SeqMod - (t - n)
<1>1. PICK k \in Int : f + n = SeqMod * k + s
    BY NumFacts
<1>2. PICK j \in Int : f + t = SeqMod * j + r
    BY NumFacts
<1>3. r \in 0 .. Top /\ s \in 0 .. Top /\ f \in Int /\ Top \in Int /\ SeqMod \in Nat /\ Top = SeqMod - 1
  <2>1. r \in 0 .. Top /\ s \in 0 .. Top
    BY NumFacts
  <2> QED BY <2>1, SrtpAssumption DEF Top
<1> HIDE DEF r, s
<1>4. a \in Int
    BY <1>3
<1>5. m \in 0 .. Top /\ c \in Int /\ a = SeqMod * c + m
    BY <1>4, ModFacts
<1>6. a = s - r
    OBVIOUS
<1> HIDE DEF m, c, a
<1>7. d \in 0 .. Top
    BY <1>3
<1> DEFINE u == SeqMod * k
           v == SeqMod * j
           w == SeqMod * c
           x == SeqMod * (j - k - 1)
<1>8. u \in Int /\ v \in Int /\ w \in Int /\ x \in Int /\ x = v - u - SeqMod
    BY <1>3, <1>5
<1>9. f + n = u + s /\ f + t = v + r /\ a = w + m
    BY <1>1, <1>2, <1>5
<1>10. SeqMod * c + m = SeqMod * (j - k - 1) + d
  <2>1. w + m = x + d
    <3> HIDE DEF u, v, w, x
    <3> QED BY <1>3, <1>5, <1>6, <1>8, <1>9
  <2> QED BY <2>1
<1>11. m = d
  <2>1. j - k - 1 \in Int
    OBVIOUS
  <2> HIDE DEF d
  <2> QED BY <1>5, <1>7, <1>10, <2>1, SameRest
<1> QED BY <1>11 DEF m, a, r, s

-----------------------------------------------------------------------------
\* What an instance of RTCP makes of a packet.

StatsType == [base : Nat, max : Nat, bad : Nat, cycles : Nat, received : Nat, dropped : Nat]
PartType == [stats : StatsType, probation : Int, socket : BOOLEAN]
InstanceType ==
    [initial : Nat, part : PartType, receivers : Nat, senders : Nat,
     role : {"SENDER", "RECEIVER"}, deaf : BOOLEAN, crashed : BOOLEAN]

LEMMA NobodyType == Nobody \in PartType /\ ZeroStats \in StatsType /\ Nobody.probation = -1
BY DEF Nobody, ZeroStats, PartType, StatsType

\* The changes made to a participant and an instance.
WithStats(part, k, t) == [part EXCEPT !.probation = k, !.stats = t]
WithAdded(r, i, part, v) == [r EXCEPT !.initial = i, !.part = part, !.receivers = v]
WithSender(r, part, s) == [r EXCEPT !.part = part, !.senders = s]

LEMMA PartFields ==
    ASSUME NEW part \in PartType, NEW k \in Int, NEW t \in StatsType
    PROVE  /\ WithStats(part, k, t) \in PartType
           /\ WithStats(part, k, t).probation = k /\ WithStats(part, k, t).stats = t
BY DEF PartType, StatsType, WithStats

LEMMA AddedFields ==
    ASSUME NEW r \in InstanceType, NEW part \in PartType, NEW i \in Nat, NEW v \in Nat
    PROVE  /\ WithAdded(r, i, part, v) \in InstanceType /\ WithAdded(r, i, part, v).part = part
           /\ WithAdded(r, i, part, v).receivers = v /\ WithAdded(r, i, part, v).deaf = r.deaf
BY DEF InstanceType, WithAdded

LEMMA SenderFields ==
    ASSUME NEW r \in InstanceType, NEW part \in PartType, NEW s \in Nat
    PROVE  /\ WithSender(r, part, s) \in InstanceType /\ WithSender(r, part, s).part = part
           /\ WithSender(r, part, s).receivers = r.receivers /\ WithSender(r, part, s).deaf = r.deaf
BY DEF InstanceType, WithSender

LEMMA InitSeqFields ==
    ASSUME NEW s \in StatsType, NEW seq \in Nat
    PROVE  LET t == InitSeq(s, seq)
           IN  /\ t \in StatsType /\ t.base = seq /\ t.max = seq
               /\ t.cycles = s.cycles /\ t.received = s.received /\ t.dropped = s.dropped
<1>1. 1 % SeqMod \in Nat
    BY SrtpAssumption
<1> DEFINE o == 1 % SeqMod
<1> HIDE DEF o
<1>2. LET t == [s EXCEPT !.base = seq, !.max = seq, !.bad = o]
      IN  /\ t \in StatsType /\ t.base = seq /\ t.max = seq
          /\ t.cycles = s.cycles /\ t.received = s.received /\ t.dropped = s.dropped
    BY <1>1 DEF StatsType, o
<1> QED BY <1>2 DEF InitSeq, o

LEMMA AddFields ==
    ASSUME NEW r \in InstanceType, NEW leftover \in Nat
    PROVE  LET a == AddParticipant(r, leftover)
           IN  /\ a \in InstanceType /\ a.part.stats = ZeroStats /\ a.part.probation = leftover
               /\ a.receivers = r.receivers + 1 /\ a.deaf = r.deaf
<1> DEFINE i == IF r.initial > 0 THEN r.initial - 1 ELSE 0
           part == [stats |-> ZeroStats, probation |-> leftover, socket |-> r.initial > 0]
<1>1. i \in Nat /\ r.receivers \in Nat /\ (r.initial > 0) \in BOOLEAN
    BY DEF InstanceType
<1>2. part \in PartType /\ part.stats = ZeroStats /\ part.probation = leftover
    BY <1>1, NobodyType DEF PartType
<1> DEFINE v == r.receivers + 1
           a == WithAdded(r, i, part, v)
<1>3. AddParticipant(r, leftover) = a /\ v \in Nat
    BY <1>1 DEF AddParticipant, InstanceType, WithAdded
<1> HIDE DEF i, part, v
<1>4. a \in InstanceType /\ a.part = part /\ a.receivers = v /\ a.deaf = r.deaf
  <2>1. part \in PartType /\ i \in Nat /\ v \in Nat
    BY <1>1, <1>2, <1>3
  <2> QED BY <2>1, AddedFields
<1> QED BY <1>2, <1>3, <1>4, Zenon DEF v

\* One more packet counts.
Counted(s, t) ==
    /\ t \in StatsType /\ t.base = s.base /\ t.max = s.max /\ t.cycles = s.cycles
    /\ t.received = s.received + 1
    /\ t.dropped = IF Expected(s) - t.received >= 0 THEN Expected(s) - t.received ELSE 0

LEMMA UpdateStatisticsFields ==
    ASSUME NEW r \in InstanceType
    PROVE  LET a == UpdateSessionStatistics(r)
           IN  /\ a \in InstanceType /\ Counted(r.part.stats, a.part.stats)
               /\ a.part.probation = r.part.probation
               /\ a.receivers = r.receivers /\ a.deaf = r.deaf
<1> DEFINE received == r.part.stats.received + 1
           dropped == Expected(r.part.stats) - received
           low == IF dropped >= 0 THEN dropped ELSE 0
<1>1. r.part \in PartType /\ r.part.stats \in StatsType
    BY DEF InstanceType, PartType
<1>2. received \in Nat /\ low \in Nat
    BY <1>1 DEF StatsType, Expected
<1> HIDE DEF received, dropped, low
<1>3. UpdateSessionStatistics(r) = [r EXCEPT !.part.stats.received = received, !.part.stats.dropped = low]
    BY DEF UpdateSessionStatistics, received, dropped, low
<1>4. LET a == [r EXCEPT !.part.stats.received = received, !.part.stats.dropped = low]
          s == r.part.stats
          t == a.part.stats
      IN  /\ a \in InstanceType /\ t \in StatsType
          /\ t.base = s.base /\ t.max = s.max /\ t.cycles = s.cycles
          /\ t.received = received /\ t.dropped = low
          /\ a.part.probation = r.part.probation
          /\ a.receivers = r.receivers /\ a.deaf = r.deaf
    BY <1>1, <1>2 DEF InstanceType, PartType, StatsType
<1> QED BY <1>3, <1>4, Zenon DEF Counted, received, dropped, low

\* The statistics t of a participant of which s was known, after a packet of number
\* seq that does not count,
Passed(s, t) == t \in StatsType /\ t.base = s.base /\ t.max = s.max /\ t.cycles = s.cycles
                /\ t.received = s.received /\ t.dropped = s.dropped
Marked(s, t, seq) == t \in StatsType /\ t.base = s.base /\ t.max = seq /\ t.received = s.received
                     /\ t.dropped = s.dropped /\ (s.cycles = 0 => t.cycles = 0)
\* and one that starts the counting.
Restarted(s, t, seq) == t \in StatsType /\ t.base = seq /\ t.max = seq /\ t.cycles = s.cycles
                       /\ t.received = s.received /\ t.dropped = s.dropped
Udelta(part, seq) == (seq - part.stats.max) % SeqMod

LEMMA ProbationFields ==
    ASSUME NEW part \in PartType, NEW seq \in Nat, part.probation > 0
    PROVE  LET u == UpdateParticipantSeq(part, seq)
           IN  /\ u.p \in PartType /\ u.ok \in BOOLEAN
               /\ ~u.ok => /\ Marked(part.stats, u.p.stats, seq) /\ u.p.probation > 0
                           /\ (u.p.probation <= part.probation \/ u.p.probation = 1)
               /\ u.ok => /\ seq = part.stats.max + 1 /\ u.p.probation = 0
                          /\ Restarted(part.stats, u.p.stats, seq)
<1> DEFINE u == UpdateParticipantSeq(part, seq)
           s == part.stats
<1>0. s \in StatsType /\ part.probation \in Int /\ part.socket \in BOOLEAN
    BY DEF PartType
<1>1. u = OnProbation(part, seq)
    BY <1>0 DEF UpdateParticipantSeq
<1>2. CASE seq # s.max + 1
  <2> DEFINE t == [s EXCEPT !.max = seq]
             n == WithStats(part, 1, t)
  <2>0. t \in StatsType /\ Marked(s, t, seq)
    BY <1>0 DEF StatsType, Marked
  <2>1. u = Ignored(n)
    <3>1. u = Ignored([part EXCEPT !.probation = MinSequential - 1, !.stats.max = seq])
      BY <1>1, <1>2 DEF OnProbation, Probation
    <3>2. [part EXCEPT !.probation = MinSequential - 1, !.stats.max = seq] = n
      BY DEF PartType, StatsType, MinSequential, WithStats
    <3> QED BY <3>1, <3>2, Zenon
  <2> HIDE DEF t
  <2>2. n \in PartType /\ Marked(s, n.stats, seq) /\ n.probation = 1
    <3>0. 1 \in Int
      OBVIOUS
    <3>1. n \in PartType /\ n.stats = t /\ n.probation = 1
      BY <2>0, <3>0, PartFields
    <3> QED BY <2>0, <3>1, Zenon
  <2>3. ~u.ok /\ u.p = n
    BY <2>1 DEF Ignored
  <2> HIDE DEF n, u
  <2>4. u.p.probation > 0 /\ u.ok \in BOOLEAN
    BY <2>1, <2>2, <2>3 DEF Ignored
  <2> QED BY <2>2, <2>3, <2>4, Zenon DEF u
<1>3. CASE seq = s.max + 1 /\ part.probation > 1
  <2> DEFINE k == part.probation - 1
             t == [s EXCEPT !.max = seq]
             n == WithStats(part, k, t)
  <2>0. t \in StatsType /\ Marked(s, t, seq) /\ k \in Int
    BY <1>0 DEF StatsType, Marked
  <2>1. u = Ignored([part EXCEPT !.probation = @ - 1, !.stats.max = seq])
    <3>1. ~(seq # s.max + 1)
      BY <1>3
    <3> QED BY <1>1, <1>3, <3>1 DEF OnProbation, Probation
  <2>2. [part EXCEPT !.probation = @ - 1, !.stats.max = seq] = n
    BY DEF PartType, WithStats
  <2> HIDE DEF t, k
  <2>3. n \in PartType /\ Marked(s, n.stats, seq) /\ n.probation = k
    <3>1. n \in PartType /\ n.stats = t /\ n.probation = k
      BY <2>0, PartFields
    <3> QED BY <2>0, <3>1, Zenon
  <2>4. ~u.ok /\ u.p = n /\ u.ok \in BOOLEAN
    BY <2>1, <2>2 DEF Ignored
  <2> HIDE DEF n, u
  <2>5. u.p.probation > 0 /\ u.p.probation <= part.probation
    BY <1>0, <1>3, <2>3, <2>4 DEF k
  <2> QED BY <2>3, <2>4, <2>5, Zenon DEF u
<1>4. CASE seq = s.max + 1 /\ part.probation = 1
  <2> DEFINE t == InitSeq(s, seq)
             n == WithStats(part, 0, t)
  <2>0. ~(seq # s.max + 1) /\ ~(part.probation > 1)
    BY <1>4
  <2>1. u = Counts(n)
    BY <1>1, <1>4, <2>0, Zenon DEF OnProbation, Probation, WithStats
  <2>2. t \in StatsType /\ Restarted(s, t, seq)
    BY <1>0, InitSeqFields DEF Restarted
  <2> HIDE DEF t
  <2>3. n \in PartType /\ n.stats = t /\ n.probation = 0
    <3>1. 0 \in Int
      OBVIOUS
    <3> QED BY <2>2, <3>1, PartFields
  <2>4. u.ok /\ u.p = n /\ u.ok \in BOOLEAN
    BY <2>1 DEF Counts
  <2> HIDE DEF n, u
  <2> QED BY <1>4, <2>2, <2>3, <2>4, Zenon DEF u
<1> QED BY <1>0, <1>2, <1>3, <1>4

LEMMA SettledFields ==
    ASSUME NEW part \in PartType, NEW seq \in Nat, part.probation <= 0
    PROVE  LET u == UpdateParticipantSeq(part, seq)
           IN  /\ u.p \in PartType /\ u.ok \in BOOLEAN /\ u.p.probation = part.probation
               /\ ~u.ok => Passed(part.stats, u.p.stats)
               /\ u.ok => \/ Marked(part.stats, u.p.stats, seq) /\ Udelta(part, seq) < MaxDropout
                          \/ Restarted(part.stats, u.p.stats, seq) /\ Udelta(part, seq) <= SeqMod - MaxMisorder
                          \/ Passed(part.stats, u.p.stats)
<1> DEFINE u == UpdateParticipantSeq(part, seq)
           s == part.stats
           d == Udelta(part, seq)
<1>0. s \in StatsType /\ part.probation \in Int /\ part.socket \in BOOLEAN
    BY DEF PartType
<1>d. d \in Nat
    BY <1>0, ModFacts, SrtpAssumption DEF Udelta, StatsType, Top
<1> HIDE DEF d
<1>1. u = CASE part.probation > 0 -> OnProbation(part, seq)
            [] part.probation = 0 /\ d < MaxDropout -> InOrder(part, seq)
            [] part.probation = 0 /\ d \in MaxDropout .. SeqMod - MaxMisorder -> LargeJump(part, seq)
            [] OTHER -> Counts(part)
    BY DEF UpdateParticipantSeq, Udelta, d
<1>2. CASE part.probation = 0 /\ d < MaxDropout
  <2> DEFINE c == IF seq < s.max THEN (s.cycles + SeqMod) % SeqMod ELSE s.cycles
             n == [part EXCEPT !.stats.max = seq, !.stats.cycles = c]
  <2>0. c \in Nat /\ (s.cycles = 0 => c = 0)
    <3>1. s.cycles \in Nat /\ SeqMod \in Nat \ {0} /\ s.max \in Nat
      BY <1>0, SrtpAssumption DEF StatsType
    <3>2. (s.cycles + SeqMod) % SeqMod \in Nat
      BY <3>1
    <3>3. (0 + SeqMod) % SeqMod = 0
      BY <3>1
    <3> QED BY <3>1, <3>2, <3>3
  <2>1. u = [p |-> n, ok |-> TRUE]
    <3>0. ~(part.probation > 0) /\ d \notin MaxDropout .. SeqMod - MaxMisorder
      BY <1>2, <1>d, RtcpAssumption
    <3>1. u = InOrder(part, seq)
      BY <1>2, <1>1, <3>0, Zenon
    <3>2. [part EXCEPT !.stats.max = seq,
                       !.stats.cycles = IF seq < part.stats.max THEN (@ + SeqMod) % SeqMod ELSE @] = n
      OBVIOUS
    <3> QED BY <3>1, <3>2 DEF InOrder, Counts
  <2> HIDE DEF c
  <2>2. n \in PartType /\ Marked(s, n.stats, seq) /\ n.probation = part.probation
    BY <1>0, <2>0 DEF PartType, StatsType, Marked
  <2> HIDE DEF n
  <2> QED BY <1>2, <2>1, <2>2 DEF d
<1>3. CASE part.probation = 0 /\ d \in MaxDropout .. SeqMod - MaxMisorder
  <2>1. u = LargeJump(part, seq)
    <3>1. ~(d < MaxDropout)
      BY <1>3, <1>d, RtcpAssumption
    <3> QED BY <1>1, <1>3, <3>1
  <2>2. CASE seq = s.bad
    <3> DEFINE t == InitSeq(s, seq)
               n == [part EXCEPT !.stats = t]
    <3>1. u = [p |-> n, ok |-> TRUE]
      BY <2>1, <2>2 DEF LargeJump, Counts
    <3>2. t \in StatsType /\ Restarted(s, t, seq)
      BY <1>0, InitSeqFields DEF Restarted
    <3> HIDE DEF t
    <3>3. n \in PartType /\ n.stats = t /\ n.probation = part.probation
      BY <1>0, <3>2 DEF PartType
    <3> HIDE DEF n
    <3>4. d <= SeqMod - MaxMisorder
      BY <1>3
    <3> QED BY <3>1, <3>2, <3>3, <3>4 DEF d
  <2>3. CASE seq # s.bad
    <3> DEFINE o == (seq + 1) % SeqMod
               n == [part EXCEPT !.stats.bad = o]
    <3>1. u = [p |-> n, ok |-> FALSE]
      BY <2>1, <2>3 DEF LargeJump, Ignored
    <3>2. o \in Nat
      BY SrtpAssumption
    <3> HIDE DEF o
    <3>3. n \in PartType /\ Passed(s, n.stats) /\ n.probation = part.probation
      BY <1>0, <3>2 DEF PartType, StatsType, Passed
    <3> HIDE DEF n
    <3> QED BY <3>1, <3>3
  <2> QED BY <2>2, <2>3
<1>4. CASE ~(part.probation = 0 /\ d < MaxDropout)
           /\ ~(part.probation = 0 /\ d \in MaxDropout .. SeqMod - MaxMisorder)
  <2>1. u = [p |-> part, ok |-> TRUE]
    BY <1>0, <1>1, <1>4 DEF Counts
  <2>2. Passed(s, s)
    BY <1>0 DEF Passed
  <2> QED BY <2>1, <2>2
<1> QED BY <1>2, <1>3, <1>4

\* recv_packet_handler(): in the type, and the counts of the others stay.
LEMMA TakeRtpFields ==
    ASSUME NEW r \in InstanceType, NEW seq \in Nat
    PROVE  LET a == TakeRtp(r, seq)
               n == InitNewParticipant(r, seq)
               u == UpdateParticipantSeq(r.part, seq)
           IN  /\ a \in InstanceType /\ a.deaf = r.deaf
               /\ a.receivers = IF r.part = Nobody THEN r.receivers + 1 ELSE r.receivers
               /\ r.part = Nobody => /\ Counted(n.part.stats, a.part.stats)
                                     /\ a.part.probation = MinSequential
                                     /\ n.part.stats \in StatsType /\ n.part.stats.base = seq
                                     /\ n.part.stats.max = seq /\ n.part.stats.cycles = 0
                                     /\ n.part.stats.received = 0
               /\ r.part # Nobody =>
                     /\ a.part.probation = u.p.probation
                     /\ IF u.ok THEN Counted(u.p.stats, a.part.stats) ELSE a.part.stats = u.p.stats
<1> DEFINE a == TakeRtp(r, seq)
           n == InitNewParticipant(r, seq)
           u == UpdateParticipantSeq(r.part, seq)
<1>0. r.part \in PartType /\ r.part.probation \in Int /\ r.senders \in Nat /\ r.receivers \in Nat
    BY DEF InstanceType, PartType
<1>1. CASE r.part = Nobody
  <2>1. a = UpdateSessionStatistics(n)
    BY <1>1 DEF TakeRtp
  <2> DEFINE b == AddParticipant(r, MinSequential)
             t == InitSeq(b.part.stats, seq)
  <2>2. /\ b \in InstanceType /\ b.part.stats = ZeroStats /\ b.part.probation = MinSequential
        /\ b.receivers = r.receivers + 1 /\ b.deaf = r.deaf
    BY AddFields DEF MinSequential
  <2>3. n = [b EXCEPT !.part.stats = InitSeq(@, seq), !.senders = @ + 1]
    BY DEF InitNewParticipant
  <2>4. n = [b EXCEPT !.part.stats = t, !.senders = b.senders + 1]
    BY <2>3
  <2>5. t \in StatsType /\ t.base = seq /\ t.max = seq /\ t.cycles = 0 /\ t.received = 0
    <3>1. /\ t \in StatsType /\ t.base = seq /\ t.max = seq
          /\ t.cycles = ZeroStats.cycles /\ t.received = ZeroStats.received
      BY <2>2, NobodyType, InitSeqFields
    <3> QED BY <3>1 DEF ZeroStats
  <2> HIDE DEF b, t, n
  <2>6. /\ n \in InstanceType /\ n.part.stats = t /\ n.part.probation = MinSequential
        /\ n.receivers = r.receivers + 1 /\ n.deaf = r.deaf
    <3> DEFINE m == [b.part EXCEPT !.stats = t]
               c == b.senders + 1
    <3>1. m \in PartType /\ m.stats = t /\ m.probation = MinSequential
      BY <2>2, <2>5 DEF InstanceType, PartType, StatsType
    <3>2. n = WithSender(b, m, c)
      BY <2>2, <2>4 DEF InstanceType, PartType, StatsType, WithSender
    <3>3. c \in Nat
      BY <2>2 DEF InstanceType
    <3> HIDE DEF m, c
    <3>4. /\ n \in InstanceType /\ n.part = m /\ n.receivers = b.receivers /\ n.deaf = b.deaf
      BY <2>2, <3>1, <3>2, <3>3, SenderFields, Zenon
    <3> QED BY <2>2, <3>1, <3>4, Zenon
  <2>7. /\ a \in InstanceType /\ Counted(n.part.stats, a.part.stats)
        /\ a.part.probation = n.part.probation /\ a.receivers = n.receivers /\ a.deaf = n.deaf
    BY <2>1, <2>6, UpdateStatisticsFields
  <2> HIDE DEF a
  <2> QED BY <1>1, <2>5, <2>6, <2>7 DEF n, a
<1>2. CASE r.part # Nobody
  <2>1. u.p \in PartType /\ u.ok \in BOOLEAN
    BY <1>0, ProbationFields, SettledFields
  <2> DEFINE b == [r EXCEPT !.part = u.p]
  <2>2. a = IF u.ok THEN UpdateSessionStatistics(b) ELSE b
    BY <1>2, Zenon DEF TakeRtp
  <2> HIDE DEF u
  <2>3. b \in InstanceType /\ b.part = u.p /\ b.receivers = r.receivers /\ b.deaf = r.deaf
    BY <2>1 DEF InstanceType
  <2> HIDE DEF b, a
  <2>4. CASE u.ok
    <3>1. a = UpdateSessionStatistics(b)
      BY <2>2, <2>4
    <3>2. /\ a \in InstanceType /\ Counted(b.part.stats, a.part.stats)
          /\ a.part.probation = b.part.probation /\ a.receivers = b.receivers /\ a.deaf = b.deaf
      BY <2>3, <3>1, UpdateStatisticsFields
    <3> QED BY <1>2, <2>3, <2>4, <3>2 DEF a, u
  <2>5. CASE ~u.ok
    <3>1. a = b
      BY <2>2, <2>5
    <3> QED BY <1>2, <2>3, <2>5, <3>1 DEF a, u
  <2> QED BY <2>4, <2>5
<1> QED BY <1>1, <1>2

-----------------------------------------------------------------------------
\* What a participant's statistics say of the packets that have come in.

\* The packets of B from number b on.
From(B, b) == {m \in B : m >= b}

LEMMA FromTaken ==
    ASSUME NEW B \in SUBSET Nat, IsFiniteSet(B), NEW C, NEW n \in Nat, C \subseteq B \cup {n},
           NEW b \in Nat, NEW c \in Nat, b <= c, NEW r \in Nat, Cardinality(From(B, b)) <= r
    PROVE  Cardinality(From(C, c)) <= r + 1
<1>1. IsFiniteSet(From(B, b))
    BY FS_Subset DEF From
<1>2. /\ IsFiniteSet(From(B, b) \cup {n})
      /\ Cardinality(From(B, b) \cup {n}) <= Cardinality(From(B, b)) + 1
  <2> DEFINE X == From(B, b)
  <2>1. Cardinality(X) \in Nat
    BY <1>1, FS_CardinalityType
  <2> HIDE DEF X
  <2>2. /\ IsFiniteSet(X \cup {n})
        /\ Cardinality(X \cup {n}) = IF n \in X THEN Cardinality(X) ELSE Cardinality(X) + 1
    BY <1>1, FS_AddElement DEF X
  <2>3. Cardinality(X \cup {n}) <= Cardinality(X) + 1
    BY <2>1, <2>2
  <2> QED BY <2>2, <2>3 DEF X
<1>3. From(C, c) \subseteq From(B, b) \cup {n}
  <2> SUFFICES ASSUME NEW m \in C, m >= c
               PROVE  m \in From(B, b) \cup {n}
      BY DEF From
  <2>1. m \in B \/ m = n
    OBVIOUS
  <2>2. m \in B => m \in Nat
    OBVIOUS
  <2>3. m \in B => m >= b
    BY <2>2
  <2> QED BY <2>1, <2>3 DEF From
<1>4. /\ IsFiniteSet(From(C, c))
      /\ Cardinality(From(C, c)) <= Cardinality(From(B, b) \cup {n})
    BY <1>2, <1>3, FS_Subset
<1> QED BY <1>1, <1>2, <1>4, FS_CardinalityType

\* Between two numbers no more packets are expected than have come in or are missing.
LEMMA ExpectedMissing ==
    ASSUME NEW S \in Nat, NEW B, B \subseteq 0 .. S - 1, NEW b \in Nat, NEW t \in Nat, b <= t, t < S,
           NEW r \in Nat, Cardinality(From(B, b)) <= r
    PROVE  t - b + 1 - r <= Cardinality((0 .. S - 1) \ B)
<1> DEFINE I == b .. t
           M == (0 .. S - 1) \ B
           X == I \cap B
           Y == I \ B
<1>1. IsFiniteSet(0 .. S - 1) /\ IsFiniteSet(I) /\ Cardinality(I) = t - b + 1
    BY FS_Interval
<1>2. IsFiniteSet(B) /\ IsFiniteSet(M) /\ IsFiniteSet(X) /\ IsFiniteSet(Y)
    BY <1>1, FS_Subset
<1>3. Cardinality(I) = Cardinality(X) + Cardinality(Y)
  <2>1. X \cup Y = I /\ X \cap Y = {}
    OBVIOUS
  <2> HIDE DEF X, Y, I
  <2>2. Cardinality(X \cup Y) = Cardinality(X) + Cardinality(Y) - Cardinality(X \cap Y)
    BY <1>2, FS_Union
  <2>3. Cardinality(X) \in Nat /\ Cardinality(Y) \in Nat
    BY <1>2, FS_CardinalityType
  <2>4. Cardinality(X \cap Y) = 0
    BY <2>1, FS_EmptySet
  <2>5. Cardinality(X \cup Y) = Cardinality(I)
    BY <2>1
  <2> QED BY <2>2, <2>3, <2>4, <2>5
<1>4. Cardinality(Y) <= Cardinality(M)
  <2>1. Y \subseteq M
    OBVIOUS
  <2> QED BY <1>2, <2>1, FS_Subset
<1>5. Cardinality(X) <= Cardinality(From(B, b))
  <2>1. X \subseteq From(B, b) /\ From(B, b) \subseteq B
    BY DEF From
  <2>2. IsFiniteSet(From(B, b))
    BY <1>2, <2>1, FS_Subset
  <2> QED BY <2>1, <2>2, FS_Subset
<1>6. /\ Cardinality(X) \in Nat /\ Cardinality(Y) \in Nat /\ Cardinality(M) \in Nat
      /\ Cardinality(From(B, b)) \in Nat
  <2>1. IsFiniteSet(From(B, b))
    BY <1>2, FS_Subset DEF From
  <2> QED BY <1>2, <2>1, FS_CardinalityType
<1> HIDE DEF I, M, X, Y
<1>7. t - b + 1 - r <= Cardinality(M)
    BY <1>1, <1>3, <1>4, <1>5, <1>6
<1> QED BY <1>7 DEF M

\* Of the S packets sent from number f on, those of A have come in, those of J after a
\* jump, and number q is the first that has neither been handed over nor lost.  On
\* probation the last packet is known, and none is called dropped; after it the
\* base and the last in order are, and at least the packets counted from the base on.
OnTrial(part, f, A, q) ==
    /\ part.stats.dropped = 0
    /\ \E l \in A : /\ part.stats.max = Num(f, l)
                    /\ (\E m \in A : m >= q) => l >= q
Settled(part, f, B, A, S) ==
    /\ part.stats.dropped <= Cardinality((0 .. S - 1) \ B)
    /\ \E b, t \in A : /\ b <= t /\ part.stats.base = Num(f, b) /\ part.stats.max = Num(f, t)
                       /\ Cardinality(From(B, b)) <= part.stats.received
Tally(part, f, A, J, S, q) ==
    /\ part.probation \in 0 .. MinSequential /\ part.stats.cycles = 0
    /\ part.probation > 0 => OnTrial(part, f, A, q)
    /\ part.probation = 0 => Settled(part, f, A \ J, A, S)

\* A packet that counts.
LEMMA CountedSettles ==
    ASSUME NEW part \in PartType, NEW s \in StatsType, Counted(s, part.stats), s.cycles = 0,
           NEW f \in 0 .. Top, NEW S \in Nat, NEW A, A \subseteq 0 .. S - 1, NEW B, B \subseteq A,
           NEW b \in A, NEW t \in A, b <= t, s.base = Num(f, b), s.max = Num(f, t),
           Cardinality(From(B, b)) <= s.received + 1
    PROVE  Settled(part, f, B, A, S)
<1> DEFINE r == part.stats.received
           M == Cardinality((0 .. S - 1) \ B)
<1>1. /\ b \in Nat /\ t \in Nat /\ t < S /\ S - 1 \in Int
      /\ s.received \in Nat /\ s.base \in Nat /\ s.max \in Nat /\ part.stats \in StatsType
    BY DEF StatsType, PartType
<1>2. r = s.received + 1 /\ r \in Nat /\ part.stats.base = s.base /\ part.stats.max = s.max
    BY <1>1 DEF Counted
<1>3. Expected(s) <= t - b + 1 /\ Expected(s) \in Int
  <2>1. Num(f, t) - Num(f, b) <= t - b
    BY <1>1, NumSpan
  <2>2. Expected(s) = s.max - s.base + 1
    BY <1>1 DEF Expected
  <2>3. s.max - s.base <= t - b
    BY <2>1
  <2> QED BY <1>1, <2>2, <2>3
<1>4. t - b + 1 - r <= M
  <2>1. B \subseteq 0 .. S - 1 /\ Cardinality(From(B, b)) <= r
    BY <1>2
  <2> QED BY <1>1, <1>2, <2>1, ExpectedMissing
<1>5. M \in Nat
  <2>1. IsFiniteSet(0 .. S - 1)
    BY <1>1, FS_Interval
  <2>2. IsFiniteSet((0 .. S - 1) \ B)
    BY <2>1, FS_Subset
  <2> QED BY <2>2, FS_CardinalityType
<1> HIDE DEF M
<1>6. part.stats.dropped <= M
  <2>1. part.stats.dropped = IF Expected(s) - r >= 0 THEN Expected(s) - r ELSE 0
    BY DEF Counted
  <2> QED BY <1>1, <1>2, <1>3, <1>4, <1>5, <2>1
<1>7. Cardinality(From(B, b)) <= r
    BY <1>2
<1> QED BY <1>2, <1>6, <1>7 DEF Settled, M

\* A packet that comes in: number n, the queue's first number being q before and o
\* afterwards.
Comes(A, n, q, o, S) ==
    /\ A \subseteq 0 .. S - 1 /\ n \in 0 .. S - 1 /\ q \in Nat /\ o \in Nat /\ n >= q
    /\ \A m \in A : m - n < MaxMisorder
    /\ n = q \/ \A m \in A : m < n
    /\ n >= o \/ \A m \in A \cup {n} : m < o

LEMMA FirstTally ==
    ASSUME NEW r \in InstanceType, r.part = Nobody, NEW f \in 0 .. Top, NEW S \in Nat, NEW A, NEW J,
           NEW n, NEW q, NEW o, Comes(A, n, q, o, S)
    PROVE  Tally(TakeRtp(r, Num(f, n)).part, f, A \cup {n}, J, S, o)
<1> DEFINE part == TakeRtp(r, Num(f, n)).part
           s == InitNewParticipant(r, Num(f, n)).part.stats
<1>0. n \in Nat /\ Num(f, n) \in Nat
  <2>1. n \in Nat
    BY DEF Comes
  <2> QED BY <2>1, NumFacts, SrtpAssumption DEF Top
<1>1. /\ Counted(s, part.stats) /\ part.probation = MinSequential
      /\ s \in StatsType /\ s.base = Num(f, n) /\ s.max = Num(f, n) /\ s.cycles = 0 /\ s.received = 0
    BY <1>0, TakeRtpFields
<1> HIDE DEF part, s
<1>2. part.stats.dropped = 0
  <2>1. Expected(s) = 1
    BY <1>0, <1>1 DEF Expected
  <2>2. part.stats.received = 1
    BY <1>1 DEF Counted
  <2> QED BY <1>1, <2>1, <2>2 DEF Counted
<1>3. part.stats.max = Num(f, n) /\ part.stats.cycles = 0
    BY <1>1 DEF Counted
<1>4. OnTrial(part, f, A \cup {n}, o)
  <2>1. (\E m \in A \cup {n} : m >= o) => n >= o
    BY DEF Comes
  <2> QED BY <1>2, <1>3, <2>1 DEF OnTrial
<1> QED BY <1>1, <1>3, <1>4 DEF Tally, MinSequential, part

LEMMA TrialTally ==
    ASSUME NEW r \in InstanceType, r.part # Nobody, NEW f \in 0 .. Top, NEW S \in Nat, NEW A, NEW J,
           NEW n, NEW q, NEW o, Comes(A, n, q, o, S), Tally(r.part, f, A, J, S, q), r.part.probation > 0
    PROVE  Tally(TakeRtp(r, Num(f, n)).part, f, A \cup {n}, J, S, o)
<1> DEFINE seq == Num(f, n)
           part == TakeRtp(r, seq).part
           u == UpdateParticipantSeq(r.part, seq)
           s == r.part.stats
<1>0. n \in Nat /\ seq \in Nat /\ A \subseteq Nat /\ r.part \in PartType /\ s \in StatsType
  <2>1. n \in Nat /\ A \subseteq Nat
    BY DEF Comes
  <2>2. seq \in Nat
    BY <2>1, NumFacts, SrtpAssumption DEF Top
  <2>3. r.part \in PartType /\ s \in StatsType
    BY DEF InstanceType, PartType
  <2> QED BY <2>1, <2>2, <2>3
<1>1. /\ u.ok \in BOOLEAN
      /\ ~u.ok => /\ Marked(s, u.p.stats, seq) /\ u.p.probation > 0
                  /\ (u.p.probation <= r.part.probation \/ u.p.probation = 1)
      /\ u.ok => /\ seq = s.max + 1 /\ u.p.probation = 0
                 /\ Restarted(s, u.p.stats, seq)
      /\ u.p \in PartType
    BY <1>0, ProbationFields
<1>2. /\ part \in PartType /\ part.probation = u.p.probation
      /\ IF u.ok THEN Counted(u.p.stats, part.stats) ELSE part.stats = u.p.stats
    BY <1>0, TakeRtpFields DEF InstanceType
<1>3. /\ r.part.probation \in 0 .. MinSequential /\ s.cycles = 0 /\ s.dropped = 0
    BY DEF Tally, OnTrial
<1>4. PICK l \in A : s.max = Num(f, l) /\ ((\E m \in A : m >= q) => l >= q)
    BY DEF Tally, OnTrial
<1>5. CASE ~u.ok
  <2> HIDE DEF part, u
  <2>1. part.stats.dropped = 0 /\ part.stats.cycles = 0 /\ part.stats.max = seq
    BY <1>1, <1>2, <1>3, <1>5 DEF Marked
  <2>2. (\E m \in A \cup {n} : m >= o) => n >= o
    BY DEF Comes
  <2>3. OnTrial(part, f, A \cup {n}, o)
    BY <2>1, <2>2 DEF OnTrial
  <2>4. part.probation \in 0 .. MinSequential /\ part.probation > 0
    BY <1>1, <1>2, <1>3, <1>5 DEF MinSequential, PartType
  <2> QED BY <2>1, <2>3, <2>4 DEF Tally, part
<1>6. CASE u.ok
  <2> HIDE DEF part, u
  <2>1. n > l
    <3> SUFFICES ASSUME n <= l PROVE FALSE
        BY <1>0
    <3>1. l \in Nat /\ l - n < Top
      BY <1>0, RtcpAssumption, SrtpAssumption DEF Comes, Top
    <3> QED BY <1>0, <1>1, <1>4, <1>6, <3>1, NumNext
  <2>2. \A m \in A : m < n
    BY <1>0, <1>4, <2>1 DEF Comes
  <2>3. /\ part.probation = 0 /\ Restarted(s, u.p.stats, seq) /\ Counted(u.p.stats, part.stats)
    BY <1>1, <1>2, <1>6
  <2>4. part.stats.cycles = 0
    BY <1>3, <2>3 DEF Restarted, Counted
  <2> DEFINE B == (A \cup {n}) \ J
             v == u.p.stats
  <2>5. Cardinality(From(B, n)) <= v.received + 1
    <3>1. From(B, n) \subseteq {n}
      <4> SUFFICES ASSUME NEW m \in A, m >= n PROVE m = n
          BY DEF From
      <4> QED BY <1>0, <2>2
    <3>2. IsFiniteSet({n}) /\ Cardinality({n}) = 1
      BY FS_Singleton
    <3>3. IsFiniteSet(From(B, n)) /\ Cardinality(From(B, n)) <= 1
      BY <3>1, <3>2, FS_Subset
    <3>4. v.received \in Nat
      BY <1>1, <2>3 DEF Restarted, StatsType
    <3>5. Cardinality(From(B, n)) \in Nat
      BY <3>3, FS_CardinalityType
    <3> QED BY <3>3, <3>4, <3>5
  <2>6. v \in StatsType /\ v.cycles = 0 /\ v.base = seq /\ v.max = seq
    BY <1>3, <2>3 DEF Restarted
  <2>7. Settled(part, f, B, A \cup {n}, S)
    <3>1. A \cup {n} \subseteq 0 .. S - 1 /\ B \subseteq A \cup {n} /\ n \in A \cup {n} /\ n <= n
      BY <1>0 DEF Comes
    <3> HIDE DEF B, v
    <3> QED BY <1>2, <2>3, <2>5, <2>6, <3>1, CountedSettles DEF v
  <2>8. part.probation \in 0 .. MinSequential /\ ~(part.probation > 0)
    BY <2>3 DEF MinSequential
  <2> QED BY <2>4, <2>7, <2>8 DEF Tally, part
<1> QED BY <1>1, <1>5, <1>6

LEMMA SettledTally ==
    ASSUME NEW r \in InstanceType, r.part # Nobody, NEW f \in 0 .. Top, NEW S \in Nat, NEW A, NEW J,
           NEW n, NEW q, NEW o, Comes(A, n, q, o, S), Tally(r.part, f, A, J, S, q), r.part.probation = 0
    PROVE  LET a == TakeRtp(r, Num(f, n))
               K == IF a.part.stats.received = r.part.stats.received THEN J \cup {n} ELSE J
           IN  Tally(a.part, f, A \cup {n}, K, S, o)
<1> DEFINE seq == Num(f, n)
           part == TakeRtp(r, seq).part
           u == UpdateParticipantSeq(r.part, seq)
           s == r.part.stats
           v == u.p.stats
           K == IF part.stats.received = s.received THEN J \cup {n} ELSE J
           C == (A \cup {n}) \ K
<1>0. /\ n \in Nat /\ seq \in Nat /\ A \subseteq Nat /\ n < S
      /\ r.part \in PartType /\ s \in StatsType /\ s.received \in Nat
  <2>1. n \in Nat /\ A \subseteq Nat /\ n < S
    BY DEF Comes
  <2>2. seq \in Nat
    BY <2>1, NumFacts, SrtpAssumption DEF Top
  <2>3. r.part \in PartType /\ s \in StatsType
    BY DEF InstanceType, PartType
  <2>4. s.received \in Nat
    BY <2>3 DEF StatsType
  <2> QED BY <2>1, <2>2, <2>3, <2>4
<1>1. /\ u.p \in PartType /\ u.ok \in BOOLEAN /\ u.p.probation = 0
      /\ ~u.ok => Passed(s, v)
      /\ u.ok => \/ Marked(s, v, seq) /\ Udelta(r.part, seq) < MaxDropout
                 \/ Restarted(s, v, seq) /\ Udelta(r.part, seq) <= SeqMod - MaxMisorder
                 \/ Passed(s, v)
    BY <1>0, SettledFields
<1>2. /\ part \in PartType /\ part.probation = 0
      /\ IF u.ok THEN Counted(v, part.stats) ELSE part.stats = v
    BY <1>0, <1>1, TakeRtpFields DEF InstanceType
<1>3. s.cycles = 0 /\ Settled(r.part, f, A \ J, A, S)
    BY DEF Tally
<1>4. PICK b \in A, t \in A : /\ b <= t /\ s.base = Num(f, b) /\ s.max = Num(f, t)
                              /\ Cardinality(From(A \ J, b)) <= s.received
    BY <1>3 DEF Settled
<1>5. IsFiniteSet(0 .. S - 1) /\ IsFiniteSet(A) /\ IsFiniteSet(A \ J) /\ IsFiniteSet(C)
      /\ A \cup {n} \subseteq 0 .. S - 1 /\ C \subseteq A \cup {n} /\ C \subseteq (A \ J) \cup {n}
      /\ A \ J \in SUBSET Nat
  <2>0. 0 \in Int /\ S - 1 \in Int
    OBVIOUS
  <2>1. IsFiniteSet(0 .. S - 1)
    BY ONLY <2>0, FS_Interval
  <2>3. A \subseteq 0 .. S - 1 /\ n \in 0 .. S - 1
    BY DEF Comes
  <2>4. J \subseteq K
    OBVIOUS
  <2> HIDE DEF K
  <2>2. A \cup {n} \subseteq 0 .. S - 1 /\ C \subseteq A \cup {n} /\ C \subseteq (A \ J) \cup {n}
    BY <2>3, <2>4
  <2>5. A \in SUBSET (0 .. S - 1) /\ C \in SUBSET (0 .. S - 1) /\ A \ J \in SUBSET (0 .. S - 1)
    BY <2>2, <2>3
  <2> HIDE DEF C
  <2> QED BY <1>0, <2>1, <2>2, <2>5, FS_Subset
<1> HIDE DEF C
<1> SUFFICES part.stats.cycles = 0 /\ Settled(part, f, C, A \cup {n}, S)
    BY <1>2 DEF Tally, C, MinSequential
<1> HIDE DEF part, u, v
<1>6. CASE ~u.ok
  <2>1. part.stats = v /\ Passed(s, v) /\ part.stats.received = s.received
    BY <1>1, <1>2, <1>6 DEF Passed
  <2>2. C = A \ (J \cup {n})
    BY <2>1 DEF C
  <2>3. Cardinality((0 .. S - 1) \ (A \ J)) <= Cardinality((0 .. S - 1) \ C)
    <3>1. IsFiniteSet((0 .. S - 1) \ C)
      BY <1>5, FS_Subset
    <3>2. (0 .. S - 1) \ (A \ J) \subseteq (0 .. S - 1) \ C
      BY <2>2
    <3> QED BY <3>1, <3>2, FS_Subset
  <2>4. Cardinality(From(C, b)) <= Cardinality(From(A \ J, b))
    <3>1. From(C, b) \subseteq From(A \ J, b) /\ From(A \ J, b) \subseteq A \ J
      BY <2>2 DEF From
    <3>2. IsFiniteSet(From(A \ J, b))
      BY <1>5, <3>1, FS_Subset
    <3> QED BY <3>1, <3>2, FS_Subset
  <2>5. /\ Cardinality((0 .. S - 1) \ (A \ J)) \in Nat /\ Cardinality((0 .. S - 1) \ C) \in Nat
        /\ Cardinality(From(C, b)) \in Nat /\ Cardinality(From(A \ J, b)) \in Nat
    <3>1. /\ IsFiniteSet((0 .. S - 1) \ (A \ J)) /\ IsFiniteSet((0 .. S - 1) \ C)
          /\ IsFiniteSet(From(C, b)) /\ IsFiniteSet(From(A \ J, b))
      BY <1>5, FS_Subset DEF From
    <3> QED BY <3>1, FS_CardinalityType
  <2>6. /\ part.stats.cycles = 0 /\ part.stats.base = s.base /\ part.stats.max = s.max
        /\ part.stats.dropped = s.dropped /\ part.stats.received = s.received
    BY <1>3, <2>1 DEF Passed
  <2>7. s.dropped <= Cardinality((0 .. S - 1) \ (A \ J)) /\ s.dropped \in Nat
    BY <1>0, <1>3 DEF Settled, StatsType
  <2>8. part.stats.dropped <= Cardinality((0 .. S - 1) \ C)
    BY <2>3, <2>5, <2>6, <2>7
  <2>9. Cardinality(From(C, b)) <= part.stats.received
    BY <1>0, <1>4, <2>4, <2>5, <2>6
  <2> QED BY <1>4, <2>6, <2>8, <2>9 DEF Settled
<1>7. CASE u.ok
  <2>1. Counted(v, part.stats) /\ v.received = s.received /\ v \in StatsType /\ v.cycles = 0
        /\ part.stats.cycles = 0
    BY <1>1, <1>2, <1>3, <1>7 DEF Passed, Marked, Restarted, Counted
  <2>2. Cardinality(From(C, b)) <= v.received + 1
    <3>1. b \in Nat /\ b <= b
      BY <1>0
    <3>2. Cardinality(From(C, b)) <= s.received + 1
      BY <1>0, <1>4, <1>5, <3>1, FromTaken
    <3> QED BY <2>1, <3>2
  <2>3. n < t => Passed(s, v)
    <3> SUFFICES ASSUME n < t PROVE Passed(s, v)
        OBVIOUS
    <3>1. t \in Nat /\ t - n < MaxMisorder /\ t - n < SeqMod
      <4>1. t \in Nat /\ t - n < MaxMisorder
        BY <1>0 DEF Comes
      <4>2. MaxMisorder \in Nat /\ MaxMisorder < SeqMod /\ SeqMod \in Nat
        BY RtcpAssumption, SrtpAssumption
      <4> QED BY <1>0, <4>1, <4>2
    <3>2. Udelta(r.part, seq) = SeqMod - (t - n)
      <4>1. (Num(f, n) - Num(f, t)) % SeqMod = SeqMod - (t - n)
        BY <1>0, <3>1, NumLate
      <4> QED BY <1>4, <4>1 DEF Udelta
    <3>3. ~(Udelta(r.part, seq) < MaxDropout) /\ ~(Udelta(r.part, seq) <= SeqMod - MaxMisorder)
      BY <1>0, <3>1, <3>2, RtcpAssumption, SrtpAssumption
    <3> QED BY <1>1, <1>7, <3>3
  <2>4. CASE Passed(s, v)
    <3>1. v.base = Num(f, b) /\ v.max = Num(f, t) /\ b \in A \cup {n} /\ t \in A \cup {n} /\ b <= t
      BY <1>4, <2>4 DEF Passed
    <3> QED BY <1>2, <1>5, <2>1, <2>2, <3>1, CountedSettles
  <2>5. CASE ~(n < t) /\ Marked(s, v, seq)
    <3>1. v.base = Num(f, b) /\ v.max = Num(f, n) /\ b \in A \cup {n} /\ n \in A \cup {n} /\ b <= n
      BY <1>0, <1>4, <2>5 DEF Marked
    <3> QED BY <1>2, <1>5, <2>1, <2>2, <3>1, CountedSettles
  <2>6. CASE ~(n < t) /\ Restarted(s, v, seq)
    <3>1. v.base = Num(f, n) /\ v.max = Num(f, n) /\ n \in A \cup {n} /\ n <= n /\ b <= n
      BY <1>0, <1>4, <2>6 DEF Restarted
    <3>2. Cardinality(From(C, n)) <= v.received + 1
      BY <1>0, <1>4, <1>5, <2>1, <3>1, FromTaken
    <3> QED BY <1>2, <1>5, <2>1, <3>1, <3>2, CountedSettles
  <2>7. Settled(part, f, C, A \cup {n}, S)
    BY <1>1, <1>7, <2>3, <2>4, <2>5, <2>6
  <2> QED BY <2>1, <2>7
<1> QED BY <1>1, <1>6, <1>7

-----------------------------------------------------------------------------
\* The packets under way.

\* Of S packets those of A have come in and those of s are under way: in order, but
\* for the first, which k faults of the network may have held back.
Front(s, S) == IF s = <<>> THEN S ELSE s[1].n
Flight(A, S, s, k) ==
    /\ A \subseteq 0 .. S - 1
    /\ \A m \in A : m <= S - Len(s)
    /\ \A i \in 2 .. Len(s) : s[i].n = S - Len(s) + i - 1
    /\ s # <<>> => s[1].n \in Nat /\ s[1].n <= S - Len(s) /\ S - Len(s) <= s[1].n + k

LEMMA FlightFront ==
    ASSUME NEW S \in Nat, NEW A, NEW s, NEW k \in Nat, IsQueue(s), Flight(A, S, s, k)
    PROVE  /\ Len(s) \in Nat /\ Front(s, S) \in 0 .. S
           /\ s # <<>> => Len(s) >= 1 /\ s[1] = Head(s) /\ s[1].n \in 0 .. S - 1
           /\ Len(s) > 1 => s # <<>> /\ s[2].n = S - Len(s) + 1 /\ s[2].n \in 0 .. S - 1
<1>1. PICK T : s \in Seq(T)
    BY DEF IsQueue
<1>2. Len(s) \in Nat /\ (s # <<>> => Len(s) >= 1 /\ s[1] = Head(s)) /\ (Len(s) > 1 => s # <<>>)
    BY <1>1
<1>3. s # <<>> => s[1].n \in 0 .. S - 1
    BY <1>2 DEF Flight
<1>4. Len(s) > 1 => s[2].n = S - Len(s) + 1 /\ s[2].n \in 0 .. S - 1
  <2> SUFFICES ASSUME Len(s) > 1 PROVE s[2].n = S - Len(s) + 1 /\ s[2].n \in 0 .. S - 1
      OBVIOUS
  <2>1. 2 \in 2 .. Len(s)
    BY <1>2
  <2>2. s[2].n = S - Len(s) + 2 - 1
    BY <2>1 DEF Flight
  <2>3. S - Len(s) \in Nat
    BY <1>2 DEF Flight
  <2> QED BY <1>2, <2>2, <2>3
<1> QED BY <1>2, <1>3, <1>4 DEF Front

LEMMA FlightSent ==
    ASSUME NEW S \in Nat, NEW A, NEW s, NEW k \in Nat, IsQueue(s), Flight(A, S, s, k), NEW x, x.n = S
    PROVE  Flight(A, S + 1, Append(s, x), k) /\ Front(Append(s, x), S + 1) = Front(s, S)
<1>1. PICK T : s \in Seq(T)
    BY DEF IsQueue
<1>2. s \in Seq(T \cup {x})
    BY <1>1
<1> DEFINE t == Append(s, x)
<1>3. Len(s) \in Nat /\ Len(t) = Len(s) + 1 /\ t[Len(s) + 1] = x
      /\ (\A i \in 1 .. Len(s) : t[i] = s[i]) /\ t # <<>> /\ (s = <<>> => Len(s) = 0)
      /\ (s # <<>> => Len(s) >= 1)
  <2>1. Len(s) \in Nat /\ Len(t) = Len(s) + 1 /\ t[Len(s) + 1] = x /\ \A i \in 1 .. Len(s) : t[i] = s[i]
    BY <1>2
  <2>2. (s = <<>> => Len(s) = 0) /\ (s # <<>> => Len(s) >= 1)
    BY <1>2
  <2>3. t \in Seq(T \cup {x})
    BY <1>2
  <2> HIDE DEF t
  <2>4. t # <<>>
    BY <2>1, <2>3
  <2> QED BY <2>1, <2>2, <2>4
<1> HIDE DEF t
<1>4. t[1].n = Front(s, S)
  <2>1. CASE s = <<>>
    BY <1>3, <2>1 DEF Front
  <2>2. CASE s # <<>>
    BY <1>3, <2>2 DEF Front
  <2> QED BY <2>1, <2>2
<1>5. A \subseteq 0 .. (S + 1) - 1 /\ \A m \in A : m <= S + 1 - Len(t)
    BY <1>3 DEF Flight
<1>6. ASSUME NEW i \in 2 .. Len(t) PROVE t[i].n = S + 1 - Len(t) + i - 1
  <2>1. CASE i <= Len(s)
    <3>1. i \in 2 .. Len(s) /\ t[i] = s[i]
      BY <1>3, <2>1
    <3>2. s[i].n = S - Len(s) + i - 1
      BY <3>1 DEF Flight
    <3> QED BY <1>3, <3>1, <3>2
  <2>2. CASE i = Len(t)
    BY <1>3, <2>2
  <2> QED BY <1>3, <2>1, <2>2
<1>7. t[1].n \in Nat /\ t[1].n <= S + 1 - Len(t) /\ S + 1 - Len(t) <= t[1].n + k
    BY <1>3, <1>4 DEF Flight, Front
<1>8. Front(t, S + 1) = Front(s, S)
    BY <1>3, <1>4 DEF Front
<1> QED BY <1>5, <1>6, <1>7, <1>8 DEF Flight, t

LEMMA FlightTail ==
    ASSUME NEW S \in Nat, NEW A, NEW s, NEW k \in Nat, IsQueue(s), Flight(A, S, s, k), s # <<>>
    PROVE  /\ Flight(A, S, Tail(s), k) /\ Flight(A \cup {s[1].n}, S, Tail(s), k)
           /\ \A m \in A \cup {s[1].n} : m < Front(Tail(s), S)
<1>1. PICK T : s \in Seq(T)
    BY DEF IsQueue
<1> DEFINE t == Tail(s)
           n == s[1].n
<1>2. /\ Len(s) \in Nat /\ Len(s) >= 1 /\ Len(t) = Len(s) - 1
      /\ (\A i \in 1 .. Len(s) - 1 : t[i] = s[i + 1]) /\ (t = <<>> => Len(t) = 0) /\ (t # <<>> => Len(t) >= 1)
  <2>1. /\ Len(s) \in Nat /\ Len(s) >= 1 /\ Len(t) = Len(s) - 1
        /\ \A i \in 1 .. Len(s) - 1 : t[i] = s[i + 1]
    BY <1>1
  <2>2. t \in Seq(T)
    BY <1>1
  <2> HIDE DEF t
  <2>3. (t = <<>> => Len(t) = 0) /\ (t # <<>> => Len(t) >= 1)
    BY <2>2
  <2> QED BY <2>1, <2>3
<1>3. n \in 0 .. S - 1 /\ n <= S - Len(s)
    BY <1>2 DEF Flight
<1> HIDE DEF t, n
<1>4. ASSUME NEW i \in 1 .. Len(t) PROVE t[i].n = S - Len(t) + i - 1
  <2>1. t[i] = s[i + 1] /\ i + 1 \in 2 .. Len(s)
    BY <1>2
  <2>2. s[i + 1].n = S - Len(s) + (i + 1) - 1
    BY <2>1 DEF Flight
  <2> QED BY <1>2, <2>1, <2>2
<1>5. A \cup {n} \subseteq 0 .. S - 1 /\ \A m \in A \cup {n} : m <= S - Len(s)
    BY <1>3 DEF Flight
<1>6. \A m \in A \cup {n} : m \in Int /\ m < S - Len(t) /\ m < S
    BY <1>2, <1>5
<1>7. t # <<>> => /\ t[1].n \in Nat /\ t[1].n = S - Len(t)
                  /\ S - Len(t) <= t[1].n + k
  <2> SUFFICES ASSUME t # <<>>
               PROVE  t[1].n \in Nat /\ t[1].n = S - Len(t) /\ S - Len(t) <= t[1].n + k
      OBVIOUS
  <2>1. 1 \in 1 .. Len(t)
    BY <1>2
  <2>2. t[1].n = S - Len(t)
    BY <1>2, <1>4, <2>1
  <2>3. S - Len(t) \in Nat
    BY <1>2, <1>3
  <2> QED BY <2>2, <2>3
<1>8. \A i \in 2 .. Len(t) : t[i].n = S - Len(t) + i - 1
    BY <1>4
<1>9. \A m \in A \cup {n} : m < Front(t, S)
    BY <1>6, <1>7 DEF Front
<1>10. Flight(A, S, t, k) /\ Flight(A \cup {n}, S, t, k)
  <2>1. \A m \in A \cup {n} : m <= S - Len(t)
    BY <1>2, <1>6
  <2>2. t # <<>> => t[1].n \in Nat /\ t[1].n <= S - Len(t) /\ S - Len(t) <= t[1].n + k
    BY <1>2, <1>7
  <2> QED BY <1>5, <1>8, <2>1, <2>2 DEF Flight
<1> QED BY <1>9, <1>10 DEF t, n

LEMMA FlightSecond ==
    ASSUME NEW S \in Nat, NEW A, NEW s, NEW k \in Nat, IsQueue(s), Flight(A, S, s, k), Len(s) > 1
    PROVE  LET t == <<Head(s)>> \o SubSeq(s, 3, Len(s))
           IN  Flight(A \cup {s[2].n}, S, t, k + 1) /\ Front(t, S) = s[1].n
<1>1. PICK T : s \in Seq(T)
    BY DEF IsQueue
<1> DEFINE t == <<Head(s)>> \o SubSeq(s, 3, Len(s))
           n == s[2].n
<1>2. Len(t) = Len(s) - 1 /\ t[1] = s[1] /\ \A i \in 2 .. Len(s) - 1 : t[i] = s[i + 1]
    BY <1>1, SecondOut
<1>3. /\ Len(s) \in Nat /\ s[1].n \in 0 .. S - 1 /\ n = S - Len(s) + 1 /\ n \in 0 .. S - 1 /\ s # <<>>
    BY FlightFront
<1>0. t # <<>>
  <2>1. t \in Seq(T)
    <3>1. Head(s) \in T /\ \A i \in 3 .. Len(s) : s[i] \in T
      BY <1>1, <1>3
    <3>2. <<Head(s)>> \in Seq(T)
      BY <3>1
    <3>3. SubSeq(s, 3, Len(s)) \in Seq(T)
      BY <1>3, <3>1, SubSeqProperties
    <3> QED BY <3>2, <3>3, ConcatProperties
  <2>2. Len(t) > 0
    BY <1>2, <1>3
  <2> HIDE DEF t
  <2> QED BY <2>1, <2>2
<1> HIDE DEF t, n
<1>4. A \cup {n} \subseteq 0 .. S - 1 /\ \A m \in A \cup {n} : m <= S - Len(t)
  <2>1. A \subseteq 0 .. S - 1 /\ \A m \in A : m <= S - Len(s)
    BY DEF Flight
  <2>2. \A m \in A : m <= S - Len(t)
    <3> SUFFICES ASSUME NEW m \in A PROVE m <= S - Len(t)
        OBVIOUS
    <3>1. m \in Int /\ m <= S - Len(s)
      BY <2>1
    <3> QED BY <1>2, <1>3, <3>1
  <2>3. n <= S - Len(t)
    BY <1>2, <1>3
  <2> QED BY <1>3, <2>1, <2>2, <2>3
<1>5. ASSUME NEW i \in 2 .. Len(t) PROVE t[i].n = S - Len(t) + i - 1
  <2>1. t[i] = s[i + 1] /\ i + 1 \in 2 .. Len(s)
    BY <1>2, <1>3
  <2>2. s[i + 1].n = S - Len(s) + (i + 1) - 1
    BY <2>1 DEF Flight
  <2> QED BY <1>2, <1>3, <2>1, <2>2
<1>6. t[1].n \in Nat /\ t[1].n <= S - Len(t) /\ S - Len(t) <= t[1].n + (k + 1)
    BY <1>2, <1>3 DEF Flight
<1> QED BY <1>0, <1>2, <1>4, <1>5, <1>6 DEF Flight, Front, t, n

LEMMA FlightMore ==
    ASSUME NEW S \in Nat, NEW A, NEW s, NEW k \in Nat, NEW l \in Nat, k <= l, IsQueue(s), Flight(A, S, s, k)
    PROVE  Flight(A, S, s, l)
<1>1. Len(s) \in Nat
    BY FlightFront
<1> QED BY <1>1 DEF Flight

LEMMA FlightDoubled ==
    ASSUME NEW S \in Nat, NEW A, NEW s, NEW k \in Nat, IsQueue(s), Flight(A, S, s, k), s # <<>>
    PROVE  Flight(A \cup {s[1].n}, S, s, k + 1)
<1>1. Len(s) \in Nat /\ s[1].n \in 0 .. S - 1
    BY FlightFront
<1> DEFINE n == s[1].n
<1>2. A \cup {n} \subseteq 0 .. S - 1 /\ \A m \in A \cup {n} : m <= S - Len(s)
    BY <1>1 DEF Flight
<1>3. n \in Nat /\ n <= S - Len(s) /\ S - Len(s) <= n + (k + 1)
  <2>1. n <= S - Len(s) /\ S - Len(s) <= n + k
    BY DEF Flight
  <2> HIDE DEF n
  <2> QED BY <1>1, <2>1 DEF n
<1>4. \A i \in 2 .. Len(s) : s[i].n = S - Len(s) + i - 1
    BY DEF Flight
<1> QED BY <1>2, <1>3, <1>4 DEF Flight

\* What the statistics say goes on being true when a packet is sent or lost.
LEMMA TallyKept ==
    ASSUME NEW part \in PartType, NEW f, NEW A, NEW J, NEW S \in Nat, NEW T \in Nat, S <= T, NEW q \in Nat, NEW o \in Nat,
           Tally(part, f, A, J, S, q), o = q \/ \A m \in A : m < o, A \subseteq Nat
    PROVE  Tally(part, f, A, J, T, o)
<1>1. part.probation > 0 => OnTrial(part, f, A, o)
  <2> SUFFICES ASSUME part.probation > 0 PROVE OnTrial(part, f, A, o)
      OBVIOUS
  <2>1. OnTrial(part, f, A, q)
    BY DEF Tally
  <2>2. PICK l \in A : part.stats.max = Num(f, l) /\ ((\E m \in A : m >= q) => l >= q)
    BY <2>1 DEF OnTrial
  <2>3. (\E m \in A : m >= o) => l >= o
    BY <2>2
  <2> QED BY <2>1, <2>2, <2>3 DEF OnTrial
<1>2. part.probation = 0 => Settled(part, f, A \ J, A, T)
  <2> SUFFICES ASSUME part.probation = 0 PROVE Settled(part, f, A \ J, A, T)
      OBVIOUS
  <2>1. Settled(part, f, A \ J, A, S)
    BY DEF Tally
  <2> DEFINE X == (0 .. S - 1) \ (A \ J)
             Y == (0 .. T - 1) \ (A \ J)
  <2>2. X \subseteq Y
    OBVIOUS
  <2>3. IsFiniteSet(0 .. T - 1)
    <3>1. 0 \in Int /\ T - 1 \in Int
      OBVIOUS
    <3> QED BY ONLY <3>1, FS_Interval
  <2>4. IsFiniteSet(Y) /\ IsFiniteSet(X)
    BY <2>2, <2>3, FS_Subset
  <2> HIDE DEF X, Y
  <2>5. Cardinality(X) <= Cardinality(Y) /\ Cardinality(X) \in Nat /\ Cardinality(Y) \in Nat
    BY <2>2, <2>4, FS_Subset, FS_CardinalityType
  <2>6. part.stats.dropped <= Cardinality(X) /\ part.stats.dropped \in Nat
    BY <2>1 DEF Settled, X, PartType, StatsType
  <2>7. part.stats.dropped <= Cardinality(Y)
    BY <2>5, <2>6
  <2> QED BY <2>1, <2>7 DEF Settled, Y
<1> QED BY <1>1, <1>2 DEF Tally

-----------------------------------------------------------------------------
\* What is always true of the statistics and of the reports.

\* The faults the network has made.
Used == config.faults - faults

TrackOK(p) ==
    LET q == Other(p) IN
    /\ Flight(arrived[p], sent[q], air[p], Used)
    /\ rtcp[p].part # Nobody /\ p \notin unknown =>
           Tally(rtcp[p].part, first[q], arrived[p], jumped[p], sent[q], Front(air[p], sent[q]))

\* A report under way to p is one of the other end's, with a number of its own.
ReportOK(p, msg) ==
    msg # ByeMessage =>
        /\ msg.report.count = msg.report.blocks
        /\ \E k \in Nat : msg.srtcp = ProtectReport(srtp[Other(p)], k)

HeardOK(p) ==
    /\ IsQueue(reports[p]) /\ \A msg \in Elems(reports[p]) : ReportOK(p, msg)
    /\ rtcp[p].part # Nobody => rtcp[p].part.probation \in Nat
    /\ ~rtcp[p].deaf => rtcp[p].receivers = ReportBlocks(rtcp[p])
    /\ heard[p].count = heard[p].blocks /\ (heard[p].number < SeqMod => heard[p].clear)
    /\ ~open => reports[p] = <<>>

CountersOK ==
    /\ DOMAIN rtcp = Peers /\ DOMAIN number = Peers /\ DOMAIN reports = Peers /\ DOMAIN heard = Peers
    /\ DOMAIN arrived = Peers /\ DOMAIN jumped = Peers
    /\ faults \in 0 .. config.faults
    /\ \A p \in Peers : rtcp[p] \in InstanceType /\ number[p] \in Nat

ReportsInv == CountersOK /\ \A p \in Peers : TrackOK(p) /\ HeardOK(p)

LEMMA ReportsInvTrue == MediaInv /\ ReportsInv => ReportsTrue
<1> SUFFICES ASSUME MediaInv, ReportsInv, NEW p \in Peers
             PROVE  /\ rtcp[p].part # Nobody /\ p \notin unknown =>
                           rtcp[p].part.stats.dropped <= Cardinality(Missing(p))
                    /\ heard[p].count = heard[p].blocks
                    /\ heard[p].number < SeqMod => heard[p].clear
    BY DEF ReportsTrue
<1>1. heard[p].count = heard[p].blocks /\ (heard[p].number < SeqMod => heard[p].clear)
    BY DEF ReportsInv, HeardOK
<1>2. ASSUME rtcp[p].part # Nobody, p \notin unknown
      PROVE  rtcp[p].part.stats.dropped <= Cardinality(Missing(p))
  <2> DEFINE S == sent[Other(p)]
             part == rtcp[p].part
  <2>1. Tally(part, first[Other(p)], arrived[p], jumped[p], S, Front(air[p], S))
    BY <1>2 DEF ReportsInv, TrackOK
  <2>2. Missing(p) = (0 .. S - 1) \ (arrived[p] \ jumped[p])
    BY DEF Missing
  <2>3. Cardinality(Missing(p)) \in Nat
    <3>1. S \in Nat
      BY TwoPeers DEF MediaInv, SessionOK
    <3>2. IsFiniteSet(0 .. S - 1)
      <4>1. 0 \in Int /\ S - 1 \in Int
        BY <3>1
      <4> QED BY ONLY <4>1, FS_Interval
    <3>3. IsFiniteSet(Missing(p))
      BY <2>2, <3>2, FS_Subset
    <3> QED BY <3>3, FS_CardinalityType
  <2> HIDE DEF part
  <2>4. CASE part.probation > 0
    <3>1. part.stats.dropped = 0
      BY <2>1, <2>4 DEF Tally, OnTrial
    <3> QED BY <2>3, <3>1 DEF part
  <2>5. CASE part.probation = 0
    <3>1. part.stats.dropped <= Cardinality((0 .. S - 1) \ (arrived[p] \ jumped[p]))
      BY <2>1, <2>5 DEF Tally, Settled
    <3> QED BY <2>2, <3>1 DEF part
  <2>6. part.probation \in 0 .. MinSequential
    BY <2>1 DEF Tally
  <2> QED BY <2>4, <2>5, <2>6 DEF MinSequential
<1> QED BY <1>1, <1>2

LEMMA FaultFacts ==
    ASSUME MediaInv, ReportsInv
    PROVE  /\ config.faults \in Nat /\ faults \in Nat /\ Used \in Nat /\ faults <= config.faults
           /\ ((\A c \in Configs : c.faults < MaxMisorder) => Used < MaxMisorder)
<1>1. config \in Configs
    BY DEF MediaInv, SessionOK
<1>2. config.faults \in Nat
    BY <1>1, SessionAssumption
<1>3. faults \in 0 .. config.faults
    BY DEF ReportsInv, CountersOK
<1> QED BY <1>1, <1>2, <1>3, RtcpAssumption DEF Used

LEMMA StreamFacts ==
    ASSUME MediaInv, ReportsInv, NEW p \in Peers
    PROVE  LET q == Other(p)
           IN  /\ q \in Peers /\ q # p /\ Other(q) = p /\ (\A r \in Peers : r = p \/ r = q)
               /\ sent[q] \in Nat /\ first[q] \in 0 .. Top /\ IsQueue(air[p])
               /\ rtcp[p] \in InstanceType /\ rtcp[p].part \in PartType
               /\ arrived[p] \subseteq Nat /\ arrived[p] \subseteq 0 .. sent[q] - 1
               /\ Flight(arrived[p], sent[q], air[p], Used) /\ Used \in Nat
<1>1. Other(p) \in Peers /\ Other(p) # p /\ Other(Other(p)) = p /\ \A r \in Peers : r = p \/ r = Other(p)
    BY TwoPeers
<1>2. sent[Other(p)] \in Nat /\ first[Other(p)] \in 0 .. Top /\ IsQueue(air[p])
    BY <1>1 DEF MediaInv, SessionOK
<1>3. rtcp[p] \in InstanceType /\ rtcp[p].part \in PartType
    BY DEF ReportsInv, CountersOK, InstanceType
<1>4. Flight(arrived[p], sent[Other(p)], air[p], Used)
    BY DEF ReportsInv, TrackOK
<1>5. arrived[p] \subseteq Nat /\ arrived[p] \subseteq 0 .. sent[Other(p)] - 1
    BY <1>4 DEF Flight
<1> QED BY <1>1, <1>2, <1>3, <1>4, <1>5, FaultFacts

\* A step that neither end's packets take part in.
LEMMA SameTrack ==
    ASSUME MediaInv, ReportsInv, NEW p \in Peers,
           arrived'[p] = arrived[p], jumped'[p] = jumped[p], air'[p] = air[p],
           sent'[Other(p)] = sent[Other(p)], first' = first, config' = config,
           faults' \in 0 .. faults, unknown \subseteq unknown',
           rtcp'[p].part = rtcp[p].part \/ rtcp'[p].part = Nobody \/ p \in unknown'
    PROVE  TrackOK(p)'
<1> DEFINE q == Other(p)
<1>1. /\ sent[q] \in Nat /\ IsQueue(air[p]) /\ Used \in Nat
      /\ Flight(arrived[p], sent[q], air[p], Used)
    BY StreamFacts
<1>2. Used' \in Nat /\ Used <= Used'
    BY FaultFacts DEF Used
<1>3. Flight(arrived[p], sent[q], air[p], Used')
    BY <1>1, <1>2, FlightMore
<1>4. ASSUME rtcp'[p].part # Nobody, p \notin unknown'
      PROVE  Tally(rtcp'[p].part, first[q], arrived[p], jumped[p], sent[q], Front(air[p], sent[q]))
    BY <1>4 DEF ReportsInv, TrackOK
<1> QED BY <1>3, <1>4 DEF TrackOK

LEMMA SameHeard ==
    ASSUME ReportsInv, NEW p \in Peers,
           IsQueue(reports'[p]), Elems(reports'[p]) \subseteq Elems(reports[p]),
           reports[p] = <<>> => reports'[p] = <<>>,
           srtp'[Other(p)].local = srtp[Other(p)].local, open' = open, heard'[p] = heard[p],
           rtcp'[p].part # Nobody => rtcp[p].part # Nobody /\ rtcp'[p].part.probation = rtcp[p].part.probation,
           ~rtcp'[p].deaf => /\ ~rtcp[p].deaf /\ rtcp'[p].receivers = rtcp[p].receivers
                             /\ rtcp'[p].part = rtcp[p].part
    PROVE  HeardOK(p)'
<1>1. HeardOK(p)
    BY DEF ReportsInv
<1>2. ASSUME NEW msg \in Elems(reports'[p]) PROVE ReportOK(p, msg)'
    BY <1>1 DEF HeardOK, ReportOK, ProtectReport, ByeMessage
<1> QED BY <1>1, <1>2 DEF HeardOK, ReportBlocks

LEMMA SameQueue ==
    ASSUME ReportsInv, NEW p \in Peers
    PROVE  IsQueue(reports[p]) /\ Elems(reports[p]) \subseteq Elems(reports[p])
BY DEF ReportsInv, HeardOK

\* A packet that comes in.
LEMMA HandleTracks ==
    ASSUME MediaInv, ReportsInv, NEW p \in Peers, NEW pkt \in Elems(air[p]), Handle(p, pkt),
           NEW t, DOMAIN air' = Peers, air'[p] = t, air'[Other(p)] = air[Other(p)],
           UNCHANGED <<config, open, first, sent, number, reports, heard, unknown>>,
           faults' \in 0 .. faults, Flight(arrived[p] \cup {pkt.n}, sent[Other(p)], t, Used'),
           Comes(arrived[p], pkt.n, Front(air[p], sent[Other(p)]), Front(t, sent[Other(p)]), sent[Other(p)])
    PROVE  ReportsInv'
<1> DEFINE q == Other(p)
           r == rtcp[p]
           a == TakeRtp(r, pkt.seq)
           S == sent[q]
           f == first[q]
           n == pkt.n
           in == IF config.keys = "none" THEN [ctx |-> srtp[p], clear |-> TRUE]
                 ELSE Unprotect(config, srtp[p], pkt)
           ignored == r.part # Nobody /\ r.part.probation = 0
                      /\ a.part.stats.received = r.part.stats.received
           J == IF ignored THEN jumped[p] \cup {n} ELSE jumped[p]
<1>1. /\ q \in Peers /\ q # p /\ Other(q) = p /\ (\A x \in Peers : x = p \/ x = q)
      /\ S \in Nat /\ f \in 0 .. Top /\ r \in InstanceType /\ r.part \in PartType
    BY StreamFacts
<1>2. pkt.seq = Num(f, n) /\ n \in Nat /\ pkt.seq \in Nat
  <2>1. pkt.seq = Num(f, n) /\ n \in Nat
    BY DEF MediaInv, AirOK, PacketOK
  <2>2. Num(f, n) \in Nat
    <3>1. f \in 0 .. Top /\ n \in Nat
      BY <1>1, <2>1
    <3>2. Num(f, n) \in 0 .. Top
      BY <3>1, NumFacts
    <3> QED BY <3>2
  <2> HIDE DEF f, n
  <2> QED BY <2>1, <2>2
<1>3. CountersOK /\ HeardOK(p) /\ TrackOK(p)
    BY DEF ReportsInv
<1>4. /\ DOMAIN srtp = Peers /\ DOMAIN rtcp = Peers /\ DOMAIN arrived = Peers /\ DOMAIN jumped = Peers
    BY <1>3 DEF CountersOK, MediaInv, SessionOK
<1>5. /\ rtcp' = [rtcp EXCEPT ![p] = a]
      /\ srtp' = [srtp EXCEPT ![p] = in.ctx]
      /\ arrived' = [arrived EXCEPT ![p] = @ \cup {n}]
      /\ jumped' = [jumped EXCEPT ![p] = IF ignored THEN @ \cup {n} ELSE @]
    BY DEF Handle
<1>6. in.ctx.local = srtp[p].local
  <2>1. Handled(config, srtp[p], pkt, Unprotect(config, srtp[p], pkt))
    BY <1>2, UnprotectFields DEF MediaInv, SessionOK
  <2>2. Unprotect(config, srtp[p], pkt).ctx.local = srtp[p].local
    BY <2>1 DEF Handled
  <2> QED BY <2>2
<1>7. /\ a \in InstanceType /\ a.deaf = r.deaf
      /\ a.receivers = IF r.part = Nobody THEN r.receivers + 1 ELSE r.receivers
      /\ r.part = Nobody => a.part.probation = MinSequential
      /\ r.part # Nobody => a.part.probation = UpdateParticipantSeq(r.part, pkt.seq).p.probation
    BY <1>1, <1>2, TakeRtpFields
<1>8. a.part.probation \in Nat /\ a.part # Nobody
  <2>1. a.part.probation \in Nat
    <3>1. CASE r.part = Nobody
      BY <1>7, <3>1 DEF MinSequential
    <3>2. CASE r.part # Nobody
      <4>1. r.part.probation \in Nat
        BY <1>3, <3>2 DEF HeardOK
      <4> DEFINE u == UpdateParticipantSeq(r.part, pkt.seq)
      <4>2. u.p.probation \in Int /\ u.p.probation >= 0
        <5>1. CASE r.part.probation > 0
          <6>1. u.p \in PartType /\ u.ok \in BOOLEAN /\ (~u.ok => u.p.probation > 0) /\ (u.ok => u.p.probation = 0)
            BY <1>1, <1>2, <5>1, ProbationFields
          <6>2. u.p.probation \in Int
            BY <6>1 DEF PartType
          <6> HIDE DEF u
          <6> QED BY <6>1, <6>2
        <5>2. CASE r.part.probation = 0
          <6>1. u.p.probation = r.part.probation
            BY <1>1, <1>2, <5>2, SettledFields
          <6> QED BY <5>2, <6>1
        <5> QED BY <4>1, <5>1, <5>2
      <4>3. a.part.probation = u.p.probation
        BY <1>7, <3>2
      <4> QED BY <4>2, <4>3
    <3> QED BY <3>1, <3>2
  <2> HIDE DEF a
  <2> QED BY <2>1, NobodyType
<1> HIDE DEF a, in, ignored
<1>9. /\ rtcp'[p] = a /\ arrived'[p] = arrived[p] \cup {n} /\ jumped'[p] = J
      /\ srtp'[p].local = srtp[p].local
      /\ rtcp'[q] = rtcp[q] /\ arrived'[q] = arrived[q] /\ jumped'[q] = jumped[q] /\ srtp'[q] = srtp[q]
      /\ DOMAIN rtcp' = Peers /\ DOMAIN arrived' = Peers /\ DOMAIN jumped' = Peers
    BY <1>1, <1>4, <1>5, <1>6
<1>10. CountersOK'
  <2>1. faults' \in 0 .. config'.faults
    BY <1>3, FaultFacts DEF CountersOK
  <2>2. \A x \in Peers : rtcp'[x] \in InstanceType
    BY <1>1, <1>3, <1>7, <1>9 DEF CountersOK
  <2> QED BY <1>3, <1>9, <2>1, <2>2 DEF CountersOK
<1>11. TrackOK(p)'
  <2>1. Flight(arrived'[p], sent'[q], air'[p], Used')
    BY <1>9
  <2>2. ASSUME p \notin unknown
        PROVE  Tally(a.part, f, arrived[p] \cup {n}, J, S, Front(t, S))
    <3> DEFINE o == Front(t, S)
               i == Front(air[p], S)
    <3>0. Comes(arrived[p], n, i, o, S)
      OBVIOUS
    <3> HIDE DEF o, i
    <3>1. CASE r.part = Nobody
      BY <1>1, <1>2, <3>0, <3>1, FirstTally DEF a, o, i
    <3>2. CASE r.part # Nobody
      <4>1. Tally(r.part, f, arrived[p], jumped[p], S, i)
        BY <1>3, <2>2, <3>2 DEF TrackOK, i
      <4>2. CASE r.part.probation > 0
        <5>1. J = jumped[p]
          BY <4>2 DEF ignored
        <5>2. Tally(TakeRtp(r, Num(f, n)).part, f, arrived[p] \cup {n}, jumped[p], S, o)
          BY <1>1, <3>0, <3>2, <4>1, <4>2, TrialTally
        <5> QED BY <1>2, <5>1, <5>2 DEF a, o
      <4>3. CASE r.part.probation = 0
        <5> DEFINE K == IF a.part.stats.received = r.part.stats.received THEN jumped[p] \cup {n} ELSE jumped[p]
        <5>1. J = K
          BY <3>2, <4>3 DEF ignored
        <5>2. Tally(a.part, f, arrived[p] \cup {n}, K, S, o)
          BY <1>1, <1>2, <3>0, <3>2, <4>1, <4>3, SettledTally DEF a
        <5> QED BY <5>1, <5>2 DEF o
      <4>4. r.part.probation \in Nat
        BY <1>3, <3>2 DEF HeardOK
      <4> QED BY <4>2, <4>3, <4>4
    <3> QED BY <3>1, <3>2
  <2> QED BY <1>9, <2>1, <2>2 DEF TrackOK
<1>12. TrackOK(q)'
    BY <1>1, <1>9, SameTrack
<1>13. HeardOK(p)'
  <2>1. ASSUME NEW msg \in Elems(reports[p]) PROVE ReportOK(p, msg)'
    BY <1>3, <1>9 DEF HeardOK, ReportOK, ProtectReport, ByeMessage
  <2>2. ~a.deaf => a.receivers = ReportBlocks(a)
    <3>1. ReportBlocks(a) = 1
      BY <1>8 DEF ReportBlocks
    <3>2. ~r.deaf => r.receivers = IF r.part = Nobody THEN 0 ELSE 1
      BY <1>3 DEF HeardOK, ReportBlocks
    <3> QED BY <1>7, <3>1, <3>2
  <2> QED BY <1>3, <1>8, <1>9, <2>1, <2>2 DEF HeardOK
<1>14. HeardOK(q)'
    BY <1>1, <1>9, SameHeard, SameQueue
<1> QED BY <1>1, <1>10, <1>11, <1>12, <1>13, <1>14 DEF ReportsInv

LEMMA ReceiveRtpTracks ==
    ASSUME MediaInv, ReportsInv, \A c \in Configs : c.faults < MaxMisorder, NEW p \in Peers, ReceiveRtp(p)
    PROVE  ReportsInv'
<1> DEFINE q == Other(p)
           s == air[p]
           S == sent[q]
           pkt == Head(s)
           t == Tail(s)
<1>1. /\ Handle(p, pkt) /\ s # <<>> /\ air' = [air EXCEPT ![p] = t]
      /\ UNCHANGED <<config, open, first, sent, number, reports, heard, unknown, faults>>
    BY DEF ReceiveRtp
<1>2. /\ q # p /\ S \in Nat /\ IsQueue(s) /\ Used \in Nat /\ Flight(arrived[p], S, s, Used)
      /\ arrived[p] \subseteq 0 .. S - 1 /\ faults \in Nat /\ Used < MaxMisorder /\ q \in Peers
    BY StreamFacts, FaultFacts
<1>3. pkt \in Elems(s) /\ pkt = s[1] /\ Len(s) \in Nat /\ pkt.n \in 0 .. S - 1 /\ Front(s, S) = pkt.n
    BY <1>1, <1>2, TailQueue, FlightFront DEF Front
<1>4. DOMAIN air' = Peers /\ air'[p] = t /\ air'[q] = air[q]
    BY <1>1, <1>2 DEF MediaInv, SessionOK
<1>5. faults' \in 0 .. faults /\ Used' = Used
    BY <1>1, <1>2 DEF Used
<1>6. /\ Flight(arrived[p] \cup {pkt.n}, S, t, Used)
      /\ \A m \in arrived[p] \cup {pkt.n} : m < Front(t, S)
    BY <1>1, <1>2, <1>3, FlightTail
<1>7. Comes(arrived[p], pkt.n, Front(s, S), Front(t, S), S)
  <2>1. Front(t, S) \in Nat
    <3>1. IsQueue(t)
      BY <1>1, <1>2, TailQueue
    <3> QED BY <1>2, <1>6, <3>1, FlightFront
  <2>2. ASSUME NEW m \in arrived[p] PROVE m - pkt.n < MaxMisorder
    <3>1. m <= S - Len(s) /\ S - Len(s) <= pkt.n + Used
      BY <1>1, <1>2, <1>3 DEF Flight
    <3>2. m \in Nat /\ MaxMisorder \in Nat
      BY <1>2, RtcpAssumption
    <3> HIDE DEF pkt, s, S
    <3> QED BY <1>2, <1>3, <3>1, <3>2
  <2> QED BY <1>2, <1>3, <1>6, <2>1, <2>2 DEF Comes
<1> HIDE DEF pkt, t
<1> QED BY <1>1, <1>3, <1>4, <1>5, <1>6, <1>7, HandleTracks

LEMMA OvertakeTracks ==
    ASSUME MediaInv, ReportsInv, NEW p \in Peers, Overtake(p)
    PROVE  ReportsInv'
<1> DEFINE q == Other(p)
           s == air[p]
           S == sent[q]
           pkt == s[2]
           t == <<Head(s)>> \o SubSeq(s, 3, Len(s))
<1>1. /\ Handle(p, pkt) /\ Len(s) > 1 /\ air' = [air EXCEPT ![p] = t] /\ faults > 0 /\ faults' = faults - 1
      /\ UNCHANGED <<config, open, first, sent, number, reports, heard, unknown>>
    BY DEF Overtake
<1>2. /\ q # p /\ S \in Nat /\ IsQueue(s) /\ Used \in Nat /\ Flight(arrived[p], S, s, Used)
      /\ arrived[p] \subseteq 0 .. S - 1 /\ faults \in Nat /\ config.faults \in Nat /\ q \in Peers
    BY StreamFacts, FaultFacts
<1>3. /\ Len(s) \in Nat /\ s # <<>> /\ s[1].n \in 0 .. S - 1 /\ Front(s, S) = s[1].n
      /\ pkt.n = S - Len(s) + 1 /\ pkt.n \in 0 .. S - 1
  <2>1. /\ Len(s) \in Nat /\ (s # <<>> => s[1].n \in 0 .. S - 1)
        /\ (Len(s) > 1 => s # <<>> /\ s[2].n = S - Len(s) + 1 /\ s[2].n \in 0 .. S - 1)
    BY <1>2, FlightFront
  <2> QED BY <1>1, <2>1 DEF Front
<1>4. pkt \in Elems(s)
  <2>1. 2 \in 1 .. Len(s)
    BY <1>1, <1>3
  <2> QED BY <2>1 DEF Elems
<1>5. DOMAIN air' = Peers /\ air'[p] = t /\ air'[q] = air[q]
    BY <1>1, <1>2 DEF MediaInv, SessionOK
<1>6. faults' \in 0 .. faults /\ Used' = Used + 1
    BY <1>1, <1>2 DEF Used
<1>7. Flight(arrived[p] \cup {pkt.n}, S, t, Used + 1) /\ Front(t, S) = s[1].n
    BY <1>1, <1>2, FlightSecond
<1>8. Comes(arrived[p], pkt.n, Front(s, S), Front(t, S), S)
  <2>1. s[1].n <= S - Len(s)
    BY <1>2, <1>3 DEF Flight
  <2>2. ASSUME NEW m \in arrived[p] PROVE m < pkt.n /\ m - pkt.n < MaxMisorder
    <3>1. m <= S - Len(s) /\ m \in Nat /\ MaxMisorder \in Nat \ {0}
      BY <1>2, RtcpAssumption DEF Flight
    <3> HIDE DEF pkt, s, S
    <3> QED BY <1>2, <1>3, <3>1
  <2>3. pkt.n >= s[1].n
    BY <1>2, <1>3, <2>1
  <2> QED BY <1>2, <1>3, <1>7, <2>2, <2>3 DEF Comes
<1> HIDE DEF pkt, t
<1>9. Flight(arrived[p] \cup {pkt.n}, S, t, Used')
    BY <1>6, <1>7
<1> QED BY <1>1, <1>4, <1>5, <1>6, <1>8, <1>9, HandleTracks

LEMMA DoubleTracks ==
    ASSUME MediaInv, ReportsInv, \A c \in Configs : c.faults < MaxMisorder, NEW p \in Peers, Double(p)
    PROVE  ReportsInv'
<1> DEFINE q == Other(p)
           s == air[p]
           S == sent[q]
           pkt == Head(s)
<1>1. /\ Handle(p, pkt) /\ s # <<>> /\ air' = air /\ faults > 0 /\ faults' = faults - 1
      /\ UNCHANGED <<config, open, first, sent, number, reports, heard, unknown>>
    BY DEF Double
<1>2. /\ q # p /\ S \in Nat /\ IsQueue(s) /\ Used \in Nat /\ Flight(arrived[p], S, s, Used)
      /\ arrived[p] \subseteq 0 .. S - 1 /\ faults \in Nat /\ config.faults \in Nat /\ Used < MaxMisorder
      /\ q \in Peers
    BY StreamFacts, FaultFacts
<1>3. pkt \in Elems(s) /\ pkt = s[1] /\ Len(s) \in Nat /\ pkt.n \in 0 .. S - 1 /\ Front(s, S) = pkt.n
    BY <1>1, <1>2, TailQueue, FlightFront DEF Front
<1>4. DOMAIN air' = Peers /\ air'[p] = s /\ air'[q] = air[q]
    BY <1>1 DEF MediaInv, SessionOK
<1>5. faults' \in 0 .. faults /\ Used' = Used + 1
    BY <1>1, <1>2 DEF Used
<1>6. Flight(arrived[p] \cup {pkt.n}, S, s, Used')
    BY <1>1, <1>2, <1>3, <1>5, FlightDoubled
<1>7. Comes(arrived[p], pkt.n, Front(s, S), Front(s, S), S)
  <2>1. ASSUME NEW m \in arrived[p] PROVE m - pkt.n < MaxMisorder
    <3>1. m <= S - Len(s) /\ S - Len(s) <= pkt.n + Used
      BY <1>1, <1>2, <1>3 DEF Flight
    <3>2. m \in Nat /\ MaxMisorder \in Nat
      BY <1>2, RtcpAssumption
    <3> HIDE DEF pkt, s, S
    <3> QED BY <1>2, <1>3, <3>1, <3>2
  <2> QED BY <1>2, <1>3, <2>1 DEF Comes
<1> HIDE DEF pkt
<1> QED BY <1>1, <1>3, <1>4, <1>5, <1>6, <1>7, HandleTracks

\* A packet that is sent, or lost.
LEMMA SendTracks ==
    ASSUME MediaInv, ReportsInv, NEW p \in Peers, Send(p)
    PROVE  ReportsInv'
<1> DEFINE q == Other(p)
           pkt == Packet(p)
           out == IF config.keys = "none" THEN [ctx |-> srtp[p], pkt |-> pkt] ELSE Protect(config, srtp[p], pkt)
           s == air[q]
           S == sent[p]
           r == NoteSent(rtcp[p])
<1>1. /\ q \in Peers /\ q # p /\ Other(q) = p /\ (\A x \in Peers : x = p \/ x = q)
      /\ S \in Nat /\ IsQueue(s) /\ Used \in Nat /\ Flight(arrived[q], S, s, Used)
      /\ arrived[q] \subseteq Nat /\ rtcp[q].part \in PartType /\ faults \in Nat
  <2>1. q \in Peers /\ q # p /\ Other(q) = p /\ \A x \in Peers : x = p \/ x = q
    BY TwoPeers
  <2> QED BY <2>1, StreamFacts, FaultFacts
<1>2. /\ UNCHANGED <<config, open, first, number, reports, heard, arrived, jumped, unknown, faults>>
      /\ srtp' = [srtp EXCEPT ![p] = out.ctx] /\ air' = [air EXCEPT ![q] = Append(@, out.pkt)]
      /\ sent' = [sent EXCEPT ![p] = @ + 1] /\ rtcp' = [rtcp EXCEPT ![p] = NoteSent(@)]
    BY DEF Send
<1>3. CountersOK /\ HeardOK(p) /\ HeardOK(q) /\ SessionOK
    BY <1>1 DEF ReportsInv, MediaInv
<1>4. pkt.n = S /\ DOMAIN pkt = {"n", "seq", "ts", "cipher", "tag"}
    BY DEF Packet
<1> HIDE DEF pkt
<1>5. out.pkt.n = S /\ out.ctx.local = srtp[p].local
  <2>1. Sealed(config, srtp[p], pkt, Protect(config, srtp[p], pkt))
    BY <1>3, <1>4, ProtectFields DEF SessionOK
  <2>2. Protect(config, srtp[p], pkt).pkt.n = S /\ Protect(config, srtp[p], pkt).ctx.local = srtp[p].local
    BY <1>4, <2>1 DEF Sealed
  <2> QED BY <1>4, <2>2
<1>6. /\ r \in InstanceType /\ r.part = rtcp[p].part /\ r.receivers = rtcp[p].receivers /\ r.deaf = rtcp[p].deaf
  <2>1. rtcp[p] \in InstanceType
    BY <1>3 DEF CountersOK
  <2> QED BY <2>1 DEF InstanceType, NoteSent
<1> HIDE DEF out, r
<1>7. /\ srtp'[p].local = srtp[p].local /\ srtp'[q] = srtp[q]
      /\ rtcp'[p] = r /\ rtcp'[q] = rtcp[q] /\ DOMAIN rtcp' = Peers
      /\ air'[q] = Append(s, out.pkt) /\ air'[p] = air[p] /\ sent'[p] = S + 1 /\ sent'[q] = sent[q]
    BY <1>1, <1>2, <1>3, <1>5 DEF SessionOK, CountersOK, r
<1>8. CountersOK'
  <2>1. \A x \in Peers : rtcp'[x] \in InstanceType
    BY <1>1, <1>3, <1>6, <1>7 DEF CountersOK
  <2> QED BY <1>2, <1>3, <1>7, <2>1 DEF CountersOK
<1>9. TrackOK(p)'
  <2>1. rtcp'[p].part = rtcp[p].part /\ faults' \in 0 .. faults /\ unknown \subseteq unknown'
    BY <1>1, <1>2, <1>6, <1>7
  <2> QED BY <1>2, <1>7, <2>1, SameTrack
<1>10. TrackOK(q)'
  <2>1. /\ Flight(arrived[q], S + 1, Append(s, out.pkt), Used)
        /\ Front(Append(s, out.pkt), S + 1) = Front(s, S)
    BY <1>1, <1>5, FlightSent
  <2>2. ASSUME rtcp[q].part # Nobody, q \notin unknown
        PROVE  Tally(rtcp[q].part, first[p], arrived[q], jumped[q], S + 1, Front(s, S))
    <3>1. Tally(rtcp[q].part, first[p], arrived[q], jumped[q], S, Front(s, S))
      BY <1>1, <2>2 DEF ReportsInv, TrackOK
    <3>2. Front(s, S) \in Nat
      BY <1>1, FlightFront
    <3>3. S + 1 \in Nat /\ S <= S + 1
      BY <1>1
    <3> QED BY <1>1, <3>1, <3>2, <3>3, TallyKept
  <2>3. Used' = Used
    BY <1>2 DEF Used
  <2> QED BY <1>1, <1>2, <1>7, <2>1, <2>2, <2>3 DEF TrackOK
<1>11. HeardOK(p)' /\ HeardOK(q)'
  <2>1. \A x \in Peers : IsQueue(reports'[x]) /\ Elems(reports'[x]) \subseteq Elems(reports[x])
    BY <1>2, SameQueue
  <2>2. HeardOK(p)'
    BY <1>1, <1>2, <1>6, <1>7, <2>1, SameHeard
  <2>3. HeardOK(q)'
    BY <1>1, <1>2, <1>7, <2>1, SameHeard
  <2> QED BY <2>2, <2>3
<1> QED BY <1>1, <1>8, <1>9, <1>10, <1>11 DEF ReportsInv

LEMMA LoseTracks ==
    ASSUME MediaInv, ReportsInv, NEW p \in Peers, Lose(p)
    PROVE  ReportsInv'
<1> DEFINE q == Other(p)
           s == air[p]
           S == sent[q]
           t == Tail(s)
<1>1. /\ q \in Peers /\ q # p /\ Other(q) = p /\ (\A x \in Peers : x = p \/ x = q)
      /\ S \in Nat /\ IsQueue(s) /\ Used \in Nat /\ Flight(arrived[p], S, s, Used)
      /\ arrived[p] \subseteq Nat /\ rtcp[p].part \in PartType /\ faults \in Nat /\ config.faults \in Nat
    BY StreamFacts, FaultFacts
<1>2. /\ UNCHANGED <<config, open, first, sent, srtp, rtcp, number, reports, heard, arrived, jumped, unknown>>
      /\ s # <<>> /\ air' = [air EXCEPT ![p] = t] /\ faults > 0 /\ faults' = faults - 1
    BY DEF Lose
<1>3. CountersOK /\ SessionOK
    BY DEF ReportsInv, MediaInv
<1>4. air'[p] = t /\ air'[q] = air[q]
    BY <1>1, <1>2, <1>3 DEF SessionOK
<1>5. faults' \in 0 .. faults /\ Used' = Used + 1
    BY <1>1, <1>2 DEF Used
<1>6. CountersOK'
  <2>1. faults' \in 0 .. config'.faults
    BY <1>1, <1>2, <1>5, FaultFacts
  <2> QED BY <1>2, <1>3, <2>1 DEF CountersOK
<1>7. TrackOK(q)'
    BY <1>1, <1>2, <1>4, <1>5, SameTrack
<1>8. TrackOK(p)'
  <2>1. /\ Flight(arrived[p], S, t, Used) /\ \A m \in arrived[p] : m < Front(t, S)
    BY <1>1, <1>2, FlightTail
  <2>2. IsQueue(t)
    BY <1>1, <1>2, TailQueue
  <2>3. Flight(arrived[p], S, t, Used + 1) /\ Front(t, S) \in Nat /\ Front(s, S) \in Nat
    <3>1. Used + 1 \in Nat /\ Used <= Used + 1
      BY <1>1
    <3> QED BY <1>1, <2>1, <2>2, <3>1, FlightMore, FlightFront
  <2>4. ASSUME rtcp[p].part # Nobody, p \notin unknown
        PROVE  Tally(rtcp[p].part, first[q], arrived[p], jumped[p], S, Front(t, S))
    <3>1. Tally(rtcp[p].part, first[q], arrived[p], jumped[p], S, Front(s, S))
      BY <2>4 DEF ReportsInv, TrackOK
    <3>2. S <= S
      BY <1>1
    <3> QED BY <1>1, <2>1, <2>3, <3>1, <3>2, TallyKept
  <2> QED BY <1>2, <1>4, <1>5, <2>3, <2>4 DEF TrackOK
<1>9. \A x \in Peers : HeardOK(x)'
    BY <1>2, SameHeard, SameQueue, TwoPeers
<1> QED BY <1>1, <1>6, <1>7, <1>8, <1>9 DEF ReportsInv

\* Steps that leave the packets alone.
LEMMA NoPackets ==
    ASSUME MediaInv, ReportsInv, UNCHANGED <<config, first, sent, air, arrived, jumped>>,
           faults' \in 0 .. faults, unknown \subseteq unknown',
           \A p \in Peers : /\ rtcp'[p] \in InstanceType /\ number'[p] \in Nat /\ HeardOK(p)'
                            /\ (rtcp'[p].part = rtcp[p].part \/ rtcp'[p].part = Nobody \/ p \in unknown'),
           DOMAIN rtcp' = Peers, DOMAIN number' = Peers, DOMAIN reports' = Peers, DOMAIN heard' = Peers
    PROVE  ReportsInv'
<1>1. \A p \in Peers : TrackOK(p)'
    BY SameTrack, TwoPeers
<1>2. faults' \in 0 .. config'.faults
    BY FaultFacts
<1>3. CountersOK'
    BY <1>2 DEF ReportsInv, CountersOK
<1> QED BY <1>1, <1>3 DEF ReportsInv

LEMMA IdleReports ==
    ASSUME MediaInv, ReportsInv,
           UNCHANGED <<config, open, first, sent, srtp, rtcp, number, air, reports, heard,
                       arrived, jumped, unknown, faults>>
    PROVE  ReportsInv'
<1>1. faults' \in 0 .. faults
    BY FaultFacts
<1>2. \A p \in Peers : HeardOK(p)'
    BY SameHeard, SameQueue, TwoPeers
<1>3. CountersOK
    BY DEF ReportsInv
<1> QED BY <1>1, <1>2, <1>3, NoPackets DEF CountersOK

LEMMA OpenTracks ==
    ASSUME MediaInv, ReportsInv, Open
    PROVE  ReportsInv'
<1>1. /\ UNCHANGED <<config, first, sent, rtcp, number, air, reports, heard, arrived, jumped, unknown, faults>>
      /\ ~open /\ open'
    BY DEF Open
<1>2. faults' \in 0 .. faults
    BY <1>1, FaultFacts
<1>3. ASSUME NEW p \in Peers PROVE HeardOK(p)'
  <2>1. HeardOK(p)
    BY DEF ReportsInv
  <2>2. reports'[p] = <<>>
    BY <1>1, <2>1 DEF HeardOK
  <2> QED BY <1>1, <2>1, <2>2, EmptyQueue DEF HeardOK, ReportBlocks
<1>4. CountersOK
    BY DEF ReportsInv
<1> QED BY <1>1, <1>2, <1>3, <1>4, NoPackets DEF CountersOK

\* The reports.
LEMMA SentReport ==
    ASSUME MediaInv, ReportsInv, NEW p \in Peers, NEW msg, SendTo(p, msg), ReportOK(p, msg), open,
           UNCHANGED <<open, srtp, heard>>,
           rtcp'[p].part = rtcp[p].part, rtcp'[p].deaf = rtcp[p].deaf, rtcp'[p].receivers = rtcp[p].receivers
    PROVE  HeardOK(p)' /\ DOMAIN reports' = Peers /\ \A q \in Peers : q # p => reports'[q] = reports[q]
<1>1. DOMAIN reports = Peers /\ HeardOK(p)
    BY DEF ReportsInv, CountersOK
<1> DEFINE s == reports[p]
           t == IF Listens(p) THEN Append(s, msg) ELSE s
<1>2. reports' = [reports EXCEPT ![p] = t]
    BY DEF SendTo
<1>3. IsQueue(t) /\ Elems(t) \subseteq Elems(s) \cup {msg}
    BY <1>1, AppendQueue DEF HeardOK
<1> HIDE DEF t
<1>4. DOMAIN reports' = Peers /\ reports'[p] = t /\ \A q \in Peers : q # p => reports'[q] = reports[q]
    BY <1>1, <1>2
<1>5. ASSUME NEW m \in Elems(t) PROVE ReportOK(p, m)'
  <2>1. ReportOK(p, m)
    BY <1>1, <1>3 DEF HeardOK
  <2> QED BY <2>1 DEF ReportOK, ProtectReport, ByeMessage
<1> QED BY <1>1, <1>3, <1>4, <1>5 DEF HeardOK, ReportBlocks

LEMMA ReportTimeoutTracks ==
    ASSUME MediaInv, ReportsInv, NEW p \in Peers, ReportTimeout(p)
    PROVE  ReportsInv'
<1> DEFINE q == Other(p)
           v == NextNumber(p)
<1>1. /\ UNCHANGED <<config, open, first, sent, srtp, rtcp, air, heard, arrived, jumped, unknown, faults>>
      /\ Listens(p) /\ open /\ ~rtcp[p].deaf /\ number' = [number EXCEPT ![p] = v]
    BY DEF ReportTimeout, Listens, Alive
<1>2. CountersOK
    BY DEF ReportsInv
<1>3. v \in Nat
  <2>1. number[p] \in Nat /\ SeqMod \in Nat
    BY <1>2, SrtpAssumption DEF CountersOK
  <2>2. CASE config.keys = "none"
    BY <2>2 DEF NextNumber
  <2>3. CASE config.keys # "none" /\ number[p] + 1 < 2 * SeqMod
    <3>1. v = number[p] + 1
      BY <2>3 DEF NextNumber
    <3> QED BY <2>1, <3>1
  <2>4. CASE config.keys # "none" /\ ~(number[p] + 1 < 2 * SeqMod)
    <3>1. v = SeqMod
      BY <2>4 DEF NextNumber
    <3> QED BY <2>1, <3>1
  <2> QED BY <2>2, <2>3, <2>4
<1> HIDE DEF v
<1>4. /\ DOMAIN number' = Peers /\ number'[p] = v /\ \A x \in Peers : number'[x] \in Nat
    BY <1>1, <1>2, <1>3 DEF CountersOK
<1>5. faults' \in 0 .. faults
    BY <1>1, FaultFacts
<1>6. DOMAIN reports' = Peers /\ \A x \in Peers : HeardOK(x)'
  <2>1. CASE UNCHANGED reports
    BY <1>1, <1>2, <2>1, SameHeard, SameQueue, TwoPeers DEF CountersOK
  <2>2. CASE ~(UNCHANGED reports)
    <3> DEFINE msg == [report |-> Report(rtcp[p]), srtcp |-> ProtectReport(srtp[p], v)]
    <3>1. SendTo(q, msg) /\ q \in Peers /\ Other(q) = p /\ \A x \in Peers : x = p \/ x = q
      BY <1>4, <2>2, TwoPeers DEF ReportTimeout
    <3>2. ReportOK(q, msg)
      <4>1. msg.report.count = rtcp[p].receivers /\ msg.report.blocks = ReportBlocks(rtcp[p])
        BY DEF Report
      <4>2. rtcp[p].receivers = ReportBlocks(rtcp[p])
        BY <1>1 DEF ReportsInv, HeardOK
      <4>3. msg.srtcp = ProtectReport(srtp[Other(q)], v)
        BY <3>1
      <4> QED BY <1>3, <4>1, <4>2, <4>3 DEF ReportOK
    <3> HIDE DEF msg
    <3>3. HeardOK(q)' /\ DOMAIN reports' = Peers /\ (\A x \in Peers : x # q => reports'[x] = reports[x])
      BY <1>1, <3>1, <3>2, SentReport
    <3>4. p # q
      BY TwoPeers
    <3>5. HeardOK(p)'
      BY <1>1, <3>3, <3>4, SameHeard, SameQueue
    <3> QED BY <3>1, <3>3, <3>5
  <2> QED BY <2>1, <2>2
<1> QED BY <1>1, <1>2, <1>4, <1>5, <1>6, NoPackets DEF CountersOK

LEMMA LoseReportTracks ==
    ASSUME MediaInv, ReportsInv, NEW p \in Peers, LoseReport(p)
    PROVE  ReportsInv'
<1>1. /\ UNCHANGED <<config, open, first, sent, srtp, rtcp, number, air, heard, arrived, jumped, unknown>>
      /\ reports[p] # <<>> /\ reports' = [reports EXCEPT ![p] = Tail(@)] /\ faults > 0 /\ faults' = faults - 1
    BY DEF LoseReport
<1>2. CountersOK
    BY DEF ReportsInv
<1>3. faults' \in 0 .. faults
    BY <1>1, FaultFacts
<1>4. DOMAIN reports' = Peers /\ \A x \in Peers : HeardOK(x)'
  <2>1. /\ DOMAIN reports' = Peers /\ reports'[p] = Tail(reports[p])
        /\ \A x \in Peers : x # p => reports'[x] = reports[x]
    BY <1>1, <1>2 DEF CountersOK
  <2>2. IsQueue(Tail(reports[p])) /\ Elems(Tail(reports[p])) \subseteq Elems(reports[p])
    BY <1>1, SameQueue, TailQueue
  <2>3. HeardOK(p)'
    BY <1>1, <2>1, <2>2, SameHeard
  <2>4. ASSUME NEW x \in Peers, x # p PROVE HeardOK(x)'
    BY <1>1, <2>1, <2>4, SameHeard, SameQueue
  <2> QED BY <2>1, <2>3, <2>4
<1> QED BY <1>1, <1>2, <1>3, <1>4, NoPackets DEF CountersOK

LEMMA CrashFields ==
    ASSUME NEW r \in InstanceType
    PROVE  LET a == [r EXCEPT !.crashed = TRUE]
           IN  a \in InstanceType /\ a.part = r.part /\ a.receivers = r.receivers /\ a.deaf = r.deaf
BY DEF InstanceType

LEMMA StopTracks ==
    ASSUME MediaInv, ReportsInv, NEW p \in Peers, Stop(p)
    PROVE  ReportsInv'
<1> DEFINE q == Other(p)
<1>1. /\ UNCHANGED <<config, open, first, sent, srtp, number, air, heard, arrived, jumped, unknown, faults>>
      /\ open
    BY DEF Stop, Alive
<1>2. CountersOK /\ faults' \in 0 .. faults
    BY <1>1, FaultFacts DEF ReportsInv
<1>3. q \in Peers /\ q # p /\ Other(q) = p /\ \A x \in Peers : x = p \/ x = q
    BY TwoPeers
<1>4. CASE ReachesNobody(rtcp[p])
  <2> DEFINE a == [rtcp[p] EXCEPT !.crashed = TRUE]
  <2>1. rtcp' = [rtcp EXCEPT ![p].crashed = TRUE] /\ UNCHANGED reports
    BY <1>4 DEF Stop
  <2>2. /\ a \in InstanceType /\ a.part = rtcp[p].part /\ a.receivers = rtcp[p].receivers
        /\ a.deaf = rtcp[p].deaf
    BY <1>2, CrashFields DEF CountersOK
  <2>3. rtcp' = [rtcp EXCEPT ![p] = a]
    BY <2>1
  <2> HIDE DEF a
  <2>4. rtcp'[p] = a /\ DOMAIN rtcp' = Peers /\ \A x \in Peers : x # p => rtcp'[x] = rtcp[x]
    BY <1>2, <2>3 DEF CountersOK
  <2>5. HeardOK(p)'
    BY <1>1, <1>3, <2>1, <2>2, <2>4, SameHeard, SameQueue
  <2>6. HeardOK(q)'
    BY <1>1, <1>3, <2>1, <2>4, SameHeard, SameQueue
  <2>7. \A x \in Peers : rtcp'[x] \in InstanceType /\ HeardOK(x)' /\ rtcp'[x].part = rtcp[x].part
    BY <1>2, <1>3, <2>2, <2>4, <2>5, <2>6 DEF CountersOK
  <2> QED BY <1>1, <1>2, <2>1, <2>4, <2>7, NoPackets DEF CountersOK
<1>5. CASE ~ReachesNobody(rtcp[p])
  <2>1. UNCHANGED rtcp /\ (UNCHANGED reports \/ SendTo(q, ByeMessage))
    BY <1>5 DEF Stop
  <2>2. CASE UNCHANGED reports
    <3>1. \A x \in Peers : HeardOK(x)'
      BY <1>1, <2>1, <2>2, SameHeard, SameQueue, TwoPeers
    <3> QED BY <1>1, <1>2, <2>1, <2>2, <3>1, NoPackets DEF CountersOK
  <2>3. CASE SendTo(q, ByeMessage)
    <3>1. ReportOK(q, ByeMessage)
      BY DEF ReportOK
    <3>2. HeardOK(q)' /\ DOMAIN reports' = Peers /\ (\A x \in Peers : x # q => reports'[x] = reports[x])
      BY <1>1, <1>3, <2>1, <2>3, <3>1, SentReport
    <3>3. HeardOK(p)'
      BY <1>1, <1>3, <2>1, <3>2, SameHeard, SameQueue
    <3>4. \A x \in Peers : HeardOK(x)'
      BY <1>3, <3>2, <3>3
    <3> QED BY <1>1, <1>2, <2>1, <3>2, <3>4, NoPackets DEF CountersOK
  <2> QED BY <2>1, <2>2, <2>3
<1> QED BY <1>4, <1>5

LEMMA ByeFields ==
    ASSUME NEW r \in InstanceType
    PROVE  LET a == TakeBye(r)
           IN  /\ a \in InstanceType /\ (a.part = r.part \/ a.part = Nobody)
               /\ ~a.deaf => ~r.deaf /\ a.receivers = r.receivers /\ a.part = r.part
<1>1. CASE r.part = Nobody
  <2>1. TakeBye(r) = r
    BY <1>1, Zenon DEF TakeBye, ReachesNobody
  <2> QED BY <2>1
<1>2. CASE ReachesNobody(r)
  <2>1. TakeBye(r) = [r EXCEPT !.crashed = TRUE]
    BY <1>2, Zenon DEF TakeBye, ReachesNobody
  <2>2. LET a == [r EXCEPT !.crashed = TRUE]
        IN  a \in InstanceType /\ a.part = r.part /\ a.receivers = r.receivers /\ a.deaf = r.deaf
    BY CrashFields
  <2> QED BY <2>1, <2>2
<1>3. CASE r.part # Nobody /\ ~ReachesNobody(r)
  <2> DEFINE a == [r EXCEPT !.part = Nobody, !.deaf = TRUE]
  <2>1. TakeBye(r) = a
    BY <1>3, Zenon DEF TakeBye
  <2>2. a \in InstanceType /\ a.part = Nobody /\ a.deaf
    BY NobodyType DEF InstanceType
  <2> HIDE DEF a
  <2> QED BY <2>1, <2>2
<1> QED BY <1>1, <1>2, <1>3

LEMMA ReceiveReportTracks ==
    ASSUME MediaInv, ReportsInv, NEW p \in Peers, ReceiveReport(p)
    PROVE  ReportsInv'
<1> DEFINE q == Other(p)
           s == reports[p]
           msg == Head(s)
           r == rtcp[p]
<1>1. /\ UNCHANGED <<config, open, first, sent, srtp, number, air, arrived, jumped, faults>>
      /\ open /\ ~r.deaf /\ s # <<>>
    BY DEF ReceiveReport, Listens, Alive
<1>2. CountersOK /\ faults' \in 0 .. faults /\ HeardOK(p) /\ HeardOK(q) /\ r \in InstanceType
    BY <1>1, FaultFacts, TwoPeers DEF ReportsInv, CountersOK
<1>3. q \in Peers /\ q # p /\ Other(q) = p /\ \A x \in Peers : x = p \/ x = q
    BY TwoPeers
<1>4. IsQueue(s) /\ IsQueue(Tail(s)) /\ Elems(Tail(s)) \subseteq Elems(s) /\ msg \in Elems(s)
    BY <1>1, SameQueue, TailQueue
<1>5. CASE msg = ByeMessage
  <2> DEFINE a == TakeBye(r)
             t == IF rtcp'[p].deaf THEN <<>> ELSE Tail(s)
  <2>1. /\ rtcp' = [rtcp EXCEPT ![p] = a] /\ reports' = [reports EXCEPT ![p] = t]
        /\ UNCHANGED <<heard, unknown>>
    BY <1>5 DEF ReceiveReport
  <2>2. /\ a \in InstanceType /\ (a.part = r.part \/ a.part = Nobody)
        /\ ~a.deaf => ~r.deaf /\ a.receivers = r.receivers /\ a.part = r.part
    BY <1>2, ByeFields
  <2>3. IsQueue(t) /\ Elems(t) \subseteq Elems(s)
    BY <1>4, EmptyQueue
  <2> HIDE DEF a, t
  <2>4. /\ rtcp'[p] = a /\ reports'[p] = t /\ rtcp'[q] = rtcp[q] /\ reports'[q] = reports[q]
        /\ DOMAIN rtcp' = Peers /\ DOMAIN reports' = Peers
    BY <1>2, <1>3, <2>1 DEF CountersOK
  <2>5. HeardOK(p)'
    BY <1>1, <1>3, <2>1, <2>2, <2>3, <2>4, SameHeard
  <2>6. HeardOK(q)'
    BY <1>1, <1>3, <2>1, <2>4, SameHeard, SameQueue
  <2>7. \A x \in Peers : /\ rtcp'[x] \in InstanceType /\ HeardOK(x)'
                         /\ (rtcp'[x].part = rtcp[x].part \/ rtcp'[x].part = Nobody)
    BY <1>2, <1>3, <2>2, <2>4, <2>5, <2>6 DEF CountersOK
  <2> QED BY <1>1, <1>2, <2>1, <2>4, <2>7, NoPackets DEF CountersOK
<1>6. CASE msg # ByeMessage
  <2> DEFINE h == [count |-> msg.report.count, blocks |-> msg.report.blocks,
                   clear |-> ReportClear(srtp[p], msg.srtcp), number |-> msg.srtcp.index]
  <2>1. PICK leftover \in Leftovers : rtcp' = [rtcp EXCEPT ![p] = TakeReport(@, leftover)]
    BY <1>6 DEF ReceiveReport
  <2>2. /\ reports' = [reports EXCEPT ![p] = Tail(@)] /\ heard' = [heard EXCEPT ![p] = h]
        /\ unknown' = IF r.part = Nobody THEN unknown \cup {p} ELSE unknown
    BY <1>6 DEF ReceiveReport
  <2> DEFINE a == TakeReport(r, leftover)
  <2>3. /\ a \in InstanceType
        /\ r.part # Nobody => a = r
        /\ r.part = Nobody => a.part # Nobody /\ a.part.probation \in Nat /\ a.receivers = r.receivers + 1
                              /\ a.deaf = r.deaf
    <3>1. CASE r.part = Nobody
      <4>1. a = AddParticipant(r, leftover) /\ leftover \in Nat
        BY <3>1, RtcpAssumption DEF TakeReport
      <4>2. a \in InstanceType /\ a.part.probation = leftover /\ a.receivers = r.receivers + 1 /\ a.deaf = r.deaf
        BY <1>2, <4>1, AddFields
      <4>3. a.part # Nobody
        BY <4>1, <4>2, NobodyType
      <4> QED BY <3>1, <4>1, <4>2, <4>3
    <3>2. CASE r.part # Nobody
      BY <1>2, <3>2 DEF TakeReport
    <3> QED BY <3>1, <3>2
  <2>4. h.count = h.blocks /\ (h.number < SeqMod => h.clear)
    <3>1. ReportOK(p, msg)
      BY <1>2, <1>4 DEF HeardOK
    <3>2. msg.report.count = msg.report.blocks
      BY <1>6, <3>1 DEF ReportOK
    <3>3. PICK k \in Nat : msg.srtcp = ProtectReport(srtp[q], k)
      BY <1>6, <3>1 DEF ReportOK
    <3>4. srtp[p].remote = srtp[q].local
      BY DEF MediaInv, SessionOK
    <3>5. k < SeqMod => k % SeqMod = k
      BY SrtpAssumption
    <3>6. /\ msg.srtcp.index = k /\ msg.srtcp.tag = <<srtp[q].local, 0>>
          /\ msg.srtcp.cipher = <<srtp[q].local, k % SeqMod>>
      BY <3>3 DEF ProtectReport
    <3>7. k < SeqMod => ReportClear(srtp[p], msg.srtcp)
      BY <3>4, <3>5, <3>6 DEF ReportClear
    <3> QED BY <3>2, <3>6, <3>7
  <2> HIDE DEF a, h, msg
  <2>5. /\ rtcp'[p] = a /\ reports'[p] = Tail(s) /\ rtcp'[q] = rtcp[q] /\ reports'[q] = reports[q]
        /\ heard'[p] = h /\ heard'[q] = heard[q]
        /\ DOMAIN rtcp' = Peers /\ DOMAIN reports' = Peers /\ DOMAIN heard' = Peers
    BY <1>2, <1>3, <2>1, <2>2 DEF CountersOK, a
  <2>6. HeardOK(p)'
    <3>1. ASSUME NEW m \in Elems(Tail(s)) PROVE ReportOK(p, m)'
      BY <1>1, <1>2, <1>4 DEF HeardOK, ReportOK, ProtectReport, ByeMessage
    <3>2. a.part # Nobody => a.part.probation \in Nat
      BY <1>2, <2>3 DEF HeardOK
    <3>3. a.receivers = ReportBlocks(a)
      BY <1>1, <1>2, <2>3 DEF HeardOK, ReportBlocks
    <3> QED BY <1>1, <1>4, <2>4, <2>5, <3>1, <3>2, <3>3 DEF HeardOK
  <2>7. HeardOK(q)'
    BY <1>1, <1>3, <2>5, SameHeard, SameQueue
  <2>8. unknown \subseteq unknown' /\ (a.part = r.part \/ p \in unknown')
    BY <2>2, <2>3
  <2>9. \A x \in Peers : /\ rtcp'[x] \in InstanceType /\ HeardOK(x)'
                         /\ (rtcp'[x].part = rtcp[x].part \/ x \in unknown')
    BY <1>2, <1>3, <2>3, <2>5, <2>6, <2>7, <2>8 DEF CountersOK
  <2> QED BY <1>1, <1>2, <2>5, <2>8, <2>9, NoPackets DEF CountersOK
<1> QED BY <1>5, <1>6

LEMMA ReportsInvInductive ==
    ASSUME \A c \in Configs : c.faults < MaxMisorder, MediaInv, ReportsInv, [Next]_vars
    PROVE  ReportsInv'
<1>1. CASE Handshake
    BY <1>1, IdleReports DEF Handshake, mediavars
<1>2. CASE Open
    BY <1>2, OpenTracks
<1>3. CASE UNCHANGED vars
    BY <1>3, IdleReports DEF vars, mediavars
<1>4. ASSUME NEW p \in Peers, Send(p) \/ ReceiveRtp(p) \/ Runner(p) \/ Network(p) \/ Stop(p)
      PROVE  ReportsInv'
  <2>1. CASE Send(p)
    BY <2>1, SendTracks
  <2>2. CASE ReceiveRtp(p)
    BY <2>2, ReceiveRtpTracks
  <2>3. CASE ReportTimeout(p)
    BY <2>3, ReportTimeoutTracks
  <2>4. CASE ReceiveReport(p)
    BY <2>4, ReceiveReportTracks
  <2>5. CASE Overtake(p)
    BY <2>5, OvertakeTracks
  <2>6. CASE Double(p)
    BY <2>6, DoubleTracks
  <2>7. CASE Lose(p)
    BY <2>7, LoseTracks
  <2>8. CASE LoseReport(p)
    BY <2>8, LoseReportTracks
  <2>9. CASE Stop(p)
    BY <2>9, StopTracks
  <2> QED BY <1>4, <2>1, <2>2, <2>3, <2>4, <2>5, <2>6, <2>7, <2>8, <2>9 DEF Runner, Network
<1> QED BY <1>1, <1>2, <1>3, <1>4 DEF Next

LEMMA ReportsInvInit == Init => ReportsInv
<1> SUFFICES ASSUME Init PROVE ReportsInv
    OBVIOUS
<1>1. /\ config \in Configs /\ faults = config.faults
      /\ rtcp = [p \in Peers |-> Instance(config.rtcp)] /\ number = [p \in Peers |-> 0]
      /\ sent = [p \in Peers |-> 0] /\ air = [p \in Peers |-> <<>>] /\ reports = [p \in Peers |-> <<>>]
      /\ heard = [p \in Peers |-> NoReport] /\ arrived = [p \in Peers |-> {}] /\ jumped = [p \in Peers |-> {}]
    BY DEF Init
<1>2. config.faults \in Nat
    BY <1>1, SessionAssumption
<1> DEFINE r == Instance(config.rtcp)
<1>3. r \in InstanceType /\ r.part = Nobody /\ r.receivers = 0
    BY NobodyType DEF Instance, InstanceType
<1> HIDE DEF r
<1>4. CountersOK
    BY <1>1, <1>2, <1>3 DEF CountersOK, r
<1>5. ASSUME NEW p \in Peers PROVE TrackOK(p)
  <2>1. Other(p) \in Peers /\ rtcp[p].part = Nobody /\ sent[Other(p)] = 0 /\ air[p] = <<>> /\ arrived[p] = {}
    BY <1>1, <1>3, TwoPeers DEF r
  <2>2. Flight({}, 0, <<>>, Used)
    BY DEF Flight
  <2> QED BY <2>1, <2>2 DEF TrackOK
<1>6. ASSUME NEW p \in Peers PROVE HeardOK(p)
  <2>1. rtcp[p].part = Nobody /\ rtcp[p].receivers = 0 /\ reports[p] = <<>> /\ heard[p] = NoReport
    BY <1>1, <1>3 DEF r
  <2>2. ReportBlocks(rtcp[p]) = 0
    BY <2>1 DEF ReportBlocks
  <2>3. heard[p].count = heard[p].blocks /\ heard[p].clear
    BY <2>1 DEF NoReport
  <2> QED BY <2>1, <2>2, <2>3, EmptyQueue DEF HeardOK
<1> QED BY <1>4, <1>5, <1>6 DEF ReportsInv

\* What an end says of the packets of the other one in its reports is never worse
\* than what has happened, and a report announces the blocks it has and can be
\* read (rtcp.cc update_participant_seq(), update_session_statistics(),
\* generate_report()): whenever the network makes fewer faults than the number of
\* packets that one may be late by before it counts as a jump.
THEOREM ReportsTrueAlways ==
    ASSUME \A c \in Configs : c.faults < MaxMisorder
    PROVE  Spec => []ReportsTrue
<1>1. Spec => []MediaInv
    BY MediaInvInit, MediaInvInductive, KeysAgreeAlways, PTL DEF Spec
<1>2. MediaInv /\ ReportsInv /\ [Next]_vars => ReportsInv'
    BY ReportsInvInductive
<1>3. Spec => []ReportsInv
    BY <1>1, <1>2, ReportsInvInit, PTL DEF Spec
<1> QED BY <1>1, <1>3, ReportsInvTrue, PTL

=============================================================================
