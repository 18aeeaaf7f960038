--------------------------- MODULE MCMediaSession ---------------------------
(* Instance of MediaSession for TLC.                                         *)
EXTENDS MediaSession

Stream(keys, rtcps, senders, packets, fs) ==
    [keys |-> keys, auth |-> FALSE, replay |-> FALSE, null |-> FALSE, rtcp |-> rtcps,
     senders |-> senders, packets |-> packets, faults |-> fs]

Streams == {
    Stream("ZRTP", FALSE, {"a"}, 3, 0),
    Stream("user", FALSE, {"a"}, 5, 1),
    Stream("user", FALSE, {"a", "b"}, 2, 1),
    [Stream("user", FALSE, {"a"}, 4, 1) EXCEPT !.auth = TRUE, !.replay = TRUE],
    [Stream("user", FALSE, {"a", "b"}, 4, 1) EXCEPT !.auth = TRUE, !.replay = TRUE],
    [Stream("user", FALSE, {"a"}, 4, 1) EXCEPT !.auth = TRUE, !.null = TRUE],
    [Stream("user", FALSE, {"a"}, 2, 1) EXCEPT !.replay = TRUE],
    Stream("user", TRUE, {"a"}, 1, 0),
    Stream("none", TRUE, {"a"}, 5, 1),
    Stream("none", TRUE, {"a", "b"}, 2, 1)}
=============================================================================
