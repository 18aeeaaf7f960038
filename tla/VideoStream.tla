----------------------------- MODULE VideoStream -----------------------------
(***************************************************************************)
(* The rover's video: videostream captures from the camera and pushes each *)
(* JPEG into an RTP stream, recvjpegsdl pulls it out, decodes and shows    *)
(* it; or recvjpegsdl captures from a camera of its own.                   *)
(***************************************************************************)
EXTENDS Camera, RtpGeneric, Viewer

CONSTANT Sources    \* what recvjpegsdl may be started with

ASSUME SourcesAssumption == Sources \subseteq {"stream", "local"}

VARIABLES
    source,     \* "local" if the argument of recvjpegsdl begins with a slash
    sent        \* ghost: for each timestamp the pictures its packets were read from

vars == <<camvars, rtpvars, viewvars, source, sent>>

Init ==
    /\ CameraInit /\ RtpInit /\ ViewInit
    /\ source \in Sources /\ sent = <<>>

-----------------------------------------------------------------------------
\* videostream's main loop.

Push ==
    /\ source = "stream" /\ cpc = "use"
    /\ PushFrame(jpg.len)
    /\ sent' = Append(sent, <<>>)
    /\ UNCHANGED <<camvars, viewvars, source>>

Send ==
    LET data == mem[jpg.buf][Head(outbox).part] IN
    /\ source = "stream" /\ cpc = "use"
    /\ SendPacket(data)
    /\ sent' = [sent EXCEPT ![Len(sent)] = Append(@, data)]
    /\ IF Len(outbox) = 1 THEN Release ELSE UNCHANGED camvars
    /\ UNCHANGED <<viewvars, source>>

SendGivesUp ==
    /\ source = "stream" /\ cpc = "use"
    /\ SendFails /\ Release
    /\ UNCHANGED <<viewvars, source, sent>>

\* refresh_video() takes a frame from the stream, or captures one and reads it
\* where it lies.
Pull ==
    /\ source = "stream" /\ dpc = "get"
    /\ PullFrame
    /\ input' = Head(frames) /\ dpc' = "decode"
    /\ UNCHANGED <<camvars, bmp, tbuff, events, displayvars, source, sent>>

CaptureLocal ==
    /\ source = "local" /\ dpc = "get" /\ cpc = "use" /\ dpc' = "read"
    /\ sent' = Append(sent, <<>>)
    /\ UNCHANGED <<camvars, rtpvars, input, bmp, tbuff, events, displayvars, source>>

ReadLocal ==
    LET i == Len(input) + 1
        data == mem[jpg.buf][i]
    IN
    /\ dpc = "read"
    /\ input' = Append(input, [ts |-> Len(sent), part |-> i, of |-> data])
    /\ sent' = [sent EXCEPT ![Len(sent)] = Append(@, data)]
    /\ dpc' = IF i = jpg.len THEN "decode" ELSE dpc
    /\ UNCHANGED <<camvars, rtpvars, bmp, tbuff, events, displayvars, source>>

\* Every piece of one picture, in its order.
Whole(f) ==
    /\ Len(f) \in DOMAIN <<1, 1, 1>>
    /\ f[1].of \in Frames /\ Len(f) = Sizes[f[1].of]
    /\ \A i \in DOMAIN f : f[i].part = i /\ f[i].of = f[1].of

\* With a camera of its own the decoder thread is the capturing thread: it calls
\* camera_capture() again at the top of its loop.
BackToCapture ==
    IF source = "local" /\ dpc' = "get" THEN Release ELSE UNCHANGED camvars

DecodeFrame ==
    /\ Decode(Whole(input), input # <<>> /\ input[1].part = 1,
              input[1].ts)
    /\ BackToCapture
    /\ UNCHANGED <<rtpvars, source, sent>>

-----------------------------------------------------------------------------
Driver == DriverWrites /\ UNCHANGED <<rtpvars, viewvars, source, sent>>
Capture == CaptureStep /\ (source = "local" => dpc = "get") /\ UNCHANGED <<rtpvars, viewvars, source, sent>>
Sender == Push \/ Send
Dispatcher == Receive /\ UNCHANGED <<camvars, viewvars, source, sent>>
Copy == CopyHalves /\ BackToCapture /\ UNCHANGED <<rtpvars, source, sent>>
PushEvent == Notify /\ BackToCapture /\ UNCHANGED <<rtpvars, source, sent>>
Decoder == Pull \/ CaptureLocal \/ ReadLocal \/ DecodeFrame \/ Copy \/ PushEvent
Display == (TakeEvent \/ Upload) /\ UNCHANGED <<camvars, rtpvars, source, sent>>
Close == Quit /\ UNCHANGED <<camvars, rtpvars, source, sent>>
Faulty == Network /\ UNCHANGED <<camvars, viewvars, source, sent>>

Next == \/ Driver \/ Capture \/ Sender \/ SendGivesUp \/ Dispatcher \/ Faulty
        \/ Decoder \/ Display \/ Close

\* Every thread keeps running and UDP delivers what it does not lose.
Spec == /\ Init /\ [][Next]_vars
        /\ WF_vars(Driver) /\ WF_vars(Capture) /\ WF_vars(Sender)
        /\ WF_vars(Dispatcher) /\ WF_vars(Decoder) /\ WF_vars(Display)

-----------------------------------------------------------------------------
(***************************************************************************)
(* Properties.                                                             *)
(***************************************************************************)

\* The buffer is back with the driver while the sender, or the local decoder,
\* still reads it.  It reads pieces of another picture only if the driver has
\* gone through a whole ring of buffers since the loop last had to wait for
\* one: a loop that keeps up with its camera never sends a torn picture.
NoTearWhileKeepingUp ==
    [][LET s == sent'[Len(sent')] IN
       sent' # sent /\ s # <<>> => s[Len(s)] = jpg.of \/ filled >= Bufs]_vars

\* The packets of push t, as they were sent.
Pushed(t) == [i \in DOMAIN sent[t] |-> [ts |-> t, part |-> i, of |-> sent[t][i]]]

\* Nothing is made up on the way: a frame given to the decoder is one whole push
\* or a single packet of one, unless the network doubled a packet of it.
\* (A push across the wrap of the sequence numbers has its parts swapped.)
NothingMadeUp ==
    \A n \in DOMAIN handed :
        LET f == handed[n]
            t == f[1].ts
        IN  \/ Len(f) = 1
            \/ t \in doubled
            \/ f = Pushed(t)
            \/ \E k \in 1 .. Len(f) : SubSeq(f, k, Len(f)) \o SubSeq(f, 1, k - 1) = Pushed(t)

\* A push none of whose packets was lost, overtaken or doubled reaches the
\* application exactly once.
UntouchedArrives ==
    \A t \in 1 .. ts - 1 :
        \/ t \in lost \cup late \cup doubled
        \/ \E i \in DOMAIN outbox : outbox[i].ts = t
        \/ \E i \in DOMAIN air : air[i].p.ts = t
        \/ Cardinality({n \in DOMAIN handed : handed[n][1].ts = t}) = 1

FramesArrive == NothingMadeUp /\ UntouchedArrives

\* As long as the network keeps the order, no part of the screen goes back to
\* an earlier picture.
ShownInOrder ==
    [][late' = {} => \A h \in {1, 2} : texture'[h] = Torn \/ texture'[h] >= texture[h]]_texture

\* When the camera pauses, the screen ends up with the last decoded picture, all
\* of it: no order of copying, redraw events and uploads leaves it stale.
LastPictureShown == <>[](texture = tbuff \/ mpc = "quit")

=============================================================================
