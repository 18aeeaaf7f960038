------------------------------- MODULE Camera -------------------------------
(***************************************************************************)
(* videostream/mjpegcam.cc: the ring of mapped V4L2 buffers that the       *)
(* camera driver fills and one capturing thread empties.  The thread is    *)
(* videostream's main loop, or the decoder thread of recvjpegsdl when it   *)
(* is given a local device.  A buffer goes back to the driver before       *)
(* camera_capture() returns, so its caller reads it while it is queued.    *)
(***************************************************************************)
EXTENDS Naturals, Sequences

CONSTANTS
    Bufs,       \* number of mapped buffers (init_mmap asks for 4)
    Sizes       \* Sizes[f]: network packets the f-th captured picture takes

ASSUME CameraAssumption ==
    /\ Bufs \in Nat /\ Bufs >= 2
    /\ Sizes \in Seq(Nat \ {0})

Frames == 1 .. Len(Sizes)
Parts == 1 .. 3     \* a packet's worth each
ASSUME SizeAssumption == \A f \in Frames : Sizes[f] \in Parts

VARIABLES
    incoming,   \* buffers queued to the driver, in its order
    outgoing,   \* filled buffers waiting for VIDIOC_DQBUF: [buf, len] and, for
                \* the properties only, the picture [of]
    mem,        \* mem[b][i]: the picture that part i of buffer b holds a piece of
    written,    \* parts of the buffer at the head of incoming written so far
    frame,      \* the picture being captured
    cpc,        \* where the capturing thread is
    jpg,        \* buffer and length that read_frame() handed out
    filled      \* ghost: pictures finished since the thread last had to wait

camvars == <<incoming, outgoing, mem, written, frame, cpc, jpg, filled>>

\* start_capturing() queues every buffer.  (Faulty: all but the last.)
QueuedShort == [b \in 1 .. Bufs - 1 |-> b]
Queued == [b \in 1 .. Bufs |-> b]

CameraInit ==
    /\ incoming = Queued /\ outgoing = <<>>
    /\ mem = [b \in 1 .. Bufs |-> [i \in Parts |-> 0]]
    /\ written = 0 /\ frame = 1
    /\ cpc = "select" /\ jpg = [buf |-> 0, len |-> 0, of |-> 0]
    /\ filled = 0

\* The driver writes the next part of the picture into the first queued buffer.
\* A picture that finds no buffer queued is dropped and leaves no trace.
DriverWrites ==
    LET b == Head(incoming) IN
    /\ incoming # <<>> /\ frame \in Frames
    /\ mem' = [mem EXCEPT ![b][written + 1] = frame]
    /\ \/ /\ written + 1 < Sizes[frame]
          /\ written' = written + 1
          /\ UNCHANGED <<incoming, outgoing, frame, filled>>
       \/ /\ written + 1 = Sizes[frame]
          /\ written' = 0 /\ frame' = frame + 1
          /\ incoming' = Tail(incoming)
          /\ outgoing' = Append(outgoing, [buf |-> b, len |-> Sizes[frame], of |-> frame])
          /\ filled' = IF cpc = "select" /\ outgoing = <<>> THEN 1
                       ELSE IF filled < Bufs THEN filled + 1 ELSE filled
    /\ UNCHANGED <<cpc, jpg>>

\* select() reports a picture, VIDIOC_DQBUF takes it; the thread goes to sleep
\* for 50 ms with the buffer in hand.
Dequeue ==
    /\ cpc = "select" /\ outgoing # <<>>
    /\ jpg' = Head(outgoing) /\ outgoing' = Tail(outgoing)
    /\ cpc' = "sleep"
    /\ UNCHANGED <<incoming, mem, written, frame, filled>>

\* VIDIOC_QBUF, and camera_capture() returns the pointer to its caller.
QueueBack ==
    /\ cpc = "sleep"
    /\ incoming' = Append(incoming, jpg.buf)
    /\ cpc' = "use"
    /\ UNCHANGED <<outgoing, mem, written, frame, jpg, filled>>

\* The camera delivers nothing for ten seconds: the program exits.
SelectTimesOut ==
    /\ cpc = "select" /\ outgoing = <<>> /\ frame \notin Frames
    /\ cpc' = "exited"
    /\ UNCHANGED <<incoming, outgoing, mem, written, frame, jpg, filled>>

\* The caller is through with the picture and asks for the next one.
Release == cpc' = "select" /\ UNCHANGED <<incoming, outgoing, mem, written, frame, jpg, filled>>

CaptureStep == Dequeue \/ QueueBack \/ SelectTimesOut

=============================================================================
