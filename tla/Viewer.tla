------------------------------- MODULE Viewer -------------------------------
(***************************************************************************)
(* videostream/recvjpegsdl.cc after it has got hold of a JPEG: the decoder *)
(* thread refresh_video() and the display loop in main() share tbuff with  *)
(* no lock and meet only through SDL's event queue.                        *)
(***************************************************************************)
EXTENDS Naturals, Sequences

VARIABLES
    dpc,        \* where the decoder thread is
    input,      \* the JPEG it decodes, packet by packet
    bmp,        \* bmp_buffer: the decoded picture
    tbuff,      \* upper and lower half of the shared picture
    events,     \* redraw events in SDL's queue
    mpc,        \* where the display loop is
    texture     \* the two halves on the screen

viewvars == <<dpc, input, bmp, tbuff, events, mpc, texture>>
decodervars == <<dpc, input, bmp, tbuff>>
displayvars == <<mpc, texture>>

Torn == 0       \* a picture with pieces of several, or with pieces missing

ViewInit ==
    /\ dpc = "get" /\ input = <<>> /\ bmp = Torn
    /\ tbuff = <<Torn, Torn>> /\ texture = <<Torn, Torn>>
    /\ events = 0 /\ mpc = "wait"

\* What follows what once a JPEG is decoded.  (Faulty: the event goes out before
\* the picture is in place.)
FollowsNotifyFirst == [decode |-> "notify", notify |-> "copy", copy |-> "copied", copied |-> "get"]
Follows == [decode |-> "copy", copy |-> "copied", copied |-> "notify", notify |-> "get"]

\* A JPEG as the camera wrote it decodes without a warning; what begins
\* otherwise than a JPEG does stops libjpeg with an error, which jumps to
\* cleanup; anything else may do either, or decode into a torn picture.
Decode(whole, begins, picture) ==
    /\ dpc = "decode"
    /\ \/ whole /\ bmp' = picture /\ dpc' = Follows[dpc]
       \/ ~whole /\ begins /\ bmp' = Torn /\ dpc' = Follows[dpc]
       \/ ~whole /\ dpc' = "get" /\ UNCHANGED bmp
    /\ input' = <<>>
    /\ UNCHANGED <<tbuff, events, displayvars>>

\* memcpy(tbuff, bmp_buffer): the display loop may look at any time.
CopyHalves ==
    /\ \/ dpc = "copy" /\ tbuff' = [tbuff EXCEPT ![1] = bmp]
       \/ dpc = "copied" /\ tbuff' = [tbuff EXCEPT ![2] = bmp]
    /\ dpc' = Follows[dpc]
    /\ UNCHANGED <<input, bmp, events, displayvars>>

\* SDL_PushEvent(), then cleanup and back to the top of the loop.
Notify ==
    /\ dpc = "notify" /\ dpc' = Follows[dpc]
    /\ events' = events + 1
    /\ UNCHANGED <<input, bmp, tbuff, displayvars>>

\* SDL_WaitEvent() returns a redraw event.
TakeEvent ==
    /\ mpc = "wait" /\ events > 0
    /\ events' = events - 1 /\ mpc' = "upload"
    /\ UNCHANGED <<decodervars, texture>>

\* SDL_UpdateTexture() reads tbuff; the frame is presented.
Upload ==
    /\ \/ mpc = "upload" /\ mpc' = "uploaded" /\ texture' = [texture EXCEPT ![1] = tbuff[1]]
       \/ mpc = "uploaded" /\ mpc' = "wait" /\ texture' = [texture EXCEPT ![2] = tbuff[2]]
    /\ UNCHANGED <<decodervars, events>>

\* SDL_QUIT ends the loop and with it the program.
Quit ==
    /\ mpc = "wait" /\ mpc' = "quit"
    /\ UNCHANGED <<decodervars, events, texture>>

=============================================================================
