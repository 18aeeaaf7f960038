------------------------------- MODULE Papilio -------------------------------
(***************************************************************************)
(* papilio-prog (main() of butterfly.cpp) from the scan of the JTAG chain  *)
(* to its exit: it works off a list of steps, and an error of the USB link *)
(* may end it at any of them.                                              *)
(***************************************************************************)
EXTENDS ProgAlgSpi

CONSTANTS
    Known,      \* the IDCODEs of the device list
    Settings    \* how it may be called, on which board, with what in FlashType

VARIABLES
    run,        \* [command, option, reconfigure, family, length, partial]
    io,
    devices,    \* IDCODEs, the first is the one selected
    todo,
    type, pages,    \* FlashType, Pages
    fail,
    result,     \* of ProgramSpi() or EraseSpi(): "TRUE", "FALSE" or "none"
    over,       \* why the program ended, or "no"
    told,       \* the last instruction for the FPGA
    said,       \* how many commands were meant for the flash, and the last one
    before      \* the contents of the flash at the start

vars == <<run, io, devices, todo, type, pages, fail, result, over, told, said, before>>
flashVars == <<type, pages, fail, result>>

N == Len(devices)
Head1 == Head(todo)
At(do) == over = "no" /\ todo # <<>> /\ Head1.do = do
Drop == todo' = Tail(todo)

Init ==
    /\ \E setting \in Settings :
           /\ run = setting.run
           /\ io = [state |-> UNKNOWN, tms |-> <<>>, usb |-> <<>>, pin |-> 1, board |-> setting.board]
           /\ type = setting.type
           /\ before = setting.board.flash.mem
           /\ said = setting.board.heard
    /\ devices = <<>>
    /\ todo = <<Step("getChain"), Step("getId")>>
    /\ pages = DefaultPages
    /\ fail = FALSE
    /\ result = "none"
    /\ over = "no"
    /\ told = Sym("IDCODE")

-----------------------------------------------------------------------------
\* The answer to what has been sent is the last symbol read.  (\E sent \in {...}
\* names the outcome of the calls.)

Answered(sent) == Last(sent.board.out)
Taken(sent) == [sent EXCEPT !.board.out = <<>>]

\* Spi_Command(): a byte more than the command, since the answer is one late.
Spi_Command(cmd, read) == Perform(io, ShiftDr(N, <<cmd, Zero>>, read))
Asks(cmd) == Spi_Command(cmd, TRUE)
Says(cmd) == said' = [n |-> said.n + 1, c |-> cmd]

-----------------------------------------------------------------------------
\* getChain(), get_id() and what main() does with the id.

GetChain ==
    /\ At("getChain")
    /\ io' = Perform(io, <<Call("tapTestLogicReset"), ToState(DRSHIFT, 0)>>)
    /\ Drop
    /\ UNCHANGED <<run, devices, flashVars, over, told, said, before>>

Commanded ==
    CASE run.command = "detect"      -> <<>>
      [] run.command = "status"      -> DisplayStatus
      [] run.command = "stat"        -> getStatusRegister
      [] run.command = "reconfigure" -> Reconfigure(run.family)
      [] run.command = "upload"      -> array_program("main", run.family)
      [] run.command = "flash"       -> array_program("bscan", run.family)
                                            \o <<JtagStep(Ir("USER1")), Step("identify")>>

GetId ==
    /\ At("getId")
    /\ \E sent \in {Perform(io, ShiftTdiTdo(<<Zero>>, TRUE, FALSE))} :
       LET id == Answered(sent)
       IN  IF id \notin {Zero, One}
           THEN /\ devices' = <<id.op>> \o devices
                /\ io' = Taken(sent)
                /\ UNCHANGED <<todo, over>>
           ELSE /\ io' = SetTapState(Taken(sent), RESET, 0)
                /\ IF devices # <<>> /\ \A k \in DOMAIN devices : devices[k] \in Known
                   THEN todo' = Commanded /\ UNCHANGED over
                   ELSE over' = "no device" /\ UNCHANGED todo
                /\ UNCHANGED devices
    /\ UNCHANGED <<run, flashVars, told, said, before>>

-----------------------------------------------------------------------------
\* Operations on the chain, and the loops of array_program().

JtagOperation ==
    /\ At("jtag")
    /\ io' = Taken(Perform(io, CallsOf(Head1.op, N)))
    /\ told' = IF Head1.op.kind = "IR" THEN Head1.op.syms[1] ELSE told
    /\ Drop
    /\ UNCHANGED <<run, devices, flashVars, over, said, before>>

UntilCleared ==
    /\ At("until cleared")
    /\ \E sent \in {Perform(io, CallsOf(IrRead("CFG_IN"), N))} :
           /\ io' = Taken(sent)
           /\ IF Answered(sent) = Sym("clearing") THEN UNCHANGED todo ELSE Drop
    /\ told' = Sym("CFG_IN")
    /\ UNCHANGED <<run, devices, flashVars, over, said, before>>

\* Whether it comes up or not, the program goes on.
UntilUp ==
    /\ At("until up")
    /\ \E sent \in {Perform(io, CallsOf(IrRead("BYPASS"), N))} :
           /\ io' = Perform(Taken(sent), Usleep)
           /\ IF Answered(sent) = Sym("done") \/ Head1.n = 0 THEN Drop
              ELSE todo' = [todo EXCEPT ![1].n = @ - 1]
    /\ told' = Sym("BYPASS")
    /\ UNCHANGED <<run, devices, flashVars, over, said, before>>

-----------------------------------------------------------------------------
\* The flash.

AfterFlash == IF run.reconfigure /\ run.option # "ERASE_ONLY" THEN Reconfigure(run.family) ELSE <<>>
FlashSteps(t, p) ==
    (IF run.option = "ERASE_ONLY" THEN EraseSpi(t, p)
     ELSE ProgramSpi(t, p, run.length, run.partial, run.option)) \o AfterFlash

\* Spi_Identify(), and Spi_Check() if it does not know the chip.
Spi_Identify ==
    /\ At("identify")
    /\ \E sent \in {Asks(Sym("9f"))} :
       LET id == Answered(sent).op
       IN  /\ io' = Taken(sent)
           /\ IF id \in DOMAIN Catalogue
              THEN LET chip == Catalogue[id]
                       t == IF Linear(chip.type) THEN chip.type ELSE type
                   IN  type' = t /\ pages' = chip.pages /\ todo' = FlashSteps(t, chip.pages)
              ELSE todo' = <<Step("check")>> /\ UNCHANGED <<type, pages>>
    /\ Says(Sym("9f"))
    /\ UNCHANGED <<run, devices, fail, result, over, told, before>>

Failed == result' = "FALSE" /\ todo' = AfterFlash

CheckUnidentified ==
    /\ At("check")
    /\ \E sent \in {Asks(StatusCommandFor(type))} :
           /\ io' = Taken(sent)
           /\ IF Ready(type, Answered(sent))
              THEN todo' = FlashSteps(type, pages) /\ UNCHANGED result
              ELSE Failed
    /\ Says(StatusCommandFor(type))
    /\ UNCHANGED <<run, devices, type, pages, fail, over, told, before>>

SendCommand ==
    /\ At("send")
    /\ io' = Spi_Command(Head1.cmd, FALSE)
    /\ Says(Head1.cmd)
    /\ Drop
    /\ UNCHANGED <<run, devices, flashVars, over, told, before>>

\* One round of a loop around Spi_Check() ("ready") or Spi_Write_Check() ("write").
Poll ==
    /\ At("ready") \/ At("write")
    /\ \E sent \in {Asks(StatusCommandFor(type))} :
       LET good == IF Head1.do = "ready" THEN Ready(type, Answered(sent)) ELSE WriteReady(type, Answered(sent))
       IN  /\ io' = Taken(sent)
           /\ fail' = ~good
           /\ IF good \/ Head1.n = 0 THEN Drop ELSE todo' = [todo EXCEPT ![1].n = @ - 1]
    /\ Says(StatusCommandFor(type))
    /\ UNCHANGED <<run, devices, type, pages, result, over, told, before>>

Compare ==
    /\ At("compare")
    /\ \E sent \in {Asks(Head1.cmd)} :
       LET same == \/ Answered(sent) = Command("data", 0, Head1.want)
                   \/ Answered(sent) = One /\ Head1.want = Blank
       IN  /\ io' = Taken(sent)
           /\ IF same THEN Drop /\ UNCHANGED result ELSE Failed
    /\ Says(Head1.cmd)
    /\ UNCHANGED <<run, devices, type, pages, fail, over, told, before>>

\* The ways out of a list.
UnlessFailed ==
    /\ At("unless failed")
    /\ IF fail THEN Failed ELSE Drop /\ UNCHANGED result
    /\ UNCHANGED <<run, io, devices, type, pages, fail, over, told, said, before>>
SkipIfFailed ==
    /\ At("skip if failed")
    /\ todo' = IF fail THEN SubSeq(todo, Head1.n + 2, Len(todo)) ELSE Tail(todo)
    /\ UNCHANGED <<run, io, devices, flashVars, over, told, said, before>>
DoesNotFit ==
    /\ At("does not fit")
    /\ Failed
    /\ UNCHANGED <<run, io, devices, type, pages, fail, over, told, said, before>>
Return ==
    /\ At("return")
    /\ result' = "TRUE"
    /\ Drop
    /\ UNCHANGED <<run, io, devices, type, pages, fail, over, told, said, before>>

-----------------------------------------------------------------------------
\* The end.  What is in the USB buffer is still sent, TMS bits that wait are not.

Exit ==
    /\ over = "no" /\ todo = <<>>
    /\ io' = MpsseSend(io)
    /\ over' = "done"
    /\ UNCHANGED <<run, devices, todo, flashVars, told, said, before>>

\* A write or a read fails, and what was to be sent is lost.  (A read that gets
\* nothing for a hundred tries counts as one that fails.)
UsbFails ==
    /\ over = "no" /\ todo # <<>>
    /\ over' = "exception"
    /\ io' = [io EXCEPT !.usb = <<>>]
    /\ UNCHANGED <<run, devices, todo, flashVars, told, said, before>>

Next ==
    \/ GetChain \/ GetId \/ JtagOperation \/ UntilCleared \/ UntilUp
    \/ Spi_Identify \/ CheckUnidentified \/ SendCommand \/ Poll \/ Compare
    \/ UnlessFailed \/ SkipIfFailed \/ DoesNotFit \/ Return \/ Exit \/ UsbFails

Spec == Init /\ [][Next]_vars

-----------------------------------------------------------------------------
\* The board once everything that waits has been sent.
Reached == Apply(Apply(io.board, io.usb), TxTms(io.tms))

\* While the program runs, what it believes of the chain is so, whatever still
\* waits in its two buffers: the TAP is in the state it thinks; between two
\* operations the FPGA has the instruction it was told and every other device is
\* in BYPASS; and with the bridge loaded and selected, each command meant for the
\* flash has come to it whole and in order.  (setTapState, nextTapState, shiftIR,
\* shiftDR, mpsse_add_cmd)
ChainTrue ==
    over = "no" /\ io.state # UNKNOWN =>
        LET b == Reached
        IN  /\ b.tap = io.state
            /\ io.state = IDLE =>
                   /\ b.ir[1] = told
                   /\ \A k \in 2 .. Len(b.ir) : b.ir[k] = Sym("BYPASS")
            /\ Bridge(b) => b.heard = said

Flash == Reached.flash
Holds(mem) == \A k \in 0 .. run.length - 1 : k \in DOMAIN mem /\ mem[k] = Image(k)
KnownChip == Flash.id \in DOMAIN Catalogue

\* Chips whose pages the program can all name: it takes an Atmel chip for what it
\* is only if FlashType happens to hold nothing else, and then its address has
\* ten bits of page number, nine further up.
Trusted ==
    /\ pages >= Flash.pages
    /\ Flash.kind = "AT45" => ~Linear(type) /\ ~Flash.wide /\ Flash.pages <= Reach
Healthy ==
    /\ N = 1 /\ "bscan" \in Reached.fits
    /\ Trusted /\ KnownChip
    /\ Flash.protected => Flash.kind = "SST"
    /\ Flash.pace <= MaxRetries /\ Flash.pace <= SectorErase /\ Flash.pace <= BulkErase
    /\ run.option # "ERASE_ONLY" => run.length <= Flash.pages

\* The answer of the program is right.  It says that it wrote and verified, or
\* verified, an image only if the flash holds it, whatever chip it takes it for;
\* and that it erased the flash only if all of it is blank, unless the chip has
\* pages it cannot name.  And with a chip it knows, that is not write protected
\* and fast enough for its loops, it does not fail; writing alone promises nothing
\* more than that.  (Spi_Identify, Spi_PartialErase, Spi_Write, Spi_Verify)
ResultTrue ==
    over = "done" /\ run.command = "flash" =>
        /\ result = "TRUE" /\ run.option \in {"FULL", "VERIFY_ONLY"} => Holds(Flash.mem)
        /\ result = "TRUE" /\ run.option = "ERASE_ONLY" /\ Trusted => IsBlank(Flash)
        /\ Healthy => (result = "TRUE" <=> (run.option = "VERIFY_ONLY" => Holds(before)))

=============================================================================
