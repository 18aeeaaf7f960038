------------------------------- MODULE IoBase -------------------------------
(***************************************************************************)
(* How papilio-prog drives a JTAG chain through an FTDI chip: IOBase keeps *)
(* the state it believes the TAP is in and TMS bits it has not yet sent,   *)
(* IOFtdi a buffer of clocks it has not yet written to USB, and Jtag puts  *)
(* an instruction or data in front of the selected device and fills up for *)
(* the others.                                                             *)
(*                                                                         *)
(* A symbol stands for as many bits as belong together: an instruction, an *)
(* IDCODE, a command for the flash.  io is a record of the host's fields   *)
(* and of the board; the operators give its next value.                    *)
(***************************************************************************)
EXTENDS Board

CONSTANTS
    UsbSize,    \* clocks the USB buffer holds: TX_BUF
    TmsSize,    \* bits the buffer for TMS holds: CHUNK_SIZE bytes
    Irlen       \* IR length of a device that is not the FPGA, in symbols

ASSUME IoBaseAssumption == {UsbSize, TmsSize, Irlen} \subseteq Nat \ {0}

-----------------------------------------------------------------------------
\* IOFtdi.  Data clocks leave TMS on the level the last TMS bit gave it.

MpsseSend(io) == [io EXCEPT !.board = Apply(@, io.usb), !.usb = <<>>]

AddCmd(io, clocks) ==
    LET room == IF Len(io.usb) + Len(clocks) > UsbSize THEN MpsseSend(io) ELSE io
    IN  [room EXCEPT !.usb = @ \o clocks]

TxTms(bits) == [k \in DOMAIN bits |-> [tms |-> bits[k], tdi |-> One, read |-> FALSE]]

FlushTms(io) ==
    IF io.tms = <<>> THEN io
    ELSE [AddCmd(io, TxTms(io.tms)) EXCEPT !.tms = <<>>, !.pin = Last(io.tms)]

\* (No read of the program has the 8n + 1 bits of which the last gets lost, &80.)
TxRxBlock(io, tdi, read, last) ==
    [AddCmd(io, [k \in DOMAIN tdi |->
                   [tms |-> IF last /\ k = Len(tdi) THEN 1 ELSE io.pin, tdi |-> tdi[k], read |-> read]])
        EXCEPT !.pin = IF last THEN 1 ELSE @]

-----------------------------------------------------------------------------
\* setTapState(): the whole way.  A full buffer is flushed before the next bit.

ResetBits == <<1, 1, 1, 1, 1>>

Path[s \in DeviceStates \cup {UNKNOWN}, t \in DeviceStates] ==
    IF s = t THEN <<>>
    ELSE IF s = UNKNOWN THEN ResetBits \o <<1>> \o Path[RESET, t]
    ELSE <<IF Ahead(s, t) THEN 0 ELSE 1>> \o Path[HostNext(s, t), t]

Zeros(n) == [k \in 1 .. n |-> 0]

Full(io) == Len(io.tms) >= TmsSize
Roomy(io) == IF Full(io) THEN FlushTms(io) ELSE io
Queue(io, bit) == [Roomy(io) EXCEPT !.tms = Append(@, bit)]

SetTapState(io, t, pre) ==
    LET there == [FoldLeft(Queue, io, Path[io.state, t]) EXCEPT !.state = t]
        room == IF pre > 0 /\ Len(there.tms) + pre >= TmsSize THEN FlushTms(there) ELSE there
    IN  [room EXCEPT !.tms = @ \o Zeros(pre)]

TapTestLogicReset(io) == [io EXCEPT !.tms = @ \o ResetBits, !.state = RESET]

\* After a shift.
NextTapState(io, last) ==
    IF io.state \in {DRSHIFT, IRSHIFT}
    THEN [io EXCEPT !.state = IF last THEN @ + 1 ELSE @]
    ELSE TapTestLogicReset(io)

\* Clocks whose data does not matter wait with the TMS bits.
Wait(io, n, last) ==
    [Roomy(io) EXCEPT !.tms = @ \o Zeros(n - 1) \o <<IF last THEN 1 ELSE 0>>]

-----------------------------------------------------------------------------
\* What IOBase and Jtag offer, as the calls each is made of.

Call(do) == [do |-> do, state |-> RESET, n |-> 0, data |-> <<>>, read |-> FALSE, last |-> FALSE]
ToState(t, pre) == [Call("setTapState") EXCEPT !.state = t, !.n = pre]

Made(io, call) ==
    CASE call.do = "tapTestLogicReset" -> TapTestLogicReset(io)
      [] call.do = "setTapState"  -> SetTapState(io, call.state, call.n)
      [] call.do = "wait"         -> Wait(io, call.n, call.last)
      [] call.do = "flush_tms"    -> FlushTms(io)
      [] call.do = "txrx_block"   -> TxRxBlock(io, call.data, call.read, call.last)
      [] call.do = "mpsse_send"   -> MpsseSend(io)
      [] call.do = "nextTapState" -> NextTapState(io, call.last)

Perform(io, calls) == FoldLeft(Made, io, calls)

ShiftTdiTdo(data, read, last) ==
    IF data = <<>> THEN <<>>
    ELSE <<Call("flush_tms"), [Call("txrx_block") EXCEPT !.data = data, !.read = read, !.last = last]>>
         \o (IF read THEN <<Call("mpsse_send")>> ELSE <<>>)
         \o <<[Call("nextTapState") EXCEPT !.last = last]>>

Shift(n, last) ==
    IF n = 0 THEN <<>>
    ELSE <<[Call("wait") EXCEPT !.n = n, !.last = last], [Call("nextTapState") EXCEPT !.last = last]>>

\* Never called in Test-Logic-Reset.
CycleTck(n) == <<Call("flush_tms"), [Call("txrx_block") EXCEPT !.data = [k \in 1 .. n |-> One]]>>

Usleep == <<Call("flush_tms"), Call("mpsse_send")>>

\* Jtag: n devices, the first one selected; each of the others takes one symbol
\* of data and Irlen of instruction, before what is meant for the first.
\* (Faulty: as many for an instruction as for data.)
ShiftIrShort(n, instruction, read) ==
    <<ToState(IRSHIFT, 0)>> \o Shift(n - 1, FALSE)
        \o ShiftTdiTdo(<<instruction>>, read, TRUE) \o <<ToState(IDLE, 0)>>
ShiftIr(n, instruction, read) ==
    <<ToState(IRSHIFT, 0)>> \o Shift((n - 1) * Irlen, FALSE)
        \o ShiftTdiTdo(<<instruction>>, read, TRUE) \o <<ToState(IDLE, 0)>>

ShiftDr(n, data, read) ==
    <<ToState(DRSHIFT, n - 1)>> \o ShiftTdiTdo(data, read, TRUE) \o <<ToState(IDLE, 0)>>

-----------------------------------------------------------------------------
\* The operations the programming algorithms are made of.

Operation(kind, syms, read, n) == [kind |-> kind, syms |-> syms, read |-> read, n |-> n]
Ir(instruction)     == Operation("IR", <<Sym(instruction)>>, FALSE, 0)
IrRead(instruction) == Operation("IR", <<Sym(instruction)>>, TRUE, 0)
Dr(data)            == Operation("DR", data, FALSE, 0)
DrRead(data)        == Operation("DR", data, TRUE, 0)
Tck(n)              == Operation("TCK", <<>>, FALSE, n)

CallsOf(op, n) ==
    CASE op.kind = "IR"  -> ShiftIr(n, op.syms[1], op.read)
      [] op.kind = "DR"  -> ShiftDr(n, op.syms, op.read)
      [] op.kind = "TCK" -> CycleTck(op.n)

=============================================================================
