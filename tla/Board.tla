-------------------------------- MODULE Board --------------------------------
(***************************************************************************)
(* What papilio-prog talks to, modelled from how it is used: a JTAG chain  *)
(* of an FPGA and of devices that are left in BYPASS, and behind the FPGA, *)
(* once it is configured with the bscan_spi design, a serial flash.        *)
(***************************************************************************)
EXTENDS Tap, SequencesExt

CONSTANTS Reach     \* pages a DataFlash command can name: 1024

ASSUME BoardAssumption == Reach \in Nat \ {0}

\* Symbols: what is shifted, and the flash's commands and answers.
Command(op, page, data) == [op |-> op, page |-> page, data |-> data]
Sym(op) == Command(op, 0, 0)
One == Sym("1")
Zero == Sym("0")

\* What a page may hold, besides page k of the image.
Blank == 0
Old == 1
Junk == 2
Image(k) == 3 + k

-----------------------------------------------------------------------------
\* The flash.  A DataFlash (kind AT45) has a page buffer and 9 bits of address
\* within a page, 10 when its pages are wide; the others have linear addresses,
\* want to be enabled before each write and may be protected.

IsBlank(f) == \A k \in DOMAIN f.mem : f.mem[k] = Blank
Overwritten(old, data) ==
    CASE old = Blank \/ old = data -> data
      [] data = Blank /\ old # Blank -> old
      [] OTHER -> Junk

\* The page of a DataFlash that an address names, and what is read from there on.
Named(f, page) == (IF f.wide THEN (page % Reach) \div 2 ELSE page % Reach) % f.pages
Astride(f, page) ==
    LET k == (page \div 2) % f.pages
    IN  IF page = 0 \/ (f.mem[k] = Blank /\ f.mem[(k + 1) % f.pages] = Blank) THEN f.mem[k] ELSE Junk
ReadPage(f, c) ==
    CASE f.kind # "AT45" -> f.mem[c.page % f.pages]
      [] f.kind = "AT45" /\ c.op = "03p" /\ ~f.wide -> f.mem[Named(f, c.page)]
      [] f.kind = "AT45" /\ c.op = "03p" /\ f.wide -> Astride(f, c.page % Reach)
      [] f.kind = "AT45" /\ c.op = "03" -> Astride(f, c.page)

Status(f) == Command("status", 0, IF f.busy > 0 THEN 1 ELSE 0)
\* A linear flash also says whether it is enabled and not protected.
StatusRegister(f) == [Status(f) EXCEPT !.page = IF f.wel /\ ~f.protected THEN 1 ELSE 0]

Busy(f) == [f EXCEPT !.busy = f.pace, !.wel = FALSE]
Erased(f, ks) == [f EXCEPT !.mem = [k \in DOMAIN @ |-> IF k \in ks THEN Blank ELSE @[k]]]
Sector(f, page) == {k \in DOMAIN f.mem : k \div f.sector = page \div f.sector}
Writable(f) == f.wel /\ ~f.protected

\* The next value of the flash and its answer.  (The page erase and write of a
\* DataFlash, "81" and "88"; those of the others, "60", "c7", "d8" and "02"; and
\* SST's word programming "ad", of which a page is done at a time.)
AfterDataFlash(f, c) ==
    CASE c.op = "84"  -> [f EXCEPT !.buf = c.data]
      [] c.op = "81p" -> Busy(Erased(f, {Named(f, c.page)}))
      [] c.op = "88p" -> Busy([f EXCEPT !.mem[Named(f, c.page)] = Overwritten(@, f.buf)])
      [] c.op = "88"  -> Busy([f EXCEPT !.mem[0] = Overwritten(@, f.buf)])   \* the address is a page's number
      [] OTHER -> f
AfterLinear(f, c) ==
    CASE c.op = "06" -> [f EXCEPT !.wel = TRUE]
      [] c.op = "04" -> [f EXCEPT !.wel = FALSE]
      [] c.op = "01" /\ f.kind = "SST" -> [f EXCEPT !.protected = FALSE]
      [] c.op \in {"60", "c7"} /\ Writable(f) -> Busy(Erased(f, DOMAIN f.mem))
      [] c.op = "d8" /\ Writable(f) -> Busy(Erased(f, Sector(f, c.page)))
      [] c.op = "02" /\ Writable(f) /\ f.kind # "SST" ->
             Busy([f EXCEPT !.mem[c.page % f.pages] = Overwritten(@, c.data)])
      [] c.op = "ad" /\ Writable(f) /\ f.kind = "SST" /\ c.page < f.pages ->
             [f EXCEPT !.mem[c.page] = Overwritten(@, c.data)]
      [] OTHER -> f

StatusCommand(f) == IF f.kind = "AT45" THEN "d7" ELSE "05"
FlashAfter(f, c) ==
    CASE c.op = StatusCommand(f) -> [f EXCEPT !.busy = IF @ > 0 THEN @ - 1 ELSE 0]
      [] c.op # StatusCommand(f) /\ f.busy > 0 -> f
      [] OTHER -> IF f.kind = "AT45" THEN AfterDataFlash(f, c) ELSE AfterLinear(f, c)

\* What it does not answer reads as the level the line floats to.
Answer(f, c) ==
    CASE c.op = "9f" /\ f.busy = 0 -> Sym(f.id)
      [] c.op = "d7" /\ f.kind = "AT45" -> Status(f)
      [] c.op = "05" /\ f.kind # "AT45" -> StatusRegister(f)
      [] c.op \in {"03", "03p"} /\ f.busy = 0 -> Command("data", 0, ReadPage(f, c))
      [] OTHER -> Sym(f.floats)

-----------------------------------------------------------------------------
\* The chain.  scan is the register between TDI and TDO, nearest TDI first; ir[1]
\* is the FPGA's instruction.

Instructions(b) == 1 .. Len(b.ir)
Bridge(b) == b.design = "bscan" /\ b.ir[1] = Sym("USER1")

CaptureDr(b) == [k \in Instructions(b) |-> IF b.ir[k] = Sym("IDCODE") THEN Sym(b.ids[k]) ELSE Zero]

\* The FPGA's status comes out of its instruction register.
FpgaStatus(b) == IF b.clearing > 0 THEN Sym("clearing") ELSE IF b.design = "none" THEN Sym("cleared") ELSE Sym("done")
CaptureIr(b) == <<FpgaStatus(b)>> \o [k \in 1 .. b.irlen * (Len(b.ir) - 1) |-> One]

ShiftScan(b, sym) == [b EXCEPT !.scan = <<sym>> \o Front(@)]
FlashCommands == {"9f", "d7", "05", "06", "04", "50", "80", "01", "60", "c7", "d8", "81p", "84", "88", "88p", "02", "ad", "03", "03p"}
IntoFpga(b, tdi) ==
    CASE Bridge(b) /\ tdi.op \in FlashCommands ->
             [ShiftScan(b, Answer(b.flash, tdi)) EXCEPT !.flash = FlashAfter(@, tdi), !.heard = [n |-> @.n + 1, c |-> tdi]]
      [] b.ir[1] = Sym("CFG_IN") /\ tdi.op \notin {"0", "1"} -> [ShiftScan(b, tdi) EXCEPT !.loaded = tdi.op]
      [] OTHER -> ShiftScan(b, tdi)

Output(b, c) == IF c.read THEN [b EXCEPT !.out = Append(@, Last(b.scan))] ELSE b

\* An instruction takes effect when it is updated.
Obey(b) ==
    CASE b.ir[1] = Sym("JPROGRAM") -> [b EXCEPT !.design = "none", !.clearing = b.flash.pace, !.loaded = "nothing"]
      [] b.ir[1] = Sym("JSTART") /\ b.loaded \in b.fits -> [b EXCEPT !.design = b.loaded]
      [] b.ir[1] = Sym("JSTART") /\ b.loaded = "reboot" -> [b EXCEPT !.design = "none", !.clearing = b.flash.pace]
      [] OTHER -> b
UpdateIr(b) ==
    Obey([b EXCEPT !.ir = [k \in Instructions(b) |->
        IF k = 1 THEN b.scan[1]
        ELSE IF \A j \in 1 .. b.irlen : b.scan[1 + b.irlen * (k - 2) + j] = One THEN Sym("BYPASS") ELSE Sym("?")]])

\* A clock: what the state it finds the TAP in does, and, on the falling edge,
\* what the state it brings it to does.
Rise(b, c) ==
    LET held == CASE b.tap = DRCAPTURE -> [b EXCEPT !.scan = CaptureDr(b)]
                  [] b.tap = IRCAPTURE -> [b EXCEPT !.scan = CaptureIr(b), !.clearing = IF @ > 0 THEN @ - 1 ELSE 0]
                  [] b.tap = DRSHIFT   -> IntoFpga(Output(b, c), c.tdi)
                  [] b.tap = IRSHIFT   -> ShiftScan(Output(b, c), c.tdi)
                  [] OTHER -> b
    IN  [held EXCEPT !.tap = Device(@, c.tms)]
Fall(b) ==
    CASE b.tap = RESET -> [b EXCEPT !.ir = [k \in Instructions(b) |-> Sym("IDCODE")]]
      [] b.tap = IRUPDATE -> UpdateIr(b)
      [] OTHER -> b

Clock(b, c) == Fall(Rise(b, c))
Apply(b, clocks) == FoldLeft(Clock, b, clocks)

=============================================================================
