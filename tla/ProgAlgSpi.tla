----------------------------- MODULE ProgAlgSpi -----------------------------
(***************************************************************************)
(* What papilio-prog does, as lists of steps: ProgAlgXC3S loads a design   *)
(* into the FPGA, ProgAlgSpi erases, writes and verifies the serial flash  *)
(* behind it.  A step is a JTAG operation, a command for the flash, a loop *)
(* that waits for an answer, or a way out of the list when what was tried  *)
(* last failed.                                                            *)
(***************************************************************************)
EXTENDS IoBase

CONSTANTS
    Catalogue,      \* of the flash ids Spi_Identify() knows: their type and number of pages
    DefaultPages,   \* Pages, when it knows none
    SectorPages,    \* pages of a sector
    MaxRetries, SectorErase, BulkErase

\* FlashType has a value for three of the four types; whatever else it holds, and
\* nothing sets it before or for an Atmel chip, means the fourth.
FlashTypes == {"SST", "Macronix", "GENERIC", "DataFlash"}
Linear(type) == type # "DataFlash"

ASSUME ProgAlgSpiAssumption ==
    /\ {DefaultPages, SectorPages} \subseteq Nat \ {0}
    /\ {MaxRetries, SectorErase, BulkErase} \subseteq Nat
    /\ \A id \in DOMAIN Catalogue : Catalogue[id] \in [type : FlashTypes, pages : Nat \ {0}]

-----------------------------------------------------------------------------
\* Steps.  do is what kind of step, op a JTAG operation, cmd a flash command, n
\* the further tries of a loop, want the contents a page is compared with.

Step(do) == [do |-> do, op |-> Tck(0), cmd |-> Zero, n |-> 0, want |-> Blank]
JtagStep(op) == [Step("jtag") EXCEPT !.op = op]
JtagSteps(ops) == [k \in DOMAIN ops |-> JtagStep(ops[k])]
Await(do, tries) == [Step(do) EXCEPT !.n = tries]
Send(cmd) == [Step("send") EXCEPT !.cmd = cmd]
Sends(names) == [k \in DOMAIN names |-> Send(Sym(names[k]))]
CompareStep(cmd, want) == [Step("compare") EXCEPT !.cmd = cmd, !.want = want]
Each(n, steps(_)) == FlattenSeq([k \in 1 .. n |-> steps(k - 1)])

\* Where Spi_SetCommandRW() puts a page's address.
ReadCommand(type, page) == Command(IF Linear(type) THEN "03" ELSE "03p", page, 0)

\* The answers Spi_Check() and Spi_Write_Check() are content with.  They look at
\* other bits of another register if the flash is not a DataFlash.
StatusCommandFor(type) == Sym(IF Linear(type) THEN "05" ELSE "d7")
Ready(type, answer) ==
    \/ answer.op = "status" /\ answer.data = 0
    \/ Linear(type) /\ answer = Zero
WriteReady(type, answer) ==
    answer.op = "status" /\ answer.data = 0 /\ (Linear(type) => answer.page = 1)

-----------------------------------------------------------------------------
\* Spi_Erase() and Spi_PartialErase().

SstUnlock == Sends(<<"06", "80", "50", "01", "06">>)
SstErase ==
    <<Await("write", 0)>> \o SstUnlock
        \o <<Await("write", MaxRetries), Send(Sym("60")), Await("ready", MaxRetries)>>

ErasePage(page) == <<Send(Command("81p", page, 0)), Await("write", MaxRetries), Step("unless failed")>>

Spi_Erase(type, pages) ==
    CASE type = "SST" -> SstErase \o <<Step("unless failed")>>
      [] type = "Macronix" -> <<Send(Sym("06")), Await("write", MaxRetries),
                                Send(Sym("60")), Await("ready", BulkErase), Step("unless failed")>>
      [] type = "GENERIC"  -> <<Send(Sym("06")), Await("write", MaxRetries),
                                Send(Sym("c7")), Await("ready", BulkErase), Step("unless failed")>>
      [] type = "DataFlash" -> Each(pages, ErasePage)

EraseSector(page) ==
    IF page % SectorPages # 0 THEN <<>>
    ELSE <<Send(Sym("06")), Await("write", MaxRetries),
           Send(Command("d8", page, 0)), Await("ready", SectorErase), Step("unless failed")>>

Spi_PartialErase(type, pages, length) ==
    IF type \in {"Macronix", "GENERIC"} THEN Each(length, EraseSector) ELSE Spi_Erase(type, pages)

-----------------------------------------------------------------------------
\* Spi_Write() of an image of so many pages, and Spi_Verify() against what each
\* page should be.

WritePage(type, page) ==
    CASE type = "DataFlash" -> <<Send(Command("84", 0, Image(page))), Send(Command("88p", page, 0))>>
      [] type = "Macronix"  -> <<Send(Sym("06")), Await("write", MaxRetries), Send(Command("02", page, Image(page)))>>
      [] type = "GENERIC"   -> <<Send(Sym("06")), Await("write", MaxRetries), Send(Command("02", page, Image(page))),
                                 Send(Command("88", page, 0))>>

\* SST: the words of page 0, then if the first of them was taken those of the
\* others, and one more of whatever comes after the image.
SstWord(page, data) == Send(Command("ad", page, data))
SstWords(length, partial) ==
    [k \in 1 .. length - 1 |-> SstWord(k, Image(k))]
        \o IF partial THEN <<>> ELSE <<SstWord(length, Junk)>>
SstWrite(length, partial) ==
    LET words == SstWords(length, partial)
    IN  SstUnlock
        \o <<Await("ready", MaxRetries), SstWord(0, Image(0)), Await("write", MaxRetries),
             Await("skip if failed", Len(words))>>
        \o words
        \o <<Send(Sym("04")), Await("ready", MaxRetries), Step("unless failed")>>

Spi_Write(type, length, partial) ==
    IF type = "SST" THEN SstWrite(length, partial)
    ELSE Each(length, LAMBDA page :
             WritePage(type, page) \o <<Await("ready", MaxRetries), Step("unless failed")>>)

\* (Faulty: a last page that is not full is not looked at.)
Spi_VerifyFullPages(type, length, partial, want) ==
    Each(length - IF partial THEN 1 ELSE 0, LAMBDA page : <<CompareStep(ReadCommand(type, page), want[page])>>)
Spi_Verify(type, length, partial, want) ==
    Each(length, LAMBDA page : <<CompareStep(ReadCommand(type, page), want[page])>>)

AllBlank(n) == [page \in 0 .. n - 1 |-> Blank]
TheImage(n) == [page \in 0 .. n - 1 |-> Image(page)]

-----------------------------------------------------------------------------
\* EraseSpi() and ProgramSpi(), once the flash is identified or has answered.

EraseSpi(type, pages) ==
    Spi_Erase(type, pages) \o Spi_Verify(type, pages, FALSE, AllBlank(pages))
        \o <<JtagStep(Ir("BYPASS")), Step("return")>>

ProgramSpi(type, pages, length, partial, option) ==
    IF pages < length THEN <<Step("does not fit")>>
    ELSE (IF option # "FULL" THEN <<>>
          ELSE Spi_PartialErase(type, pages, length) \o Spi_Verify(type, length, partial, AllBlank(length)))
         \o (IF option = "VERIFY_ONLY" THEN <<>> ELSE Spi_Write(type, length, partial))
         \o (IF option = "WRITE_ONLY" THEN <<>> ELSE Spi_Verify(type, length, partial, TheImage(length)))
         \o (IF option = "FULL" THEN <<JtagStep(Ir("JPROGRAM"))>> ELSE <<>>)
         \o <<JtagStep(Ir("BYPASS")), Step("return")>>

-----------------------------------------------------------------------------
\* ProgAlgXC3S.  family tells whether the FPGA has a DNA to read, and whether it
\* can be told to reconfigure itself.

flow_enable == <<Ir("ISC_ENABLE"), Dr(<<Zero>>), Tck(2)>>
flow_program_legacy(design) ==
    <<Ir("JSHUTDOWN"), Tck(2), Ir("CFG_IN"), Dr(<<Sym(design)>>), Tck(1),
      Ir("JSTART"), Tck(2), Ir("BYPASS"), Dr(<<Zero>>), Tck(1)>>
flow_disable == <<Ir("ISC_DISABLE"), Tck(2), Ir("BYPASS"), Dr(<<Zero>>), Tck(1)>>

array_program(design, family) ==
    JtagSteps(flow_enable \o <<Ir("JPROGRAM")>>)
        \o <<Step("until cleared")>>
        \o (IF family.dna THEN JtagSteps(<<Ir("ISC_ENABLE"), Ir("ISC_DNA"), DrRead(<<Zero>>), Tck(1)>>) ELSE <<>>)
        \o JtagSteps(flow_program_legacy(design) \o flow_disable)
        \o <<Await("until up", MaxRetries)>>

Reconfigure(family) ==
    IF ~family.reconfigures THEN <<>>
    ELSE JtagSteps(<<Ir("JSHUTDOWN"), Tck(2), Ir("CFG_IN"), Dr(<<Sym("reboot")>>),
                     Ir("JSTART"), Tck(2), Ir("BYPASS"), Tck(1)>>)

DisplayStatus == JtagSteps(<<IrRead("BYPASS")>>)
getStatusRegister ==
    JtagSteps(<<Ir("CFG_IN"), Dr(<<Sym("query")>>), IrRead("CFG_OUT"), DrRead(<<Zero>>), Ir("BYPASS"), Tck(2)>>)

=============================================================================
