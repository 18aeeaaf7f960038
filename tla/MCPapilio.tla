------------------------------ MODULE MCPapilio ------------------------------
(***************************************************************************)
(* Every way to call papilio-prog on flashes of two to four pages of every *)
(* kind, blank, full, written or half written, fast, slow and protected,   *)
(* alone in the chain or with another device.                              *)
(***************************************************************************)
EXTENDS Papilio

MCCatalogue == [
    AT45     |-> [type |-> "DataFlash", pages |-> 2],
    AT45wide |-> [type |-> "DataFlash", pages |-> 2],
    AT45big  |-> [type |-> "DataFlash", pages |-> 4],
    MX       |-> [type |-> "Macronix", pages |-> 3],
    N25      |-> [type |-> "GENERIC", pages |-> 3],
    SST      |-> [type |-> "SST", pages |-> 3]]     \* of which the chip has two: its pages are smaller

Contents(n) == {[k \in 0 .. n - 1 |-> Blank], [k \in 0 .. n - 1 |-> Old], [k \in 0 .. n - 1 |-> Image(k)],
                [k \in 0 .. n - 1 |-> IF k = 0 THEN Blank ELSE Old],
                [k \in 0 .. n - 1 |-> IF k = 0 THEN Image(0) ELSE Old]}

Chip(id, kind, wide, n, paces, protections, levels) ==
    {[id |-> id, kind |-> kind, wide |-> wide, pages |-> n, sector |-> SectorPages, mem |-> mem,
      wel |-> FALSE, busy |-> 0, pace |-> pace, protected |-> p, floats |-> level, buf |-> Blank] :
        mem \in Contents(n), pace \in paces, p \in protections, level \in levels}
Slow == 4   \* busy for longer than any loop waits
AtmelChips ==
    Chip("AT45", "AT45", FALSE, 2, {1}, {FALSE}, {"0", "1"})
        \cup Chip("AT45", "AT45", FALSE, 2, {Slow}, {FALSE}, {"0"})
        \cup Chip("AT45wide", "AT45", TRUE, 2, {1}, {FALSE}, {"0"})
        \cup Chip("AT45big", "AT45", FALSE, 4, {1}, {FALSE}, {"0"})
OtherChips ==
    UNION {Chip("MX", "linear", FALSE, 3, {1, Slow}, {FALSE}, {"0"}), Chip("MX", "linear", FALSE, 3, {1}, {TRUE}, {"0"}),
           Chip("N25", "linear", FALSE, 3, {2, Slow}, {FALSE}, {"0"}), Chip("SST", "SST", FALSE, 2, {1, Slow}, {TRUE}, {"0"})}
Unknown == Chip("other", "linear", FALSE, 3, {1}, BOOLEAN, {"0"})
Flashes == AtmelChips \cup OtherChips \cup Unknown

BoardOf(ids, fits, flash) ==
    [tap |-> IDLE, ir |-> [k \in DOMAIN ids |-> Sym("IDCODE")], ids |-> ids, irlen |-> Irlen,
     scan |-> [k \in DOMAIN ids |-> Zero], out |-> <<>>, design |-> "none", clearing |-> 0,
     loaded |-> "nothing", fits |-> fits, heard |-> [n |-> 0, c |-> Zero], flash |-> flash]

Alone(f) == BoardOf(<<"xc3s">>, {"bscan", "main"}, f)
Called(command, option, length, partial, reconfigure) ==
    [command |-> command, option |-> option, length |-> length, partial |-> partial, reconfigure |-> reconfigure,
     family |-> [dna |-> reconfigure, reconfigures |-> reconfigure]]
Setting(r, b, t) == [run |-> r, board |-> b, type |-> t]

\* Every flash, with every option and length of image.
FlashRuns ==
    {Called("flash", "ERASE_ONLY", 1, FALSE, FALSE)}
        \cup {Called("flash", o, l, p, FALSE) :
                 o \in {"FULL", "WRITE_ONLY", "VERIFY_ONLY"}, l \in {1, 3}, p \in {FALSE}}
        \cup {Called("flash", o, 2, p, FALSE) : o \in {"FULL", "WRITE_ONLY", "VERIFY_ONLY"}, p \in BOOLEAN}
\* What FlashType held matters to a chip that does not set it.
TypesBefore(f) == IF f \in OtherChips THEN {"DataFlash"} ELSE FlashTypes
FlashSettings ==
    UNION {{Setting(r, Alone(f), t) : r \in FlashRuns, t \in TypesBefore(f)} : f \in Flashes}

\* Every command, alone and with other devices, known or not, and with designs
\* the FPGA does not take.
MXs == {f \in Chip("MX", "linear", FALSE, 3, {1}, {FALSE}, {"0"}) : f.mem[0] = Old}
Chains == {<<"xc3s">>, <<"xc3s", "prom">>, <<"xc3s", "prom", "prom">>, <<"xc3s", "?">>}
CommandSettings ==
    {Setting(Called(c, "FULL", 1, FALSE, r), BoardOf(ids, fits, f), t) :
        c \in {"detect", "status", "stat", "reconfigure", "upload", "flash"}, r \in BOOLEAN,
        ids \in Chains, fits \in {{}, {"bscan", "main"}}, f \in MXs, t \in {"DataFlash"}}

MCSettings == FlashSettings \cup CommandSettings

=============================================================================
