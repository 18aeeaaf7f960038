----------------------------- MODULE PulseMeter -----------------------------
(***************************************************************************)
(* The water meter's CPLD, pulsemeter/verilog/pulsemeter.v, with an SPI    *)
(* host reading it as waterlog-ekm.c does: 2 * Width clocks in mode 0, the *)
(* first Width for the accumulated count and the rest to see the start of  *)
(* the sent pattern come back.  The host's edges fall between posedges of  *)
(* the CPLD's clock, at least Half posedges apart.                         *)
(***************************************************************************)
EXTENDS Debounce, MiniSpi, Sequences

CONSTANTS
    Half,       \* least number of posedges between two edges of the host: nine
                \* of 1.8432 MHz in half a period of the default 100 kHz, and
                \* no fewer than the stages of the synchronisers
    Pattern     \* the word of 2 * Width bits the host sends (0xdeadbeef)

ASSUME HostAssumption ==
    /\ Half \in Nat /\ Half >= 3
    /\ Pattern \in 0 .. 2 ^ (2 * Width) - 1

\* Arithmetic the provers do not know.
ASSUME PowersAssumption ==
    \A k \in 0 .. 2 * Width : 2 ^ k \in Nat \ {0} /\ 2 ^ (k + 1) = 2 * 2 ^ k

VARIABLES
    pulseCnt,   \* pulse_cnt
    led,        \* {led_d3, led_d2}
    hold,       \* posedges since the host's last edge, up to Half
    bits,       \* bits the host has read in this transaction
    counted,    \* ghost: pulses so far, modulo Words
    word,       \* ghost: the count last loaded into the shift register
    given       \* ghost: sum of the counts the host has read, modulo Words

hostVars == <<hold, bits, given>>
vars == <<inputVars, spiLines, spiRegs, pulseCnt, led, hostVars, counted, word>>

\* Configuration leaves the SPI registers, which have no initial value in the
\* source, cleared: the power-up state of the device's flip-flops.
Init ==
    /\ InputInit
    /\ sclk = 0 /\ mosi = 0 /\ csn = 1
    /\ shift = 0 /\ mosiSmp = 0 /\ clkSync = <<0, 0, 0>> /\ csnSync = <<0, 0, 0>>
    /\ pulseCnt = 0 /\ led = 0
    /\ hold = 0 /\ bits = <<>> /\ counted = 0 /\ word = 0 /\ given = 0

-----------------------------------------------------------------------------
One(b) == IF b THEN 1 ELSE 0

\* The accumulator restarts at the pulse of the same clock.  (Faulty: at zero; or
\* not at all.)
RestartAtZero == 0
RestartKept == pulseCnt
Restart == One(Pulse)

\* always @(posedge clk) of the three modules
Posedge ==
    /\ InputPosedge
    /\ SpiPosedge(pulseCnt)
    /\ pulseCnt' = IF CsnDown THEN Restart ELSE (pulseCnt + One(Pulse)) % Words
    /\ led' = IF CsnUp THEN 3 - (shift % 4) ELSE led
    /\ word' = IF CsnDown THEN pulseCnt ELSE word
    /\ counted' = (counted + One(Pulse)) % Words
    /\ hold' = IF hold < Half THEN hold + 1 ELSE hold
    /\ UNCHANGED <<spiLines, bits, given>>

\* The host sends the pattern from its most significant bit down.
PatternBit(k) == (Pattern \div 2 ^ (2 * Width - k)) % 2

\* The host: chip select falls with the first bit on MOSI, each rising clock
\* reads MISO, each falling clock puts out the next bit, chip select rises.
HostStep ==
    /\ hold = Half /\ hold' = 0
    /\ UNCHANGED <<inputVars, spiRegs, pulseCnt, led, counted, word>>

Select ==
    /\ HostStep /\ csn = 1
    /\ csn' = 0 /\ mosi' = PatternBit(1) /\ bits' = <<>>
    /\ UNCHANGED <<sclk, given>>

ClockUp ==
    /\ HostStep /\ csn = 0 /\ sclk = 0 /\ Len(bits) < 2 * Width
    /\ sclk' = 1 /\ bits' = Append(bits, Miso)
    /\ UNCHANGED <<mosi, csn, given>>

ClockDown ==
    /\ HostStep /\ sclk = 1
    /\ sclk' = 0
    /\ mosi' = IF Len(bits) < 2 * Width THEN PatternBit(Len(bits) + 1) ELSE mosi
    /\ UNCHANGED <<csn, bits, given>>

Number(b) == LET num[i \in 0 .. Len(b)] == IF i = 0 THEN 0 ELSE 2 * num[i - 1] + b[i]
             IN num[Len(b)]
Count == Number(SubSeq(bits, 1, Width))
Echo == Number(SubSeq(bits, Width + 1, 2 * Width))
Sent == Pattern \div Words

Deselect ==
    /\ HostStep /\ csn = 0 /\ sclk = 0 /\ Len(bits) = 2 * Width
    /\ csn' = 1 /\ given' = (given + Count) % Words
    /\ UNCHANGED <<sclk, mosi, bits>>

Next == Posedge \/ Select \/ ClockUp \/ ClockDown \/ Deselect

Spec == Init /\ [][Next]_vars

-----------------------------------------------------------------------------
(***************************************************************************)
(* Properties.                                                             *)
(***************************************************************************)

\* No pulse is lost or counted twice, at whatever clock of a transaction it
\* comes: between transactions the counts the host has read and the count still
\* in the accumulator add up to the pulses there were.
NoPulseLost == csn = 1 => (given + pulseCnt) % Words = counted

\* And, the check of the SPI chain, the second word of a complete transaction is
\* the first word the host sent, whoever is counting meanwhile.
EchoIsSent == Len(bits) = 2 * Width => Echo = Sent
ReadsAreTrue == NoPulseLost /\ EchoIsSent

\* The device is the abstract accumulator its host relies on.
Acc == INSTANCE Accumulator WITH Modulus <- Words, acc <- pulseCnt
ImplementsAccumulator == Acc!AccSpec

=============================================================================
