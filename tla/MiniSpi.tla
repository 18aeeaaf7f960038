------------------------------- MODULE MiniSpi -------------------------------
(***************************************************************************)
(* The SPI slave of the water meter, pulsemeter/verilog/minispi.v: chip    *)
(* select and clock pass three-stage synchronisers, the shift register is  *)
(* loaded when chip select falls and shifted on falling clock edges.       *)
(***************************************************************************)
EXTENDS Integers

CONSTANT Width      \* bits of the shift register (16)

ASSUME WidthAssumption == Width \in Nat \ {0}

VARIABLES
    sclk, mosi, csn,    \* spi_clk, spi_mosi, spi_csn as the host drives them
    shift,              \* spi_shift
    mosiSmp,            \* spi_mosi_smp
    clkSync, csnSync    \* <<[0], [1], [2]>> of the synchronisers

spiLines == <<sclk, mosi, csn>>
spiRegs == <<shift, mosiSmp, clkSync, csnSync>>

Words == 2 ^ Width

ASSUME WordsAssumption == Words \in Nat /\ Words > 1

CsnDown == csnSync[3] = 1 /\ csnSync[2] = 0     \* spi_sot
CsnUp == csnSync[3] = 0 /\ csnSync[2] = 1       \* spi_eot
ClkDown == clkSync[3] = 1 /\ clkSync[2] = 0
ClkUp == clkSync[3] = 0 /\ clkSync[2] = 1

\* spi_miso
Miso == shift \div (Words \div 2)

\* The bit shifted in.
BitIn == mosiSmp

\* always @(posedge clk), with the count to be loaded at chip select
SpiPosedge(data) ==
    /\ clkSync' = <<sclk, clkSync[1], clkSync[2]>>
    /\ csnSync' = <<csn, csnSync[1], csnSync[2]>>
    /\ mosiSmp' = IF ClkUp THEN mosi ELSE mosiSmp
    /\ shift' = IF CsnDown THEN data
                ELSE IF ClkDown THEN (2 * shift + BitIn) % Words ELSE shift

=============================================================================
