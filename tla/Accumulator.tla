----------------------------- MODULE Accumulator -----------------------------
(***************************************************************************)
(* What the meter promises its host (pulsemeter/README.txt): a count of    *)
(* pulses, modulo the width of the register, that a read takes and clears  *)
(* in one indivisible step, a pulse at that very instant going to the next *)
(* count.                                                                  *)
(***************************************************************************)
EXTENDS Integers

CONSTANT Modulus        \* 2^16

VARIABLES
    acc,        \* pulses since the last read
    word        \* the count the last read took

accVars == <<acc, word>>

AccInit == acc = 0 /\ word = 0

Blip == acc' = (acc + 1) % Modulus /\ UNCHANGED word

\* A read, with the number of pulses that coincide with it.
ReadOut(coinciding) == word' = acc /\ acc' = coinciding

AccNext == Blip \/ ReadOut(0) \/ ReadOut(1)

AccSpec == AccInit /\ [][AccNext]_accVars

=============================================================================
