------------------------------ MODULE WaterLog ------------------------------
(***************************************************************************)
(* The water logger, pulsemeter/waterlog/waterlog-ekm.c: every ten seconds *)
(* it reads the meter's accumulator over SPI, checks the echo of the       *)
(* pattern it sent and appends a record to the log.  The meter is the      *)
(* Accumulator that PulseMeter implements.  A transfer can fail before or  *)
(* after the meter has been selected, and the process can be restarted     *)
(* anywhere; the meter keeps running.                                      *)
(***************************************************************************)
EXTENDS Accumulator

CONSTANTS
    MaxPulses,  \* bound on the pulses of a behaviour
    MaxFaults   \* bound on failed transfers and restarts together

ASSUME WaterLogAssumption ==
    Modulus \in Nat \ {0} /\ MaxPulses \in Nat /\ MaxFaults \in Nat

VARIABLES
    pc,         \* "sleep", or "record" once a good count is in hand
    lastCount,  \* last_count
    record,     \* count in the last record of the log; NoRecord when empty
    total,      \* ghost: pulses so far
    waterLogged, \* ghost: sum of the counts in the log
    faults,     \* ghost: failures and restarts so far
    taken,      \* ghost: some failure took a count from the meter
    mine,       \* ghost: the last non-zero record is of the process's present life
    dry         \* ghost: the last good count of this life was zero

watervars == <<acc, word, pc, lastCount, record, total, waterLogged, faults, taken, mine, dry>>

NoRecord == -1

WaterInit ==
    /\ AccInit /\ pc = "sleep" /\ lastCount = 0 /\ record = NoRecord
    /\ total = 0 /\ waterLogged = 0 /\ faults = 0
    /\ taken = FALSE /\ mine = TRUE /\ dry = FALSE

-----------------------------------------------------------------------------
\* Water flows.
Flow ==
    /\ total < MaxPulses
    /\ Blip /\ total' = total + 1
    /\ UNCHANGED <<pc, lastCount, record, waterLogged, faults, taken, mine, dry>>

\* spi_xfer() succeeds and the echo is right.
Transfer ==
    /\ pc = "sleep" /\ pc' = "record"
    /\ ReadOut(0)
    /\ UNCHANGED <<lastCount, record, total, waterLogged, faults, taken, mine, dry>>

\* "transfer error!" or "SPI chain broken!": the loop starts over.  Whether the
\* meter was selected, and so has cleared its accumulator, is not known.
\* (Faulty: the failed read is taken for a reading of zero.)
LastAfterFailureZero == 0
LastAfterFailure == lastCount

TransferFails ==
    /\ pc = "sleep" /\ faults < MaxFaults
    /\ \/ ReadOut(0) /\ taken' = (taken \/ acc # 0)
       \/ UNCHANGED <<acc, word, taken>>
    /\ faults' = faults + 1
    /\ lastCount' = LastAfterFailure
    /\ UNCHANGED <<pc, record, total, waterLogged, mine, dry>>

\* The record of a good count: one when water flowed, one of zero when it
\* has just stopped, none otherwise.  (Faulty: the running count is logged.)
CountLoggedFresh == acc
CountLogged == word

Record ==
    /\ pc = "record" /\ pc' = "sleep"
    /\ \/ /\ CountLogged # 0
          /\ record' = CountLogged /\ mine' = TRUE
       \/ /\ CountLogged = 0 /\ lastCount # 0
          /\ record' = 0 /\ UNCHANGED mine
       \/ /\ CountLogged = 0 /\ lastCount = 0
          /\ UNCHANGED <<record, mine>>
    /\ waterLogged' = waterLogged + CountLogged
    /\ lastCount' = word /\ dry' = (word = 0)
    /\ UNCHANGED <<acc, word, total, faults, taken>>

\* The process dies and is started again; a count in hand is gone.
WaterRestart ==
    /\ faults < MaxFaults /\ faults' = faults + 1
    /\ pc' = "sleep" /\ lastCount' = 0
    /\ taken' = (taken \/ (pc = "record" /\ word # 0))
    /\ mine' = FALSE /\ dry' = FALSE
    /\ UNCHANGED <<acc, word, record, total, waterLogged>>

WaterNext == Flow \/ Transfer \/ TransferFails \/ Record \/ WaterRestart

WaterSpec == WaterInit /\ [][WaterNext]_watervars

\* The loop goes on; faults are finitely many, so transfers succeed again.
FairWaterSpec == WaterSpec /\ WF_watervars(Transfer) /\ WF_watervars(Record)

-----------------------------------------------------------------------------
(***************************************************************************)
(* Properties.                                                             *)
(***************************************************************************)
InHand == IF pc = "record" THEN word ELSE 0

\* The log never shows more water than flowed, and as long as no fault has
\* swallowed a count it accounts for every pulse, up to whole turns of the
\* accumulator between two reads.
EveryPulseOnce ==
    /\ waterLogged + InHand + acc <= total
    /\ ~taken => (total - (waterLogged + InHand + acc)) % Modulus = 0

\* When the water has stopped for good, the log's last record says so, however
\* reads fail, unless the process was restarted after the last flow.
StopEventuallyMarked == <>[](~mine \/ record \in {NoRecord, 0})

=============================================================================
