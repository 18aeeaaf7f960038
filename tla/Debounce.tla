------------------------------ MODULE Debounce ------------------------------
(***************************************************************************)
(* The pulse input of the water meter, pulsemeter/verilog/debounce.v, one  *)
(* posedge of the clock at a time.  The input is active low; a pulse is    *)
(* put out for one clock when a debounced low has been established.        *)
(***************************************************************************)
EXTENDS Integers

CONSTANT DbMax      \* cnt with all its bits set (255)

\* With a counter of one bit the zeros the synchroniser starts with would pass
\* for a closing.
ASSUME DebounceAssumption == DbMax \in Nat /\ DbMax > 1

VARIABLES
    sig,        \* the wire, as the next posedge will sample it
    sync,       \* <<sync[0], sync[1]>>
    state,      \* state
    cnt         \* cnt

debounceVars == <<sig, sync, state, cnt>>

DebounceInit == sig = 1 /\ sync = <<0, 0>> /\ state = 1 /\ cnt = 0

Idle == state = sync[2]
Max == cnt = DbMax
Pulse == ~Idle /\ Max /\ state = 1

\* The counter runs only while the input differs from the debounced state.
\* (Faulty: it is not cleared when the input falls back.)
CntWhenIdleKept == cnt
CntWhenIdle == 0

CntStep == (cnt + 1) % (DbMax + 1)

\* always @(posedge clk)
DebouncePosedge ==
    /\ sync' = <<sig, sync[1]>>
    /\ cnt' = IF Idle THEN CntWhenIdle ELSE CntStep
    /\ state' = IF ~Idle /\ Max THEN 1 - state ELSE state

-----------------------------------------------------------------------------
(***************************************************************************)
(* The wire is high at power-up and bounces freely from then on.  Two      *)
(* ghosts count for how many samples it has been low and high; they count  *)
(* the samples as they leave the synchroniser, two clocks after the wire   *)
(* had them.                                                               *)
(***************************************************************************)
VARIABLES
    low, high,  \* ghost: consecutive low / high samples, up to Cap
    rested      \* ghost: the wire rested high for a debounce period since the
                \*        last pulse, power-up counting as rest

inputVars == <<debounceVars, low, high, rested>>

\* A level is established once DbMax + 1 samples agree.
Period == DbMax + 1
Cap == Period + 1

RunOf(run, agrees) == IF ~agrees THEN 0 ELSE IF run < Cap THEN run + 1 ELSE run

InputInit == DebounceInit /\ low = 0 /\ high = 0 /\ rested = TRUE

InputPosedge ==
    /\ DebouncePosedge
    /\ low' = RunOf(low, sync'[2] = 0) /\ high' = RunOf(high, sync'[2] = 1)
    /\ rested' = (high' >= Period \/ (rested /\ ~Pulse))
    /\ sig' \in {0, 1}

-----------------------------------------------------------------------------
\* One closing of the reed contact is one pulse.  Contact bounce is not counted: a
\* pulse is put out only when the wire has been low for a whole debounce period of
\* consecutive samples; there is no second one before the wire has rested high for
\* a debounce period, whatever it does between.  And a closing that lasts is not
\* missed: once the samples have been low for longer, low is the debounced state.
NoGlitch == Pulse => low >= Period
OncePerClosing == Pulse => rested
ClosingSeen == low = Cap => state = 0
OnePulsePerClosing == NoGlitch /\ OncePerClosing /\ ClosingSeen

=============================================================================
