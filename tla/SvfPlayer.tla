------------------------------ MODULE SvfPlayer ------------------------------
(***************************************************************************)
(* svfload -p: main_play() plays an SVF file twice through libxsvf, first  *)
(* with callbacks that only count clocks (analyze), then with callbacks    *)
(* that drive the JTAG pins through svfctl() or the FreeBSD driver (play). *)
(* One step is one TCK pulse, one delay call, or one command read.  Any    *)
(* pin operation may fail; the device follows IEEE 1149.1 on the edges     *)
(* that reach it.                                                          *)
(***************************************************************************)
EXTENDS Tap, Sequences

CONSTANTS
    Scripts,    \* the SVF files: sequences of commands
    Chunk,      \* most clocks of one delay call (100000)
    MaxFaults,  \* bound on failing pin operations
    MaxTck      \* where the analysis stops counting, beyond any file's clocks

ASSUME PlayerAssumption ==
    Chunk \in Nat \ {0} /\ MaxFaults \in Nat /\ MaxTck \in Nat

\* The commands a file may have.  RUNTEST waits in a state that clocks with
\* TMS = 0 do not leave; the SVF standard also allows RESET, which they do.
States == DeviceStates \cup {UNKNOWN}
Stable == {IDLE, DRPAUSE, IRPAUSE}
BitData == [len : Nat, tdo : BOOLEAN]
WellFormed(c) ==
    /\ c.op \in {"SDR", "SIR", "SET", "RUNTEST", "STATE", "SYNTAX"}
    /\ c.op \in {"SDR", "SIR"} => c.bits \in BitData
    /\ c.op = "SET" =>
           \/ c.what \in {"endir", "enddr"} /\ c.value \in States
           \/ c.what \in {"hdr", "tdr", "hir", "tir"} /\ c.value \in BitData
    /\ c.op = "RUNTEST" => c.run \in Stable /\ c.tck \in Nat /\ c.end \in States
    /\ c.op = "STATE" => c.path \in Seq(States)

ASSUME FileAssumption ==
    \A s \in Scripts : Len(s) \in Nat /\ \A i \in 1 .. Len(s) : WellFormed(s[i])

VARIABLES
    script,     \* the file
    linux,      \* the build: gpiochip handles, or the FreeBSD driver
    mode,       \* "analyze", "play"
    phase,      \* "setup", "svf", "reset", "shutdown", "done"
    at,         \* next command of the script
    set,        \* the settings libxsvf_svf() keeps in locals
    jobs,       \* calls the command still has to make
    round,      \* i, and j in INIT, of libxsvf_tap_walk()
    tap,        \* h->tap_state
    tdoError,   \* tdo_error of bitdata_play()
    rc,         \* what libxsvf_play() will return
    total, count,   \* tck_total, tck_count
    outputs,    \* JTAG pins configured as outputs
    dev,        \* the device's state
    faults,     \* ghost: failed pin operations
    lost,       \* ghost: pulses that made no edge, or delay clocks beyond the count
    edges,      \* ghost: rising edges that reached the device
    mismatch,   \* ghost: a line read differed from what the file expects
    bits        \* ghost: edges in the shift state the command aims at, once reset

host == <<mode, phase, at, set, jobs, round, tap, tdoError, rc, total, count>>
world == <<outputs, dev, faults, lost, edges, mismatch, bits>>
vars == <<script, linux, host, world>>

NoBits == [len |-> 0, tdo |-> FALSE]
Defaults ==
    [endir |-> IDLE, enddr |-> IDLE, run |-> IDLE, endrun |-> IDLE,
     hdr |-> NoBits, tdr |-> NoBits, hir |-> NoBits, tir |-> NoBits]

Walk(s) == [op |-> "walk", to |-> s]
Shift(bd, s) == [op |-> "shift", left |-> bd.len, tdo |-> bd.tdo, to |-> s]
Delay(n) == [op |-> "delay", left |-> n]

Init ==
    /\ script \in Scripts /\ linux \in BOOLEAN
    /\ mode = "analyze" /\ phase = "setup" /\ at = 1 /\ set = Defaults
    /\ jobs = <<>> /\ round = 0 /\ tap = INIT /\ tdoError = FALSE /\ rc = -1
    /\ total = 0 /\ count = 0
    /\ outputs = {} /\ dev = RESET
    /\ faults = 0 /\ lost = 0 /\ edges = 0 /\ mismatch = FALSE /\ bits = 0

-----------------------------------------------------------------------------
(***************************************************************************)
(* Pulses.  Each of the operators gives the new state of everything from   *)
(* the pins outward, and the counter; err is what the callback's return    *)
(* value tells its caller.                                                 *)
(***************************************************************************)
Target == IF phase = "svf" /\ at > 1 /\ script[at - 1].op = "SIR" THEN IRSHIFT ELSE DRSHIFT

Edge(tms) ==
    /\ dev' = Device(dev, tms) /\ edges' = edges + 1
    /\ bits' = IF dev = Target /\ tap # INIT THEN bits + 1 ELSE bits

\* cb_analyze_pulse_tck()
Total(n) == IF total + n < MaxTck THEN total + n ELSE MaxTck
AnalyzePulse(err) ==
    /\ mode = "analyze" /\ ~err
    /\ total' = Total(1) /\ UNCHANGED <<count, world>>

\* cb_play_pulse_tck() when every pin operation succeeds
PlayPulse(tms, tdo, err) ==
    /\ mode = "play" /\ (err => tdo)
    /\ Edge(tms) /\ mismatch' = (mismatch \/ err)
    /\ count' = count + 1 /\ UNCHANGED <<total, outputs, faults, lost>>

\* cb_play_pulse_tck() when one fails: tdo_val stays what the caller expects, a
\* match, or -1 if it expects nothing.  Only a failing read comes after the edge.
PulseFails(tms, tdo, err) ==
    /\ mode = "play" /\ faults < MaxFaults /\ faults' = faults + 1
    /\ err = ~tdo
    /\ \/ Edge(tms) /\ UNCHANGED lost
       \/ lost' = lost + 1 /\ UNCHANGED <<dev, edges, bits>>
    /\ count' = count + 1 /\ UNCHANGED <<total, outputs, mismatch>>

Pulse(tms, tdo, err) ==
    AnalyzePulse(err) \/ PlayPulse(tms, tdo, err) \/ PulseFails(tms, tdo, err)

-----------------------------------------------------------------------------
(***************************************************************************)
(* What a command sets and which calls it makes.                           *)
(***************************************************************************)

\* Bits that follow the header.  (Faulty: the trailer is forgotten.)
BehindHeadBody(body, tail) == body.len
BehindHead(body, tail) == body.len + tail.len

\* The target state of a bit sequence depends on what follows.
Last(len, shift, end) == IF len > 0 THEN shift ELSE end
ScanJobs(head, body, tail, shift, end) ==
    <<Walk(shift),
      Shift(head, Last(BehindHead(body, tail), shift, end)),
      Shift(body, Last(tail.len, shift, end)),
      Shift(tail, end),
      Walk(end)>>

\* The calls of command c under settings s, its own included.
CommandJobs(c, s) ==
    CASE c.op = "SDR" -> ScanJobs(s.hdr, c.bits, s.tdr, DRSHIFT, s.enddr)
      [] c.op = "SIR" -> ScanJobs(s.hir, c.bits, s.tir, IRSHIFT, s.endir)
      [] c.op = "RUNTEST" -> <<Walk(s.run), Delay(c.tck), Walk(s.endrun)>>
      [] c.op = "STATE" -> [i \in 1 .. Len(c.path) |-> Walk(c.path[i])]
      [] OTHER -> <<>>

\* ENDIR, ENDDR, HDR, TDR, HIR and TIR name the local they set.  RUNTEST sets
\* two, and keeps the one it does not mention.
CommandSets(c, s) ==
    CASE c.op = "SET" -> [s EXCEPT ![c.what] = c.value]
      [] c.op = "RUNTEST" -> [s EXCEPT !.run = c.run, !.endrun = c.end]
      [] OTHER -> s

\* Errors that the text of the command shows.  (ENDDR looks at the other
\* command's variable and lets an unknown state through.)
SyntaxError(c, s) ==
    \/ c.op = "SYNTAX"
    \/ c.op = "SET" /\ c.what \in {"endir", "enddr"} /\ s.endir = UNKNOWN

\* libxsvf_play() after the player proper: the walk back to RESET.
Leave(result) ==
    /\ rc' = result /\ phase' = "reset" /\ jobs' = <<Walk(RESET)>> /\ round' = 0

\* What an error ends in.  (Faulty: an error skips the walk back.)
ErrorWithoutReset ==
    /\ rc' = -1 /\ phase' = "shutdown" /\ jobs' = <<>> /\ round' = 0
Error == Leave(-1)

ReadCommand ==
    /\ phase = "svf" /\ jobs = <<>>
    /\ \/ /\ at > Len(script) /\ Leave(0) /\ UNCHANGED <<at, set>>
       \/ /\ at <= Len(script) /\ at' = at + 1 /\ set' = CommandSets(script[at], set)
          /\ \/ SyntaxError(script[at], set') /\ Error
             \/ /\ ~SyntaxError(script[at], set')
                /\ jobs' = CommandJobs(script[at], set') /\ round' = 0
                /\ UNCHANGED <<rc, phase>>
    /\ bits' = 0
    /\ UNCHANGED <<script, linux, mode, tap, tdoError, total, count,
                   outputs, dev, faults, lost, edges, mismatch>>

-----------------------------------------------------------------------------
(***************************************************************************)
(* libxsvf_tap_walk(), bitdata_play() and udelay(), the first of jobs.     *)
(***************************************************************************)
Doing(op) == phase \in {"svf", "reset"} /\ jobs # <<>> /\ Head(jobs).op = op

Done ==
    /\ jobs' = Tail(jobs) /\ round' = 0
    /\ phase' = IF phase = "reset" THEN "shutdown" ELSE phase

\* A round of the walker.  In INIT it makes ResetPulses pulses; round counts
\* them as -ResetPulses .. -1 there.  Return values are not looked at.
WalkRound ==
    LET t == Head(jobs).to IN
    /\ Doing("walk") /\ tap # t
    /\ \E err \in BOOLEAN : Pulse(WalkTms(tap, t), FALSE, err)
    /\ \/ /\ tap = INIT /\ round > 1 - ResetPulses
          /\ round' = round - 1 /\ UNCHANGED <<tap, jobs, phase, rc>>
       \/ /\ tap = INIT => round = 1 - ResetPulses
          /\ tap' = WalkNext(tap, t)
          /\ LET i == IF tap = INIT THEN 0 ELSE round IN
             \/ /\ WalkerStuck(i)
                /\ IF phase = "svf" THEN Error ELSE Done /\ UNCHANGED rc
             \/ /\ ~WalkerStuck(i) /\ round' = IF i < 12 THEN i + 1 ELSE i
                /\ UNCHANGED <<jobs, phase, rc>>
    /\ UNCHANGED <<script, linux, mode, at, set, tdoError>>

WalkDone ==
    /\ Doing("walk") /\ tap = Head(jobs).to
    /\ Done
    /\ UNCHANGED <<script, linux, mode, at, set, tap, tdoError, rc, total, count, world>>

\* (Faulty: each bit's result replaces the last one's.)
TdoErrorLastBit(err) == err
TdoErrorAfter(err) == tdoError \/ err

ShiftBit ==
    LET job == Head(jobs)
        leaves == job.left = 1 /\ tap # job.to
    IN
    /\ Doing("shift") /\ job.left > 0
    /\ tap' = IF leaves THEN tap + 1 ELSE tap
    /\ \E err \in BOOLEAN :
        /\ Pulse(IF leaves THEN 1 ELSE 0, job.tdo, err)
        /\ tdoError' = TdoErrorAfter(err)
    /\ jobs' = [jobs EXCEPT ![1].left = @ - 1]
    /\ UNCHANGED <<script, linux, mode, phase, at, set, round, rc>>

\* All bits go out before a mismatch ends the command.
ShiftDone ==
    /\ Doing("shift") /\ Head(jobs).left = 0
    /\ IF tdoError THEN Error ELSE Done /\ UNCHANGED rc
    /\ tdoError' = FALSE
    /\ UNCHANGED <<script, linux, mode, at, set, tap, total, count, world>>

\* The clocks asked of one call.
Request(left) == IF left > Chunk THEN Chunk ELSE left

\* What the caller finds in tck_cnt after a call that made n of its clocks and
\* then failed.  FreeBSD copies nothing back from a failing ioctl.
Reported(n, cnt) == IF linux THEN n ELSE cnt

\* What is added to tck_count.  (Faulty: what was asked for.)
CountedRequest(reported, cnt) == cnt
Counted(reported, cnt) == reported

\* One call of svfctl(KSVF_UDELAY), n of its cnt clocks made, TMS = 0.
DelayCall(n) ==
    LET left == Head(jobs).left  cnt == Request(left)
        reported == IF n = cnt THEN cnt ELSE Reported(n, cnt)
    IN
    /\ Doing("delay") /\ mode = "play" /\ left > 0
    /\ n <= cnt /\ (n < cnt => faults < MaxFaults)
    /\ faults' = IF n < cnt THEN faults + 1 ELSE faults
    /\ dev' = Clocked(n, dev) /\ edges' = edges + n
    /\ jobs' = [jobs EXCEPT ![1].left = @ - reported]
    /\ count' = count + Counted(reported, cnt)
    /\ UNCHANGED <<script, linux, mode, phase, at, set, round, tap, tdoError, rc, total,
                   outputs, lost, mismatch, bits>>

AnalyzeDelay ==
    /\ Doing("delay") /\ mode = "analyze" /\ Head(jobs).left > 0
    /\ total' = Total(Head(jobs).left)
    /\ jobs' = [jobs EXCEPT ![1].left = 0]
    /\ UNCHANGED <<script, linux, mode, phase, at, set, round, tap, tdoError, rc, count, world>>

DelayDone ==
    /\ Doing("delay") /\ Head(jobs).left = 0
    /\ Done
    /\ UNCHANGED <<script, linux, mode, at, set, tap, tdoError, rc, total, count, world>>

-----------------------------------------------------------------------------
(***************************************************************************)
(* Setup and shutdown, and from the analysis to the play.                  *)
(***************************************************************************)
JtagPins == {"tck", "tms", "tdi"}
Start == phase' = "svf" /\ rc' = 0 /\ UNCHANGED <<script, linux, mode, at, set, jobs, round>>
Refused == phase' = "done" /\ UNCHANGED <<script, linux, mode, at, set, jobs, round, rc>>

AnalyzeSetup ==
    /\ phase = "setup" /\ mode = "analyze"
    /\ IF script = <<>> THEN Refused ELSE Start
    /\ UNCHANGED <<tap, tdoError, total, count, world>>

\* KSVF_INIT; where the device stands is not known.
PlaySetup ==
    /\ phase = "setup" /\ mode = "play" /\ Start
    /\ outputs' = JtagPins /\ dev' \in DeviceStates
    /\ UNCHANGED <<tap, tdoError, total, count, faults, lost, edges, mismatch, bits>>

\* A failing KSVF_INIT: there is no shutdown after it.
PlaySetupFails ==
    /\ phase = "setup" /\ mode = "play" /\ faults < MaxFaults /\ Refused
    /\ faults' = faults + 1 /\ outputs' \in SUBSET JtagPins
    /\ UNCHANGED <<tap, tdoError, total, count, dev, lost, edges, mismatch, bits>>

\* main_play() plays only what the analysis accepted.
AnalyzeShutdown ==
    /\ phase = "shutdown" /\ mode = "analyze"
    /\ \/ rc = 0 /\ mode' = "play" /\ phase' = "setup" /\ rc' = -1
       \/ rc # 0 /\ phase' = "done" /\ UNCHANGED <<mode, rc>>
    /\ at' = 1 /\ set' = Defaults /\ tap' = INIT
    /\ UNCHANGED <<script, linux, jobs, round, tdoError, total, count, world>>

\* KSVF_FINI: the pins that could not be made inputs, and whether it says so.
\* The Linux build tries all and returns the result of the last, TCK; the
\* driver, whose first is TCK, stops at a failure and returns that.
FiniResult(failed) ==
    IF linux
    THEN [left |-> failed, ok |-> "tck" \notin failed]
    ELSE [left |-> CASE "tck" \in failed -> JtagPins
                     [] "tck" \notin failed /\ "tms" \in failed -> {"tms", "tdi"}
                     [] OTHER -> failed,
          ok |-> failed = {}]

RcAfter(ok) == IF rc = 0 /\ ~ok THEN -1 ELSE rc

PlayShutdown(failed) ==
    /\ phase = "shutdown" /\ mode = "play" /\ phase' = "done"
    /\ failed # {} => faults < MaxFaults
    /\ faults' = IF failed # {} THEN faults + 1 ELSE faults
    /\ outputs' = FiniResult(failed).left
    /\ rc' = RcAfter(FiniResult(failed).ok)
    /\ UNCHANGED <<script, linux, mode, at, set, jobs, round, tap, tdoError, total, count,
                   dev, lost, edges, mismatch, bits>>

Next ==
    \/ AnalyzeSetup \/ PlaySetup \/ PlaySetupFails
    \/ ReadCommand \/ WalkRound \/ WalkDone \/ ShiftBit \/ ShiftDone
    \/ AnalyzeDelay \/ DelayDone \/ (\E n \in 0 .. Chunk : DelayCall(n))
    \/ AnalyzeShutdown \/ (\E failed \in SUBSET JtagPins : PlayShutdown(failed))

Spec == Init /\ [][Next]_vars

\* The program keeps running.
FairSpec == Spec /\ WF_vars(Next)

-----------------------------------------------------------------------------
(***************************************************************************)
(* Properties.                                                             *)
(***************************************************************************)

\* Whatever the file does, walks, bit sequences that end in an exit state,
\* errors in their middle: while no pin operation failed the host's idea of the
\* TAP state is the device's state, from the end of the first reset on.
HostFollowsDevice ==
    mode = "play" /\ phase \in {"svf", "reset", "shutdown"} /\ tap # INIT /\ faults = 0
        => tap = dev

\* Every bit of header, data and trailer is shifted exactly once, whichever of
\* them are empty and whatever state the scan ends in.  (A scan of no bits at all
\* is left out: on its way to the end state the walker clocks one bit through.)
ScanLength(head, body, tail) ==
    LET n == head.len + body.len + tail.len IN IF n = 0 THEN {0, 1} ELSE {n}
ExactBits ==
    [][ReadCommand /\ mode = "play" /\ faults = 0 /\ at > 1 =>
        LET c == script[at - 1] IN
        /\ c.op = "SDR" => bits \in ScanLength(set.hdr, c.bits, set.tdr)
        /\ c.op = "SIR" => bits \in ScanLength(set.hir, c.bits, set.tir)]_vars

\* A line that differed from what the file expects makes the play fail, whatever
\* else goes wrong.
MismatchReported == phase = "done" /\ mismatch => rc # 0

\* The progress count never passes what the analysis found, and a play that
\* succeeds has made exactly those pulses, also after delays that failed halfway.
AnalyzePredicts ==
    mode = "play" =>
        /\ count <= total
        /\ phase = "done" /\ rc = 0 => count = total

\* "The actual number of TCK cycles will be written back to tck_cnt and passed
\* back to the caller": every pulse that is counted reached the device, unless
\* its own operation failed.  (The FreeBSD build is exempt: an ioctl that fails
\* copies nothing back.)
EdgesAccounted == linux => count = edges + lost

AccountsTrue == AnalyzePredicts /\ EdgesAccounted

\* The device is left in RESET, after an error as well, and, "make the pins all
\* inputs", a play that succeeds leaves no pin driven.  (The Linux build is exempt
\* from the latter: it looks at the result for the last pin only.)
ResetAtEnd ==
    mode = "play" /\ phase = "shutdown" /\ faults = 0 => dev = RESET
PinsReleased == phase = "done" /\ rc = 0 /\ ~linux => outputs = {}
LeftInOrder == ResetAtEnd /\ PinsReleased

\* Every file is played to an end; none makes the walker go round for ever.
Terminates == <>(phase = "done")

=============================================================================
