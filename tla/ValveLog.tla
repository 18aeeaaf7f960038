------------------------------- MODULE ValveLog -------------------------------
(***************************************************************************)
(* The boiler's valve logger, boilermon/valvelog/valvelog.c: once a second *)
(* it samples the valve inputs one after the other, compares them with the *)
(* previous sample and appends on/off events to the log.  Valves move at   *)
(* any moment, also between two inputs of one scan; a read of an input may *)
(* fail; the process may be restarted, and then starts without a past.     *)
(***************************************************************************)
EXTENDS Integers

CONSTANTS
    N,          \* number of valve inputs (6)
    MaxFail     \* bound on failing reads in one life of the process

ASSUME ValveAssumption == N \in Nat \ {0} /\ MaxFail \in Nat

Valves == 1 .. N

VARIABLES
    valve,      \* the valves that are really on
    n,          \* input to be read next; 0 while waiting for the timer
    first,      \* first
    past,       \* io_past, as the set of its bits
    prst,       \* io_prst
    logged,     \* ghost: last event of each valve in this life, or "none"
    system,     \* ghost: last system event in this life, or "none"
    began,      \* ghost: first good reading of each valve in this life
    read,       \* ghost: last good reading of each valve in this life
    failed,     \* ghost: valves a read of which has failed in this life
    fails       \* ghost: how many reads have failed in this life

ghosts == <<logged, system, began, read, failed, fails>>
vars == <<valve, n, first, past, prst, ghosts>>

Event(v) == IF v THEN "on" ELSE "off"

NoEvents == [v \in Valves |-> "none"]

\* main() up to its loop: no past, the first scan still to come.
Init ==
    /\ valve \in SUBSET Valves
    /\ n = 0 /\ first = TRUE /\ past = {} /\ prst = {}
    /\ logged = NoEvents /\ system = "none" /\ began = NoEvents /\ read = NoEvents
    /\ failed = {} /\ fails = 0

-----------------------------------------------------------------------------
\* A valve is opened or closed.
Move(v) ==
    /\ valve' = IF v \in valve THEN valve \ {v} ELSE valve \cup {v}
    /\ UNCHANGED <<n, first, past, prst, ghosts>>

\* The process is started again.
Restart ==
    /\ n' = 0 /\ first' = TRUE /\ past' = {} /\ prst' = {}
    /\ logged' = NoEvents /\ system' = "none" /\ began' = NoEvents /\ read' = NoEvents
    /\ failed' = {} /\ fails' = 0
    /\ UNCHANGED valve

\* The timer expires: io_prst is cleared and the scan begins.
Timer ==
    /\ n = 0
    /\ n' = 1 /\ prst' = {}
    /\ UNCHANGED <<valve, first, past, ghosts>>

\* What a scan logs for input n when its bit in io_prst is bit: edges against
\* io_past, none on the first scan.  (Faulty: rising edges are overlooked.)
ValveEventFalling(bit) ==
    IF ~first /\ ~bit /\ n \in past THEN Event(bit) ELSE logged[n]
ValveEvent(bit) ==
    IF ~first /\ bit # (n \in past) THEN Event(bit) ELSE logged[n]

\* A good reading of input n.
ReadInput ==
    LET bit == n \in valve IN
    /\ n \in Valves
    /\ prst' = IF bit THEN prst \cup {n} ELSE prst
    /\ logged' = [logged EXCEPT ![n] = ValveEvent(bit)]
    /\ read' = [read EXCEPT ![n] = Event(bit)]
    /\ began' = [began EXCEPT ![n] = IF @ = "none" THEN Event(bit) ELSE @]
    /\ n' = n + 1
    /\ UNCHANGED <<valve, first, past, system, failed, fails>>

\* read_input() returns -1: the input is passed over, its bit stays clear.
ReadFails ==
    /\ n \in Valves /\ fails < MaxFail
    /\ n' = n + 1
    /\ failed' = failed \cup {n} /\ fails' = fails + 1
    /\ UNCHANGED <<valve, first, past, prst, logged, system, began, read>>

\* The end of a scan: system events, and io_past takes over io_prst.  (Faulty:
\* io_past is never renewed.)
SystemEvent ==
    IF past # {} /\ prst = {} THEN "off"
    ELSE IF past = {} /\ prst # {} THEN "on" ELSE system
NextPastStale == past
NextPast == prst

EndScan ==
    /\ n = N + 1
    /\ system' = IF first THEN system ELSE SystemEvent
    /\ past' = NextPast /\ first' = FALSE /\ n' = 0
    /\ UNCHANGED <<valve, prst, logged, began, read, failed, fails>>

Scan == Timer \/ ReadInput \/ EndScan

Next == Scan \/ ReadFails \/ Restart \/ \E v \in Valves : Move(v)

Spec == Init /\ [][Next]_vars

\* The timer keeps expiring and the process keeps running.
FairSpec == Spec /\ WF_vars(Scan)

-----------------------------------------------------------------------------
(***************************************************************************)
(* Properties.  A reader of the log reconstructs each valve's state from   *)
(* where it began and the last event logged for it.                        *)
(***************************************************************************)
TypeOK ==
    /\ valve \subseteq Valves /\ past \subseteq Valves /\ prst \subseteq Valves
    /\ n \in 0 .. (N + 1) /\ first \in BOOLEAN
    /\ logged \in [Valves -> {"none", "on", "off"}] /\ system \in {"none", "on", "off"}
    /\ began \in [Valves -> {"none", "on", "off"}] /\ read \in [Valves -> {"none", "on", "off"}]
    /\ failed \subseteq Valves /\ fails \in 0 .. MaxFail

Reconstructed(v) == IF logged[v] = "none" THEN began[v] ELSE logged[v]
Scanned == n = 0 /\ ~first

\* Between scans the log tells the state of every valve whose own reads have
\* not failed, however the valves moved during the scans and whatever failed
\* on the other inputs.
ValveLogTrue ==
    Scanned => \A v \in Valves \ failed : Reconstructed(v) = read[v]

\* As long as no read fails the system events agree with the valves' own: the
\* system is logged off exactly when every valve is reconstructed as off.
SystemLogTrue ==
    Scanned /\ failed = {} /\ system # "none" =>
        (system = "off") = (\A v \in Valves : Reconstructed(v) = "off")

LogTrue == ValveLogTrue /\ SystemLogTrue

\* A valve that is turned on and stays on ends up on in the log, unless a read
\* of it fails or the process keeps being restarted.
OnIsLogged ==
    \A v \in Valves :
        <>[](v \in valve) => []<>(first \/ v \in failed \/ Reconstructed(v) = "on")

=============================================================================
