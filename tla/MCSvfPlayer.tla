----------------------------- MODULE MCSvfPlayer -----------------------------
(* Small files that between them visit every state of the access port, end  *)
(* scans in shift, pause and idle states, leave header, data or trailer     *)
(* empty, and make every kind of error.       *)
EXTENDS SvfPlayer

Bits(n, t) == [len |-> n, tdo |-> t]
Sdr(n, t) == [op |-> "SDR", bits |-> Bits(n, t)]
Sir(n, t) == [op |-> "SIR", bits |-> Bits(n, t)]
Set(w, v) == [op |-> "SET", what |-> w, value |-> v]
Runtest(r, n, e) == [op |-> "RUNTEST", run |-> r, tck |-> n, end |-> e]
State(path) == [op |-> "STATE", path |-> path]
Syntax == [op |-> "SYNTAX"]

\* A scan after each end state, with a header or a trailer.
Scans ==
    {<<Set("enddr", e), Set(w, Bits(1, TRUE)), Sdr(n, TRUE), Sdr(1, FALSE)>> :
        e \in {IDLE, DRSHIFT, DRPAUSE, IRPAUSE}, w \in {"hdr", "tdr"}, n \in 0 .. 2}
    \cup {<<Set("endir", e), Set(w, Bits(1, FALSE)), Sir(n, TRUE), Sdr(2, TRUE)>> :
        e \in {IDLE, IRPAUSE, DRPAUSE}, w \in {"hir", "tir"}, n \in 0 .. 1}

\* Nothing between header and trailer.
Hollow ==
    {<<Set("hdr", Bits(1, FALSE)), Set("tdr", Bits(1, TRUE)), Sdr(0, FALSE), Sdr(1, FALSE)>>,
     <<Set("hir", Bits(1, TRUE)), Set("tir", Bits(1, FALSE)), Sir(0, FALSE), Sir(0, FALSE)>>}

\* A walk to each state and from there to another, EXIT2 included.
Walks == {<<State(<<s, t>>)>> : s \in DeviceStates, t \in {RESET, DRSHIFT, IRPAUSE, IRUPDATE}}

Others ==
    {<<>>, <<Syntax>>, <<Sir(1, TRUE), Syntax>>,
     <<Set("enddr", UNKNOWN), Sdr(1, FALSE)>>, <<Set("endir", UNKNOWN)>>}

Delays == {<<Runtest(r, n, e)>> : r \in {IDLE, DRPAUSE}, n \in {0, 5}, e \in {IDLE, IRPAUSE}}

AllScripts == Scans \cup Hollow \cup Walks \cup Others \cup Delays

=============================================================================
