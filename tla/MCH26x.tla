------------------------------- MODULE MCH26x -------------------------------
(* Instance of H26xStream for TLC.                                           *)
EXTENDS H26xStream

\* A frame: start codes of the given lengths, each followed by a unit.
Code(len) == IF len = 3 THEN <<0, 0, 1>> ELSE <<0, 0, 0, 1>>
Filler(first, len) == [i \in 1 .. len |-> IF i = 1 THEN first ELSE 9]
Framed(codes, units) == FlattenSeq([n \in DOMAIN units |-> Code(codes[n]) \o units[n]])
Plain(units) == Framed([n \in DOMAIN units |-> 4], units)

Large == Filler(Inter, 20)
IntraUnit == Filler(Intra, 30)
Small == Filler(7, 13)
Tiny == Filler(7, 3)

Shapes == <<Plain(<<Large>>), Plain(<<IntraUnit>>), Plain(<<IntraUnit, Large>>), Plain(<<Small, Small, IntraUnit>>),
            Plain(<<Small, Large>>), Plain(<<Small, Small>>), Plain(<<Small, Small, Large, Large>>),
            Plain(<<Large, Tiny, Large>>), Plain(<<Filler(7, 7)>>)>>

\* Two units, the first of any length, start codes of both lengths and zeros
\* around the second one.
With0(u, i) == [k \in DOMAIN u |-> IF k = i THEN 0 ELSE u[k]]
CodeLengths == <<<<3, 3>>, <<3, 4>>, <<4, 3>>, <<4, 4>>>>
Zeros == <<<<FALSE, 0>>, <<TRUE, 0>>, <<FALSE, 2>>, <<FALSE, 3>>, <<TRUE, 3>>>>
Layout(i) ==
    LET c == CodeLengths[(i % 4) + 1]
        z == Zeros[((i \div 4) % 5) + 1]
        n == 20 + ((i \div 20) % 4)
        m == 20 + 6 * (i \div 80)
    IN  Framed(c, <<With0(Filler(Inter, n), IF z[1] THEN n ELSE 0), With0(Filler(Intra, m), z[2])>>)

AllFrames == Shapes \o [i \in 1 .. 160 |-> Layout(i - 1)]
Pushed == AllFrames
FewFilms == {[play |-> <<a, b>>, faults |-> 3 - b] : a \in 1 .. 8, b \in {1, 2}}
    \cup {[play |-> <<9, 4>>, faults |-> 2]}
    \cup {[play |-> <<k>>, faults |-> 0] : k \in 10 .. Len(AllFrames)}

=============================================================================
