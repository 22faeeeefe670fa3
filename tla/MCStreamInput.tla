--------------------------- MODULE MCStreamInput ---------------------------
(* An instance of StreamInput for TLC: lines of one, two and four pieces, one  *)
(* of them with a NUL before its newline, read two pieces at a time, with two  *)
(* pieces as the longest unfinished line.                                      *)
EXTENDS StreamInput

Key(k, b)   == [type |-> "key", code |-> k, down |-> b]
PressA      == Key("a", TRUE)
PressB      == [type |-> "button", code |-> "b", down |-> TRUE]
Wheel       == [type |-> "wheel", code |-> "up"]
Combination == [type |-> "combo", codes |-> <<"a", "?", "b">>]
Inner       == [type |-> "batch", items |-> <<Key("a", FALSE), Key("?", TRUE), PressB>>]
Outer       == [type |-> "batch", items |-> <<PressA, Inner, [type |-> "error"], Wheel>>]

AllCommands == { PressA, PressB, Wheel, Combination, Inner, Outer, [type |-> "error"],
                 Key("a", FALSE), Key("?", TRUE) }
Line(c, n, nul) == [do |-> c, len |-> n, nul |-> nul]
SomeLines == { Line(PressA, 1, 0), Line(Combination, 2, 0), Line(Wheel, 2, 2), Line(Outer, 4, 0) }
=============================================================================
