------------------------------ MODULE MCTrading ------------------------------
(* Trading on small instances: see the .cfg file.                          *)
EXTENDS Trading

CONSTANTS c1, c2, c3, s1, s2

Of(symbol, recipe, maker) ==
    [symbol |-> symbol, recipe |-> recipe, maker |-> maker]
Three(x, y, z) ==
    [d \in {c1, c2, c3} |-> CASE d = c1 -> x [] d = c2 -> y [] d = c3 -> z]

(* Two candidates, and a second leg that never has a first one.            *)
Two(x, y) == Three(x, y, Of(s2, "rejoin", TRUE))

(* A trend with its second leg and a liquidation entry on one symbol; a    *)
(* liquidation entry with its second leg; a competition for the standard   *)
(* slot and one for the dedicated slot.                                    *)
Worlds == {
    Three(Of(s1, "trend", TRUE), Of(s1, "reentry", TRUE), Of(s1, "reversal", FALSE)),
    Two(Of(s1, "reversal", FALSE), Of(s1, "rejoin", FALSE)),
    Two(Of(s1, "trend", TRUE), Of(s2, "trend", FALSE)),
    Two(Of(s1, "fast", TRUE), Of(s2, "fast", FALSE))}

(* A maker and a market entry of two symbols, a maker reversal with its    *)
(* second leg.                                                             *)
Pairs == {
    Two(Of(s1, "trend", TRUE), Of(s2, "trend", FALSE)),
    Two(Of(s1, "reversal", TRUE), Of(s1, "rejoin", FALSE))}
=============================================================================
