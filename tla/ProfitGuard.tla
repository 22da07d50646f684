----------------------------- MODULE ProfitGuard -----------------------------
(***************************************************************************)
(* greed-runtime's profit_guard.rs: the executable-value floor under one   *)
(* managed position.  A quote values the remaining quantity at the depth   *)
(* of the execution venue; observe remembers the best value seen, raises   *)
(* a floor under it, and asks for an exit when the value comes back to the *)
(* floor.                                                                  *)
(*                                                                         *)
(* Returns are integers, in steps of the smallest return the thresholds    *)
(* tell apart.  An Option is a set of at most one element.                 *)
(***************************************************************************)
EXTENDS Integers

CONSTANTS
    Cost,            \* COST_RESERVE
    Activation,      \* profit_shield_activation_pct, an Option, gross
    Floor,           \* break_even_buffer_pct, gross
    MemActivation,   \* effective_profit_memory's activation, an Option, gross
    MemFloor,        \* effective_profit_memory's floor, net
    TrailActivation, \* effective_trailing_activation, an Option, gross
    TrailDistance    \* trailing_distance_pct

ASSUME ThresholdsAreReturns ==
    /\ Cost \in Nat
    /\ Floor \in Int /\ MemFloor \in Int /\ TrailDistance \in Nat
    /\ Activation \subseteq Int
    /\ MemActivation \subseteq Int
    /\ TrailActivation \subseteq Int

(* ProfitGuard: the quantity it values, the best net return seen for that  *)
(* quantity, and the floor.  Quantity 0 stands for None.                   *)
GuardType == [quantity : Nat, peak : Int, floor : SUBSET Int]
NoGuard == [quantity |-> 0, peak |-> 0, floor |-> {}]

AtLeast(a, b) == IF a >= b THEN a ELSE b
AtMost(a, b) == IF a <= b THEN a ELSE b

(* A gross threshold is compared with a net peak.                          *)
Reached(threshold, peak) == \E a \in threshold : peak >= AtLeast(a - Cost, 0)

(* Mutant: every quote starts a new guard.                                 *)
ObservedAfresh(g, net, quantity) ==
    [quantity |-> quantity, peak |-> net, floor |-> {}]

(* Mutant: the floor outlives the quantity it was set for.                 *)
ObservedKeepsFloor(g, net, quantity) ==
    IF g.quantity = quantity
    THEN [g EXCEPT !.peak = AtLeast(@, net)]
    ELSE [g EXCEPT !.quantity = quantity, !.peak = net]

(* The best value is remembered for one quantity only.                     *)
Observed(g, net, quantity) ==
    IF g.quantity = quantity
    THEN [g EXCEPT !.peak = AtLeast(@, net)]
    ELSE [quantity |-> quantity, peak |-> net, floor |-> {}]

(* Raised(floor, to): a floor that is set only rises.                      *)
Raised(floor, to) ==
    IF floor = {} THEN {to} ELSE {AtLeast(f, to) : f \in floor}

(* Profit memory: the floor is capped at the peak and never a loss.        *)
RememberedFloor(g) == AtLeast(0, AtMost(MemFloor, AtLeast(g.peak, 0)))

Remembered(g) ==
    IF Reached(MemActivation, g.peak)
    THEN [g EXCEPT !.floor = Raised(@, RememberedFloor(g))]
    ELSE g

(* The shield's floor, trailing the peak once it is high enough.           *)
ShieldFloor(g) ==
    LET base == AtLeast(Floor - Cost, 0) IN
    IF Reached(TrailActivation, g.peak)
    THEN AtLeast(base, g.peak - TrailDistance) ELSE base

(* Mutant: it is armed without looking at the value.                       *)
ShieldedAtOnce(g, net, partial) ==
    IF partial \/ Reached(Activation, g.peak)
    THEN [g EXCEPT !.floor = Raised(@, ShieldFloor(g))]
    ELSE g

(* An activated shield arms only above its floor, unless a floor is set.   *)
Shielded(g, net, partial) ==
    IF /\ partial \/ Reached(Activation, g.peak)
       /\ g.floor # {} \/ net > ShieldFloor(g)
    THEN [g EXCEPT !.floor = Raised(@, ShieldFloor(g))]
    ELSE g

(* observe: the guard after a quote, and whether it asks for an exit.      *)
Observe(g, net, quantity, partial) ==
    Shielded(Remembered(Observed(g, net, quantity)), net, partial)
AsksExit(g, net) == \E f \in g.floor : net <= f
=============================================================================
