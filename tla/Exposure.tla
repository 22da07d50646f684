------------------------------ MODULE Exposure ------------------------------
(***************************************************************************)
(* What the executor promises about the exposure it creates, whatever      *)
(* fails: a candidate is traded at most once, and the exposure it keeps    *)
(* books of stays within one per symbol and the slots of the portfolio.    *)
(*                                                                         *)
(* An exposure is an order working or a position open at the exchange.     *)
(***************************************************************************)
EXTENDS Naturals, FiniteSets

CONSTANTS
    Candidates,   \* trade candidates
    MaxPositions  \* slots of the recipes that have none of their own

VARIABLES
    brief,    \* the symbol and the recipe of each candidate
    life,     \* of each candidate: new, open, over
    known,    \* the open exposures the executor keeps books of
    excused   \* candidates whose claim may not have reached the disk

vars == <<brief, life, known, excused>>

Init ==
    /\ life = [c \in Candidates |-> "new"]
    /\ known = {}
    /\ excused = {}

(* FAST_DEDICATED_POSITION_SLOTS for the fast recipe, max_positions for    *)
(* all others together.                                                    *)
Fast == {c \in Candidates : brief[c].recipe = "fast"}
WithinSlots(S) ==
    /\ Cardinality(S \cap Fast) <= 1
    /\ Cardinality(S \ Fast) <= MaxPositions
OnePerSymbol(S) == \A c, d \in S : brief[c].symbol = brief[d].symbol => c = d

(* An order is sent for a candidate never traded before.                   *)
Enter(c) ==
    /\ life[c] = "new" \/ c \in excused
    /\ life' = [life EXCEPT ![c] = "open"]
    /\ known' = known \cup {c}
    /\ OnePerSymbol(known') /\ WithinSlots(known')
    /\ UNCHANGED <<brief, excused>>

(* An order is sent, and is gone at once.                                  *)
Try(c) ==
    /\ life[c] = "new" \/ c \in excused
    /\ life' = [life EXCEPT ![c] = "over"]
    /\ known' = known \ {c}
    /\ UNCHANGED <<brief, excused>>

(* Exposures end: exits, cancellations and emergency closes.               *)
End(S) ==
    /\ S # {} /\ \A c \in S : life[c] = "open"
    /\ life' = [c \in Candidates |-> IF c \in S THEN "over" ELSE life[c]]
    /\ known' = known \ S
    /\ UNCHANGED <<brief, excused>>

(* The executor loses track: an unanswered submission, a crash.            *)
Lose(S) ==
    /\ S # {} /\ S \subseteq known
    /\ known' = known \ S
    /\ UNCHANGED <<brief, life, excused>>

Excuse(c) ==
    /\ excused' = excused \cup {c}
    /\ UNCHANGED <<brief, life, known>>

Next ==
    \/ \E c \in Candidates : Enter(c) \/ Try(c) \/ Excuse(c)
    \/ \E S \in SUBSET Candidates : End(S) \/ Lose(S)

Spec == Init /\ [][Next]_vars
=============================================================================
