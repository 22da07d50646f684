---------------------------- MODULE MarketSource ----------------------------
(***************************************************************************)
(* The market source of greed-runtime, source.rs, on top of the hub: the   *)
(* frame loop that bootstraps missing histories and repairs elapsed        *)
(* candles over REST, falls back to REST for depth, and merges what the    *)
(* websocket delivered into the series a frame serves to the recipes.      *)
(*                                                                         *)
(* A frame awaits REST three times; messages, time and the exchange's      *)
(* clock move on meanwhile.  One interval stands for the four.             *)
(***************************************************************************)
EXTENDS MarketStream, FiniteSetsExt

CONSTANTS
    Universes,    \* the symbol sets the runtime may ask frames for
    SeriesLimit,  \* candles a series keeps
    BootLimit,    \* MAX_KLINE_BOOTSTRAP_REQUESTS_PER_FRAME
    RepairLimit   \* MAX_KLINE_TERMINAL_REPAIRS_PER_FRAME

ASSUME SourceAssumption ==
    /\ Universes \subseteq SUBSET Symbols
    /\ {SeriesLimit, BootLimit, RepairLimit} \subseteq Nat \ {0}

VARIABLES
    cached,       \* symbols with a candle_cache entry
    rows,         \* its rows, by interval
    bootRetry,    \* symbols in candle_bootstrap_retry_after
    repairRetry,  \* symbols in candle_terminal_repair_retry_after
    pc,           \* the await a frame is at, "idle" between frames
    asked,        \* the clock of the kline requests in flight, else 1
    requests,     \* the symbols of the requests in flight
    served        \* what the last frame serves a symbol

series_ == <<cached, rows>>
retries == <<bootRetry, repairRetry>>
frame == <<pc, asked, requests, served>>
sourceVars == <<series_, retries, frame>>
vars == <<streamVars, sourceVars>>

(* A row: none; open, closed = false; closed, with the interval's final    *)
(* data; early, marked closed with data from before the interval ended.    *)
Rows == {"none", "open", "closed", "early"}
Bars == 1..MaxBar
Served == {"absent", "stream", "rest", "gap"}
Awaits == {"idle", "boot", "repair", "depth"}

(* The shape of the state: every variable of its type.                     *)
TypeOK ==
    /\ StreamTypeOK
    /\ cached \subseteq Symbols
    /\ rows \in [Symbols -> [Bars -> Rows]]
    /\ bootRetry \subseteq Symbols /\ repairRetry \subseteq Symbols
    /\ pc \in Awaits
    /\ asked \in Bars
    /\ requests \subseteq Symbols
    /\ served \in [Symbols -> Served]

SourceInit ==
    /\ cached = {}
    /\ rows = [s \in Symbols |-> [b \in Bars |-> "none"]]
    /\ bootRetry = {} /\ repairRetry = {}
    /\ pc = "idle" /\ asked = 1 /\ requests = {}
    /\ served = [s \in Symbols |-> "absent"]

Init == StreamInit /\ SourceInit

-----------------------------------------------------------------------------
(* Rows.                                                                   *)

(* klines_at_interval: rows up to the interval the exchange is at when it  *)
(* answers; a row counts as closed by the clock of the request.            *)
ClosedRow(b) == IF b < bar THEN "closed" ELSE "early"
(* Mutant: the row of the interval that is still open counts as closed.    *)
RestRowLate(b) == IF b <= asked THEN ClosedRow(b) ELSE "open"
RestRow(b) == IF b < asked THEN ClosedRow(b) ELSE "open"

RestRows(first, last) ==
    [b \in Bars |-> IF b \in first..last THEN RestRow(b) ELSE "none"]

(* merge_candles: a partial row never replaces a closed one.               *)
(* Mutant: the last row delivered wins.                                    *)
MergedLast(old, new) == IF new = "none" THEN old ELSE new
Merged(old, new) ==
    IF new = "none" \/ (old \in {"closed", "early"} /\ new = "open")
    THEN old ELSE new

MergeRows(old, new) == [b \in Bars |-> Merged(old[b], new[b])]

(* The rows of the candles the hub holds of a symbol, the last one of an   *)
(* interval winning unless it is partial.                                  *)
StreamRows(s) ==
    LET Of(b) == {c \in Range(series[s]) : c.bar = b}
    IN  [b \in Bars |-> IF Of(b) = {} THEN "none"
                        ELSE IF \E c \in Of(b) : c.closed THEN "closed"
                        ELSE "open"]

Present(r) == {b \in Bars : r[b] # "none"}
(* series.values.drain(..len - limit).                                     *)
Drained(r) ==
    [b \in Bars |->
        IF Cardinality({c \in Present(r) : c >= b}) <= SeriesLimit
        THEN r[b] ELSE "none"]

(* An elapsed candle whose terminal update was missed; the grace of two    *)
(* seconds may still protect the interval that has just ended.             *)
Elapsed(r, now) == {b \in Bars : r[b] = "open" /\ b < now}

-----------------------------------------------------------------------------
(* fetch_inner.                                                            *)

(* A bounded part of the symbols due, in one of the orders they may have.  *)
Batch(due, limit) ==
    {S \in SUBSET due :
        Cardinality(S) = IF Cardinality(due) <= limit
                         THEN Cardinality(due) ELSE limit}

BootDue == {s \in symbols : s \notin cached \cup bootRetry}

(* A liquidation burst of a desired symbol makes the frame urgent.         *)
MayBeUrgent == \E s \in symbols : liquidations[s] # {}

(* Frame: the missing histories are requested first.                       *)
Bootstrap ==
    /\ pc = "idle"
    /\ \/ requests' \in Batch(BootDue, BootLimit)
       \/ MayBeUrgent /\ requests' = {}
    /\ asked' = bar
    /\ pc' = "boot"
    /\ UNCHANGED <<streamVars, series_, retries, served>>

(* The answers; then, by a new clock, the repairs are requested.           *)
BootstrapAnswered(ok) ==
    /\ pc = "boot" /\ ok \subseteq requests
    /\ cached' = cached \cup ok
    /\ rows' = [s \in Symbols |->
                    IF s \in ok THEN Drained(RestRows(1, bar)) ELSE rows[s]]
    /\ bootRetry' = (bootRetry \ ok) \cup (requests \ ok)
    /\ asked' = bar
    /\ \E ripe \in SUBSET {s \in cached' \ repairRetry :
                                Elapsed(rows'[s], bar) # {}} :
          /\ \A s \in (cached' \ repairRetry) \ ripe :
                Elapsed(rows'[s], bar - 1) = {}
          /\ requests' \in Batch(ripe, RepairLimit)
    /\ pc' = "repair"
    /\ UNCHANGED <<streamVars, repairRetry, served>>

(* repair_elapsed_candle_terminals: from the earliest elapsed candle to    *)
(* one past the interval of the request.                                   *)
(* Mutant: the repair starts at the interval of the request.               *)
RepairedFromNow(s) ==
    MergeRows(rows[s], RestRows(asked, Min({asked + 1, bar})))
Repaired(s) ==
    MergeRows(rows[s], RestRows(Min(Elapsed(rows[s], asked)),
                                Min({asked + 1, bar})))

RepairAnswered(ok) ==
    /\ pc = "repair" /\ ok \subseteq requests
    /\ rows' = [s \in Symbols |-> IF s \in ok THEN Repaired(s) ELSE rows[s]]
    /\ repairRetry' = (repairRetry \ ok) \cup (requests \ ok)
                      \cup {s \in ok : Elapsed(rows'[s], asked) # {}}
    /\ requests' = {s \in symbols : ~ \E b \in book[s] : b.live}
    /\ asked' = 1
    /\ pc' = "depth"
    /\ UNCHANGED <<streamVars, cached, bootRetry, served>>

(* The depth fallbacks have answered or timed out: streamed_klines of each *)
(* symbol with a history, and the book of the stream unless it expired.    *)
(* Mutant: symbols whose book is missing are left out of the frame.        *)
QuoteOnlyStream(s, ok) ==
    IF s \in symbols \cap cached /\ \E b \in book[s] : b.live
    THEN "stream" ELSE "absent"
Quote(s, ok) ==
    CASE s \notin symbols \cap cached -> "absent"
      [] s \in cached /\ \E b \in book[s] : b.live -> "stream"
      [] OTHER -> IF s \in ok THEN "rest" ELSE "gap"

FrameServed(ok) ==
    /\ pc = "depth" /\ ok \subseteq requests
    /\ rows' = [s \in Symbols |->
                    IF s \in symbols \cap cached
                    THEN Drained(MergeRows(rows[s], StreamRows(s)))
                    ELSE rows[s]]
    /\ served' = [s \in Symbols |-> Quote(s, ok)]
    /\ requests' = {}
    /\ asked' = 1
    /\ pc' = "idle"
    /\ UNCHANGED <<streamVars, cached, retries>>

BootRetryElapses(s) ==
    /\ s \in bootRetry
    /\ bootRetry' = bootRetry \ {s}
    /\ UNCHANGED <<streamVars, series_, repairRetry, frame>>

RepairRetryElapses(s) ==
    /\ s \in repairRetry
    /\ repairRetry' = repairRetry \ {s}
    /\ UNCHANGED <<streamVars, series_, bootRetry, frame>>

(* The runtime moves to another universe between two frames.               *)
MoveUniverse ==
    /\ pc = "idle"
    /\ \E new \in Universes : SetSymbols(new)
    /\ UNCHANGED sourceVars

StreamStep == (Dial \/ Disconnect \/ Deliver \/ Time) /\ UNCHANGED sourceVars

Frame ==
    \/ Bootstrap
    \/ \E ok \in SUBSET Symbols :
          BootstrapAnswered(ok) \/ RepairAnswered(ok) \/ FrameServed(ok)

Next ==
    \/ StreamStep
    \/ MoveUniverse
    \/ Frame
    \/ \E s \in Symbols : BootRetryElapses(s) \/ RepairRetryElapses(s)

Spec == Init /\ [][Next]_vars

(* Frames go on and their awaits are bounded by timeouts; the delay before *)
(* a reconnect is at most 30 s; REST answers now and then, for every       *)
(* symbol, and a frame is not urgent for ever.                             *)
RequestsBoot(s) == Bootstrap /\ s \in requests'
RequestsRepair(s) ==
    \E ok \in SUBSET Symbols : BootstrapAnswered(ok) /\ s \in requests'
Fairness ==
    /\ WF_vars(Dial /\ link' # "start" /\ UNCHANGED sourceVars)
    /\ WF_vars(Look /\ UNCHANGED sourceVars)
    /\ WF_vars(Wake /\ UNCHANGED sourceVars)
    /\ WF_vars(Frame)
    /\ \A s \in Symbols :
        /\ SF_vars(RequestsBoot(s)) /\ SF_vars(RequestsRepair(s))
        /\ SF_vars(\E ok \in SUBSET Symbols : s \in ok /\ BootstrapAnswered(ok))
        /\ SF_vars(\E ok \in SUBSET Symbols : s \in ok /\ RepairAnswered(ok))
        /\ WF_vars(BootRetryElapses(s)) /\ WF_vars(RepairRetryElapses(s))

FairSpec == Spec /\ Fairness

-----------------------------------------------------------------------------

(* A candle the recipes may use as closed carries the final data of its    *)
(* interval, although REST answers after the clock it was asked by and     *)
(* partial updates may be late ("an elapsed partial candle is not safe to  *)
(* promote locally", repair_elapsed_candle_terminals).                     *)
ClosedIsFinal == \A s \in Symbols, b \in Bars : rows[s][b] # "early"

(* A closed candle stays closed until it leaves the series: no delayed     *)
(* partial update and no REST row takes it back from the recipes           *)
(* (merge_candles).                                                        *)
ClosedIsKept ==
    [][\A s \in cached, b \in Bars :
        rows[s][b] = "closed" => rows'[s][b] \in {"closed", "none"}]_rows

(* An elapsed candle whose terminal update was missed is closed by REST in *)
(* the end, or has left the series (repair_elapsed_candle_terminals).      *)
ElapsedIsRepaired == \A s \in Symbols, b \in Bars :
    (b \in Elapsed(rows[s], bar)) ~> (b \notin Elapsed(rows[s], bar))

(* A symbol that stays in the universe is served in the end, however often *)
(* its bootstrap fails (bootstrap_missing_klines, fetch_inner).            *)
DesiredIsServed == \A s \in Symbols :
    <>[](s \in symbols) => []<>(served[s] # "absent")
=============================================================================
