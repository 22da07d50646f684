---------------------------- MODULE PendingEntry ----------------------------
(***************************************************************************)
(* The life of one resting maker entry of greed-runtime's execution.rs:    *)
(* start_pending_entry submits it, progress_pending_entries reconciles it  *)
(* on every sync, and it ends promoted to a managed position, flattened,   *)
(* or forgotten.  One symbol, one candidate, one runtime process.          *)
(*                                                                         *)
(* The runtime is sequential but every exchange call is an await: fills,   *)
(* stop triggers, operator closes and a crash of the process may happen    *)
(* between any two of its steps.  mem is DemoState in memory, disk is the  *)
(* journal written by save(); loc is the handler's own working copy.       *)
(***************************************************************************)
EXTENDS Integers

CONSTANTS
    Q,            \* requested quantity, in exchange quantity steps
    MinFill,      \* wait_satisfied once this much is executed
    MinManaged,   \* smallest fill that can be managed as a position
    MaxReprices,  \* MAX_MAKER_REPRICES
    TakerFallback,\* the plan allows one taker IOC after the deadline
    FallbackFits, \* the reduced fallback quantity passes exchange minimums
    MaxFaults,    \* bound: failed exchange calls or saves in a behaviour
    MaxCrashes,   \* bound: process crashes in a behaviour
    Faults        \* optional kinds of fault: "lost", "save", "lag"

ASSUME QAssumption == Q \in Nat \ {0}
ASSUME ThresholdAssumption == MinFill \in 1..Q /\ MinManaged \in 1..Q
ASSUME BoundAssumption ==
    MaxReprices \in Nat /\ MaxFaults \in Nat /\ MaxCrashes \in Nat
ASSUME FlagAssumption ==
    /\ TakerFallback \in BOOLEAN
    /\ FallbackFits \in BOOLEAN
    /\ Faults \subseteq {"lost", "save", "lag"}

VARIABLES
    orders,   \* exchange: status and executed quantity per client order id
    pos,      \* exchange: open position on the plan's side
    bought,   \* exchange: entry quantity userTrades reports
    stops,    \* exchange: close-all stops resting, by client id prefix
    mem,      \* runtime: the fields of DemoState about this candidate
    disk,     \* runtime: what save() last wrote
    pc,       \* the await the runtime is at, "idle" between handlers
    loc,      \* the handler's locals
    late,     \* now_ms has reached pending.deadline_ms
    faults,   \* faults so far
    crashes   \* crashes so far

exchange == <<orders, pos, bought, stops>>
state == <<mem, disk>>
clock == <<late, crashes>>
vars == <<orders, pos, bought, stops, mem, disk, pc, loc, late, faults, crashes>>

-----------------------------------------------------------------------------
(* Client order ids: client_order_id and reprice_client_id are injective   *)
(* functions of the candidate, so an id is its prefix and its attempt.     *)

NoId == <<"none", 0>>
EntryId == <<"entry", 0>>
MarginId == <<"marginretry", 0>>
FallbackId == <<"fallback", 0>>
RepriceId(n) == <<"reprice", n>>
Ids == {EntryId, MarginId, FallbackId} \cup {RepriceId(n) : n \in 1..MaxReprices}

(* PendingEntryState: active_client_id, reprice_attempt, first_fill_ms     *)
(* being Some, and preliminary_stop_algo_id being Some.                    *)
EntryType == [id : Ids \cup {NoId}, tries : 0..MaxReprices,
              filled : BOOLEAN, stop : BOOLEAN]
NoEntry == [id |-> NoId, tries |-> 0, filled |-> FALSE, stop |-> FALSE]

(* seen claims the candidate; outcome is what accounting holds of it:      *)
(* nothing, an item of pending_accounting for the exit quantity owed, or   *)
(* an accounted attempt.                                                   *)
StateType == [seen : BOOLEAN, entry : EntryType, managed : BOOLEAN,
              halted : BOOLEAN, outcome : {"none", "owed", "recorded"},
              owed : 0..Q]

Labels == {"idle",
           "persist", "post", "readback", "startstop", "startcancel",
           "startkeep", "startsave", "undo", "undostop", "undoflatten",
           "undodrop",
           "read", "resubmit", "firstfill", "decide",
           "flatcancel", "flatrace", "flatcheck",
           "freeze", "settle", "fallback", "drop", "forget",
           "provstop", "pscancel", "pskeep", "halt",
           "rpcancel", "rpsubmit", "tail",
           "finalize", "takes", "promote",
           "fincancel", "finflatten", "clean", "account"}

(* entry: the cloned pending; exec: executed; done: the order read was     *)
(* terminal; snap: the account snapshot of this sync shows the symbol;     *)
(* inv: invalidation is Some; due: deadline; retried: margin_retried;      *)
(* halting: the caller halts execution if the flatten fails; out: the      *)
(* exit quantity of the trade summary; proven: that summary is in hand.    *)
LocType == [entry : EntryType, exec : 0..Q, done : BOOLEAN, snap : BOOLEAN,
            inv : BOOLEAN, due : BOOLEAN, retried : BOOLEAN,
            halting : BOOLEAN, out : Nat, proven : BOOLEAN]
NoLoc == [entry |-> NoEntry, exec |-> 0, done |-> FALSE, snap |-> FALSE,
          inv |-> FALSE, due |-> FALSE, retried |-> FALSE,
          halting |-> FALSE, out |-> 0, proven |-> FALSE]

(* The shape of the state: every variable of its type.                     *)
TypeOK ==
    /\ orders \in [Ids -> [status : {"none", "live", "done"}, executed : 0..Q]]
    /\ pos \in Nat
    /\ bought \in Nat
    /\ stops \subseteq {"pendingstop", "stop"}
    /\ mem \in StateType
    /\ disk \in StateType
    /\ pc \in Labels
    /\ loc \in LocType
    /\ late \in BOOLEAN
    /\ faults \in 0..MaxFaults
    /\ crashes \in 0..MaxCrashes

Init ==
    /\ orders = [i \in Ids |-> [status |-> "none", executed |-> 0]]
    /\ pos = 0
    /\ bought = 0
    /\ stops = {}
    /\ mem = [seen |-> FALSE, entry |-> NoEntry, managed |-> FALSE,
              halted |-> FALSE, outcome |-> "none", owed |-> 0]
    /\ disk = mem
    /\ pc = "idle"
    /\ loc = NoLoc
    /\ late = FALSE
    /\ faults = 0
    /\ crashes = 0

-----------------------------------------------------------------------------
(* Vocabulary of the steps.                                                *)

Tracked(s) == s.entry.id # NoId

(* reconciled_executed_quantity.  Mutant: the fill that raced the cancel   *)
(* is ignored.                                                             *)
LargerIgnoresRace(a, b) == a
Larger(a, b) == IF a >= b THEN a ELSE b

(* A reduce-only close never reverses the position.  Mutant: it may.       *)
LessNotReduceOnly(a, b) == a - b
Less(a, b) == IF a >= b THEN a - b ELSE 0

Fine == UNCHANGED faults
Fails == faults < MaxFaults /\ faults' = faults + 1

Goto(label, l) == pc' = label /\ loc' = l
Return == Goto("idle", NoLoc)

(* save().ok(): the handler goes on whether or not the file was written.   *)
SaveOk(s) ==
    /\ mem' = s
    /\ \/ disk' = s /\ Fine
       \/ "save" \in Faults /\ Fails /\ UNCHANGED disk

(* save()?: a failed write returns from the handler, memory keeps s.       *)
(* Mutant: only memory is updated.                                         *)
SaveOrInMemory(s, label, l) ==
    mem' = s /\ UNCHANGED disk /\ Fine /\ Goto(label, l)
SaveOr(s, label, l) ==
    /\ mem' = s
    /\ \/ disk' = s /\ Fine /\ Goto(label, l)
       \/ "save" \in Faults /\ Fails /\ UNCHANGED disk /\ Return

(* submit_or_lookup.  The exchange accepts an id it has not seen; refuses  *)
(* it; or accepts it while the answer and all three lookups are lost.  An  *)
(* id it has seen is refused as a duplicate: the lookup finds the order,   *)
(* or is lost.                                                             *)
Accepted(id) ==
    /\ orders[id].status = "none"
    /\ orders' = [orders EXCEPT ![id].status = "live"]
Refused(id) == orders[id].status = "none" /\ UNCHANGED orders
Known(id) == orders[id].status # "none" /\ UNCHANGED orders
Lost(id) ==
    /\ Known(id) \/ ("lost" \in Faults /\ Accepted(id))
    /\ Fails

(* cancel_or_reconcile_entry: Ok only with the order terminal.  After      *)
(* three failures the order may still rest, or be canceled unnoticed.      *)
Canceled(id) ==
    orders' = [orders EXCEPT ![id].status = IF @ = "none" THEN @ ELSE "done"]

(* Mutant: the answer to the cancel is not checked to be terminal.         *)
FrozenUnverified(id) ==
    orders[id].status # "none" /\ (UNCHANGED orders \/ Canceled(id)) /\ Fine
Frozen(id) == orders[id].status # "none" /\ Canceled(id) /\ Fine
NotFrozen(id) == Fails /\ (UNCHANGED orders \/ Canceled(id))

(* cancel_regular_orders cancels every resting order of the symbol.        *)
AllCanceled ==
    orders' = [i \in Ids |->
        IF orders[i].status = "live" THEN [orders[i] EXCEPT !.status = "done"]
                                     ELSE orders[i]]

(* place_close_all_trigger through submit_algo_or_lookup.                  *)
StopPlaced(s) == stops' = stops \cup {s} /\ Fine
StopFailed(s) == Fails /\ stops' \in {stops, stops \cup {s}}

WithFill(l) == [l EXCEPT !.entry.filled = TRUE]
Promotable(l) == l.exec >= MinManaged

(* partial_fill_is_manageable picks promotion or the flattened attempt.    *)
Conclude(l) == Goto(IF Promotable(l) THEN "finalize" ELSE "fincancel", l)

(* An Err out of finish_failed_pending_entry.                              *)
FinishErr == IF loc.halting THEN Goto("halt", loc) ELSE Return

-----------------------------------------------------------------------------
(* apply_plans and start_pending_entry.                                    *)

(* The candidate is claimed, sized, guarded and the symbol prepared.       *)
(* Mutant: the candidate is not claimed.                                   *)
ClaimNothing ==
    /\ pc = "idle"
    /\ ~mem.seen /\ ~mem.halted /\ ~Tracked(mem) /\ ~mem.managed /\ pos = 0
    /\ Goto("persist", [NoLoc EXCEPT !.entry.id = EntryId])
    /\ UNCHANGED <<exchange, state, clock, faults>>

Claim ==
    /\ pc = "idle"
    /\ ~mem.seen /\ ~mem.halted /\ ~Tracked(mem) /\ ~mem.managed /\ pos = 0
    /\ SaveOk([mem EXCEPT !.seen = TRUE])
    /\ \/ Goto("persist", [NoLoc EXCEPT !.entry.id = EntryId])
       \/ Return
    /\ UNCHANGED <<exchange, clock>>

(* The deterministic id is written before the exchange is touched.         *)
Persist ==
    /\ pc = "persist"
    /\ SaveOr([mem EXCEPT !.entry = loc.entry], "post", loc)
    /\ UNCHANGED <<exchange, clock>>

PostAccepted ==
    /\ pc = "post"
    /\ Accepted(loc.entry.id) \/ Known(loc.entry.id)
    /\ Goto("readback", loc)
    /\ Fine
    /\ UNCHANGED <<pos, bought, stops, state, clock>>

PostLost ==
    /\ pc = "post"
    /\ Lost(loc.entry.id)
    /\ Goto("forget", loc)
    /\ UNCHANGED <<pos, bought, stops, state, clock>>

(* Insufficient margin retries once under another id; a post-only          *)
(* rejection reprices at most MaxReprices times; every other error, a      *)
(* retry too small to protect and a drifted price give the entry up.  A    *)
(* failed ticker read returns with the entry still pending.                *)
PostRefused ==
    /\ pc = "post"
    /\ Refused(loc.entry.id)
    /\ \/ Goto("forget", loc) /\ Fine
       \/ /\ ~loc.retried
          /\ Goto("persist", [loc EXCEPT !.entry.id = MarginId, !.retried = TRUE])
          /\ Fine
       \/ /\ loc.entry.tries < MaxReprices
          /\ \/ /\ Goto("persist", [loc EXCEPT
                             !.entry.tries = @ + 1,
                             !.entry.id = RepriceId(loc.entry.tries + 1)])
                /\ Fine
             \/ Return /\ Fails
    /\ UNCHANGED <<pos, bought, stops, state, clock>>

(* The accepted order is read once; a failed read falls back to the ACK.   *)
ReadBack ==
    /\ pc = "readback"
    /\ \/ /\ orders[loc.entry.id].executed > 0
          /\ Goto("startstop", [loc EXCEPT !.exec = orders[loc.entry.id].executed])
          /\ Fine
       \/ orders[loc.entry.id].executed = 0 /\ Goto("startsave", loc) /\ Fine
       \/ Goto("startsave", loc) /\ Fails
    /\ UNCHANGED <<exchange, state, clock>>

StartStop ==
    /\ pc = "startstop"
    /\ \/ /\ StopPlaced("pendingstop")
          /\ Goto("startsave", [loc EXCEPT !.entry.stop = TRUE])
       \/ StopFailed("pendingstop") /\ Goto("startcancel", loc)
    /\ UNCHANGED <<orders, pos, bought, state, clock>>

(* The immediate stop failed: freeze the rest, then flatten what filled.   *)
StartCancel ==
    /\ pc = "startcancel"
    /\ \/ /\ Frozen(loc.entry.id)
          /\ Goto("startkeep", [WithFill(loc) EXCEPT
                      !.exec = orders[loc.entry.id].executed, !.halting = TRUE])
       \/ NotFrozen(loc.entry.id) /\ Return
    /\ UNCHANGED <<pos, bought, stops, state, clock>>

StartKeep ==
    /\ pc = "startkeep"
    /\ SaveOk([mem EXCEPT !.entry = loc.entry])
    /\ Goto("fincancel", loc)
    /\ UNCHANGED <<exchange, clock>>

StartSave ==
    /\ pc = "startsave"
    /\ mem' = [mem EXCEPT !.entry = loc.entry]
    /\ \/ disk' = mem' /\ Fine /\ Return
       \/ "save" \in Faults /\ Fails /\ UNCHANGED disk /\ Goto("undo", loc)
    /\ UNCHANGED <<exchange, clock>>

(* The accepted entry could not be persisted: cancel it, protect and       *)
(* flatten a raced fill, drop the stop, forget it in memory only.          *)
Undo ==
    /\ pc = "undo"
    /\ \/ /\ Frozen(loc.entry.id)
          /\ LET e == orders[loc.entry.id].executed IN
             Goto(IF e = 0 THEN "undodrop"
                  ELSE IF loc.entry.stop THEN "undoflatten" ELSE "undostop",
                  [loc EXCEPT !.exec = e])
       \/ NotFrozen(loc.entry.id) /\ Return
    /\ UNCHANGED <<pos, bought, stops, state, clock>>

UndoStop ==
    /\ pc = "undostop"
    /\ \/ /\ StopPlaced("pendingstop")
          /\ Goto("undoflatten", [loc EXCEPT !.entry.stop = TRUE])
       \/ StopFailed("pendingstop") /\ Return
    /\ UNCHANGED <<orders, pos, bought, state, clock>>

UndoFlatten ==
    /\ pc = "undoflatten"
    /\ \/ pos' = Less(pos, loc.exec) /\ Fine /\ Goto("undodrop", loc)
       \/ Fails /\ pos' \in Less(pos, loc.exec)..pos /\ Return
    /\ UNCHANGED <<orders, bought, stops, state, clock>>

UndoDrop ==
    /\ pc = "undodrop"
    /\ mem' = [mem EXCEPT !.entry = NoEntry]
    /\ \/ /\ stops' = IF loc.entry.stop THEN stops \ {"pendingstop"} ELSE stops
          /\ Fine
       \/ UNCHANGED stops /\ Fails
    /\ Return
    /\ UNCHANGED <<orders, pos, bought, disk, clock>>

-----------------------------------------------------------------------------
(* progress_pending_entries, one sync at a time.                           *)

(* sync reads the account, then reaches the pending entry.  A lagging      *)
(* snapshot may still miss a position just opened.                         *)
SyncBegin ==
    /\ pc = "idle"
    /\ Tracked(mem)
    /\ \/ Goto("read", [NoLoc EXCEPT !.entry = mem.entry, !.snap = pos > 0]) /\ Fine
       \/ /\ "lag" \in Faults /\ pos > 0 /\ Fails
          /\ Goto("read", [NoLoc EXCEPT !.entry = mem.entry])
    /\ UNCHANGED <<exchange, state, clock>>

(* The order as read: its executed quantity and whether it is terminal.    *)
(* A first fill is persisted before anything else is done about it.        *)
Observe ==
    LET o == orders[loc.entry.id]
        l == [loc EXCEPT !.exec = o.executed, !.done = o.status = "done"] IN
    /\ o.status # "none"
    /\ IF o.executed > 0 /\ ~loc.entry.filled
       THEN Goto("firstfill", WithFill(l))
       ELSE Goto("decide", l)
    /\ Fine

ReadOrder ==
    /\ pc = "read"
    /\ \/ Observe
       \/ orders[loc.entry.id].status = "none" /\ Goto("resubmit", loc) /\ Fine
       \/ Goto("resubmit", loc) /\ Fails
    /\ UNCHANGED <<exchange, state, clock>>

(* The order could not be read: submit the same id again.  A refusal       *)
(* returns before the deadline is looked at, and the entry stays pending.  *)
Resubmit ==
    /\ pc = "resubmit"
    /\ \/ Accepted(loc.entry.id) /\ Goto("decide", loc) /\ Fine
       \/ Lost(loc.entry.id) /\ Return
       \/ Refused(loc.entry.id) /\ Return /\ Fine
       \/ Observe /\ UNCHANGED orders
    /\ UNCHANGED <<pos, bought, stops, state, clock>>

FirstFill ==
    /\ pc = "firstfill"
    /\ SaveOr([mem EXCEPT !.entry = loc.entry], "decide", loc)
    /\ UNCHANGED <<exchange, clock>>

(* userTrades prove a complete round trip of what was executed.            *)
RoundTrip(quantity) == bought - pos >= quantity

DecideFlat ==
    /\ pc = "decide"
    /\ loc.exec > 0 /\ ~loc.snap /\ RoundTrip(loc.exec)
    /\ Goto(IF loc.done THEN "clean" ELSE "flatcancel",
            [loc EXCEPT !.out = bought - pos, !.proven = TRUE])
    /\ Fine
    /\ UNCHANGED <<exchange, state, clock>>

(* An entry concludes when its signal is invalidated, its order is         *)
(* terminal, enough is filled, or it is due.  Mutant: it is never due.     *)
ConcludesUndated(l) == l.inv \/ l.done \/ l.exec >= MinFill
Concludes(l) == l.inv \/ l.done \/ l.exec >= MinFill \/ l.due

(* The entry guard may invalidate the signal at any sync.  An entry that   *)
(* does not conclude rests on, protected or repriced.                      *)
Decide ==
    /\ pc = "decide"
    /\ \/ (loc.exec = 0 \/ loc.snap \/ ~RoundTrip(loc.exec)) /\ Fine
       \/ loc.exec > 0 /\ ~loc.snap /\ Fails
    /\ \E inv \in BOOLEAN :
          LET l == [loc EXCEPT !.inv = inv, !.due = late] IN
          IF Concludes(l)
          THEN Goto(IF loc.done THEN "settle" ELSE "freeze", l)
          ELSE IF loc.exec > 0
          THEN Goto(IF loc.entry.stop THEN "tail" ELSE "provstop", l)
          ELSE \/ Goto("tail", l)
               \/ loc.entry.tries < MaxReprices /\ Goto("rpcancel", l)
    /\ UNCHANGED <<exchange, state, clock>>

(* Closed elsewhere while the rest of the maker order is still resting.    *)
FlatCancel ==
    /\ pc = "flatcancel"
    /\ \/ /\ Frozen(loc.entry.id)
          /\ LET e == Larger(loc.exec, orders[loc.entry.id].executed) IN
             Goto(IF e > loc.out THEN "flatrace" ELSE "flatcheck",
                  [loc EXCEPT !.exec = e])
       \/ NotFrozen(loc.entry.id) /\ Return
    /\ UNCHANGED <<pos, bought, stops, state, clock>>

FlatRace ==
    /\ pc = "flatrace"
    /\ \/ pos' = Less(pos, loc.exec - loc.out) /\ Fine /\ Goto("flatcheck", loc)
       \/ Fails /\ pos' \in Less(pos, loc.exec - loc.out)..pos /\ Return
    /\ UNCHANGED <<orders, bought, stops, state, clock>>

FlatCheck ==
    /\ pc = "flatcheck"
    /\ \/ RoundTrip(loc.exec) /\ Goto("clean", loc) /\ Fine
       \/ ~RoundTrip(loc.exec) /\ Return /\ Fine
       \/ Return /\ Fails
    /\ UNCHANGED <<exchange, state, clock>>

Freeze ==
    /\ pc = "freeze"
    /\ \/ /\ Frozen(loc.entry.id)
          /\ LET e == Larger(loc.exec, orders[loc.entry.id].executed) IN
             Goto("settle", [loc EXCEPT !.exec = e,
                                        !.entry.filled = @ \/ e > 0])
       \/ NotFrozen(loc.entry.id) /\ Return
    /\ UNCHANGED <<pos, bought, stops, state, clock>>

(* The order is terminal.  Nothing filled by the deadline: the taker       *)
(* fallback, if the plan has one and the price allows it.                  *)
SettleFallback ==
    /\ pc = "settle"
    /\ ~loc.inv /\ loc.exec = 0 /\ loc.due /\ TakerFallback
    /\ \/ FallbackFits /\ Goto("fallback", loc) /\ Fine
       \/ ~FallbackFits /\ Return /\ Fine
       \/ Return /\ Fails
    /\ UNCHANGED <<exchange, state, clock>>

Settle ==
    /\ pc = "settle"
    /\ \/ loc.exec = 0 /\ Goto("drop", loc)
       \/ loc.exec > 0 /\ loc.inv /\ Goto("fincancel", loc)
       \/ loc.exec > 0 /\ ~loc.inv /\ Conclude(loc)
    /\ Fine
    /\ UNCHANGED <<exchange, state, clock>>

(* An immediate-or-cancel order: terminal at once with whatever it filled. *)
(* requested_quantity becomes the fallback's, so any fill may be enough    *)
(* to manage or too little.  first_fill_ms is set even for no fill.        *)
FallbackDone(e) ==
    LET l == [WithFill(loc) EXCEPT !.exec = e] IN
    IF e = 0 THEN Goto("drop", l) ELSE Goto("finalize", l) \/ Goto("fincancel", l)

Fallback ==
    /\ pc = "fallback"
    /\ \/ /\ orders[FallbackId].status = "none"
          /\ \E e \in 0..Q :
                /\ orders' = [orders EXCEPT
                                 ![FallbackId] = [status |-> "done", executed |-> e]]
                /\ pos' = pos + e
                /\ bought' = bought + e
                /\ \/ FallbackDone(e) /\ Fine
                   \/ "lost" \in Faults /\ Fails /\ Return
       \/ /\ orders[FallbackId].status # "none"
          /\ FallbackDone(orders[FallbackId].executed)
          /\ Fine
          /\ UNCHANGED <<orders, pos, bought>>
       \/ /\ Return
          /\ (Refused(FallbackId) /\ Fine) \/ (Known(FallbackId) /\ Fails)
          /\ UNCHANGED <<pos, bought>>
    /\ UNCHANGED <<stops, state, clock>>

(* Nothing filled: cancel_pending_stop at best effort, then forget.        *)
Drop ==
    /\ pc = "drop"
    /\ \/ /\ stops' = IF loc.entry.stop THEN stops \ {"pendingstop"} ELSE stops
          /\ Fine
       \/ loc.entry.stop /\ UNCHANGED stops /\ Fails
    /\ Goto("forget", loc)
    /\ UNCHANGED <<orders, pos, bought, state, clock>>

Forget ==
    /\ pc = "forget"
    /\ SaveOk([mem EXCEPT !.entry = NoEntry])
    /\ Return
    /\ UNCHANGED <<exchange, clock>>

(* A resting partial fill gets a provisional close-all stop.               *)
ProvStop ==
    /\ pc = "provstop"
    /\ \/ /\ StopPlaced("pendingstop")
          /\ Goto("tail", [loc EXCEPT !.entry.stop = TRUE])
       \/ StopFailed("pendingstop") /\ Goto("pscancel", loc)
    /\ UNCHANGED <<orders, pos, bought, state, clock>>

PsCancel ==
    /\ pc = "pscancel"
    /\ \/ /\ Frozen(loc.entry.id)
          /\ Goto("pskeep", [loc EXCEPT
                 !.exec = Larger(loc.exec, orders[loc.entry.id].executed)])
       \/ NotFrozen(loc.entry.id) /\ Goto("halt", loc)
    /\ UNCHANGED <<pos, bought, stops, state, clock>>

PsKeep ==
    /\ pc = "pskeep"
    /\ SaveOr([mem EXCEPT !.entry = loc.entry],
              IF Promotable(loc) THEN "finalize" ELSE "fincancel", loc)
    /\ UNCHANGED <<exchange, clock>>

(* Neither the stop nor the cancellation worked, or start_pending_entry     *)
(* could not finish a fill: halt, the entry is kept if it is not done with. *)
Halt ==
    /\ pc = "halt"
    /\ SaveOk([mem EXCEPT !.halted = TRUE,
                          !.entry = IF loc.halting THEN @ ELSE loc.entry])
    /\ Return
    /\ UNCHANGED <<exchange, clock>>

(* Reprice: freeze the old order, conclude a raced fill, else submit a     *)
(* new id.  A failed ticker read also returns here, having changed nothing.*)
RpCancel ==
    /\ pc = "rpcancel"
    /\ \/ /\ Frozen(loc.entry.id)
          /\ LET e == Larger(loc.exec, orders[loc.entry.id].executed)
                 n == loc.entry.tries + 1 IN
             IF e > 0 THEN Conclude([WithFill(loc) EXCEPT !.exec = e])
             ELSE Goto("rpsubmit", [loc EXCEPT !.entry.tries = n,
                                               !.entry.id = RepriceId(n)])
       \/ NotFrozen(loc.entry.id) /\ Return
    /\ UNCHANGED <<pos, bought, stops, state, clock>>

(* The new id is submitted here and becomes part of the state only in Tail.*)
RpSubmit ==
    /\ pc = "rpsubmit"
    /\ \/ /\ Accepted(loc.entry.id) \/ Known(loc.entry.id)
          /\ Fine
          /\ Goto("tail", loc)
       \/ Lost(loc.entry.id) /\ Return
       \/ Refused(loc.entry.id) /\ Fine /\ Return
    /\ UNCHANGED <<pos, bought, stops, state, clock>>

Tail ==
    /\ pc = "tail"
    /\ SaveOk([mem EXCEPT !.entry = loc.entry])
    /\ Return
    /\ UNCHANGED <<exchange, clock>>

-----------------------------------------------------------------------------
(* finalize_pending_entry and finish_failed_pending_entry.                 *)

(* The provisional stop is reused, or the formal stop is placed.  Mutant:  *)
(* a stop that failed is taken for placed.                                 *)
FinalizeUnchecked ==
    /\ pc = "finalize"
    /\ Goto("takes", loc)
    /\ IF loc.entry.stop THEN Fine /\ UNCHANGED stops
                         ELSE StopPlaced("stop") \/ StopFailed("stop")
    /\ UNCHANGED <<orders, pos, bought, state, clock>>

Finalize ==
    /\ pc = "finalize"
    /\ \/ loc.entry.stop /\ Goto("takes", loc) /\ Fine /\ UNCHANGED stops
       \/ /\ ~loc.entry.stop
          /\ \/ StopPlaced("stop") /\ Goto("takes", loc)
             \/ StopFailed("stop") /\ Goto("fincancel", loc)
    /\ UNCHANGED <<orders, pos, bought, state, clock>>

(* Reduce-only take-profits; the exchange refuses them without a position. *)
Takes ==
    /\ pc = "takes"
    /\ \/ Goto("promote", loc) /\ Fine
       \/ pos = 0 /\ Goto("fincancel", loc) /\ Fine
       \/ Goto("fincancel", loc) /\ Fails
    /\ UNCHANGED <<exchange, state, clock>>

Promote ==
    /\ pc = "promote"
    /\ SaveOk([mem EXCEPT !.managed = TRUE, !.entry = NoEntry])
    /\ Return
    /\ UNCHANGED <<exchange, clock>>

FinCancel ==
    /\ pc = "fincancel"
    /\ \/ AllCanceled /\ Fine /\ Goto("finflatten", loc)
       \/ (UNCHANGED orders \/ AllCanceled) /\ Fails /\ FinishErr
    /\ UNCHANGED <<pos, bought, stops, state, clock>>

(* flatten_entry_or_confirm_flat returns Ok only flat, unless the account  *)
(* it reads lags behind the fill.                                          *)
FinFlatten ==
    /\ pc = "finflatten"
    /\ \/ pos' = 0 /\ Fine /\ Goto("clean", loc)
       \/ "lag" \in Faults /\ Fails /\ pos' \in {pos, Less(pos, loc.exec)}
          /\ Goto("clean", loc)
       \/ Fails /\ pos' \in 0..pos /\ FinishErr
    /\ UNCHANGED <<orders, bought, stops, state, clock>>

(* cancel_all at best effort: both of its requests are always sent.        *)
Clean ==
    /\ pc = "clean"
    /\ \/ AllCanceled /\ stops' = {} /\ Fine
       \/ (UNCHANGED orders \/ AllCanceled) /\ stops' \in {stops, {}} /\ Fails
    /\ Goto("account", loc)
    /\ UNCHANGED <<pos, bought, state, clock>>

(* The entry leaves pending_entries together with its accounting: the      *)
(* outcome, or an item of pending_accounting when userTrades are late.     *)
(* Mutant: nothing is owed when they are late.                             *)
AccountOnlyNow ==
    /\ pc = "account"
    /\ \E result \in {"recorded", mem.outcome} :
          /\ result = "recorded" => loc.proven \/ RoundTrip(loc.exec)
          /\ SaveOk([mem EXCEPT !.entry = NoEntry, !.outcome = result])
    /\ Return
    /\ UNCHANGED <<exchange, clock>>

Account ==
    /\ pc = "account"
    /\ \E result \in {"recorded", "owed"} :
          /\ result = "recorded" => loc.proven \/ RoundTrip(loc.exec)
          /\ result = "owed" => ~loc.proven
          /\ mem' = [mem EXCEPT !.entry = NoEntry, !.outcome = result,
                                !.owed = IF result = "owed" THEN loc.exec ELSE 0]
    /\ \/ disk' = mem' /\ Fine /\ Return
       \/ "save" \in Faults /\ Fails /\ UNCHANGED disk /\ FinishErr
    /\ UNCHANGED <<exchange, clock>>

(* progress_pending_accounting.                                            *)
AccountLate ==
    /\ pc = "idle"
    /\ mem.outcome = "owed" /\ bought > 0 /\ RoundTrip(mem.owed)
    /\ SaveOk([mem EXCEPT !.outcome = "recorded", !.owed = 0])
    /\ UNCHANGED <<exchange, pc, loc, clock>>

-----------------------------------------------------------------------------
(* The environment: the matching engine, the operator, time, crashes.      *)

Fill(i) ==
    /\ orders[i].status = "live"
    /\ LET e == orders[i].executed + 1 IN
       orders' = [orders EXCEPT ![i] =
           [status |-> IF e = Q THEN "done" ELSE "live", executed |-> e]]
    /\ pos' = pos + 1
    /\ bought' = bought + 1
    /\ UNCHANGED <<stops, state, pc, loc, faults, clock>>

(* The exchange ends the order itself: expired or rejected.                *)
ExchangeEnds(i) ==
    /\ orders[i].status = "live"
    /\ orders' = [orders EXCEPT ![i].status = "done"]
    /\ UNCHANGED <<pos, bought, stops, state, pc, loc, faults, clock>>

StopTriggers(s) ==
    /\ s \in stops /\ pos > 0
    /\ stops' = stops \ {s}
    /\ pos' = 0
    /\ UNCHANGED <<orders, bought, state, pc, loc, faults, clock>>

OperatorCloses ==
    /\ pos > 0
    /\ pos' = 0
    /\ UNCHANGED <<orders, bought, stops, state, pc, loc, faults, clock>>

Deadline ==
    /\ ~late /\ Tracked(mem)
    /\ late' = TRUE
    /\ UNCHANGED <<exchange, state, pc, loc, faults, crashes>>

(* The process dies between two awaits and connect loads the journal.      *)
Crash ==
    /\ crashes < MaxCrashes
    /\ crashes' = crashes + 1
    /\ mem' = disk
    /\ Return
    /\ UNCHANGED <<exchange, disk, late, faults>>

Submission ==
    \/ Persist \/ PostAccepted \/ PostLost \/ PostRefused \/ ReadBack
    \/ StartStop \/ StartCancel \/ StartKeep \/ StartSave
    \/ Undo \/ UndoStop \/ UndoFlatten \/ UndoDrop

Progress ==
    \/ SyncBegin \/ ReadOrder \/ Resubmit \/ FirstFill \/ DecideFlat \/ Decide
    \/ FlatCancel \/ FlatRace \/ FlatCheck
    \/ Freeze \/ SettleFallback \/ Settle \/ Fallback \/ Drop \/ Forget
    \/ ProvStop \/ PsCancel \/ PsKeep \/ Halt
    \/ RpCancel \/ RpSubmit \/ Tail

Conclusion ==
    \/ Finalize \/ Takes \/ Promote
    \/ FinCancel \/ FinFlatten \/ Clean \/ Account \/ AccountLate

Environment ==
    \/ \E i \in Ids : Fill(i) \/ ExchangeEnds(i)
    \/ \E s \in stops : StopTriggers(s)
    \/ OperatorCloses \/ Deadline \/ Crash

Next == Claim \/ Submission \/ Progress \/ Conclusion \/ Environment

Spec == Init /\ [][Next]_vars

(* The main loop calls sync again and again and every await returns; time  *)
(* passes.  Fills, triggers, closes and crashes are owed to nobody.        *)
FairSpec ==
    /\ Spec
    /\ WF_vars(Submission \/ Progress \/ Conclusion)
    /\ WF_vars(Deadline)

-----------------------------------------------------------------------------
(* Properties.                                                             *)

Live == {i \in Ids : orders[i].status = "live"}

(* There is never a second entry: however submissions, repricing, margin   *)
(* retries, the fallback and restarts interleave, at most one of the       *)
(* candidate's entry orders rests on the exchange.                         *)
SingleLiveOrder == \A i, j \in Live : i = j

(* At most once: an order of the candidate reaches the exchange only after *)
(* the claim in seen is on disk, so no restart can attempt it again.       *)
ClaimedOnDisk == (\E i \in Ids : orders[i].status # "none") => disk.seen

(* Between handlers a resting entry order is the one the pending entry     *)
(* names: a restart resumes the same client order (4361-4365).             *)
LiveOrderOwned == pc = "idle" => Live \subseteq {mem.entry.id}

(* Between handlers an open position belongs to a pending entry or to a    *)
(* managed position: sync never meets it as a foreign position, which      *)
(* would end the management of every symbol (811-822).                     *)
ExposureOwned == pc = "idle" /\ pos > 0 => Tracked(mem) \/ mem.managed

(* All the orders of one candidate together never execute more than the    *)
(* quantity that was sized for it.                                         *)
NoDoubleFill == bought <= Q

(* A position is handed to management only with a close-all stop on the    *)
(* exchange, unless part of what was bought has meanwhile been closed, by  *)
(* that very stop or by the operator.                                      *)
PromotedUnderStop ==
    [][~mem.managed /\ mem'.managed => stops # {} \/ pos < bought]_vars

(* A filled attempt that is no longer pending and never became a position  *)
(* is accounted, or owed to progress_pending_accounting.                   *)
FilledIsAccounted ==
    pc = "idle" /\ mem.seen /\ ~Tracked(mem) /\ ~mem.managed /\ bought > 0
        => mem.outcome # "none"

(* The exchange refuses an order a sync submits for a pending entry: the   *)
(* handler returns and only the next sync tries again.                     *)
ExchangeRefuses ==
    pc \in {"resubmit", "fallback"} /\ pc' = "idle" /\ UNCHANGED <<faults, crashes>>

(* Every pending entry is eventually promoted, flattened or forgotten,     *)
(* unless the exchange goes on refusing, sync after sync, the order its    *)
(* handler submits.                                                        *)
EntryResolves ==
    <>[][~ExchangeRefuses]_vars => (Tracked(mem) ~> ~Tracked(mem))
=============================================================================
