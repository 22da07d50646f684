# TLA+ specifications of greed

greed is a trading runtime: a strategy graph turns market data into trade
plans, and an executor turns plans into orders, hosted stops and closes on a
derivatives exchange (Binance demo), records what happened, and survives
restarts. Its money is at risk in one file, `crates/greed-runtime/src/execution.rs`
(9 783 lines), and in one pattern: a handler reads something, awaits an exchange
call, and acts on what it read, while the exchange fills, stops and cancels on
its own, calls fail or lose their answer, and the process may die. This directory
models that pattern. Source paths below are relative to `src/`; line
numbers alone refer to `crates/greed-runtime/src/execution.rs`.

Contents: 1 inventory, 2 modules and how they correspond to the code, 3 runs,
bounds and fairness, 4 proofs, 5 what the checks found, 6 limits of the models.

## 1. Inventory

### Executor (`greed-runtime/src/execution.rs`, `BinanceDemoExecution`)

*State.* `DemoState`, written as one JSON file by `save()` (6758): `seen` (claimed
candidates), `pending_entries` (resting maker entries by symbol),
`positions` (`ExecutionMeta` by symbol: stop price, profit guard, exit flags),
`pending_accounting`, counters, cooldowns and loss limits. In memory only:
`self.account`, the account as of the last `sync`.

*Operations.*

| Part | Functions | What makes it correct |
|---|---|---|
| maker entry | `start_pending_entry`, `progress_pending_entries`, `finalize_pending_entry`, `finish_failed_pending_entry` | one order at a time, claimed before submitted; every fill owned, protected or closed; the entry resolves |
| deferred accounting | `record_outcome_once` 3809, `progress_pending_accounting` 3838 | a filled attempt is accounted, once |
| admission | `apply_plans` 3109 | slot, symbol and loss limits hold over positions and pending entries together |
| protection | `sync` 751-2113, `replace_protective_stop` | under its stop until flat; the stop and the profit floor only tighten; a missing stop comes back |
| exits | `close_market`, `request_manual_close` 5307, `apply_exit_intents` 5388, max hold | an exit is requested only for a flat position, its reason once written is final, and its event reaches the journal (it may not, section 5) |
| market entry | `place_bracket` 5457 | a filled entry gets its bracket or is closed; where both fail, entries stop |
| risk guard | `account_frame` 2115, `reset_risk_guard` 2165 | daily and drawdown limits survive restarts |

`profit_guard.rs` is the pure rule `sync` values a position with: a quote of
the remaining quantity raises a peak and a floor under it, or asks for an exit.

### Main loop (`greed-runtime/src/main.rs`)

`run_binance_demo` (429-1010) owns two tokio tasks. The *sync task* (545-605)
ticks at `execution_sync_millis`, locks the executor, runs `sync` and sends the
returned events, or the error, over a channel. The *frame loop* receives those events and
appends them to the journal (608-636), executes operator commands
(`ControlCommand`: pause, resume, reset, manual close), builds a market frame,
evaluates the graph and calls `apply_plans` under the same lock. So handlers of
the executor never overlap one another; they overlap the exchange, time, and the
channel. `stabilize_universe` (33-80) changes the traded symbols slowly: four
misses before a symbol leaves, at most two replacements.

*Correct when* events are written in the order they were sent, a failed sync
blocks new orders, and a held symbol never leaves the universe.

### Market data (`market_stream.rs`, `source.rs`)

`MarketStreamHub` keeps websocket connections (sharded by symbol) and a shared
`StreamState`: tickers, candles, books, order-flow windows, liquidations.
`set_symbols` changes subscriptions on live sockets; `mark_route_recovering`
(682) forgets the windows a reconnect has a hole in; `symbol_is_warming` and ages
decide what is fresh. `source.rs` is REST: discovery, candles and their repair,
features.

*Correct when* a window holds what one connection delivered, an older candle never replaces a
newer or a terminal one, and data of a removed symbol or an old connection is not
taken for fresh.

### Records (`journal.rs`, `report.rs`) and monitor (`monitor.rs`)

`Journal` appends JSON lines and rotates bounded files (645-700);
`ResearchRecorder` (123-410) labels earlier snapshots with later prices;
`StatusWriter` replaces a status file. The monitor serves them over HTTP and
forwards operator commands to the frame loop by a channel. `report.rs` computes
statistics offline.

*Correct when* rotation loses nothing but the oldest file, a label uses
only a price near its horizon, and each accepted command is executed once.

### Strategy (`greed-kernel`, `greed-strategy`)

`StrategyGraph::build` orders nodes topologically, `evaluate` runs them over one
frame (`graph.rs` 46-120). Three recipes produce candidates, `PositionPlannerNode`
(`risk.rs` 184-) picks at most one plan per symbol and bounds slots and size.

*Correct when* a node sees all of its dependencies of this frame and only those, a cycle is
refused, and the plan chosen is the admissible one of highest priority.

### Interactions

    market stream --frames--> graph --plans--> apply_plans --+
    monitor ----commands----> frame loop --manual close------+--> executor
    sync task --------------------sync---------------------->+   |      |
       |                                                       awaits  save()
       +--events (channel)--> frame loop --> journal             |      |
                                                              exchange  DemoState file

### The hard behaviours

Listed line by line under `hazards` in `PROJECT.json`. The recurring ones: a
decision taken on a read that an await has made stale; a cancel, a fill and a
stop racing each other; a call whose answer is lost; a crash between an exchange
mutation and its save; the failure of the third of five steps; and an error that
repeats on every sync so that nothing after it ever runs.

## 2. Modules

    ProfitGuard            pure: the executable-value floor
      ManagedPosition      a position from promotion to its recorded exit
        ManagedPositionTypes    types, made inductive            (proofs)
          ManagedPositionSafety eight safety properties          (proofs)
        MCManagedPosition  two runs
    PendingEntry           a maker entry from claim to conclusion
      PendingEntryTypes    types, made inductive                 (proofs)
        PendingEntryOrders one resting order, claimed; quantity  (proofs)
          PendingEntryExposure whose order, position, fills; stop  (proofs)
      MCPendingEntry       five runs
    Exposure               abstract: what the executor promises about exposure
    Trading                frames, syncs, planners and entries, implements it
      TradingSafety        types, consistent books, second legs  (proofs)
        TradingExposure    implements Exposure; naked fills halt (proofs)
      MCTrading            three runs
    MarketStream           the websocket hub
      MarketSource         frames on top of it: REST, repair, merge
        MarketSourceSafety five safety properties                (proofs)
        MCMarketSource     two runs

`PendingEntry` and `ManagedPosition` follow one entry and one position await by
await. `Trading` composes what they leave behind: there an entry or a position is
one exposure of one candidate, over all candidates, symbols and tasks.

`PendingEntry` and `ManagedPosition` use the same shape. `pc` is the await at which the runtime
is, `"idle"` between handlers, and `loc` holds the locals of the handler in
progress. One action is the code between two awaits, with every outcome of the
await that starts it. `mem` is the in-memory state, `disk` what `save()` last
wrote. A step that saves either writes `disk` or fails, and then takes the branch
the code takes (`save()?` returns, `save().ok()` goes on). A crash puts `disk`
back into `mem` and forgets `pc` and `loc`. `faults` and `crashes` count what the
bounds limit. Fills, stop triggers, operators and the clock act between any two
steps.

### PendingEntry

| State | Code |
|---|---|
| `orders[id]` | entry orders on the exchange by client id: unknown, live or done, with executed quantity |
| `pos`, `bought`, `stops` | open position, what `userTrades` reports as bought, resting close-all stops by client id prefix |
| `mem.entry` | `PendingEntryState`: active client id, reprice attempt, first fill seen, provisional stop known |
| `mem.seen`, `managed`, `halted`, `outcome`, `owed` | claim, promotion, execution halt, accounting of the failed attempt |
| `late` | `now_ms` has reached `deadline_ms` |

Client ids are deterministic functions of the candidate (`client_order_id`,
`reprice_client_id`), so an id is its prefix and attempt: resubmitting one finds
the earlier order.

`Claim` is `apply_plans` up to the hand-over. `Persist`, `PostAccepted`,
`PostLost`, `PostRefused`, `ReadBack`, `Start...`, `Undo...` are
`start_pending_entry` with its margin retry, post-only reprices and its roll-back
when the last save fails. `SyncBegin`, `ReadOrder`, `Resubmit`, `FirstFill`,
`DecideFlat`, `Decide` are `progress_pending_entries` to its decision; then
`Flat...` is the position that vanished, `Freeze`, `Settle`, `Fallback`, `Drop`
the deadline, the invalidation and the taker fallback, `ProvStop`, `Ps...`, `Halt` the provisional stop under a partial fill, `Rp...` and `Tail` the
reprice. `Finalize`, `Takes`, `Promote` are `finalize_pending_entry`;
`FinCancel`, `FinFlatten`, `Clean`, `Account` are `finish_failed_pending_entry`;
`AccountLate` is `progress_pending_accounting`.

Optional faults (`Faults`): `"lost"`, the exchange accepts an order while its
answer and all lookups are lost; `"save"`, a failing write; `"lag"`, an account
read that does not show a fill yet. An ordinary failing call is always possible
within `MaxFaults`. A refusal is not a fault: the exchange may refuse every order
it is sent, the first post (`PostRefused`), a reprice (`RpSubmit`), the
resubmission of an order it does not know (`Resubmit`, 4417-4442) and the taker
fallback (`Fallback`, 4665-4690), as often as it likes.

### ProfitGuard

`Observe(g, net, quantity, partial)` is `ProfitGuard::observe`: the peak belongs
to one quantity (`Observed`), profit memory sets a floor that is never a loss
(`Remembered`), an activated shield arms above its floor and trails the peak
(`Shielded`), and `AsksExit` compares the quote with the floor. An `Option` is a
set of at most one element. Returns are integers: the rule only adds, compares
and takes maxima, so what it decides depends on the order of
the thresholds and quotes, which integers reproduce.

### ManagedPosition

| State | Code |
|---|---|
| `pos`, `hosted`, `takes` | open quantity, price of the close-all stop that rests, whether a take-profit rests |
| `mem`, `disk` | `ExecutionMeta`: guard, `stop_price`, `break_even_armed`, `last_observed_quantity`, `exit_requested`, `pending_exit_reason` |
| `acct` | `self.account`: `"none"` until the sync of `initialize` has ended, then without (`"absent"`) or with (`"present"`) the position; what manual close and exit intents look at |
| `sent`, `record` | the exit event in the channel to the frame loop, and in the journal |

`SyncBegin`, `SeeProtection`, `Scored`/`Unscored`, `Peaks` are one review: the
account, the open orders, the quote, and the save of peaks and floors that
precedes every exit. `CancelStop`, `StopGone`, `PlaceStop`, `Through`,
`Replaced`, `FlatSeen` are `replace_protective_stop`; `Reread` and `Rearm` are
the re-arm of an unprotected position. `Withdraw` to `Closed` are `close_market`
with its chunks and rereads, followed by what its caller does with the result
(`Closed`, `CloseFailed`; `loc.why` says which caller it is). `Gone` and
`Finish` forget a flat position, infer or copy its reason (`Event`), save and send
the event; `Journal` is the frame loop appending it. `RequestClose` is
`request_manual_close` and `apply_exit_intents`.

`Crash` leaves the process down and `Connect` starts it from the disk. The first
sync of a process is the one `initialize` runs: `acct` is `"none"` in it, an error out of it
ends the process again (`Return`), and `Finish` does not send its event, because
line 700 drops what that sync returns. When the last save or the account read
before it fails, `Finish` may leave the disk as it was or with what the handlers
of pending entries have saved in between.

### Trading and Exposure

| State | Code |
|---|---|
| `brief` | symbol, recipe and kind of entry of each candidate, fixed in a behaviour |
| `live` | exchange: the candidates with a working order or a position |
| `books`, `disk` | `DemoState` in memory and in the state file, as sets of candidates: `seen`, positions, `pending_entries`, `pending_accounting`, `pending_exit_actor`, the attempt, fill, formal, closed and accounted ids, the re-entry campaigns, the halt |
| `account` | symbols with a position in `self.account` |
| `pc`, `plans`, `cur`, `enabled` | where the frame loop is, its plans, the order being placed, `entries_enabled` |
| `task`, `healthy` | result of a sync not stored yet, `reconciliation_healthy` |
| `entered`, `unclaimed`, `naked`, `bare` | history: candidates whose order reached the exchange, those whose claim was not written at once, market fills and maker fills whose protection and emergency close both failed; read by the properties, and `entered` where the exchange knows an order or not |

`Sync` is `sync` from its first account read to its save: foreign positions refuse
all of it (808-822), positions that are gone are recorded and may arm a campaign
(`Disappeared`), pending entries end in one of their four ways (`Resolved`, what
`PendingEntry` shows in detail), and owed outcomes are accounted (`Settled`). One
pending entry may fail with a fill neither protected nor closed (`Progressed`): the
error ends the loop over the pending entries and becomes an event of a sync that goes on
(2072-2091); only an entry that could not be canceled halts (4813). The second
account read may fail after the handlers have saved (`Unread`), and the last save
may fail with the file as the sync found it, as the handlers left it or as the
accounting did (`Concluded`). `Resubmit` is the order of a pending entry that
the exchange does not know, sent again by a sync that runs or that starts the process. `StoreHealth` is a step of its own
because the sync task stores the flag after it has released the lock.
`FrameStarts`, `Evaluate` and `Begin` are the frame up to `apply_plans`: campaigns
advance, the graph's planner and, when a campaign is confirmed, a second planner
that does not know the first one's plans each choose at most one plan per symbol
within the slots they see (`MayFund`). Between `Evaluate` and `Begin` the lock is
free and a sync may run. `Skip`, `Supersede`, `Reject`, `Claim` are the checks
of `apply_plans` in its order; `StartPending` is a maker entry, `Refused` one (or a market
entry) given up before an order works, `Stranded` one whose write-ahead failed and which stays
pending in memory without an order; `PlaceMarket`,
`Bracketed`, `Flattened`, `ProtectionFailed`, `Forgotten` are `place_bracket` and
what `apply_plans` records of its result. `Crash` and `Connect` are the end of the
process and its start, which only succeeds over a sync that does; `ConnectFails` is
a start whose sync saved part of its work and failed, after which the service is started again
(`deploy/greed-paper.service` 10). The history `naked` follows the file: a
crash forgets a naked fill of which neither claim, attempt nor halt was written.

`Exposure` says the same without any of this: a candidate is new, open or over; it
is entered once, unless its claim may not have reached the disk; what is known to
be open is one per symbol and within the slots; exposures end, and the executor may
lose track of one. `Trading` implements it under the mapping `Life`, `Known`,
`unclaimed`; `TradedOnce` is that statement.

### MarketStream and MarketSource

| State | Code |
|---|---|
| `route`, `link`, `active`, `gen` | one dynamic connection: its kind and shard, where its task is, its subscribed streams, how often it connected |
| `symbols`, `unseen` | `desired_symbols`, and whether the watch channel has a change the task has not taken |
| `trades`, `liquidations` | which connections a window's entries came from |
| `book`, `bookId`, `flow` | last depth snapshot, `book_update_ids`, OFI observations |
| `bar`, `series` | the interval now open, candles received |
| `cached`, `rows`, `bootRetry`, `repairRetry` | `candle_cache` and the two `retry_after` maps |
| `pc`, `asked`, `requests`, `served` | the await a frame is at, the clock and the symbols of its requests, what it serves |

The eight dynamic connections share only `desired_symbols`, and each cache is filled by
one of them, so a behaviour follows one connection, chosen at the start. A shard is a
low-order residue of FNV-1a of a name or of a whole stream name; what decides the two-shard
case is the parity of the odd bytes, which is all `TwoShard` keeps. `Look`, `Wake`,
`Connect`, `Subscribe`, `ApplySymbols`, `Disconnect` are `run_dynamic_connection`, the
`Update...` actions are `handle_payload`. A row of `MarketSource` is `"none"`, `"open"`,
`"closed"`, or `"early"`: marked closed with data from before its interval ended. A frame is
three awaits, `Bootstrap`, `BootstrapAnswered`, `RepairAnswered`, and ends in `FrameServed`;
messages, time and the exchange's clock move between them.

## 3. Runs

The runs with a liveness property use `FairSpec`; so do all runs of `PendingEntry` and `ManagedPosition`.
`PendingEntry` and `ManagedPosition` run with
`CHECK_DEADLOCK FALSE`: a concluded entry and a forgotten position are final states of
the modelled life. So do the two runs of `MarketSource`, where connections, update ids and
intervals run out. The runs of `Trading` never stop and are checked for deadlock.

| Run | Question | Bounds |
|---|---|---|
| `maker` | do repricing, failing calls and failing saves keep one owned order and an owned, protected exposure? | Q = 2, 2 reprices, 2 faults, no crash |
| `restart` | is the journal enough after a restart at any await? | Q = 2, no reprice, 2 faults, 2 crashes |
| `hostile` | with everything at once, is there still one resting order, claimed on disk, and an end to every entry? | Q = 2, 2 reprices, fallback, 2 faults (lost, lag), 1 crash |
| `managed` | does a position stay under its stop until flat, with a floor that only rises and an exit whose reason is final, and is it forgotten at last? | Q = 2 in children of 1, returns -1..5, 1 fault, 1 crash |
| `trading` | does the whole runtime trade a candidate once within its limits, keep consistent books, and enter nothing beside a naked market fill? | 3 candidates in 4 worlds, 2 symbols, 1 slot, 1 failed save, 1 crash |
| `progress` | is lost exposure reported and what is owed settled? | 2 worlds, 2 symbols, 1 slot, 1 failed save, 1 crash |
| `stream` | is what a frame serves final, its flow in order and of the living connection, its rows repaired, and no symbol starved? | 1 symbol, a connection of each kind, 1 reconnect, 3 update ids, 3 intervals |
| `repricecrash`, `fallbackclose`, `startupexit`, `makernaked`, `tradeshard` | violations, section 5 | the smallest that show each |

**Why these bounds.** Two quantity steps are the least with a partial fill, a
fill after a partial fill, an unmanageable partial fill (`MinManaged = 2` in
`hostile`) and a manageable one (`MinManaged = 1`). Two reprices are the least with
a reprice of a reprice. Two faults are a failure and the failure of its remedy;
`managed` has one because a crash is its second. In `managed`,
the returns straddle every threshold: below zero, memory
activation at 3 gross, the break-even floor at 4, shield activation at 5, trailing at 6, a peak that trails
a stop past break-even. Break-even lies above the memory activation, the order in which the two floors
disagree and which the code does not rule out. The quantity can drop once and still be
positive, so the guard is reset once. What more of each would add is
repetition, which the proofs cover for the safety properties.

`trading` has four worlds instead of every assignment of recipes: a trend with its second
leg and a liquidation entry on one symbol (arming, ownership of the symbol, supersession), a
liquidation entry with its second leg by market orders, two symbols competing for the
standard slot, maker against market, and the same for the dedicated slot. A third candidate that
can never be confirmed stands in where two suffice. One failed save and one crash are the
least with which a record is lost between memory and disk. The safety properties that depend on more
of either, and on more candidates, are proved for every number of them. Liveness is checked apart,
in `progress`, because the fairness makes it several times as costly: a maker and a market entry on two symbols,
and a maker reversal with its second leg, are the worlds in which an outcome is owed by either kind of
entry, exposure is lost by a market order, and another entry of the same or of another symbol may stand in the way.
In `stream` two connections are the least with a gap, three update ids the
least with a duplicate, a reordering and a new one, three intervals the least with a
drained series of two and a repair that starts before the last interval;
`CandleLimit = 1` makes the cache of the hub overflow. The three kinds of connection are three
initial states, not a product, as they share no cache.

**Fairness.** `WF_vars` on the handler steps (`Submission \/ Progress \/
Conclusion`, and `Sync`): the sync task is a loop of its own with an
interval ticker (`main.rs` 553-601) that only ends when the receiver is
gone, its lock is released by every handler, and every request has the
client's timeout (584), so a started handler continues and sync comes again. `WF_vars(Deadline)`
in `PendingEntry`: wall-clock time reaches the deadline. Nothing else is fair: no
fill, trigger, operator, crash, plan, or journal append is owed to anybody. Faults
and crashes are finite by their bounds, so the liveness properties read: once
calls stop failing, the entry resolves (`EntryResolves`), a flat position is
forgotten (`FlatIsForgotten`), a bare one is stopped again or flat
(`BareResolved`). Refusals are not bounded, and nothing makes the exchange stop: `EntryResolves`
says so in its premise (`ExchangeRefuses` happens only finitely often), and without it the
property is false (section 5). A process that ended is started again (`Connect` is
part of the fair `Sync`: `Restart=always` in the service file).

In `Trading`, `SF(Sync \/ SyncRefused)`: the lock is tokio's fair mutex, the ticker goes on,
and `pc` leaves the places that hold the lock again and again, hence strong. `SF` of a sync
that ends with nothing owed: the venue reports the trades of closed positions to some sync
(the retry of `progress_pending_accounting` has no limit); this is the one assumption about
the venue, and `AccountingSettles` would be false without it. `WF(StoreHealth)` and `WF(Apply \/ Place)`: the
sync task runs on, and every await of `apply_plans` has the client's timeout. Frames, plans, exits
and operators are owed to nobody. In `MarketSource`: `WF` on dialing (a reconnect delay is
at most 30 s) and on the frame loop, whose awaits are bounded by timeouts; `SF` on a request
made for a symbol and on an answer for it, which says that REST answers for every symbol
now and then and that a frame is not urgent for ever. No message is owed by the exchange.

### Properties

`PendingEntry`:

- `SingleLiveOrder`: never two resting entry orders of a candidate.
- `ClaimedOnDisk`: an order reaches the exchange only after its candidate is claimed on disk.
- `LiveOrderOwned`: between handlers a resting order is the one the pending entry names.
- `ExposureOwned`: between handlers an open position is pending or managed, never foreign.
- `NoDoubleFill`: all orders of a candidate together execute at most the sized quantity.
- `PromotedUnderStop`: promoted only under a close-all stop, unless part of the position has meanwhile been closed.
- `FilledIsAccounted`: a filled attempt that ended without a position is accounted or owed.
- `EntryResolves`: liveness; an entry is promoted, flattened or forgotten at last, unless the exchange refuses its order again and again.

`ManagedPosition`:

- `ExitRequestedMeansFlat`: the flag that ends all review is set only for a flat position, whatever raced the close.
- `DecisionsOnDisk`: a close is issued only when the decision survives a restart.
- `StopRetained`: the hosted stop leaves only with the position or while its replacement is under way.
- `StopNeverLoosens`: no stop is placed looser than the one on disk, by updates, re-arms or after restarts.
- `FloorNeverLoosens`: the floor on disk only rises for one quantity.
- `FloorBacked`, `FirstExitRemembered`: for every order of the thresholds, which the code never compares with
  one another, a floor above the best value seen is the break-even floor itself; and the first quote after the
  quantity changed liquidates only where it activates the profit memory and lies no higher than the floors set
  without a peak, or the trailing distance is zero.
- `ExitReasonFinal`: a requested exit on disk keeps its reason, and no event with another one leaves `sync`.
- `ForgottenIsSent` (violated, section 5): a position that was forgotten has its event sent.
- `FlatIsForgotten`, `BareResolved`: liveness.

`Trading`:

- `BooksAgree`: the sets of ids, kept apart in the code by handlers minutes and restarts
  apart, never contradict each other: what is held is formal and not closed, what is
  accounted was closed, filled, attempted and claimed, what is owed has no outcome.
- `TradedOnce`: `Exposure` is implemented.
- `NakedStopsEntries`: while a market fill is open whose protection and emergency close both failed, no
  entry is sent but one that was already pending (a sync may submit that again).
- `BareStopsFrames` (violated, section 5): the same of maker fills, for the frames.
- `SecondLegFollows`: a second leg only after an accounted first leg of its symbol.
- `ForeignIsReported`: exposure in nobody's books makes the reconciliation unhealthy, or ends.
- `AccountingSettles`: an owed outcome is recorded, whatever the frame loop does.

`MarketStream`, `MarketSource`:

- `FlowIsSound`: order flow counts each snapshot once, forwards, against a book not yet
  expired, and holds no observation made before a reconnect of a symbol that stayed. The first
  snapshot after a fast reconnect may be joined to the book from before it: the observation counts
  as one of the new connection, and the property does not see it (section 5).
- `BookNeverGoesBack`: the book never returns to an older snapshot.
- `SubscriptionsSettle`: the connection ends up with exactly its streams, whatever changed while it was dialing, idle or reconnecting.
- `ClosedIsFinal`: a closed candle has the final data of its interval.
- `ClosedIsKept`: no late partial update and no REST row takes it back.
- `ElapsedIsRepaired`: a missed terminal update is made good.
- `DesiredIsServed`: a symbol that stays is served again and again, however its bootstraps fail.
- `WindowOfOneConnection` (violated, section 5): a window never spans two connections.

Where a property needs a precondition the code does not secure, the
run leaves the fault out and section 6 says so.

## 4. Proofs

The theorems hold for every value of the constants under the named assumptions of
the modules (quantities are positive, thresholds are integers, bounds are
naturals): any quantity, any number of reprices, faults, crashes and chunks.

**PendingEntryTypes.** `TypeInvariant`, `TypeCorrect`. Besides the types
`TypeInv` says that a handler which is not idle works on a real client order id.
Without it, indexing `orders` by the id at hand is meaningless and nothing is inductive.

**PendingEntryOrders.** `AtMostOneEntryOrder` (`SingleLiveOrder`), `ClaimBeforeOrder`
(`ClaimedOnDisk`) and `QuantityBought` (`NoDoubleFill`). `SingleLiveOrder` alone is not
inductive: a reprice submits a new id because the handler froze the old one, and a restart
resumes whatever the disk names. Its invariant `IInv` is

- `TypeInv`;
- `SavedInv`: while saves succeed, disk equals memory and the roll-back of a failed last
  save is never entered (this is where failing saves break the argument, and the code);
- `ClaimInv`: an order, or a handler about to submit one, has its claim;
- `LiveInv`: at most one order is live; none is where the handler is about to
  submit one, nor while the order the entry names is unknown to the exchange;
- `WorkInv`: the handler works on the order the entry names, or, past the
  submission, on one the exchange knows.

The quantity needs more (`QInv`), since an order that is frozen may have filled: at most one
order is *active*, live or executed (`ActiveInv`), and what was bought is what it executed
(`SumInv`). A reprice is only reached with nothing executed because the handler's `exec` is then the last
word on its order (`TermInv`); the taker fallback is the one order that is placed
beside another (`IdInv`), and it asks for what the named order left, so it needs the active order to be
the named one (`OwnInv`).

**PendingEntryExposure.** `RestingOrderOwned` (`LiveOrderOwned`), `ExposureAlwaysOwned`
(`ExposureOwned`), `FillsAccounted` (`FilledIsAccounted`) and `StopBeforePromotion`
(`PromotedUnderStop`). On top of `QInv`: no order rests where an entry is let go of
(`EndInv`); nothing is bought where the handler takes the entry for unfilled (`EmptyInv`);
an open position is pending, managed or about to be flattened (`ExposedInv`). A promotion is
traced back to the quantity the handler saw: `SInv` carries through `finalize` that either the stop stands or the position is
smaller than what was bought.

These are the properties the code does not keep under every fault. None of the assumptions can be dropped:
for each theorem and each of its assumptions TLC finds the property violated without it.

| Assumption | Without it | Theorems |
|---|---|---|
| `Durable`: saves succeed, or no process dies | a restart from a stale disk resumes another order | all but `ClaimBeforeOrder`, `FillsAccounted`, `StopBeforePromotion` |
| saves succeed | 3446 ignores a failed claim; the roll-back of a failed last save flattens without an outcome | `ClaimBeforeOrder`, `FillsAccounted` |
| `RepricesOwned`: a reprice is never cut off by a crash or a lost answer | `repricecrash` | the ownership theorems; `QuantityBought` only with the fallback on |
| no submission is lost with its lookups | the entry is given up with its order live (4171-4182) | the ownership theorems |
| no taker fallback | `fallbackclose` | `ExposureAlwaysOwned`, `FillsAccounted` |
| account reads do not lag | an open position is taken for flat | `ExposureAlwaysOwned`, `StopBeforePromotion` |

(The ownership theorems are `RestingOrderOwned`, `ExposureAlwaysOwned` and `FillsAccounted`.)
The passing runs meet the assumptions of the properties they check.

**ManagedPositionTypes.** `TypeInvariant`, `TypeCorrect`. `TypeInv` adds that a
close in progress has a reason, that a replacement of the stop has its price, and
that a review starts without a reason: the steps that share `close_market`
dispatch on these. That `pos` stays within 0..Q is part of it: closes,
take-profits and stops never reverse the position.

**ManagedPositionSafety.**

- `ExitOnlyWhenFlat` (`ExitRequestedMeansFlat`), by `FlatInv`: flat at the places
  that follow an observation of flatness, and wherever `exit` is set, in memory and
  on disk. A position once flat stays flat.
- `StopOnlyLeavesFlat` (`StopRetained`), from `FlatInv`: the cleanups that
  cancel everything run at `sweep` and `gone`, both flat.
- `FloorOnlyRises` (`FloorNeverLoosens`), by `FloorInv` on top of `ReviewInv`. The
  quantity under the guard never grows back, and memory is ahead
  of disk: at the same quantity its floor is at least as high. So a late save or
  a restart replaces a floor by one at least as good.
- `StopOnlyTightens` (`StopNeverLoosens`), by `StopInv`: the memory's stop is never below
  the disk's, and a desired stop is a single price no lower than the memory's.
- `FloorIsBacked` (`FloorBacked`) and `FirstQuoteExits` (`FirstExitRemembered`), by what
  `observe` does to a guard (`GuardInv`), in memory and on disk, for every setting of the thresholds: in the code each
  is clamped by itself (`risk.rs` 355-362, `effective_profit_memory`) and none is compared with another. A
  floor is set within the peak or at the break-even base (`Backed`). It lies strictly below the peak
  but in two cases (`Clear`): profit memory is active and the value has never been above the floors it and the shield set
  (`Squeezed`, the inherited take-profit of section 5), or the trailing stop keeps no distance (`Touching`).
- `DecisionsSurvive` (`DecisionsOnDisk`), by `DecisionInv`: the save of the peaks stands between a
  decision and every close that follows from it, and no step after it takes the decision back.
- `ReasonIsFinal` (`ExitReasonFinal`), by `FinalInv`: wherever a close is under way or about to be, the
  exit is not requested yet, which the guards of the requests (5326, 5414-5418) and of the review have to secure together; an exit requested on disk is
  requested in memory for the same reason, or the position is forgotten in memory and its event carries that reason.

**TradingSafety.** `TypeCorrect`, `BooksAlwaysAgree` and `SecondLegsFollow`. `BooksAgree`
alone is not inductive: that a fill was attempted at the moment it is promoted is known
from the handler in progress. `Ledger` adds that the candidate being placed is seen and in none of the sets
that come later (`Fresh`), attempted once its order is out. The proof is arranged by record, not by action:
first, for each operator on `DemoState` (`Promoted`,
`Resolved`, `Disappeared`, `Settled`, `Recorded`), that sound books stay sound and who leaves
them; each action is then one or two of these, and a crash only needs that the
disk is sound as well. What a sync leaves, in memory and in the file, is described once, for
the sync that runs and for the one that starts the process (`ReconciledParts`, `ReconciledInv`). `SecondLegsFollow` has the same shape: every operator lets the books *grow*
(`Grown`), which keeps `FollowInv`, that every campaign, in memory and on disk, has a first leg with
an outcome in the same books, and every plan of a second leg too.

**TradingExposure.** `TradesOnce`: `Spec => Abstract!Spec`, by step simulation under
`Guarded`. What is entered is in `seen`, on disk too, or its claim was not written;
what the disk owns and is still live the memory owns as well, so a restart resurrects no
ownership of somebody else's exposure; owned and placed candidates fit the slots together. The
delicate conjunct is the restart: a claim lost with its save may leave a position
that memory has never heard of, and a new candidate must not enter beside it.
`Connect` succeeds only when every symbol of the account is owned, so such a position is either refused
or in the account, which `Claim` looks at. All steps that enter nothing are one
notion (`Quiet`) with one preservation lemma and one mapping lemma.

`NakedAlwaysStops` (`NakedStopsEntries`), in the same module, is about market fills, for any failed saves and crashes.
The halt is written with `save().ok()`, so a crash may take it back. `LostInv` is why that does not matter: of the order
being placed the disk knows the claim, and then no other owner of its symbol, or it knows nothing. `HaltInv` says
that beside a naked fill the books are halted and no plan is being applied, and that a disk that knows
the fill is halted too or does not own its symbol, in which case the sync that starts the process meets a
foreign position and the process does not start. Where the disk knows nothing, the claim, the attempt and the halt were
all not written; if the file then still shows an earlier entry of that symbol, the process may start over the position and trade on. The history `naked` drops
the fill in that crash: the theorem promises nothing of it, and nothing in the code could.

**MarketSourceSafety.** `TypeCorrect`, `FlowAlwaysSound`, `BookOnlyAdvances`,
`ClosedAlwaysFinal`, `ClosedAlwaysKept`, for any number of symbols, shards, messages and
reconnects. The invariant says where content comes from: a book is the snapshot of
the last update id; flow exists only where the connection followed carries depth, so a
reconnect, which drops the flow of its shard, drops all of it; the clock of a request is
never ahead of the exchange's; a bootstrap is in flight only for symbols without a
history, so it replaces no closed row.

Every strengthening was first checked by TLC as an invariant of the same
instances. Every safety property of a passing run is stated by a theorem. Only model-checked are the liveness properties
(`EntryResolves`, `FlatIsForgotten`, `BareResolved`, `ForeignIsReported`, `AccountingSettles`,
`SubscriptionsSettle`, `ElapsedIsRepaired`, `DesiredIsServed`); liveness under fairness and `ENABLED` are
beyond the prover.

## 5. Disagreements with the code's own documentation

Each is a run that TLC finds violated by what the code does.

1. `repricecrash`. "The state is persisted after every exchange mutation, so a
   restart resumes the same client order" (4362-4364). A reprice submits the new
   id at 4946-4963 and saves it at 4966: a crash in between leaves an order
   nobody names. With the taker fallback on, both may fill.
2. `fallbackclose`. "A failed close therefore leaves a protected, recoverable
   pending state" (5205-5207). The taker fallback's id and fill live in
   locals only (4665-4702): if the emergency close of an unmanageable fallback
   fill fails, the next sync may drop the entry with the position open.
3. `startupexit`. "the next `sync` attributes the confirmed fill and emits the final `exchange_exit` ledger
   event" (5304-5306). `initialize` runs `self.sync().await?;` (700) and drops the events, so
   the exit of a position that was closed while the process was down is written nowhere, without any fault.
   The same event is lost in a running process when the account read at 2093 or the save at 2105
   fails: `sync` has forgotten the flat position at 1870, and the events go with the error.
4. `makernaked`. `start_pending_entry` halts with "unprotected maker fill after stop and emergency close failure"
   (4249-4254). The same double failure met by a sync (5036-5073, 5190-5198) is an event of a sync that
   succeeds (2072-2091): no halt, the health stays true, and entries on other symbols go on.
5. `tradeshard`. "A reconnect invalidates only the short windows owned by that route. Never
   join pre-disconnect force orders, trades, or depth snapshots to fresh data"
   (`market_stream.rs` 679-681). `mark_route_recovering` looks for the symbols of a trade
   shard by the hash of the symbol (705-710), but the streams are distributed by the hash of the
   whole stream name (854-859). Both suffixes of the trade route have an odd number
   of odd bytes, which flips the low bit of FNV-1a: every symbol's trades live on the other of the two
   shards. A reconnect clears the wrong half of the symbols and joins old to new for the right one. The test at 1974
   computes its shard by the same function and passes.

Met while modelling, and not runs of their own:

- An unfilled trend entry is given up (`README.md` 24-25), but two `?` of `progress_pending_entries` return
  before the entry is looked at further, on this and every later sync, so that it keeps its symbol and
  slot and later entries wait behind it. 4417-4442: the process died between the
  write-ahead (4048-4056) and the order, and the exchange refuses the resubmission; the deadline is only read at
  4596. `EntryResolves` therefore has its premise. 4659: the reduced quantity of the taker fallback fails
  validation; `EntryResolves` is false with `TakerFallback = TRUE` and `FallbackFits = FALSE`.
- "Never liquidate a legacy position just because an inherited TP already happened before its first quote"
  (`profit_guard.rs` 165-166). If profit memory activates below the break-even floor, its floor makes
  `is_some()` true at 175, and the first quote both raises the floor past itself and asks for the exit. This is the
  exception `FirstExitRemembered` states.
- `market_stream.rs` 679-681 (finding 5) promises that no depth snapshot is joined across a reconnect, and 691 that
  "OFI cannot bridge a disconnected route". The flow is dropped, but the book is kept, and a
  reconnect faster than `STREAM_TTL_MS` joins the first new snapshot to it. `FlowIsSound`
  states what the code and its test at 1955 do.
- A manual close leaves no symbol outcome, nor does a trade whose summary cannot be read, so
  `signal_precedes_latest_symbol_exit` (3379-3391) does not see the exit and an older
  candidate of the same episode may enter again.
- The halt of `start_pending_entry` stops the next frame, not this one: its error is an event and the `continue` at 3494
  goes on to the next plan, whereas the halt of a market entry ends the batch (3744-3750).
- Where the protection failed and the emergency close of a price beyond its bound fails too
  (5765-5783), the position is foreign without a halt: `ForeignIsReported` is what stops it.

## 6. Limits

Assumed of the exchange: a client id it has seen is refused as a
duplicate; a request is not executed long after it was sent (`recvWindow`); one
close-all stop per side; reduce-only orders never reverse.

*PendingEntry* follows one candidate on one symbol.
`performance_epoch_reset` is false. A close that fails part-way leaves any
smaller quantity; the chunk arithmetic of `flatten_entry_quantity` and its
deterministic child ids are not modelled. Known edges, left out of the
passing runs by their fault sets because the code does not promise them:
with `"save"`, `ClaimedOnDisk` fails (3446 is `save().ok()`), and with a crash after it two
orders may rest; with `"lost"`, `LiveOrderOwned` fails (the generic error
branch 4171-4182 gives the order up); with `"lag"`,
`flatten_entry_or_confirm_flat` may take an open position for flat. A provisional
stop already consumed while the rest kept filling is reused by `finalize`
(5010-5013): `PromotedUnderStop` admits it, and `ManagedPosition`'s re-arm is
what repairs it.

*ManagedPosition* follows one position with the executable profit guard on
(`config/demo.toml` 50). Not modelled: operation without the guard, runner mode,
funding and attribution queries (the reason is copied or `"inferred"`), account lag, minimum
quantities in the chunks of a close and the 128-child limit, the max-hold
extension (managed positions disable it, `disable_managed_max_hold`), and the other
symbols of the loop. Early failure by the mark price is a free choice at each
review, as prices are. Fixed-time positions have no guard, as in the code.

*Trading* knows who is exposed, not by how much. A pending entry is never foreign there: the
orders a maker entry can lose are the subject of `PendingEntry` (runs `repricecrash`,
`fallbackclose`). The rejections by cooldown, age and venue are free choices, and so are
sizes, liquidity and the risk halt of the planner. A campaign is named by one
candidate of its second leg: a second leg that is rejected and confirmed again under a new id is not modelled. Not
modelled: the resets at start-up (595-683: a new performance epoch empties the sets of ids and clears the halt, a
new liquidation basis clears one kind of halt), the equity baselines of the risk guard and
their reset (2115-2204; refused under a halt), the file between two handlers of one
sync (one failed save stands for all of a sync, and the file is then one of the three `Concluded` names), the mark of a first fill
before an entry ends (4446-4470; its fill is counted when it ends), the rotation of a `btc_key_zone` tail (3229-3283; no recipe of the
graph produces that candidate any more), campaigns of the retired kind
`trend_profit_reversal`, `apply_exit_intents` (in `ManagedPosition`), the
priority a waiting sync gets for a second, and protective orders that outlive their
position (1877). What the model does show about the code's edges:

- `NakedStopsEntries` is about market brackets. Of a maker fill with the same double failure nothing of the
  kind holds (`makernaked`).
- An order whose answer and lookups are lost is nobody's until the next sync. A second
  plan of the frame for the same symbol may be placed beside it: the account of the last sync
  does not show it, and `place_bracket` does not look again. `TradedOnce` is about the
  exposure in the books.
- Entries are enabled by the health at evaluation. A frame in flight goes on when the health
  turns bad, hence `ForeignIsReported` stops new frames and no more.
- A second leg whose campaign a liquidation entry retired earlier in the same frame is still
  placed if that entry does not keep the symbol.

*MarketStream* and *MarketSource*. The radar connection (tickers), telemetry, endpoint failover, universe discovery,
open interest, long/short ratios and all features are left out, and one interval stands for
four. The local clock is not ahead of the exchange's: 691 marks a REST row closed by the local clock,
and a fast one would make `ClosedIsFinal` false. Depth messages carry their update id; the
parser also takes one without, and then neither drops nor recognises it. Steadiness of a
symbol is since the last reconnect: a symbol removed, missed by a reconnect and admitted
again keeps its old windows (700, 708). `ElapsedIsRepaired` is about partial rows: an interval missed
entirely leaves a hole no repair looks for (841). `candle_cache` is never pruned, so the model keeps the rows of
removed symbols.

*Not modelled at all.* The journal: bounded files appended by the frame loop alone, whose rotation
has no interleaving. The monitor: a reader of files; the commands it forwards are in `Trading`. The
kernel: a pure topological evaluation of a fixed graph, once per frame, without state in between. The
recipes: arithmetic on features; any of their candidates may appear in `Trading`. `stabilize_universe`: a pure
function of the main loop with a test of its own; `MoveUniverse` takes any universe. `report.rs` and
`config.rs` (no state that changes); `deploy/`, `tools/`, `research/`, `data/`
(not part of the program).
