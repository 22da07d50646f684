------------------------------ MODULE Trading ------------------------------
(***************************************************************************)
(* The runtime around the executor: the frame loop and the sync task of    *)
(* main.rs, the planner, apply_plans with its market entries, the          *)
(* synchronisation of positions, re-entry campaigns and accounting, over   *)
(* the state file and an exchange that fills and exits on its own.         *)
(*                                                                         *)
(* PendingEntry models a maker entry and ManagedPosition a position in     *)
(* detail; here each is one exposure, and its handlers are what they       *)
(* leave behind.  The executor's lock covers a sync and a whole run of     *)
(* apply_plans: pc tells who may hold it.                                  *)
(***************************************************************************)
EXTENDS Naturals, FiniteSets

CONSTANTS
    Candidates,    \* trade candidates
    Symbols,       \* contracts
    Briefs,        \* what the candidates of a behaviour may be
    MaxPositions,  \* portfolio.max_positions
    MaxUnsaved,    \* bound: failed saves in a behaviour
    MaxCrashes     \* bound: crashes in a behaviour

Recipes == {"trend", "reentry", "reversal", "rejoin", "fast"}
Brief == [symbol : Symbols, recipe : Recipes, maker : BOOLEAN]

ASSUME TradingAssumption ==
    /\ IsFiniteSet(Candidates) /\ IsFiniteSet(Symbols)
    /\ Briefs \subseteq [Candidates -> Brief]
    /\ MaxPositions \in Nat \ {0}
    /\ MaxUnsaved \in Nat /\ MaxCrashes \in Nat

VARIABLES
    brief,     \* symbol, recipe and kind of entry of each candidate
    live,      \* exchange: candidates with a working order or a position
    books,     \* DemoState in memory
    disk,      \* the state file
    account,   \* self.account: the symbols with a position
    pc,        \* where the frame loop is
    plans,     \* plans of the frame not applied yet
    cur,       \* the candidate whose order is being placed, an Option
    enabled,   \* entries_enabled of the frame
    task,      \* the result of a sync not stored yet, or "idle"
    healthy,   \* reconciliation_healthy
    faults,    \* failed saves and crashes so far
    entered,   \* history: candidates whose order reached the exchange
    unclaimed, \* history: candidates whose claim was not written at once
    naked,     \* history: market fills that a failed bracket left open
    bare       \* history: maker fills neither protected nor closed in time

frame == <<pc, plans, cur, enabled>>
reconciliation == <<task, healthy>>
history == <<entered, unclaimed, naked, bare>>
vars == <<brief, live, books, disk, account, frame, reconciliation, faults,
          history>>

SymbolOf(c) == brief[c].symbol
SymbolsOf(S) == {SymbolOf(c) : c \in S}
OfRecipe(S, r) == {c \in S : brief[c].recipe = r}

(* The recipe of the second leg of a profitable exit.                      *)
FollowUp(r) ==
    CASE r = "trend" -> "reentry" [] r = "reversal" -> "rejoin" [] OTHER -> "none"
Ordinary(c) == brief[c].recipe \notin {"reentry", "rejoin"}

-----------------------------------------------------------------------------
(* DemoState.                                                              *)

(* A campaign is named by the candidate of its second leg: waiting for a   *)
(* reset, for a resumption, or confirmed.                                  *)
Stages == {"none", "armed", "reset", "confirmed"}

Books == [
    seen : SUBSET Candidates,      \* claimed or rejected
    held : SUBSET Candidates,      \* positions
    pending : SUBSET Candidates,   \* pending_entries
    deferred : SUBSET Candidates,  \* pending_accounting
    manual : SUBSET Candidates,    \* positions with a pending_exit_actor
    attempts : SUBSET Candidates,  \* entry_attempt_ids
    filled : SUBSET Candidates,    \* filled_entry_attempt_ids
    formal : SUBSET Candidates,    \* formal_position_ids
    closed : SUBSET Candidates,    \* closed_trade_ids
    accounted : SUBSET Candidates, \* accounted_attempt_ids, one outcome each
    campaign : [Candidates -> Stages],
    halt : BOOLEAN]                \* execution_halt_reason

NewBooks == [
    seen |-> {}, held |-> {}, pending |-> {}, deferred |-> {}, manual |-> {},
    attempts |-> {}, filled |-> {}, formal |-> {}, closed |-> {},
    accounted |-> {}, campaign |-> [c \in Candidates |-> "none"],
    halt |-> FALSE]

LockFree == {"idle", "fetching", "planned"}
Placing == {"claimed", "filled", "lost"}
Places == LockFree \cup Placing \cup {"applying", "down"}

(* The shape of the state; an order is being placed exactly at the places  *)
(* where apply_plans awaits the exchange for it.                           *)
TypeOK ==
    /\ brief \in Briefs
    /\ live \subseteq Candidates
    /\ books \in Books /\ disk \in Books
    /\ account \subseteq Symbols
    /\ pc \in Places
    /\ plans \subseteq Candidates
    /\ \/ pc \in Placing /\ \E c \in Candidates : cur = {c}
       \/ pc \notin Placing /\ cur = {}
    /\ pc \in {"idle", "fetching", "down"} => plans = {}
    /\ enabled \in BOOLEAN
    /\ task \in {"idle", "ok", "failed"}
    /\ healthy \in BOOLEAN
    /\ faults \in [unsaved : 0..MaxUnsaved, crashes : 0..MaxCrashes]
    /\ entered \subseteq Candidates
    /\ unclaimed \subseteq Candidates
    /\ naked \subseteq Candidates /\ bare \subseteq Candidates

Init ==
    /\ brief \in Briefs
    /\ live = {}
    /\ books = NewBooks /\ disk = NewBooks
    /\ account = {}
    /\ pc = "idle" /\ plans = {} /\ cur = {} /\ enabled = FALSE
    /\ task = "idle" /\ healthy = TRUE
    /\ faults = [unsaved |-> 0, crashes |-> 0]
    /\ entered = {} /\ unclaimed = {} /\ naked = {} /\ bare = {}

Owners(b) == b.held \cup b.pending

(* save().ok(): a failure is ignored.                                      *)
Unsaved ==
    /\ faults.unsaved < MaxUnsaved
    /\ faults' = [faults EXCEPT !.unsaved = @ + 1]
Saved(b) == disk' = b /\ UNCHANGED faults
SaveTried(b) == Saved(b) \/ (Unsaved /\ UNCHANGED disk)

(* record_filled_attempt and record_outcome_once, the record of a round    *)
(* trip; record_filled_attempt and record_formal_position.                 *)
RoundTrips(b, S) ==
    [b EXCEPT !.filled = @ \cup S, !.accounted = @ \cup S, !.closed = @ \cup S]
(* Mutant: the promotion counts no fill.                                   *)
PromotedUncounted(b, S) == [b EXCEPT !.held = @ \cup S, !.formal = @ \cup S]
Promoted(b, S) ==
    [b EXCEPT !.held = @ \cup S, !.filled = @ \cup S, !.formal = @ \cup S]

-----------------------------------------------------------------------------
(* The exchange.                                                           *)

(* The symbols an account read may show: a maker order may have filled.    *)
Readings(b, S) ==
    {SymbolsOf(S \ b.pending) \cup filled :
        filled \in SUBSET SymbolsOf(S \cap b.pending)}

(* A position goes flat: its stop, a target, a liquidation, a close.       *)
Exit(s) ==
    LET gone == {c \in live \ books.pending : SymbolOf(c) = s}
    IN  /\ gone # {}
        /\ live' = live \ gone
        /\ UNCHANGED <<brief, books, disk, account, frame, reconciliation,
                       faults, history>>

-----------------------------------------------------------------------------
(* sync.                                                                   *)

(* Positions gone from the account: an outcome is recorded where the       *)
(* trades could be read and no operator intervened, and an exit by profit  *)
(* protection arms the campaign of its second leg.                         *)
(* Mutant: any exit arms the campaign, however it came about.              *)
DisappearedArms(b, gone, read, profit) ==
    [b EXCEPT
        !.held = @ \ gone,
        !.manual = @ \ gone,
        !.closed = @ \cup gone,
        !.accounted = @ \cup (read \ b.manual),
        !.campaign = [c \in Candidates |->
            IF \E d \in gone : /\ SymbolOf(d) = SymbolOf(c)
                               /\ FollowUp(brief[d].recipe) = brief[c].recipe
            THEN "armed" ELSE @[c]]]
Disappeared(b, gone, read, profit) ==
    [b EXCEPT
        !.held = @ \ gone,
        !.manual = @ \ gone,
        !.closed = @ \cup gone,
        !.accounted = @ \cup (read \ b.manual),
        !.campaign = [c \in Candidates |->
            IF \E d \in profit : /\ SymbolOf(d) = SymbolOf(c)
                                 /\ FollowUp(brief[d].recipe) = brief[c].recipe
            THEN "armed" ELSE @[c]]]

(* progress_pending_entries: an entry is promoted, canceled unfilled, or   *)
(* closed with its outcome recorded now or deferred.                       *)
Resolved(b, promoted, unfilled, closed, late) ==
    LET r == RoundTrips(Promoted(b, promoted), closed)
    IN  [r EXCEPT
            !.pending = @ \ (promoted \cup unfilled \cup closed \cup late),
            !.filled = @ \cup late,
            !.deferred = @ \cup late]

(* Mutant: an accounted entry is not dropped from the deferred ones.       *)
SettledAgain(b, S) == RoundTrips(b, S)
(* progress_pending_accounting.                                            *)
Settled(b, S) == [RoundTrips(b, S) EXCEPT !.deferred = @ \ S]

Foreign(seen, b) == seen \ SymbolsOf(Owners(b))
Halted(b) == [b EXCEPT !.halt = TRUE]

(* The second account read, after a handler told of a pending entry and    *)
(* the books h were saved, fails.                                          *)
Unread(h) ==
    /\ books.pending \cap entered # {}
    /\ books' = h /\ Saved(h)
    /\ UNCHANGED account

(* The end of a sync that read positions of the symbols seen and whose     *)
(* handlers left the books h: outcomes that are owed are settled, account  *)
(* and books kept.  Where the last save fails, the file is the one before  *)
(* the sync, that of the handlers or that of the accounting.  A process    *)
(* that does not start continues from the file.                            *)
Concluded(h, seen, result) ==
    \E settled \in SUBSET (h.deferred \ live') :
        LET b == Settled(h, settled)
        IN  /\ IF result = "ok" THEN Saved(b)
               ELSE Unsaved /\ disk' \in {disk, h, b}
            /\ IF result = "down" THEN books' = disk' /\ UNCHANGED account
               ELSE books' = b /\ account' \in {seen} \cup Readings(b, live')

(* The handlers of the pending entries tried have left the books r.  One   *)
(* of them may have failed, with a fill that could neither be protected    *)
(* nor closed: it stays pending, and so does what was bare before and not  *)
(* reached.  The failure is an event of the sync, and halts only where the *)
(* entry could not be canceled.                                            *)
Progressed(tried, r, seen, result) ==
    \/ /\ bare' \in {{}, bare \cap r.pending}
       /\ Concluded(r, seen, result) \/ (result # "ok" /\ Unread(r))
    \/ \E c \in tried \cap live \cap r.pending :
        /\ bare' = {c} \cup (bare \cap r.pending)
        /\ Concluded(r, seen, result) \/ Concluded(Halted(r), seen, result)

(* A sync that reads positions of the symbols seen: the exits, and the     *)
(* pending entries whose order reached the exchange.                       *)
Reconciled(seen, result) ==
    LET gone == {c \in books.held : SymbolOf(c) \notin seen}
        tried == books.pending \cap entered
    IN  /\ Foreign(seen, books) = {}
        /\ \E read \in SUBSET gone :
           \E profit \in SUBSET (read \ books.manual) :
           \E promoted \in SUBSET (tried \cap live) :
           \E unfilled \in SUBSET (tried \ promoted) :
           \E closed \in SUBSET (tried \ (promoted \cup unfilled)) :
           \E late \in SUBSET (tried \ (promoted \cup unfilled \cup closed)) :
            /\ live' = live \ (unfilled \cup closed \cup late)
            /\ Progressed(tried,
                          Resolved(Disappeared(books, gone, read, profit),
                                   promoted, unfilled, closed, late),
                          seen, result)

(* A sync tells its result when it has released the lock.                  *)
Sync ==
    /\ pc \in LockFree /\ task = "idle"
    /\ task' \in {"ok", "failed"}
    /\ \E seen \in Readings(books, live) : Reconciled(seen, task')
    /\ UNCHANGED <<brief, frame, healthy, entered, unclaimed, naked>>

(* The account could not be read, or it shows a foreign position, or an    *)
(* order of a held position failed, after a save or before any.            *)
SyncRefused ==
    /\ pc \in LockFree /\ task = "idle"
    /\ task' = "failed"
    /\ disk' \in {disk, books}
    /\ UNCHANGED <<brief, live, books, account, frame, healthy, faults,
                   history>>

(* A pending entry that the exchange does not know is submitted again, by  *)
(* a sync that runs or that starts the process.  A refusal of it is an     *)
(* event of that sync and changes nothing.                                 *)
Resubmit(c) ==
    /\ pc \in LockFree \cup {"down"} /\ task = "idle"
    /\ c \in books.pending \ entered
    /\ live' = live \cup {c} /\ entered' = entered \cup {c}
    /\ UNCHANGED <<brief, books, disk, account, frame, reconciliation, faults,
                   unclaimed, naked, bare>>

(* Mutant: a failed sync leaves the health as it was.                      *)
StoreHealthOnSuccess ==
    /\ task # "idle"
    /\ healthy' = (healthy \/ task = "ok")
    /\ task' = "idle"
    /\ UNCHANGED <<brief, live, books, disk, account, frame, faults, history>>
(* The sync task stores the health after it has released the lock.         *)
StoreHealth ==
    /\ task # "idle"
    /\ healthy' = (task = "ok")
    /\ task' = "idle"
    /\ UNCHANGED <<brief, live, books, disk, account, frame, faults, history>>

-----------------------------------------------------------------------------
(* The frame loop up to its plans.                                         *)

(* A failed reconciliation skips the frame.                                *)
FrameStarts ==
    /\ pc = "idle" /\ healthy
    /\ pc' = "fetching"
    /\ UNCHANGED <<brief, live, books, disk, account, plans, cur, enabled,
                   reconciliation, faults, history>>

FrameFails ==
    /\ pc = "fetching"
    /\ pc' = "idle"
    /\ UNCHANGED <<brief, live, books, disk, account, plans, cur, enabled,
                   reconciliation, faults, history>>

(* trend_reentry_artifacts: the campaign of a profitable trend waits for a *)
(* reset, then for a resumption that confirms it; it expires, and so does  *)
(* a confirmation, after minutes.                                          *)
AdvancedTrend(stage) ==
    CASE stage = "none" -> {"none"}
      [] stage = "armed" -> {"none", "armed", "reset"}
      [] OTHER -> {"none", "reset", "confirmed"}

(* liquidation_reentry_artifacts: no reset, only a resumption.             *)
AdvancedRejoin(stage) ==
    IF stage = "none" THEN {"none"} ELSE {"none", "armed", "confirmed"}

Advanced(stage, recipe) ==
    IF recipe = "reentry" THEN AdvancedTrend(stage) ELSE AdvancedRejoin(stage)

(* The candidates of the confirmed campaigns.                              *)
SecondLegs(b) ==
    {c \in OfRecipe(Candidates, "reentry") : b.campaign[c] = "confirmed"}
Rejoins(b) ==
    {c \in OfRecipe(Candidates, "rejoin") : b.campaign[c] = "confirmed"}

(* recipe_slot_full, by the books and by positions nobody owns.            *)
Unattributed == IF Cardinality(account) > Cardinality(books.held)
                THEN Cardinality(account) - Cardinality(books.held) ELSE 0
FastActive == Cardinality(OfRecipe(Owners(books), "fast"))
StandardActive ==
    Cardinality(Owners(books) \ OfRecipe(Owners(books), "fast")) + Unattributed

(* PositionPlannerNode: the candidates it may fund, one per symbol, within *)
(* the free slots.                                                         *)
MayFund(S) ==
    /\ \A c, d \in S : SymbolOf(c) = SymbolOf(d) => c = d
    /\ S \cap OfRecipe(S, "fast") # {} =>
            Cardinality(OfRecipe(S, "fast")) + FastActive <= 1
    /\ S \ OfRecipe(S, "fast") # {} =>
            Cardinality(S \ OfRecipe(S, "fast")) + StandardActive <= MaxPositions

(* Liquidity and the gross limit may leave any of them out, a halt all.    *)
Funded(S) == {P \in SUBSET S : MayFund(P)}

(* The graph's planner, and after it, if a campaign is confirmed, a second *)
(* planner over everything that does not know the first one's plans.       *)
Planned(b) ==
    LET ordinary == {c \in Candidates : Ordinary(c)}
        confirmed == SecondLegs(b) \cup Rejoins(b)
    IN  {S \cup T : S \in Funded(ordinary),
                    T \in IF confirmed = {} THEN {{}}
                          ELSE Funded(ordinary \cup confirmed)}

(* Evaluation: the campaigns advance, the planners plan, and entries are   *)
(* enabled by the health of this moment unless the operator paused them.   *)
(* apply_plans skips what it has seen.                                     *)
Evaluate ==
    /\ pc = "fetching"
    /\ \E stages \in [Candidates -> Stages] :
        /\ \A c \in Candidates :
            stages[c] \in Advanced(books.campaign[c], brief[c].recipe)
        /\ books' = [books EXCEPT !.campaign = stages]
    /\ IF books' = books THEN UNCHANGED <<disk, faults>> ELSE SaveTried(books')
    /\ \E P \in Planned(books') : plans' = P \ books.seen
    /\ enabled' \in {healthy, FALSE}
    /\ pc' = "planned"
    /\ UNCHANGED <<brief, live, account, cur, reconciliation, history>>

-----------------------------------------------------------------------------
(* apply_plans.                                                            *)

(* Under the lock: nothing is entered on a halt or while disabled.         *)
Begin ==
    /\ pc = "planned"
    /\ IF books.halt \/ ~enabled \/ plans = {}
       THEN pc' = "idle" /\ plans' = {}
       ELSE pc' = "applying" /\ UNCHANGED plans
    /\ enabled' = FALSE
    /\ UNCHANGED <<brief, live, books, disk, account, cur, reconciliation,
                   faults, history>>

(* Mutant: the order of a plan that is done is kept.                       *)
DoneHolding(left) ==
    /\ plans' = left /\ UNCHANGED cur
    /\ pc' = IF left = {} THEN "idle" ELSE "applying"
Done(left) ==
    /\ plans' = left /\ cur' = {}
    /\ pc' = IF left = {} THEN "idle" ELSE "applying"

SlotFull(c) ==
    IF brief[c].recipe = "fast" THEN FastActive >= 1
    ELSE StandardActive >= MaxPositions

Blocked(c) ==
    SymbolOf(c) \in account \cup SymbolsOf(Owners(books)) \/ SlotFull(c)

(* A liquidation entry retires both campaigns of its symbol, a second leg  *)
(* uses up its own.                                                        *)
WithoutCampaigns(b, c) ==
    [b EXCEPT !.campaign = [d \in Candidates |->
        IF /\ SymbolOf(d) = SymbolOf(c)
           /\ brief[c].recipe \in {"reversal", brief[d].recipe}
        THEN "none" ELSE @[d]]]

(* A trend campaign owns its symbol until its second leg.                  *)
Reserved(c) ==
    /\ brief[c].recipe \notin {"reentry", "reversal"}
    /\ \E d \in OfRecipe(Candidates, "reentry") :
        SymbolOf(d) = SymbolOf(c) /\ books.campaign[d] # "none"

Skip(c) ==
    /\ pc = "applying" /\ c \in plans
    /\ Blocked(c)
    /\ Done(plans \ {c})
    /\ UNCHANGED <<brief, live, books, disk, account, enabled,
                   reconciliation, faults, history>>

(* Rejected for good, in memory: cooldowns, a signal older than the last   *)
(* exit, a symbol the venue does not trade, a symbol reserved.             *)
Reject(c) ==
    /\ pc = "applying" /\ c \in plans
    /\ books' \in {[b EXCEPT !.seen = @ \cup {c}] : b \in
            (IF brief[c].recipe = "reversal" THEN {books} ELSE {})
            \cup (IF Blocked(c) THEN {}
                  ELSE IF brief[c].recipe = "reversal"
                       THEN {WithoutCampaigns(books, c)} ELSE {books})}
    /\ Done(plans \ {c})
    /\ UNCHANGED <<brief, live, disk, account, enabled, reconciliation,
                   faults, history>>

(* A liquidation entry cancels the pending entry of another recipe on its  *)
(* symbol first; if that fails the plan is left for another frame, and a   *)
(* fill may be left open.                                                  *)
Supersede(c) ==
    /\ pc = "applying" /\ c \in plans /\ brief[c].recipe = "reversal"
    /\ \E d \in books.pending :
        /\ SymbolOf(d) = SymbolOf(c) /\ brief[d].recipe # "reversal"
        /\ \/ /\ d \in entered /\ bare' = bare \ {d}
              /\ books' \in
                    {Resolved(books, {}, {d}, {}, {}),
                     Resolved(books, {}, {}, {d}, {}),
                     Resolved(books, {}, {}, {}, {d})}
              /\ live' = live \ {d}
              /\ \/ Saved(books') /\ UNCHANGED <<plans, cur, pc>>
                 \/ Unsaved /\ UNCHANGED disk /\ Done(plans \ {c})
           \/ /\ bare' \in {bare, bare \cup ({d} \cap live)}
              /\ Done(plans \ {c})
              /\ UNCHANGED <<live, books, disk, faults>>
    /\ UNCHANGED <<brief, account, enabled, reconciliation, entered,
                   unclaimed, naked>>

(* Mutant: the claim is only written with the position.                    *)
ClaimInMemory(c) ==
    /\ pc = "applying" /\ c \in plans
    /\ ~Blocked(c) /\ ~Reserved(c)
    /\ books' = [WithoutCampaigns(books, c) EXCEPT !.seen = @ \cup {c}]
    /\ pc' = "claimed" /\ cur' = {c} /\ plans' = plans \ {c}
    /\ UNCHANGED <<brief, live, disk, account, enabled, reconciliation, faults,
                   history>>
(* The claim is written before the exchange is touched.                    *)
Claim(c) ==
    /\ pc = "applying" /\ c \in plans
    /\ ~Blocked(c) /\ ~Reserved(c)
    /\ books' = [WithoutCampaigns(books, c) EXCEPT !.seen = @ \cup {c}]
    /\ \/ Saved(books') /\ UNCHANGED unclaimed
       \/ Unsaved /\ UNCHANGED disk /\ unclaimed' = unclaimed \cup {c}
    /\ pc' = "claimed" /\ cur' = {c} /\ plans' = plans \ {c}
    /\ UNCHANGED <<brief, live, account, enabled, reconciliation, entered,
                   naked, bare>>

(* The attempt is counted and written, and the order sent.                 *)
Attempted(c) == [books EXCEPT !.attempts = @ \cup {c}]

(* A maker entry is written down before its order is submitted.            *)
Written(c) == [Attempted(c) EXCEPT !.pending = @ \cup {c}]

(* place_bracket and start_pending_entry give up before an order works.    *)
(* What a maker entry wrote down before stays if it cannot be removed.     *)
Refused(c) ==
    /\ pc = "claimed" /\ cur = {c}
    /\ books' \in {books, Attempted(c)}
    /\ IF books' = books THEN UNCHANGED <<disk, faults>>
       ELSE SaveTried(books') \/ (brief[c].maker /\ Unsaved /\ disk' = Written(c))
    /\ account' \in {account} \cup Readings(books, live)
    /\ Done(plans)
    /\ UNCHANGED <<brief, live, enabled, reconciliation, history>>

(* The entry could not be written down before its order: it is pending in  *)
(* memory, without an order.                                               *)
Stranded(c) ==
    /\ pc = "claimed" /\ cur = {c} /\ brief[c].maker
    /\ books' = Written(c)
    /\ Unsaved /\ disk' \in {disk, Written(c)}
    /\ account' \in Readings(books, live)
    /\ Done(plans)
    /\ UNCHANGED <<brief, live, enabled, reconciliation, history>>

(* The order of a maker entry, which stays the executor's from then on, or *)
(* is closed at once: a fill could not be protected.  If it could not be   *)
(* closed either, or the record not be saved, entries are halted, from the *)
(* next frame on.  An entry that cannot be saved is undone, not recorded.  *)
StartPending(c) ==
    /\ pc = "claimed" /\ cur = {c} /\ brief[c].maker
    /\ LET b == Written(c)
           ended == {Resolved(b, {}, {}, {c}, {}), Resolved(b, {}, {}, {}, {c})}
       IN  \/ /\ books' = b /\ Saved(b)
              /\ live' = live \cup {c} /\ UNCHANGED bare
           \/ /\ books' = Halted(b)
              /\ Saved(books') \/ (Unsaved /\ disk' = b)
              /\ live' = live \cup {c} /\ bare' = bare \cup {c}
           \/ /\ books' \in ended /\ Saved(books')
              /\ UNCHANGED <<live, bare>>
           \/ /\ books' \in {Halted(e) : e \in ended}
              /\ Unsaved /\ disk' \in {b, books'}
              /\ UNCHANGED <<live, bare>>
           \/ /\ books' = Attempted(c) /\ Unsaved /\ disk' = b
              /\ UNCHANGED <<live, bare>>
    /\ entered' = entered \cup {c}
    /\ account' \in Readings(books, live)
    /\ Done(plans)
    /\ UNCHANGED <<brief, enabled, reconciliation, unclaimed, naked>>

(* The account is read for the size before the market order.  An order     *)
(* whose answer and lookup are lost may have filled.                       *)
PlaceMarket(c) ==
    /\ pc = "claimed" /\ cur = {c} /\ ~brief[c].maker
    /\ books' = Attempted(c) /\ SaveTried(books')
    /\ live' = live \cup {c}
    /\ entered' = entered \cup {c}
    /\ account' \in Readings(books, live)
    /\ pc' \in {"filled", "lost"}
    /\ UNCHANGED <<brief, plans, cur, enabled, reconciliation, unclaimed,
                   naked, bare>>

(* The stop and the targets stand: a formal position.                      *)
Bracketed(c) ==
    /\ pc = "filled" /\ cur = {c}
    /\ books' = Promoted(books, {c}) /\ SaveTried(books')
    /\ Done(plans)
    /\ UNCHANGED <<brief, live, account, enabled, reconciliation, history>>

(* The trades of the attempt are read: a round trip is accounted, a fill   *)
(* without its exit is deferred, and so is what the error tells of; else   *)
(* nothing is recorded.                                                    *)
Recorded(b, c, closed, told) ==
    {[b EXCEPT !.deferred = @ \cup {c}]}
    \cup (IF closed THEN {RoundTrips(b, {c})} ELSE {})
    \cup (IF told THEN {} ELSE {b})

(* Too small a fill is flattened; a price beyond the bound of an IOC order *)
(* is closed, the one case the error does not tell of.                     *)
Flattened(c) ==
    /\ pc = "filled" /\ cur = {c}
    /\ live' = live \ {c}
    /\ \E told \in BOOLEAN : books' \in Recorded(books, c, TRUE, told)
    /\ IF books' = books THEN UNCHANGED <<disk, faults>> ELSE SaveTried(books')
    /\ Done(plans)
    /\ UNCHANGED <<brief, account, enabled, reconciliation, history>>

(* Mutant: the flatten was ordered, so trading goes on.                    *)
ProtectionFailedGoesOn(c) ==
    /\ pc = "filled" /\ cur = {c}
    /\ \/ live' = live \ {c} /\ UNCHANGED naked
       \/ UNCHANGED live /\ naked' = naked \cup {c}
    /\ books' \in Recorded(books, c, c \notin live', TRUE)
    /\ SaveTried(books')
    /\ Done(plans)
    /\ UNCHANGED <<brief, account, enabled, reconciliation, entered,
                   unclaimed, bare>>
(* The protective orders failed: flatten, account, halt and stop planning. *)
(* The record and the halt are written one after the other.                *)
ProtectionFailed(c) ==
    /\ pc = "filled" /\ cur = {c}
    /\ \/ live' = live \ {c} /\ UNCHANGED naked
       \/ UNCHANGED live /\ naked' = naked \cup {c}
    /\ \E b \in Recorded(books, c, c \notin live', TRUE) :
        /\ books' = Halted(b)
        /\ SaveTried(books') \/ (Unsaved /\ disk' = b)
    /\ Done({})
    /\ UNCHANGED <<brief, account, enabled, reconciliation, entered,
                   unclaimed, bare>>

(* The order was lost, or the emergency close of a bad price failed: the   *)
(* exposure is nobody's, and nothing is halted.                            *)
Forgotten(c) ==
    /\ pc \in {"lost", "filled"} /\ cur = {c}
    /\ books' \in Recorded(books, c, c \notin live, FALSE)
    /\ IF books' = books THEN UNCHANGED <<disk, faults>> ELSE SaveTried(books')
    /\ Done(plans)
    /\ UNCHANGED <<brief, live, account, enabled, reconciliation, history>>

-----------------------------------------------------------------------------
(* The operator, crashes and restarts.                                     *)

(* request_manual_close: the position is closed, then its actor is saved.  *)
ManualClose(c) ==
    /\ pc = "idle" /\ c \in books.held \ books.manual /\ SymbolOf(c) \in account
    /\ live' = {d \in live : SymbolOf(d) # SymbolOf(c) \/ d \in books.pending}
    /\ books' = [books EXCEPT !.manual = @ \cup {c}]
    /\ SaveTried(books')
    /\ UNCHANGED <<brief, account, frame, reconciliation, history>>

(* A crash loses what is not on disk: of a fill left naked whose claim,    *)
(* attempt and halt were all not written nothing is known from then on.    *)
(* It may come between the write of a maker entry and its order.           *)
Crash ==
    /\ pc # "down" /\ faults.crashes < MaxCrashes
    /\ faults' = [faults EXCEPT !.crashes = @ + 1]
    /\ \/ disk' = disk
       \/ \E c \in cur : pc = "claimed" /\ brief[c].maker /\ disk' = Written(c)
    /\ books' = disk'
    /\ account' = {}
    /\ pc' = "down" /\ plans' = {} /\ cur' = {} /\ enabled' = FALSE
    /\ task' = "idle" /\ healthy' = TRUE
    /\ naked' = naked \cap disk'.seen
    /\ UNCHANGED <<brief, live, entered, unclaimed, bare>>

(* connect: the process only starts over a sync that succeeds.             *)
Connect ==
    /\ pc = "down" /\ pc' = "idle"
    /\ \E seen \in Readings(books, live) : Reconciled(seen, "ok")
    /\ UNCHANGED <<brief, plans, cur, enabled, reconciliation, entered,
                   unclaimed, naked>>

(* The process is started again and again; what its sync saved stays.      *)
ConnectFails ==
    /\ pc = "down"
    /\ \E seen \in Readings(books, live) : Reconciled(seen, "down")
    /\ UNCHANGED <<brief, frame, reconciliation, entered, unclaimed, naked>>

Apply ==
    \/ Begin
    \/ \E c \in Candidates :
        Skip(c) \/ Reject(c) \/ Supersede(c) \/ Claim(c)
Place == \E c \in Candidates :
    \/ Refused(c) \/ Stranded(c) \/ StartPending(c) \/ PlaceMarket(c)
    \/ Bracketed(c) \/ Flattened(c) \/ ProtectionFailed(c) \/ Forgotten(c)

Next ==
    \/ \E s \in Symbols : Exit(s)
    \/ Sync \/ SyncRefused \/ StoreHealth
    \/ FrameStarts \/ FrameFails \/ Evaluate
    \/ Apply \/ Place
    \/ \E c \in Candidates : Resubmit(c) \/ ManualClose(c)
    \/ Crash \/ Connect \/ ConnectFails

Spec == Init /\ [][Next]_vars

Owed == books.deferred \ live

(* A sync runs every few seconds and the lock is fair; every await of      *)
(* apply_plans ends, by an answer or a timeout; the venue reports the      *)
(* trades of the closed positions to some sync.                            *)
Fairness ==
    /\ SF_vars(Sync \/ SyncRefused) /\ SF_vars(Sync /\ Owed' = {})
    /\ WF_vars(StoreHealth) /\ WF_vars(Apply \/ Place)
FairSpec == Spec /\ Fairness

-----------------------------------------------------------------------------
(* Properties.                                                             *)

(* The books in memory and on disk never contradict themselves: a formal   *)
(* position was filled, a fill was attempted, an attempt was claimed; an   *)
(* outcome is of a trade that closed; what closed is neither held nor      *)
(* pending; what is owed an outcome has none, and is not held as well.     *)
(* The sets are kept apart in the code, by handlers that run minutes and   *)
(* restarts apart.                                                         *)
BooksAgreeOn(b) ==
    /\ b.formal \subseteq b.filled /\ b.filled \subseteq b.attempts
    /\ b.attempts \subseteq b.seen
    /\ b.accounted \subseteq b.closed /\ b.closed \subseteq b.filled
    /\ b.held \subseteq b.formal \ b.closed
    /\ b.pending \subseteq b.attempts \ b.formal
    /\ b.deferred \cap (b.accounted \cup Owners(b)) = {}
BooksAgree == BooksAgreeOn(books) /\ BooksAgreeOn(disk)

(* Exposure, implemented: the executor keeps books of what it holds, what  *)
(* is pending, and what it is placing now.                                 *)
Life == [c \in Candidates |->
    IF c \in live THEN "open" ELSE IF c \in entered THEN "over" ELSE "new"]
Known == live \cap (Owners(books) \cup cur)

Abstract == INSTANCE Exposure WITH
    life <- Life, known <- Known, excused <- unclaimed

(* Whatever order of frames, syncs, lost answers, failed saves and         *)
(* restarts: no candidate is traded twice unless the write of its claim    *)
(* failed, and the exposure the executor keeps books of is one per symbol  *)
(* and within the slots, although two planners plan without each other and *)
(* syncs run between planning and applying.                                *)
TradedOnce == Abstract!Spec

(* A market fill whose protection and whose emergency close both failed    *)
(* stops the entries for as long as it is open, across restarts too: the   *)
(* halt may be lost with a failed write, but then the position is foreign. *)
(* Only an entry that was written down before may still be sent; and a     *)
(* crash after which the file tells nothing of the fill, see Crash, ends   *)
(* the promise.                                                            *)
NakedStopsEntries ==
    [][naked \cap live # {} => entered' \ entered \subseteq books.pending
      ]_<<entered, live, naked, books>>

(* The same of a maker fill, after which start_pending_entry halts the     *)
(* execution as it does after a market fill: no later frame applies its    *)
(* plans while the fill is open.                                           *)
BareStopsFrames ==
    [][bare \cap live # {} => ~(pc = "planned" /\ pc' = "applying")
      ]_<<pc, live, bare>>

(* A second leg is only entered after a first leg of its symbol has an     *)
(* outcome in the statistics: never after a manual close, and never on a   *)
(* campaign that a crash or a stale frame brought back from nothing.       *)
SecondLegFollows ==
    [][\A c \in entered' \ entered :
        Ordinary(c) \/ \E d \in books.accounted :
            /\ SymbolOf(d) = SymbolOf(c)
            /\ FollowUp(brief[d].recipe) = brief[c].recipe]_entered

(* Exposure that the executor lost track of, by an unanswered order or a   *)
(* crash between the order and its record, turns the reconciliation        *)
(* unhealthy, which stops new frames, unless it ends before.               *)
Nobodys ==
    {c \in live : SymbolOf(c) \notin SymbolsOf(Owners(books)) /\ c \notin cur}
ForeignIsReported ==
    Nobodys # {} ~> Nobodys = {} \/ ~healthy \/ pc = "down"

(* A closed entry whose outcome is owed gets it, whatever the frame loop   *)
(* does; only a foreign position keeps the accounting waiting.             *)
AccountingSettles ==
    Owed # {} ~> Owed = {} \/ Nobodys # {} \/ pc = "down"
=============================================================================
