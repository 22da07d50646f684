--------------------------- MODULE ManagedPosition ---------------------------
(***************************************************************************)
(* One managed position of greed-runtime's execution.rs, from promotion to *)
(* the recorded exit: sync reviews it again and again, values it, raises   *)
(* its hosted stop, re-arms a missing one, closes it at the market, and    *)
(* forgets it once it is flat; operators and exit intents close it too.    *)
(*                                                                         *)
(* Every exchange call is an await: take-profits, the hosted stop, closes  *)
(* elsewhere and a crash may happen between any two steps.  Prices are     *)
(* gross returns of the position's side, in the steps of ProfitGuard.      *)
(***************************************************************************)
EXTENDS ProfitGuard

CONSTANTS
    Q,             \* entry quantity, in exchange quantity steps
    Chunk,         \* max_market_quantity
    PartialAfter,  \* closed quantity of break_even_after_fraction, an Option
    StopDistance,  \* distance of the initial stop below the entry
    Tight,         \* smallest improvement worth replacing a stop (0.1%)
    MaxGain,       \* bound: executable returns reach from
    MaxLoss,       \*        -MaxLoss to MaxGain
    MaxFaults,     \* bound: failed exchange calls or saves in a behaviour
    MaxCrashes     \* bound: process crashes in a behaviour

ASSUME QuantityAssumption ==
    Q \in Nat \ {0} /\ Chunk \in 1..Q /\ PartialAfter \subseteq 1..Q
ASSUME StopAssumption == StopDistance \in Nat /\ Tight \in Nat \ {0}
ASSUME ReturnAssumption == MaxGain \in Nat /\ MaxLoss \in Nat
ASSUME FaultAssumption == MaxFaults \in Nat /\ MaxCrashes \in Nat

VARIABLES
    pos,      \* exchange: open quantity
    hosted,   \* exchange: prices of the close-all stops, at most one
    takes,    \* exchange: a take-profit rests
    mem,      \* runtime: ExecutionMeta of the position
    disk,     \* runtime: what save() last wrote
    acct,     \* runtime: self.account, None until connect's sync has ended
    sent,     \* the exit event on its way from the sync task to the journal
    record,   \* journal: the reason of the exchange_exit event, if written
    pc,       \* the await the runtime is at, "idle" between handlers
    loc,      \* the handler's locals
    due,      \* the deadline of a fixed-time position has passed
    faults,   \* faults so far
    crashes   \* crashes so far

exchange == <<pos, hosted, takes>>
journal == <<sent, record>>
runtime == <<mem, disk, acct, journal>>
clock == <<due, crashes>>
vars == <<pos, hosted, takes, mem, disk, acct, sent, record, pc, loc, due,
          faults, crashes>>

-----------------------------------------------------------------------------

Reasons == {"executable", "early", "immediate", "update_failed", "missing",
            "max_hold", "operator", "intent"}
NoReason == "none"

(* ExecutionMeta: fixed_time_exit, executable_profit, stop_price,          *)
(* break_even_armed, last_observed_quantity, exit_requested and            *)
(* pending_exit_reason.                                                    *)
MetaType == [managed : BOOLEAN, fixed : BOOLEAN, guard : GuardType,
             stop : Int, armed : BOOLEAN, last : 0..Q, exit : BOOLEAN,
             reason : Reasons \cup {NoReason}]
Forgotten == [managed |-> FALSE, fixed |-> FALSE, guard |-> NoGuard,
              stop |-> 0, armed |-> FALSE, last |-> 0, exit |-> FALSE,
              reason |-> NoReason]

(* self.account: None, or the snapshot of the last sync without or with    *)
(* the position.                                                           *)
Snapshots == {"none", "absent", "present"}

Labels == {"idle", "down", "visible", "value", "peaks", "cancelstop", "stopgone",
           "placestop", "through", "replaced", "flatseen", "reread", "rearm",
           "gone", "finish",
           "withdraw", "closeread", "closesubmit", "closereread",
           "closeconfirm", "sweep", "closed"}

(* snap: quantity in the account read by this sync; seen: the id of the    *)
(* stop is known; covered, taken: protected; expired: the position is in   *)
(* the expired list; why: the reason of the close in progress; desired:    *)
(* the better stop, an Option; before: quantity before a market child;     *)
(* exited: the reason of the exit event this sync will return.             *)
LocType == [snap : 0..Q, seen : BOOLEAN, covered : BOOLEAN, taken : BOOLEAN,
            expired : BOOLEAN, why : Reasons \cup {NoReason},
            desired : SUBSET Int, before : 0..Q,
            exited : Reasons \cup {NoReason, "inferred"}]
NoLoc == [snap |-> 0, seen |-> FALSE, covered |-> FALSE, taken |-> FALSE,
          expired |-> FALSE, why |-> NoReason, desired |-> {}, before |-> 0,
          exited |-> NoReason]

(* The shape of the state: every variable of its type.                     *)
TypeOK ==
    /\ pos \in 0..Q
    /\ hosted \subseteq Int
    /\ takes \in BOOLEAN
    /\ mem \in MetaType
    /\ disk \in MetaType
    /\ acct \in Snapshots
    /\ {sent, record} \subseteq Reasons \cup {NoReason, "inferred"}
    /\ pc \in Labels
    /\ loc \in LocType
    /\ due \in BOOLEAN
    /\ faults \in 0..MaxFaults
    /\ crashes \in 0..MaxCrashes

(* A position just promoted: its stop rests and is on disk.                *)
Init ==
    /\ pos = Q
    /\ hosted = {-StopDistance}
    /\ takes \in BOOLEAN
    /\ \E fixed \in BOOLEAN :
          mem = [Forgotten EXCEPT !.managed = TRUE, !.fixed = fixed,
                                  !.stop = -StopDistance, !.last = Q]
    /\ disk = mem
    /\ acct = "absent"
    /\ sent = NoReason
    /\ record = NoReason
    /\ pc = "idle"
    /\ loc = NoLoc
    /\ due = FALSE
    /\ faults = 0
    /\ crashes = 0

-----------------------------------------------------------------------------
(* Vocabulary of the steps.                                                *)

Fine == UNCHANGED faults
Fails == faults < MaxFaults /\ faults' = faults + 1

Goto(label, l) == pc' = label /\ loc' = l

(* A handler returns to the main loop.  Before the first sync has ended it *)
(* returns to connect, and an error there ends the process.                *)
Return == Goto(IF acct = "none" THEN "down" ELSE "idle", NoLoc)

(* save()?: then Then; a failed write returns, memory keeps the change.    *)
(* Mutant: only memory is updated.                                         *)
SavedInMemory(s, Then) == mem' = s /\ UNCHANGED disk /\ Fine /\ Then
Saved(s, Then) ==
    /\ mem' = s
    /\ \/ disk' = s /\ Fine /\ Then
       \/ UNCHANGED disk /\ Fails /\ Return

(* save().ok(), and a change of memory that is not saved yet.              *)
SavedOk(s) ==
    /\ mem' = s
    /\ \/ disk' = s /\ Fine
       \/ UNCHANGED disk /\ Fails
InMemory(s) == mem' = s /\ UNCHANGED disk

Close(why, l) == Goto("withdraw", [l EXCEPT !.why = why])

(* managed_stop_only_exit: the settings need no take-profit.               *)
StopOnly ==
    \E a \in Activation, t \in TrailActivation :
        /\ Floor >= 0 /\ a > Floor /\ t >= a
        /\ TrailDistance > 0 /\ TrailDistance < t

(* The positions re-armed at the end of the updates.  Mutant: a position   *)
(* whose stop was acknowledged once is taken for protected.                *)
UnprotectedNever(l, m) == FALSE
Unprotected(l, m) ==
    ~(l.covered /\ (l.taken \/ m.fixed \/ StopOnly \/ m.armed \/ m.last < Q))

(* The rest of sync after the re-arm, and after the stop updates.          *)
AfterRearm(l, m) ==
    IF l.expired /\ ~m.exit THEN Close("max_hold", l) ELSE Goto("finish", l)
AfterUpdates(l, m) ==
    IF Unprotected(l, m) THEN Goto("reread", l) ELSE AfterRearm(l, m)

(* close_market failed: an event only, or an error out of the handler.     *)
CloseFailed ==
    \/ loc.why \in {"executable", "early"} /\ AfterUpdates(loc, mem)
    \/ loc.why = "max_hold" /\ Goto("finish", loc)
    \/ loc.why \notin {"executable", "early", "max_hold"} /\ Return

-----------------------------------------------------------------------------
(* sync, up to the decisions.                                              *)

(* The account is read; the expiry of a fixed-time position is decided and *)
(* persisted before the exchange is touched.                               *)
SyncBegin ==
    /\ pc = "idle"
    /\ LET expired == mem.fixed /\ due /\ ~mem.exit /\ pos > 0
           l == [NoLoc EXCEPT !.snap = pos, !.expired = expired]
           go == Goto(IF ~mem.managed THEN "finish"
                      ELSE IF pos = 0 THEN "peaks" ELSE "visible", l)
       IN IF expired /\ mem.reason # "max_hold"
          THEN Saved([mem EXCEPT !.reason = "max_hold"], go)
          ELSE go /\ Fine /\ UNCHANGED <<mem, disk>>
    /\ UNCHANGED <<exchange, acct, journal, clock>>

(* The open orders as listed.  A stop that is not listed is looked up by   *)
(* its known id; while its acknowledgement is fresh, an error counts as    *)
(* protected.  A failed listing ends the sync.                             *)
SeeProtection ==
    /\ pc = "visible"
    /\ \/ /\ Goto("value", [loc EXCEPT !.seen = hosted # {},
                                       !.covered = hosted # {},
                                       !.taken = takes])
          /\ Fine
       \/ /\ \E seen \in BOOLEAN :
                Goto("value", [loc EXCEPT !.seen = seen, !.covered = seen,
                                          !.taken = takes])
          /\ Fails
       \/ Return /\ Fails
    /\ UNCHANGED <<exchange, runtime, clock>>

(* closed_fraction has reached break_even_after_fraction.                  *)
PartialHit(l) == \E closed \in PartialAfter : Q - l.snap >= closed

(* The stop prices the review may want.                                    *)
Wanted(m, partial) ==
    LET favorable == m.guard.peak + Cost
        shield == \/ partial
                  \/ m.guard.floor # {}
                  \/ \E a \in Activation : favorable >= a
    IN {f + Cost : f \in m.guard.floor}
       \cup (IF shield /\ ~m.armed THEN {Floor} ELSE {})
       \cup (IF shield /\ (\E t \in TrailActivation : favorable >= t)
             THEN {favorable - TrailDistance} ELSE {})

(* The tightest of them, if it improves the stop enough.  Mutant: however  *)
(* it compares with the stop that rests.                                   *)
BetterStopAny(m, partial) ==
    {d \in Wanted(m, partial) : \A w \in Wanted(m, partial) : w <= d}
BetterStop(m, partial) ==
    {d \in Wanted(m, partial) : /\ \A w \in Wanted(m, partial) : w <= d
                                /\ d >= m.stop + Tight}

BreakEvenDue ==
    PartialHit(loc) /\ ~mem.armed /\ Floor >= mem.stop + Tight

(* The review of one position with a fresh quote of its depth: an exit at  *)
(* the floor, else an early failure by the mark price, else a better stop. *)
Scored ==
    /\ pc = "value" /\ ~mem.exit /\ ~mem.fixed
    /\ \E net \in -MaxLoss..MaxGain :
          LET partial == PartialHit(loc)
              g == Observe(mem.guard, net, loc.snap, partial)
              m == [mem EXCEPT !.last = loc.snap, !.guard = g]
          IN /\ InMemory(m)
             /\ IF AsksExit(g, net)
                THEN Goto("peaks", [loc EXCEPT !.why = "executable"])
                ELSE \/ Goto("peaks", [loc EXCEPT !.why = "early"])
                     \/ Goto("peaks", [loc EXCEPT !.desired = BetterStop(m, partial)])
    /\ Fine
    /\ UNCHANGED <<exchange, acct, journal, clock>>

(* No fresh quote: nothing is armed or raised.  A fixed-time position has  *)
(* no guard; after a partial exit its stop moves to break-even.            *)
Unscored ==
    /\ pc = "value"
    /\ InMemory([mem EXCEPT !.last = loc.snap])
    /\ \/ Goto("peaks", loc) /\ (mem.fixed => mem.exit \/ ~BreakEvenDue)
       \/ ~mem.exit /\ ~mem.fixed /\ Goto("peaks", [loc EXCEPT !.why = "early"])
       \/ ~mem.exit /\ mem.fixed /\ BreakEvenDue
             /\ Goto("peaks", [loc EXCEPT !.desired = {Floor}])
    /\ Fine
    /\ UNCHANGED <<exchange, acct, journal, clock>>

(* Peaks and floors are persisted before any exit is issued.               *)
Peaks ==
    /\ pc = "peaks"
    /\ Saved(mem,
             IF loc.snap = 0 THEN Goto("gone", loc)
             ELSE IF loc.why # NoReason THEN Goto("withdraw", loc)
             ELSE IF loc.desired # {}
             THEN Goto(IF loc.seen THEN "cancelstop" ELSE "placestop", loc)
             ELSE AfterUpdates(loc, mem))
    /\ UNCHANGED <<exchange, acct, journal, clock>>

-----------------------------------------------------------------------------
(* replace_protective_stop.                                                *)

CancelStop ==
    /\ pc = "cancelstop"
    /\ \/ hosted # {} /\ hosted' = {} /\ Goto("placestop", loc) /\ Fine
       \/ hosted = {} /\ UNCHANGED hosted /\ Goto("stopgone", loc) /\ Fine
       \/ hosted' \in {hosted, {}} /\ Fails /\ Close("update_failed", loc)
    /\ UNCHANGED <<pos, takes, runtime, clock>>

(* The stop was unknown: has it closed the position?                       *)
StopGone ==
    /\ pc = "stopgone"
    /\ \/ Goto(IF pos = 0 THEN "flatseen" ELSE "placestop", loc) /\ Fine
       \/ Fails /\ Close("update_failed", loc)
    /\ UNCHANGED <<exchange, runtime, clock>>

(* Placed; refused because a close-all stop exists already; refused        *)
(* because it would trigger at once; or failed.                            *)
PlaceStop ==
    /\ pc = "placestop"
    /\ \/ /\ hosted = {} /\ hosted' = loc.desired
          /\ Goto("replaced", loc) /\ Fine
       \/ /\ hosted # {} /\ UNCHANGED hosted
          /\ AfterUpdates([loc EXCEPT !.covered = TRUE], mem) /\ Fine
       \/ hosted = {} /\ UNCHANGED hosted /\ Goto("through", loc) /\ Fine
       \/ /\ hosted' \in {hosted, IF hosted = {} THEN loc.desired ELSE hosted}
          /\ Fails /\ Close("update_failed", loc)
    /\ UNCHANGED <<pos, takes, runtime, clock>>

(* It would trigger at once: closed already, or to be closed now.          *)
Through ==
    /\ pc = "through"
    /\ \/ pos = 0 /\ Goto("flatseen", loc) /\ Fine
       \/ pos > 0 /\ Close("immediate", loc) /\ Fine
       \/ Fails /\ Close("update_failed", loc)
    /\ UNCHANGED <<exchange, runtime, clock>>

AtDesired(m) ==
    [m EXCEPT !.stop = CHOOSE d \in loc.desired : TRUE, !.armed = TRUE]

(* The new stop is acknowledged; protected still holds the listing.        *)
Replaced ==
    /\ pc = "replaced"
    /\ LET m == AtDesired(mem) IN Saved(m, AfterUpdates(loc, m))
    /\ UNCHANGED <<exchange, acct, journal, clock>>

FlatSeen ==
    /\ pc = "flatseen"
    /\ LET m == [mem EXCEPT !.exit = TRUE] IN
       Saved(m, AfterUpdates([loc EXCEPT !.covered = TRUE], m))
    /\ UNCHANGED <<exchange, acct, journal, clock>>

-----------------------------------------------------------------------------
(* The re-arm of an unprotected position.                                  *)

Reread ==
    /\ pc = "reread"
    /\ \/ (IF pos = 0 THEN AfterRearm(loc, mem) ELSE Goto("rearm", loc)) /\ Fine
       \/ Return /\ Fails
    /\ UNCHANGED <<exchange, runtime, clock>>

(* The stop is placed again at its price; a close-all stop that exists     *)
(* already will do; else the position is closed.                           *)
Rearm ==
    /\ pc = "rearm"
    /\ \/ hosted = {} /\ hosted' = {mem.stop} /\ AfterRearm(loc, mem) /\ Fine
       \/ hosted # {} /\ UNCHANGED hosted /\ AfterRearm(loc, mem) /\ Fine
       \/ hosted = {} /\ UNCHANGED hosted /\ Close("missing", loc) /\ Fine
       \/ /\ hosted' \in {hosted, IF hosted = {} THEN {mem.stop} ELSE hosted}
          /\ Fails /\ Close("missing", loc)
    /\ UNCHANGED <<pos, takes, runtime, clock>>

-----------------------------------------------------------------------------
(* The end of sync.                                                        *)

(* Mutant: a position whose exit has no pending reason is kept.            *)
GoneKept ==
    /\ pc = "gone"
    /\ InMemory(IF mem.reason = NoReason THEN mem ELSE Forgotten)
    /\ Goto("finish", loc) /\ Fine
    /\ UNCHANGED <<exchange, acct, journal, clock>>

(* The reason an exit event gives.                                         *)
Event(m) == IF m.reason = NoReason THEN "inferred" ELSE m.reason

(* A position absent from the account leaves the state; its exit is        *)
(* attributed to the pending reason or inferred from the exchange, and     *)
(* what rests is canceled at best effort.                                  *)
Gone ==
    /\ pc = "gone"
    /\ InMemory(Forgotten)
    /\ Goto("finish", [loc EXCEPT !.exited = Event(mem)])
    /\ \/ hosted' = {} /\ takes' = FALSE /\ Fine
       \/ hosted' \in {hosted, {}} /\ takes' \in {takes, FALSE} /\ Fails
    /\ UNCHANGED <<pos, acct, journal, clock>>

(* The account becomes the snapshot, the state is saved, and the events    *)
(* are sent to the main loop; initialize drops those of the first sync.    *)
(* If the save fails, or the account read before it, after pending entries *)
(* were handled and the state saved by their handlers, they are dropped.   *)
Finish ==
    /\ pc = "finish"
    /\ UNCHANGED <<exchange, mem, record, clock>>
    /\ LET now == IF loc.snap > 0 THEN "present" ELSE "absent" IN
       \/ /\ disk' = mem /\ Fine /\ Goto("idle", NoLoc)
          /\ acct' = now
          /\ sent' = IF acct = "none" \/ loc.exited = NoReason
                     THEN sent ELSE loc.exited
       \/ /\ disk' \in {disk, mem} /\ UNCHANGED sent /\ Fails /\ Return
          /\ acct' \in IF acct = "none" THEN {acct} ELSE {acct, now}

(* The main loop appends what it received, while sync goes on.             *)
Journal ==
    /\ sent # NoReason
    /\ sent' = NoReason /\ record' = sent
    /\ UNCHANGED <<exchange, mem, disk, acct, pc, loc, faults, clock>>

-----------------------------------------------------------------------------
(* request_manual_close and apply_exit_intents close on the account as of  *)
(* the last sync.                                                          *)

(* Mutant: a position whose exit is requested already is closed again.     *)
RequestCloseAgain(why) ==
    /\ pc = "idle"
    /\ acct = "present" /\ mem.managed
    /\ Close(why, NoLoc)
    /\ Fine
    /\ UNCHANGED <<exchange, runtime, clock>>

RequestClose(why) ==
    /\ pc = "idle"
    /\ acct = "present" /\ mem.managed /\ ~mem.exit
    /\ Close(why, NoLoc)
    /\ Fine
    /\ UNCHANGED <<exchange, runtime, clock>>

-----------------------------------------------------------------------------
(* close_market: the take-profits are withdrawn, the hosted stop stays,    *)
(* reduce-only children close at most Chunk each until an account read     *)
(* shows the position flat.                                                *)

(* Mutant: the hosted stop is withdrawn too.                               *)
WithdrawAll ==
    /\ pc = "withdraw"
    /\ takes' = FALSE /\ hosted' = {} /\ Fine /\ Goto("closeread", loc)
    /\ UNCHANGED <<pos, runtime, clock>>

Withdraw ==
    /\ pc = "withdraw"
    /\ \/ takes' = FALSE /\ Fine /\ Goto("closeread", loc)
       \/ takes' \in {takes, FALSE} /\ Fails /\ CloseFailed
    /\ UNCHANGED <<pos, hosted, runtime, clock>>

CloseRead ==
    /\ pc = "closeread"
    /\ \/ pos = 0 /\ Goto("sweep", loc) /\ Fine
       \/ pos > 0 /\ Goto("closesubmit", [loc EXCEPT !.before = pos]) /\ Fine
       \/ Fails /\ CloseFailed
    /\ UNCHANGED <<exchange, runtime, clock>>

Reduced == IF pos >= AtMost(loc.before, Chunk)
           THEN pos - AtMost(loc.before, Chunk) ELSE 0

(* A reduce-only child is refused when the position is flat.               *)
CloseSubmit ==
    /\ pc = "closesubmit"
    /\ \/ pos > 0 /\ pos' = Reduced /\ Goto("closeconfirm", loc) /\ Fine
       \/ pos = 0 /\ UNCHANGED pos /\ Goto("closereread", loc) /\ Fine
       \/ pos' \in {pos, Reduced} /\ Goto("closereread", loc) /\ Fails
    /\ UNCHANGED <<hosted, takes, runtime, clock>>

(* The submission failed: flat, reduced all the same, or given up.         *)
CloseReread ==
    /\ pc = "closereread"
    /\ \/ pos = 0 /\ Goto("sweep", loc) /\ Fine
       \/ pos > 0 /\ pos < loc.before /\ Goto("closeread", loc) /\ Fine
       \/ pos = loc.before /\ CloseFailed /\ Fine
       \/ Fails /\ CloseFailed
    /\ UNCHANGED <<exchange, runtime, clock>>

(* Accepted: the reduction must be observed.  Mutant: it is taken for      *)
(* complete.                                                               *)
CloseConfirmAccepted ==
    /\ pc = "closeconfirm"
    /\ Goto("sweep", loc) /\ Fine
    /\ UNCHANGED <<exchange, runtime, clock>>

CloseConfirm ==
    /\ pc = "closeconfirm"
    /\ \/ pos = 0 /\ Goto("sweep", loc) /\ Fine
       \/ pos > 0 /\ Goto("closeread", loc) /\ Fine
       \/ Fails /\ CloseFailed
    /\ UNCHANGED <<exchange, runtime, clock>>

(* Flat: cancel_all at best effort.                                        *)
Sweep ==
    /\ pc = "sweep"
    /\ \/ hosted' = {} /\ takes' = FALSE /\ Fine
       \/ hosted' \in {hosted, {}} /\ takes' \in {takes, FALSE} /\ Fails
    /\ Goto("closed", loc)
    /\ UNCHANGED <<pos, runtime, clock>>

(* The exit is requested for its reason.  The reason of a full close is    *)
(* saved here, or with the rest of the sync.                               *)
Closed ==
    /\ pc = "closed"
    /\ LET m == [(IF loc.why = "immediate" THEN AtDesired(mem) ELSE mem)
                    EXCEPT !.exit = TRUE, !.reason = loc.why] IN
       \/ /\ loc.why \in {"executable", "immediate"}
          /\ Saved(m, AfterUpdates(loc, m))
       \/ /\ loc.why \in {"early", "update_failed"}
          /\ InMemory(m) /\ Fine /\ AfterUpdates(loc, m)
       \/ loc.why = "missing" /\ InMemory(m) /\ Fine /\ AfterRearm(loc, m)
       \/ loc.why = "max_hold" /\ InMemory(m) /\ Fine /\ Goto("finish", loc)
       \/ loc.why = "operator" /\ Saved(m, Return)
       \/ loc.why = "intent" /\ SavedOk(m) /\ Return
    /\ UNCHANGED <<exchange, acct, journal, clock>>

-----------------------------------------------------------------------------
(* The environment: matching engine, operators elsewhere, time, crashes.   *)

(* Mutant: a take-profit that is not reduce-only.                          *)
TakeFillsNotReduceOnly ==
    /\ takes
    /\ pos' = pos - 1 /\ takes' = FALSE
    /\ UNCHANGED <<hosted, runtime, pc, loc, faults, clock>>

TakeFills ==
    /\ takes /\ pos > 0
    /\ pos' = pos - 1
    /\ takes' \in IF pos = 1 THEN {FALSE} ELSE BOOLEAN
    /\ UNCHANGED <<hosted, runtime, pc, loc, faults, clock>>

StopTriggers ==
    /\ hosted # {} /\ pos > 0
    /\ hosted' = {} /\ pos' = 0
    /\ UNCHANGED <<takes, runtime, pc, loc, faults, clock>>

ClosedElsewhere ==
    /\ pos > 0
    /\ pos' = 0
    /\ UNCHANGED <<hosted, takes, runtime, pc, loc, faults, clock>>

Deadline ==
    /\ mem.fixed /\ ~due
    /\ due' = TRUE
    /\ UNCHANGED <<exchange, runtime, pc, loc, faults, crashes>>

(* The process dies; an event not yet appended is lost.                    *)
Crash ==
    /\ crashes < MaxCrashes
    /\ crashes' = crashes + 1
    /\ mem' = disk
    /\ acct' = "none"
    /\ sent' = NoReason
    /\ Goto("down", NoLoc)
    /\ UNCHANGED <<exchange, disk, record, due, faults>>

(* systemd starts it again (Restart=always); connect loads the state.      *)
Connect ==
    /\ pc = "down"
    /\ mem' = disk
    /\ Goto("idle", NoLoc) /\ Fine
    /\ UNCHANGED <<exchange, disk, acct, journal, clock>>

Review == SyncBegin \/ SeeProtection \/ Scored \/ Unscored \/ Peaks
Protect ==
    \/ CancelStop \/ StopGone \/ PlaceStop \/ Through \/ Replaced \/ FlatSeen
    \/ Reread \/ Rearm
CloseMarket ==
    \/ Withdraw \/ CloseRead \/ CloseSubmit \/ CloseReread \/ CloseConfirm
    \/ Sweep \/ Closed
Sync == Connect \/ Review \/ Protect \/ CloseMarket \/ Gone \/ Finish

Environment ==
    \/ TakeFills \/ StopTriggers \/ ClosedElsewhere \/ Deadline \/ Crash

Next ==
    \/ Sync \/ RequestClose("operator") \/ RequestClose("intent")
    \/ Journal \/ Environment

Spec == Init /\ [][Next]_vars

(* The main loop calls sync again and again, every await returns, and a    *)
(* process that ended is started again.                                    *)
FairSpec == Spec /\ WF_vars(Sync)

-----------------------------------------------------------------------------
(* Properties.                                                             *)

(* exit_requested, which ends all further review of a position, is set     *)
(* only when the position is flat, whatever raced the close.               *)
ExitRequestedMeansFlat == mem.exit => pos = 0

(* A close that a rule decided is issued only when the decision survives a *)
(* restart: the floor it answers, or the max-hold reason, is on disk.      *)
DecisionsOnDisk ==
    pc = "withdraw" =>
        /\ loc.why = "executable" => disk.guard = mem.guard /\ disk.guard.floor # {}
        /\ loc.why = "max_hold" => disk.reason = "max_hold"

(* The hosted stop leaves the exchange only when the position is flat or   *)
(* while a tighter one takes its place: no full close withdraws it first.  *)
StopRetained ==
    [][hosted # {} /\ hosted' = {} => pos' = 0 \/ pc = "cancelstop"]_vars

(* A stop placed for the position, by an update or a re-arm, before or     *)
(* after a restart, is never looser than the one on disk.                  *)
StopNeverLoosens ==
    [][\A p \in hosted' \ hosted : p >= disk.stop]_vars

(* While the position keeps its quantity, the floor under it survives on   *)
(* disk and only rises, through failed saves and restarts.                 *)
FloorNeverLoosens ==
    [][disk'.guard.quantity = disk.guard.quantity =>
          \A f \in disk.guard.floor : \E g \in disk'.guard.floor : g >= f]_vars

(* The break-even floor, net, and the highest floor set without a peak.    *)
Base == AtLeast(Floor - Cost, 0)
Remembers == AtLeast(Base, AtLeast(MemFloor, 0))

(* Whatever the order of the thresholds, a floor above the best value seen *)
(* for its quantity is the break-even floor itself.                        *)
FloorBacked ==
    \A f \in mem.guard.floor : f <= AtLeast(mem.guard.peak, 0) \/ f = Base

(* Whatever the order of the thresholds, the first quote after the         *)
(* quantity changed closes the position only when it activates the profit  *)
(* memory and lies no higher than the floor that memory or the shield sets *)
(* (151-180 of profit_guard.rs).                                           *)
FirstExitRemembered ==
    [][(/\ mem'.guard.quantity \notin {0, mem.guard.quantity}
        /\ AsksExit(mem'.guard, mem'.guard.peak))
       => \/ /\ Reached(MemActivation, mem'.guard.peak)
             /\ mem'.guard.peak <= Remembers
          \/ Reached(TrailActivation, mem'.guard.peak) /\ TrailDistance = 0]_vars

(* Once an exit is on disk as requested, its reason is final: no later     *)
(* close, acting on the account of an earlier sync, takes it over, and no  *)
(* event but one with that reason leaves sync, through failed saves and    *)
(* restarts (5326, 5414-5418).                                             *)
ExitReasonFinal ==
    [][disk.exit =>
          /\ disk'.managed => disk'.exit /\ disk'.reason = disk.reason
          /\ sent' \in {NoReason, Event(disk)}]_vars

(* A flat position is eventually forgotten.                                *)
FlatIsForgotten == (mem.managed /\ pos = 0) ~> ~mem.managed

(* A position without a hosted stop is eventually stopped again or flat.   *)
BareResolved == (mem.managed /\ pos > 0 /\ hosted = {}) ~> (hosted # {} \/ pos = 0)

(* A position leaves the state on disk only in a sync that sends its exit  *)
(* event (5304-5306).                                                      *)
ForgottenIsSent == [][disk.managed /\ ~disk'.managed => sent' # NoReason]_vars
=============================================================================
