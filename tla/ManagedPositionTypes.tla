------------------------ MODULE ManagedPositionTypes ------------------------
(***************************************************************************)
(* Type correctness of ManagedPosition, for every value of its constants.  *)
(***************************************************************************)
EXTENDS ManagedPosition, TLAPS

(* observe keeps a guard well typed.                                       *)
LEMMA ObserveType ==
    ASSUME NEW g \in GuardType, NEW net \in Int, NEW quantity \in Nat,
           NEW partial \in BOOLEAN
    PROVE  Observe(g, net, quantity, partial) \in GuardType
  <1> DEFINE o == Observed(g, net, quantity)
             r == Remembered(o)
  <1>1. o \in GuardType
    BY DEF Observed, GuardType, AtLeast
  <1>2. \A h \in GuardType, to \in Int :
           [h EXCEPT !.floor = Raised(@, to)] \in GuardType
    BY DEF GuardType, Raised, AtLeast
  <1>3. r \in GuardType
    <2>1. RememberedFloor(o) \in Int
      BY <1>1, ThresholdsAreReturns
         DEF RememberedFloor, AtLeast, AtMost, GuardType
    <2> QED
      BY <1>1, <1>2, <2>1 DEF Remembered
  <1>4. Shielded(r, net, partial) \in GuardType
    <2>1. ShieldFloor(r) \in Int
      BY <1>3, ThresholdsAreReturns DEF ShieldFloor, AtLeast, GuardType
    <2> QED
      BY <1>2, <1>3, <2>1 DEF Shielded
  <1> QED
    BY <1>4 DEF Observe

(* The stop the review asks for is a price.                                *)
LEMMA BetterStopType ==
    ASSUME NEW m \in MetaType, NEW partial \in BOOLEAN
    PROVE  BetterStop(m, partial) \in SUBSET Int
  <1>1. m.guard.peak \in Int /\ m.guard.floor \subseteq Int
    BY DEF MetaType, GuardType
  <1>2. Wanted(m, partial) \subseteq Int
    BY <1>1, ThresholdsAreReturns DEF Wanted
  <1> QED
    BY <1>2 DEF BetterStop

(* The empty metadata and the locals of an idle handler are well typed.    *)
LEMMA EmptyTypes == Forgotten \in MetaType /\ NoLoc \in LocType
BY QuantityAssumption
   DEF Forgotten, MetaType, NoGuard, GuardType, NoReason, NoLoc, LocType

-----------------------------------------------------------------------------

(***************************************************************************)
(* TypeInv is TypeOK made inductive: a handler that replaces the stop, or  *)
(* closes because the replacement would trigger at once, has a desired     *)
(* price, a close has a reason, and before the review there is none.       *)
(***************************************************************************)
Reviewing == {"visible", "value"}
Replacing == {"cancelstop", "stopgone", "placestop", "through", "replaced"}
Closing == {"withdraw", "closeread", "closesubmit", "closereread",
            "closeconfirm", "sweep", "closed"}

ExchangeType == pos \in 0..Q /\ hosted \subseteq Int /\ takes \in BOOLEAN
StateType ==
    /\ mem \in MetaType /\ disk \in MetaType /\ acct \in Snapshots
    /\ {sent, record} \subseteq Reasons \cup {NoReason, "inferred"}
HandlerType ==
    /\ pc \in Labels
    /\ loc \in LocType
    /\ pc \in Replacing \/ loc.why = "immediate" => loc.desired # {}
    /\ pc \in Closing => loc.why # NoReason
    /\ pc \in Reviewing => loc.why = NoReason
CountType ==
    due \in BOOLEAN /\ faults \in 0..MaxFaults /\ crashes \in 0..MaxCrashes
TypeInv == ExchangeType /\ StateType /\ HandlerType /\ CountType

(* A step to a label with well-typed locals leaves the handler well typed. *)
LEMMA GotoType ==
    ASSUME NEW label \in Labels, NEW l \in LocType,
           label \in Replacing \/ l.why = "immediate" => l.desired # {},
           label \in Closing => l.why # NoReason,
           label \in Reviewing => l.why = NoReason,
           Goto(label, l)
    PROVE  HandlerType'
BY DEF Goto, HandlerType

LEMMA ReturnType == Return => HandlerType'
BY EmptyTypes
   DEF Return, Goto, HandlerType, Labels, Reviewing, Replacing, Closing,
       NoLoc, NoReason

(* The locals keep their type under the updates the handlers make.         *)
LEMMA LocTypes ==
    ASSUME NEW l \in LocType
    PROVE  /\ \A b \in BOOLEAN : [l EXCEPT !.covered = b] \in LocType
           /\ \A s, c, t \in BOOLEAN :
                 [l EXCEPT !.seen = s, !.covered = c, !.taken = t] \in LocType
           /\ \A q \in 0..Q : [l EXCEPT !.before = q] \in LocType
           /\ \A d \in SUBSET Int : [l EXCEPT !.desired = d] \in LocType
           /\ \A r \in Reasons : [l EXCEPT !.why = r] \in LocType
           /\ \A r \in Reasons \cup {NoReason, "inferred"} :
                 [l EXCEPT !.exited = r] \in LocType
           /\ \A q \in 0..Q, b \in BOOLEAN :
                 [l EXCEPT !.snap = q, !.expired = b] \in LocType
BY DEF LocType

(* All but the update of the reason keep it, and all but the update of the *)
(* desired stop keep that.                                                 *)
LEMMA LocKeeps ==
    ASSUME NEW l \in LocType
    PROVE  /\ \A b : [l EXCEPT !.covered = b].why = l.why
           /\ \A b : [l EXCEPT !.covered = b].desired = l.desired
           /\ \A s, c, t :
                 [l EXCEPT !.seen = s, !.covered = c, !.taken = t].why = l.why
           /\ \A s, c, t :
                 [l EXCEPT !.seen = s, !.covered = c, !.taken = t].desired
                    = l.desired
           /\ \A q : [l EXCEPT !.before = q].why = l.why
           /\ \A q : [l EXCEPT !.before = q].desired = l.desired
           /\ \A d : [l EXCEPT !.desired = d].why = l.why
           /\ \A r : [l EXCEPT !.exited = r].why = l.why
           /\ \A r : [l EXCEPT !.exited = r].desired = l.desired
           /\ \A q, b : [l EXCEPT !.snap = q, !.expired = b].why = l.why
BY DEF LocType

(* A close starts with its reason.                                         *)
LEMMA CloseType ==
    ASSUME NEW why \in Reasons, NEW l \in LocType,
           why = "immediate" => l.desired # {}, Close(why, l)
    PROVE  HandlerType'
  <1>1. [l EXCEPT !.why = why] \in LocType
    BY LocTypes
  <1>2. /\ [l EXCEPT !.why = why].why = why
        /\ [l EXCEPT !.why = why].desired = l.desired
    BY DEF LocType
  <1>3. why # NoReason /\ "withdraw" \in Labels \ (Replacing \cup Reviewing)
    BY DEF Reasons, NoReason, Labels, Replacing, Reviewing
  <1> QED
    BY <1>1, <1>2, <1>3, GotoType DEF Close

(* So do the steps that go on with the sync, whatever metadata they see.   *)
LEMMA AfterType ==
    ASSUME NEW l \in LocType, l.why = "immediate" => l.desired # {}, NEW m,
           AfterUpdates(l, m) \/ AfterRearm(l, m)
    PROVE  HandlerType'
  <1>1. {"reread", "finish"} \subseteq Labels
        /\ {"reread", "finish"} \cap (Reviewing \cup Replacing \cup Closing) = {}
    BY DEF Labels, Reviewing, Replacing, Closing
  <1>2. Goto("reread", l) \/ Goto("finish", l) => HandlerType'
    BY <1>1, GotoType
  <1>3. Close("max_hold", l) => HandlerType'
    BY CloseType DEF Reasons
  <1> QED
    BY <1>2, <1>3 DEF AfterUpdates, AfterRearm

LEMMA CloseFailedType == HandlerType /\ CloseFailed => HandlerType'
  <1> SUFFICES ASSUME HandlerType, CloseFailed PROVE HandlerType'
    OBVIOUS
  <1>1. loc \in LocType /\ (loc.why = "immediate" => loc.desired # {})
    BY DEF HandlerType
  <1>2. "finish" \in Labels /\ "finish" \notin Reviewing \cup Replacing \cup Closing
    BY DEF Labels, Reviewing, Replacing, Closing
  <1>3. CASE AfterUpdates(loc, mem)
    BY <1>1, <1>3, AfterType
  <1>4. CASE Goto("finish", loc)
    BY <1>1, <1>2, <1>4, GotoType
  <1>5. CASE Return
    BY <1>5, ReturnType
  <1> QED
    BY <1>3, <1>4, <1>5 DEF CloseFailed

-----------------------------------------------------------------------------

(* What a step does to the position: it leaves it, a child of a close      *)
(* reduces it, a take-profit fills a part, or it is closed.                *)
LEMMA PositionStep ==
    Next => \/ pos' = pos \/ pos' = Reduced \/ pos' = 0
            \/ pos > 0 /\ pos' = pos - 1
  <1> USE DEF exchange
  <1>1. CloseSubmit => pos' = pos \/ pos' = Reduced
    BY DEF CloseSubmit
  <1>2. TakeFills => pos > 0 /\ pos' = pos - 1
    BY DEF TakeFills
  <1>3. StopTriggers \/ ClosedElsewhere => pos' = 0
    BY DEF StopTriggers, ClosedElsewhere
  <1> QED
    BY <1>1, <1>2, <1>3
       DEF Next, Sync, Review, Protect, CloseMarket, Environment, SyncBegin,
           SeeProtection, Scored, Unscored, Peaks, CancelStop, StopGone,
           PlaceStop, Through, Replaced, FlatSeen, Reread, Rearm, Withdraw,
           CloseRead, CloseReread, CloseConfirm, Sweep, Closed, Gone, Finish,
           RequestClose, Journal, Deadline, Crash, Connect

(* What a step does to the hosted stop: it leaves it, removes it, or       *)
(* places the desired stop or, from the metadata, the old one again.       *)
LEMMA HostedStep ==
    Next => \/ hosted' = hosted \/ hosted' = {}
            \/ pc = "placestop" /\ hosted' = loc.desired
            \/ pc = "rearm" /\ hosted' = {mem.stop}
  <1> USE DEF exchange
  <1>1. CancelStop \/ Gone \/ Sweep => hosted' = hosted \/ hosted' = {}
    BY DEF CancelStop, Gone, Sweep
  <1>2. PlaceStop => hosted' = hosted \/ (pc = "placestop" /\ hosted' = loc.desired)
    BY DEF PlaceStop
  <1>3. Rearm => hosted' = hosted \/ (pc = "rearm" /\ hosted' = {mem.stop})
    BY DEF Rearm
  <1>4. StopTriggers => hosted' = {}
    BY DEF StopTriggers
  <1> QED
    BY <1>1, <1>2, <1>3, <1>4
       DEF Next, Sync, Review, Protect, CloseMarket, Environment, SyncBegin,
           SeeProtection, Scored, Unscored, Peaks, StopGone, Through,
           Replaced, FlatSeen, Reread, Withdraw, CloseRead, CloseSubmit,
           CloseReread, CloseConfirm, Closed, Finish, RequestClose, Journal,
           TakeFills, ClosedElsewhere, Deadline, Crash, Connect

LEMMA TakesStep == Next => takes' = takes \/ takes' \in BOOLEAN
  <1>1. Gone => takes' = takes \/ takes' \in BOOLEAN
    BY Zenon DEF Gone
  <1>2. Sweep => takes' = takes \/ takes' \in BOOLEAN
    BY Zenon DEF Sweep
  <1>3. Withdraw => takes' = takes \/ takes' \in BOOLEAN
    BY Zenon DEF Withdraw
  <1>4. TakeFills => takes' \in BOOLEAN
    <2>1. TakeFills /\ pos = 1 => takes' \in BOOLEAN
      BY Zenon DEF TakeFills
    <2>2. TakeFills /\ pos # 1 => takes' \in BOOLEAN
      BY Zenon DEF TakeFills
    <2> QED
      BY Zenon, <2>1, <2>2
  <1> QED
    BY <1>1, <1>2, <1>3, <1>4
       DEF Next, Sync, Review, Protect, CloseMarket, Environment, SyncBegin,
           SeeProtection, Scored, Unscored, Peaks, CancelStop, StopGone,
           PlaceStop, Through, Replaced, FlatSeen, Reread, Rearm, CloseRead,
           CloseSubmit, CloseReread, CloseConfirm, Closed, Finish,
           RequestClose, Journal, StopTriggers, ClosedElsewhere, Deadline,
           Crash, Connect, exchange

(* The position never grows: nothing the runtime submits adds to it.       *)
LEMMA PositionShrinks == TypeInv /\ Next => pos' \in 0..pos
  <1> SUFFICES ASSUME TypeInv, Next PROVE pos' \in 0..pos
    OBVIOUS
  <1>1. pos \in Nat /\ loc.before \in Nat /\ Q \in Nat
    BY QuantityAssumption DEF TypeInv, ExchangeType, HandlerType, LocType
  <1>2. Reduced \in 0..pos
    BY <1>1, QuantityAssumption DEF Reduced, AtMost
  <1> QED
    BY <1>1, <1>2, PositionStep

(* A step of the exchange keeps its quantity and its stops well typed.     *)
LEMMA ExchangeStep == TypeInv /\ Next => ExchangeType'
  <1> SUFFICES ASSUME TypeInv, Next PROVE ExchangeType'
    OBVIOUS
  <1>1. pos' \in 0..Q
    <2>1. pos \in 0..Q /\ Q \in Nat
      BY QuantityAssumption DEF TypeInv, ExchangeType
    <2> QED
      BY <2>1, PositionShrinks
  <1>2. hosted' \subseteq Int
    <2>1. hosted \subseteq Int /\ loc.desired \subseteq Int /\ mem.stop \in Int
      BY DEF TypeInv, ExchangeType, HandlerType, StateType, LocType, MetaType
    <2> QED
      BY <2>1, HostedStep
  <1>3. takes' \in BOOLEAN
    BY TakesStep DEF TypeInv, ExchangeType
  <1> QED
    BY <1>1, <1>2, <1>3 DEF ExchangeType

(* What the handlers write into the metadata is well typed.                *)
LEMMA MetaTypes ==
    ASSUME NEW m \in MetaType
    PROVE  /\ \A r \in Reasons : [m EXCEPT !.reason = r] \in MetaType
           /\ \A r \in Reasons :
                 [m EXCEPT !.exit = TRUE, !.reason = r] \in MetaType
           /\ [m EXCEPT !.exit = TRUE] \in MetaType
           /\ \A q \in 0..Q : [m EXCEPT !.last = q] \in MetaType
           /\ \A q \in 0..Q, g \in GuardType :
                 [m EXCEPT !.last = q, !.guard = g] \in MetaType
           /\ \A p \in Int : [m EXCEPT !.stop = p, !.armed = TRUE] \in MetaType
BY DEF MetaType

(* Every step leaves well-typed metadata in memory and on disk.            *)
LEMMA MetaStep ==
    TypeInv /\ Next => mem' \in MetaType /\ disk' \in MetaType
  <1> DEFINE Good == mem' \in MetaType /\ disk' \in MetaType
  <1> SUFFICES ASSUME TypeInv, Next PROVE Good
    OBVIOUS
  <1>1. mem \in MetaType /\ disk \in MetaType
    BY DEF TypeInv, StateType
  <1>2. /\ loc.snap \in 0..Q /\ loc.snap \in Nat /\ loc.desired \subseteq Int
        /\ loc.why \in Reasons \cup {NoReason}
    BY QuantityAssumption DEF TypeInv, HandlerType, LocType
  <1>3. pc = "closed" => loc.why \in Reasons
    BY <1>2 DEF TypeInv, HandlerType, Closing
  <1>4. pc = "replaced" \/ loc.why = "immediate" => AtDesired(mem) \in MetaType
    <2>1. pc = "replaced" \/ loc.why = "immediate" => loc.desired # {}
      BY DEF TypeInv, HandlerType, Replacing
    <2> QED
      BY <1>1, <1>2, <2>1, MetaTypes DEF AtDesired
  <1>5. ASSUME NEW m \in MetaType PROVE SavedOk(m) \/ InMemory(m) => Good
    BY <1>1, <1>5 DEF SavedOk, InMemory
  <1>7. CASE UNCHANGED <<mem, disk>>
    BY <1>1, <1>7
  <1> DEFINE marked == [mem EXCEPT !.reason = "max_hold"]
             flat == [mem EXCEPT !.exit = TRUE]
             read == [mem EXCEPT !.last = loc.snap]
             reached == IF loc.why = "immediate" THEN AtDesired(mem) ELSE mem
             left == [reached EXCEPT !.exit = TRUE, !.reason = loc.why]
  <1>8. CASE SyncBegin
    <2>1. marked \in MetaType
      BY <1>1, MetaTypes DEF Reasons
    <2>2. \/ UNCHANGED <<mem, disk>>
          \/ mem' = marked /\ disk' \in {disk, marked}
      BY <1>8 DEF SyncBegin, Saved
    <2> QED
      BY <1>1, <2>1, <2>2
  <1>9. CASE Scored
    <2>1. PICK net \in -MaxLoss..MaxGain :
             LET g == Observe(mem.guard, net, loc.snap, PartialHit(loc))
             IN InMemory([mem EXCEPT !.last = loc.snap, !.guard = g])
      BY <1>9 DEF Scored
    <2>2. net \in Int /\ mem.guard \in GuardType /\ PartialHit(loc) \in BOOLEAN
      BY <1>1, ReturnAssumption DEF MetaType, PartialHit
    <2>3. Observe(mem.guard, net, loc.snap, PartialHit(loc)) \in GuardType
      BY <1>2, <2>2, ObserveType
    <2> QED
      BY <1>1, <1>2, <1>5, <2>1, <2>3, MetaTypes
  <1>10. CASE Unscored
    BY <1>1, <1>2, <1>5, <1>10, MetaTypes DEF Unscored
  <1>11. CASE Peaks \/ Finish
    BY <1>1, <1>11 DEF Peaks, Finish, Saved
  <1>12. CASE Replaced
    BY <1>1, <1>4, <1>12 DEF Replaced, Saved
  <1>13. CASE FlatSeen
    <2>1. flat \in MetaType
      BY <1>1, MetaTypes
    <2> QED
      BY <1>1, <1>13, <2>1 DEF FlatSeen, Saved
  <1>14. CASE Gone
    BY <1>5, <1>14, EmptyTypes DEF Gone
  <1>15. CASE Closed
    <2>1. pc = "closed" /\ reached \in MetaType
      BY <1>1, <1>4, <1>15 DEF Closed
    <2>2. left \in MetaType
      BY <1>3, <2>1, MetaTypes
    <2>3. mem' = left /\ disk' \in {disk, left}
      BY <1>15 DEF Closed, Saved, SavedOk, InMemory
    <2> QED
      BY <1>1, <2>2, <2>3
  <1>16. CASE Crash \/ Connect
    BY <1>1, <1>16 DEF Crash, Connect
  <1> QED
    BY <1>7, <1>8, <1>9, <1>10, <1>11, <1>12, <1>13, <1>14, <1>15, <1>16
       DEF Next, Sync, Review, Protect, CloseMarket, Environment,
           SeeProtection, CancelStop, StopGone, PlaceStop, Through, Reread,
           Rearm, Withdraw, CloseRead, CloseSubmit, CloseReread,
           CloseConfirm, Sweep, RequestClose, Journal, TakeFills,
           StopTriggers, ClosedElsewhere, Deadline, runtime

(* The account flag and the journal keep their types.                      *)
LEMMA JournalStep ==
    TypeInv /\ Next =>
       /\ acct' \in Snapshots
       /\ {sent, record}' \subseteq Reasons \cup {NoReason, "inferred"}
  <1> SUFFICES ASSUME TypeInv, Next
               PROVE  /\ acct' \in Snapshots
                      /\ {sent, record}' \subseteq Reasons \cup {NoReason, "inferred"}
    OBVIOUS
  <1>1. /\ {sent, record, loc.exited} \subseteq Reasons \cup {NoReason, "inferred"}
        /\ acct \in Snapshots
    BY DEF TypeInv, StateType, HandlerType, LocType
  <1>2. CASE Finish
    <2>1. acct' \in Snapshots
      BY <1>1, <1>2 DEF Finish, Snapshots
    <2>2. sent' \in {sent, loc.exited} /\ record' = record
      BY <1>2 DEF Finish
    <2> QED
      BY <1>1, <2>1, <2>2
  <1>3. CASE Journal
    BY <1>1, <1>3 DEF Journal
  <1>4. CASE Crash
    BY <1>1, <1>4 DEF Crash, Snapshots
  <1>5. CASE UNCHANGED <<acct, journal>>
    BY <1>1, <1>5 DEF journal
  <1> QED
    BY <1>2, <1>3, <1>4, <1>5
       DEF Next, Sync, Review, Protect, CloseMarket, Environment, SyncBegin,
           SeeProtection, Scored, Unscored, Peaks, CancelStop, StopGone,
           PlaceStop, Through, Replaced, FlatSeen, Reread, Rearm, Gone,
           Withdraw, CloseRead, CloseSubmit, CloseReread, CloseConfirm, Sweep,
           Closed, RequestClose, TakeFills, StopTriggers, ClosedElsewhere,
           Deadline, Connect, runtime

LEMMA StateStep == TypeInv /\ Next => StateType'
BY MetaStep, JournalStep DEF StateType

(* A step is fine or spends one of the faults.                             *)
LEMMA FaultStep == Next => Fine \/ Fails
  <1>1. Review => Fine \/ Fails
    BY DEF Review, SyncBegin, SeeProtection, Scored, Unscored, Peaks, Saved
  <1>2. Protect => Fine \/ Fails
    BY DEF Protect, CancelStop, StopGone, PlaceStop, Through, Replaced,
           FlatSeen, Reread, Rearm, Saved
  <1>3. CloseMarket => Fine \/ Fails
    BY DEF CloseMarket, Withdraw, CloseRead, CloseSubmit, CloseReread,
           CloseConfirm, Sweep, Closed, Saved, SavedOk
  <1>4. Connect \/ Gone \/ Finish => Fine \/ Fails
    BY DEF Connect, Gone, Finish
  <1>5. (\E why : RequestClose(why)) \/ Journal \/ Environment => Fine
    BY DEF RequestClose, Journal, Environment, TakeFills, StopTriggers,
           ClosedElsewhere, Deadline, Crash, Fine
  <1> QED
    BY <1>1, <1>2, <1>3, <1>4, <1>5 DEF Next, Sync

(* Faults and crashes stay within their bounds.                            *)
LEMMA CountStep == TypeInv /\ Next => CountType'
  <1> SUFFICES ASSUME TypeInv, Next PROVE CountType'
    OBVIOUS
  <1>1. due \in BOOLEAN /\ faults \in 0..MaxFaults /\ crashes \in 0..MaxCrashes
    BY DEF TypeInv, CountType
  <1>2. faults' \in 0..MaxFaults
    BY <1>1, FaultStep, FaultAssumption DEF Fine, Fails
  <1>3. due' \in BOOLEAN /\ crashes' \in 0..MaxCrashes
    <2>1. CASE Crash
      <3>1. due' = due
        BY <2>1 DEF Crash
      <3>2. crashes' \in 0..MaxCrashes
        BY <1>1, <2>1, FaultAssumption DEF Crash
      <3> QED
        BY <1>1, <3>1, <3>2
    <2>2. CASE Deadline
      <3>1. due' \in BOOLEAN
        BY Zenon, <2>2 DEF Deadline
      <3>2. crashes' = crashes
        BY <2>2 DEF Deadline
      <3> QED
        BY <1>1, <3>1, <3>2
    <2>3. CASE UNCHANGED clock
      BY <1>1, <2>3 DEF clock
    <2> QED
      BY <2>1, <2>2, <2>3
         DEF Next, Sync, Review, Protect, CloseMarket, Environment, SyncBegin,
             SeeProtection, Scored, Unscored, Peaks, CancelStop, StopGone,
             PlaceStop, Through, Replaced, FlatSeen, Reread, Rearm, Gone,
             Finish, Withdraw, CloseRead, CloseSubmit, CloseReread,
             CloseConfirm, Sweep, Closed, RequestClose, Journal, TakeFills,
             StopTriggers, ClosedElsewhere, Connect
  <1> QED
    BY <1>1, <1>2, <1>3 DEF CountType

-----------------------------------------------------------------------------

(* Every step keeps the handler well typed, one case per action.           *)
LEMMA HandlerStep == TypeInv /\ Next => HandlerType'
  <1> SUFFICES ASSUME TypeInv, Next PROVE HandlerType'
    OBVIOUS
  <1>loc. /\ loc \in LocType
          /\ loc.why \in Reasons \cup {NoReason}
          /\ (loc.why = "immediate" => loc.desired # {})
          /\ (pc \in Replacing => loc.desired # {})
          /\ (pc \in Closing => loc.why # NoReason)
          /\ (pc \in Reviewing => loc.why = NoReason)
    BY DEF TypeInv, HandlerType, LocType
  <1>failed. CloseFailed => HandlerType'
    BY CloseFailedType DEF TypeInv
  (* A step to a label that needs nothing, with the locals as they are;    *)
  <1>on. ASSUME NEW label \in Labels \ (Reviewing \cup Replacing \cup Closing),
                Goto(label, loc)
         PROVE  HandlerType'
    BY <1>loc, <1>on, GotoType
  (* to the next step of a replacement,                                    *)
  <1>replace. ASSUME NEW label \in Replacing, pc \in Replacing \/ loc.desired # {},
                     Goto(label, loc)
              PROVE  HandlerType'
    BY <1>loc, <1>replace, GotoType DEF Reviewing, Replacing, Closing, Labels
  (* or of a close.                                                        *)
  <1>close. ASSUME NEW label \in Closing, pc \in Closing \/ loc.why # NoReason,
                   Goto(label, loc)
            PROVE  HandlerType'
    BY <1>loc, <1>close, GotoType DEF Reviewing, Replacing, Closing, Labels
  <1>afresh. ASSUME NEW label \in {"idle", "down"}, Goto(label, NoLoc)
             PROVE  HandlerType'
    BY <1>afresh, EmptyTypes, GotoType
       DEF Labels, Reviewing, Replacing, Closing, NoLoc, NoReason
  <1>new. ASSUME NEW why \in Reasons \ {"immediate"}, Close(why, loc)
          PROVE  HandlerType'
    BY <1>loc, <1>new, CloseType
  <1>after. ASSUME NEW m, AfterUpdates(loc, m) \/ AfterRearm(loc, m)
            PROVE  HandlerType'
    BY <1>loc, <1>after, AfterType
  <1>covered. ASSUME NEW m, AfterUpdates([loc EXCEPT !.covered = TRUE], m)
              PROVE  HandlerType'
    <2> DEFINE l == [loc EXCEPT !.covered = TRUE]
    <2>1. l \in LocType /\ l.why = loc.why /\ l.desired = loc.desired
      BY <1>loc, LocTypes, LocKeeps
    <2> HIDE DEF l
    <2>2. AfterUpdates(l, m)
      BY <1>covered DEF l
    <2> QED
      BY <1>loc, <2>1, <2>2, AfterType
  <1> USE DEF Labels, Reviewing, Replacing, Closing, Reasons
  <1>1. CASE CancelStop
    BY <1>1, <1>replace, <1>new DEF CancelStop
  <1>2. CASE StopGone
    BY <1>2, <1>replace, <1>on, <1>new DEF StopGone
  <1>3. CASE PlaceStop
    BY <1>3, <1>replace, <1>covered, <1>new DEF PlaceStop
  <1>4. CASE Reread
    BY <1>4, <1>after, <1>on, ReturnType DEF Reread
  <1>5. CASE Rearm
    BY <1>5, <1>after, <1>new DEF Rearm
  <1>6. CASE Withdraw
    BY <1>6, <1>close, <1>failed DEF Withdraw
  <1>7. CASE CloseReread
    BY <1>7, <1>close, <1>failed DEF CloseReread
  <1>8. CASE CloseConfirm
    BY <1>8, <1>close, <1>failed DEF CloseConfirm
  <1>9. CASE CloseSubmit
    BY <1>9, <1>close DEF CloseSubmit
  <1>10. CASE Sweep
    BY <1>10, <1>close DEF Sweep
  <1>11. CASE Closed
    BY <1>11, <1>after, <1>on, ReturnType DEF Closed, Saved
  <1>12. CASE FlatSeen
    BY <1>12, <1>covered, ReturnType DEF FlatSeen, Saved
  <1>13. CASE Replaced
    BY <1>13, <1>after, ReturnType DEF Replaced, Saved
  <1>14. CASE Finish
    BY <1>14, <1>afresh, ReturnType DEF Finish
  <1>15. CASE Crash \/ Connect
    BY <1>15, <1>afresh DEF Crash, Connect
  <1>16. CASE Through
    <2>1. Close("immediate", loc) => HandlerType'
      BY <1>16, <1>loc, CloseType DEF Through
    <2> QED
      BY <1>16, <2>1, <1>on, <1>new DEF Through
  <1>17. CASE CloseRead
    <2> DEFINE l == [loc EXCEPT !.before = pos]
    <2>1. l \in LocType /\ l.why = loc.why /\ l.desired = loc.desired
      BY <1>loc, LocTypes, LocKeeps DEF TypeInv, ExchangeType
    <2>2. Goto("closesubmit", l) => HandlerType'
      <3> HIDE DEF l
      <3> QED
        BY <1>17, <1>loc, <2>1, GotoType DEF CloseRead
    <2> QED
      BY <1>17, <2>2, <1>close, <1>failed DEF CloseRead
  <1>18. CASE Gone
    <2>1. PICK r \in Reasons \cup {NoReason, "inferred"} :
             Goto("finish", [loc EXCEPT !.exited = r])
      BY <1>18 DEF Gone, Event, TypeInv, StateType, MetaType
    <2> DEFINE l == [loc EXCEPT !.exited = r]
    <2>2. l \in LocType /\ l.why = loc.why /\ l.desired = loc.desired
      BY <1>loc, LocTypes, LocKeeps
    <2> HIDE DEF l
    <2>3. Goto("finish", l)
      BY <2>1 DEF l
    <2> QED
      BY <1>loc, <2>2, <2>3, GotoType
  <1>19. CASE \E why \in {"operator", "intent"} : RequestClose(why)
    <2>1. PICK why \in {"operator", "intent"} : Close(why, NoLoc)
      BY <1>19 DEF RequestClose
    <2> QED
      BY <2>1, EmptyTypes, CloseType
  <1>20. CASE SyncBegin
    <2> DEFINE expired == mem.fixed /\ due /\ ~mem.exit /\ pos > 0
               l == [NoLoc EXCEPT !.snap = pos, !.expired = expired]
    <2>1. l \in LocType /\ l.why = NoReason
      <3>1. expired \in BOOLEAN
        OBVIOUS
      <3> HIDE DEF expired
      <3> QED
        BY <3>1, EmptyTypes, LocTypes, LocKeeps DEF NoLoc, TypeInv, ExchangeType
    <2>2. Goto("finish", l) \/ Goto("peaks", l) \/ Goto("visible", l)
             => HandlerType'
      <3> HIDE DEF l
      <3> QED
        BY <2>1, GotoType DEF NoReason
    <2> QED
      BY <1>20, <2>2, ReturnType DEF SyncBegin, Saved
  <1>21. CASE SeeProtection
    <2>1. ASSUME NEW s \in BOOLEAN, NEW c \in BOOLEAN, NEW t \in BOOLEAN,
                 Goto("value", [loc EXCEPT !.seen = s, !.covered = c, !.taken = t])
          PROVE  HandlerType'
      <3> DEFINE l == [loc EXCEPT !.seen = s, !.covered = c, !.taken = t]
      <3>0. pc = "visible"
        BY <1>21 DEF SeeProtection
      <3>1. l \in LocType
        BY <1>loc, LocTypes
      <3>3. l.why = NoReason
        BY <1>loc, <3>0 DEF LocType
      <3> HIDE DEF l
      <3>2. Goto("value", l)
        BY <2>1 DEF l
      <3> QED
        BY <3>1, <3>2, <3>3, GotoType DEF NoReason
    <2>2. takes \in BOOLEAN /\ (hosted # {}) \in BOOLEAN
      BY DEF TypeInv, ExchangeType
    <2> QED
      BY <1>21, <2>1, <2>2, ReturnType DEF SeeProtection
  <1>22. ASSUME NEW d \in SUBSET Int, pc = "value",
                Goto("peaks", [loc EXCEPT !.desired = d])
         PROVE  HandlerType'
    <2> DEFINE l == [loc EXCEPT !.desired = d]
    <2>1. l \in LocType /\ l.why = NoReason
      BY <1>loc, <1>22, LocTypes, LocKeeps
    <2> HIDE DEF l
    <2>2. Goto("peaks", l)
      BY <1>22 DEF l
    <2> QED
      BY <2>1, <2>2, GotoType DEF NoReason
  <1>23. ASSUME NEW r \in {"executable", "early"},
                Goto("peaks", [loc EXCEPT !.why = r])
         PROVE  HandlerType'
    <2> DEFINE l == [loc EXCEPT !.why = r]
    <2>1. l \in LocType
      BY <1>loc, LocTypes
    <2>2. l.why = r
      BY <1>loc DEF LocType
    <2> HIDE DEF l
    <2>3. Goto("peaks", l)
      BY <1>23 DEF l
    <2> QED
      BY <2>1, <2>2, <2>3, GotoType
  <1>24. CASE Scored
    <2>1. PICK net \in -MaxLoss..MaxGain :
             LET partial == PartialHit(loc)
                 g == Observe(mem.guard, net, loc.snap, partial)
                 m == [mem EXCEPT !.last = loc.snap, !.guard = g]
             IN \/ Goto("peaks", [loc EXCEPT !.why = "executable"])
                \/ Goto("peaks", [loc EXCEPT !.why = "early"])
                \/ Goto("peaks", [loc EXCEPT !.desired = BetterStop(m, partial)])
      BY <1>24 DEF Scored
    <2> DEFINE partial == PartialHit(loc)
               g == Observe(mem.guard, net, loc.snap, partial)
               m == [mem EXCEPT !.last = loc.snap, !.guard = g]
    <2>2. /\ net \in Int /\ mem \in MetaType /\ mem.guard \in GuardType
          /\ partial \in BOOLEAN /\ loc.snap \in 0..Q /\ loc.snap \in Nat
      BY <1>loc, ReturnAssumption, QuantityAssumption
         DEF TypeInv, StateType, MetaType, LocType, PartialHit
    <2> HIDE DEF partial
    <2>3. g \in GuardType
      BY <2>2, ObserveType
    <2> HIDE DEF g
    <2>4. m \in MetaType
      BY <2>2, <2>3, MetaTypes
    <2> HIDE DEF m
    <2>5. BetterStop(m, partial) \in SUBSET Int
      BY <2>2, <2>4, BetterStopType
    <2>6. pc = "value"
      BY <1>24 DEF Scored
    <2>7. \/ \E r \in {"executable", "early"} :
                Goto("peaks", [loc EXCEPT !.why = r])
          \/ Goto("peaks", [loc EXCEPT !.desired = BetterStop(m, partial)])
      BY <2>1 DEF m, g, partial
    <2> QED
      BY <1>22, <1>23, <2>5, <2>6, <2>7
  <1>25. CASE Unscored
    BY <1>22, <1>23, <1>25, <1>on, ThresholdsAreReturns DEF Unscored
  <1>26. CASE Peaks
    <2>1. Goto("withdraw", loc) /\ loc.why # NoReason => HandlerType'
      BY <1>close
    <2>2. (Goto("cancelstop", loc) \/ Goto("placestop", loc)) /\ loc.desired # {}
             => HandlerType'
      BY <1>replace
    <2>3. Goto("gone", loc) => HandlerType'
      BY <1>on
    <2> QED
      BY <1>26, <2>1, <2>2, <2>3, <1>after, ReturnType DEF Peaks, Saved
  <1>27. CASE UNCHANGED <<pc, loc>>
    BY <1>27 DEF TypeInv, HandlerType
  <1> QED
    BY <1>1, <1>2, <1>3, <1>4, <1>5, <1>6, <1>7, <1>8, <1>9, <1>10, <1>11,
       <1>12, <1>13, <1>14, <1>15, <1>16, <1>17, <1>18, <1>19, <1>20, <1>21,
       <1>24, <1>25, <1>26, <1>27
       DEF Next, Sync, Review, Protect, CloseMarket, Environment, TakeFills,
           StopTriggers, ClosedElsewhere, Deadline, Journal

-----------------------------------------------------------------------------

(* The initial states are well typed.                                      *)
LEMMA TypeInit == Init => TypeInv
  <1> SUFFICES ASSUME Init PROVE TypeInv
    OBVIOUS
  <1>1. ExchangeType
    <2>1. pos \in 0..Q /\ hosted \subseteq Int
      BY QuantityAssumption, StopAssumption DEF Init
    <2>2. takes \in BOOLEAN
      BY DEF Init
    <2> QED
      BY <2>1, <2>2 DEF ExchangeType
  <1>2. StateType
    <2>1. PICK fixed \in BOOLEAN :
             mem = [Forgotten EXCEPT !.managed = TRUE, !.fixed = fixed,
                                     !.stop = -StopDistance, !.last = Q]
      BY DEF Init
    <2>2. mem \in MetaType
      <3>1. Q \in 0..Q /\ -StopDistance \in Int
        BY StopAssumption, QuantityAssumption
      <3>2. \A m \in MetaType, p \in Int, q \in 0..Q :
               [m EXCEPT !.managed = TRUE, !.fixed = fixed, !.stop = p, !.last = q]
                  \in MetaType
        BY DEF MetaType
      <3> QED
        BY <2>1, <3>1, <3>2, EmptyTypes
    <2>3. disk = mem /\ acct \in Snapshots /\ sent = NoReason /\ record = NoReason
      BY DEF Init, Snapshots
    <2> QED
      BY <2>2, <2>3 DEF StateType
  <1>3. HandlerType
    BY EmptyTypes DEF Init, HandlerType, Labels, Reviewing, Replacing, Closing,
                      NoLoc, NoReason
  <1>4. CountType
    <2>1. faults \in 0..MaxFaults /\ crashes \in 0..MaxCrashes
      BY FaultAssumption DEF Init
    <2>2. due \in BOOLEAN
      BY DEF Init
    <2> QED
      BY <2>1, <2>2 DEF CountType
  <1> QED
    BY <1>1, <1>2, <1>3, <1>4 DEF TypeInv

(* TypeInv is inductive.                                                   *)
LEMMA TypeStep == TypeInv /\ [Next]_vars => TypeInv'
  <1>1. CASE Next
    BY <1>1, ExchangeStep, StateStep, HandlerStep, CountStep DEF TypeInv
  <1>2. CASE UNCHANGED vars
    BY <1>2 DEF vars, TypeInv, ExchangeType, StateType, HandlerType, CountType
  <1> QED
    BY <1>1, <1>2

(* In every reachable state the types hold, a close has a reason and a     *)
(* replacement of the stop a price.                                        *)
THEOREM TypeInvariant == Spec => []TypeInv
BY TypeInit, TypeStep, PTL DEF Spec

(* Type correctness of ManagedPosition: the open quantity never leaves     *)
(* 0..Q, whatever closes, take-profits and stops race each other.          *)
THEOREM TypeCorrect == Spec => []TypeOK
  <1>1. TypeInv => TypeOK
    BY DEF TypeInv, TypeOK, ExchangeType, StateType, HandlerType, CountType
  <1> QED
    BY <1>1, TypeInvariant, PTL

=============================================================================
