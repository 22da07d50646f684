----------------------- MODULE ManagedPositionSafety -----------------------
(***************************************************************************)
(* Safety of ManagedPosition, for every value of its constants: an exit is *)
(* requested only of a flat position, the hosted stop stays until the      *)
(* position is flat and is never replaced by a looser one, the floor on    *)
(* disk only rises while the quantity under it stays the same, lies above  *)
(* the best value seen only at break-even and closes the position at its   *)
(* first quote only where the thresholds say so, a close follows a         *)
(* decision that is on disk, and the reason of an exit on disk is final.   *)
(***************************************************************************)
EXTENDS ManagedPositionTypes

(* Where a sync goes on after its updates, its re-arm or a failed close.   *)
Elsewhere == {"reread", "finish", "withdraw", "idle", "down"}

LEMMA ReturnGoes == Return => pc' \in Elsewhere
BY DEF Return, Goto, Elsewhere

LEMMA CloseGoes == ASSUME NEW why, NEW l, Close(why, l) PROVE pc' \in Elsewhere
BY DEF Close, Goto, Elsewhere

LEMMA AfterGoes ==
    ASSUME NEW l, NEW m, AfterUpdates(l, m) \/ AfterRearm(l, m)
    PROVE  pc' \in Elsewhere
BY CloseGoes DEF AfterUpdates, AfterRearm, Goto, Elsewhere

LEMMA FailedGoes == CloseFailed => pc' \in Elsewhere
BY AfterGoes, ReturnGoes DEF CloseFailed, Goto, Elsewhere

-----------------------------------------------------------------------------
(* What a step may do to the metadata.                                     *)

(* The disk changes only by writing the metadata of the new state.         *)
LEMMA DiskStep == Next => disk' \in {disk, mem'}
  <1> USE DEF runtime
  <1>1. SyncBegin \/ Peaks \/ Replaced \/ FlatSeen \/ Finish => disk' \in {disk, mem'}
    BY DEF SyncBegin, Peaks, Replaced, FlatSeen, Finish, Saved
  <1>2. Closed => disk' \in {disk, mem'}
    BY DEF Closed, Saved, SavedOk, InMemory
  <1>3. Scored \/ Unscored \/ Gone => disk' = disk
    BY DEF Scored, Unscored, Gone, InMemory
  <1>4. Crash \/ Connect => disk' = disk
    BY DEF Crash, Connect
  <1> QED
    BY <1>1, <1>2, <1>3, <1>4
       DEF Next, Sync, Review, Protect, CloseMarket, Environment,
           SeeProtection, CancelStop, StopGone, PlaceStop, Through, Reread,
           Rearm, Withdraw, CloseRead, CloseSubmit, CloseReread,
           CloseConfirm, Sweep, RequestClose, Journal, TakeFills,
           StopTriggers, ClosedElsewhere, Deadline

(* Only a review with a quote, the removal of the position and a restart   *)
(* change the guard; only a confirmed flat position gets exit_requested.   *)
Flat == {"flatseen", "sweep", "closed"}
MetaKept ==
    /\ mem'.guard = mem.guard
    /\ mem'.managed = mem.managed
    /\ mem'.exit = mem.exit \/ pc \in Flat

LEMMA MetaShape ==
    TypeInv /\ Next =>
       MetaKept \/ Scored \/ Gone \/ ((Crash \/ Connect) /\ mem' = disk)
  <1> SUFFICES ASSUME TypeInv, Next
               PROVE  \/ MetaKept \/ Scored \/ Gone
                      \/ (Crash \/ Connect) /\ mem' = disk
    OBVIOUS
  <1> USE DEF MetaKept, Flat
  <1>1. mem \in MetaType
    BY DEF TypeInv, StateType
  <1>2. CASE mem' = mem
    BY <1>2
  <1>3. CASE SyncBegin
    <2>1. mem' = mem \/ mem' = [mem EXCEPT !.reason = "max_hold"]
      BY <1>3 DEF SyncBegin, Saved
    <2> QED
      BY <1>1, <2>1 DEF MetaType
  <1>4. CASE Unscored
    <2>1. mem' = [mem EXCEPT !.last = loc.snap]
      BY <1>4 DEF Unscored, InMemory
    <2> QED
      BY <1>1, <2>1 DEF MetaType
  <1>5. CASE Replaced
    <2>1. mem' = AtDesired(mem)
      BY <1>5 DEF Replaced, Saved
    <2> QED
      BY <1>1, <2>1 DEF MetaType, AtDesired
  <1>6. CASE FlatSeen
    <2>1. pc = "flatseen" /\ mem' = [mem EXCEPT !.exit = TRUE]
      BY <1>6 DEF FlatSeen, Saved
    <2> QED
      BY <1>1, <2>1 DEF MetaType
  <1>7. CASE Closed
    <2> DEFINE m == IF loc.why = "immediate" THEN AtDesired(mem) ELSE mem
    <2>1. pc = "closed" /\ mem' = [m EXCEPT !.exit = TRUE, !.reason = loc.why]
      BY <1>7 DEF Closed, Saved, SavedOk, InMemory
    <2>2. m.guard = mem.guard /\ m.managed = mem.managed
      BY <1>1 DEF AtDesired, MetaType
    <2>3. mem'.guard = m.guard /\ mem'.managed = m.managed
      BY <1>1, <2>1 DEF AtDesired, MetaType
    <2> QED
      BY <2>1, <2>2, <2>3
  <1>8. CASE Peaks \/ Finish
    BY <1>8 DEF Peaks, Finish, Saved
  <1>9. CASE Crash \/ Connect
    BY <1>9 DEF Crash, Connect
  <1> QED
    BY <1>2, <1>3, <1>4, <1>5, <1>6, <1>7, <1>8, <1>9
       DEF Next, Sync, Review, Protect, CloseMarket, Environment,
           SeeProtection, CancelStop, StopGone, PlaceStop, Through, Reread,
           Rearm, Withdraw, CloseRead, CloseSubmit, CloseReread,
           CloseConfirm, Sweep, RequestClose, Journal, TakeFills,
           StopTriggers, ClosedElsewhere, Deadline, runtime

-----------------------------------------------------------------------------

(***************************************************************************)
(* ExitRequestedMeansFlat.  The labels of Flat are reached only from an    *)
(* account read that showed no position, and the position never grows.     *)
(***************************************************************************)
FlatInv ==
    /\ pc \in Flat => pos = 0
    /\ mem.exit => pos = 0
    /\ disk.exit => pos = 0

(* Only an account read that shows the position flat leads to Flat.        *)
LEMMA FlatReached == Next => (pc' \in Flat => pos = 0 \/ pc \in Flat)
  <1> USE DEF Flat, Elsewhere
  <1>1. Review => pc' \notin Flat
    BY AfterGoes, ReturnGoes
       DEF Review, SyncBegin, SeeProtection, Scored, Unscored, Peaks, Saved, Goto
  <1>2. CancelStop \/ StopGone \/ PlaceStop \/ Through =>
           (pc' \in Flat => pos = 0)
    BY AfterGoes, CloseGoes DEF CancelStop, StopGone, PlaceStop, Through, Goto
  <1>3. Replaced \/ FlatSeen \/ Reread \/ Rearm => pc' \notin Flat
    BY AfterGoes, CloseGoes, ReturnGoes
       DEF Replaced, FlatSeen, Reread, Rearm, Saved, Goto
  <1>4. Withdraw \/ CloseRead \/ CloseSubmit => (pc' \in Flat => pos = 0)
    BY FailedGoes DEF Withdraw, CloseRead, CloseSubmit, Goto
  <1>5. CloseReread \/ CloseConfirm => (pc' \in Flat => pos = 0)
    BY FailedGoes DEF CloseReread, CloseConfirm, Goto
  <1>6. Sweep => pc \in Flat
    BY DEF Sweep
  <1>7. Closed => pc \in Flat
    BY DEF Closed
  <1>8. Gone \/ Finish \/ Crash \/ Connect => pc' \notin Flat
    BY ReturnGoes DEF Gone, Finish, Crash, Connect, Goto
  <1>9. (\E why : RequestClose(why)) => pc' \notin Flat
    BY CloseGoes DEF RequestClose
  <1>10. UNCHANGED pc => (pc' \in Flat => pc \in Flat)
    OBVIOUS
  <1> QED
    BY <1>1, <1>2, <1>3, <1>4, <1>5, <1>6, <1>7, <1>8, <1>9, <1>10
       DEF Next, Sync, Protect, CloseMarket, Environment, Journal, TakeFills,
           StopTriggers, ClosedElsewhere, Deadline

LEMMA FlatStep == TypeInv /\ FlatInv /\ [Next]_vars => FlatInv'
  <1> SUFFICES ASSUME TypeInv, FlatInv, [Next]_vars PROVE FlatInv'
    OBVIOUS
  <1>1. CASE Next
    <2>1. pos = 0 => pos' = 0
      BY <1>1, PositionShrinks DEF TypeInv, ExchangeType
    <2>2. pc' \in Flat => pos' = 0
      BY <1>1, <2>1, FlatReached DEF FlatInv
    <2>3. mem'.exit => pos' = 0
      <3>1. CASE MetaKept
        BY <2>1, <3>1 DEF MetaKept, FlatInv
      <3>2. CASE Scored
        <4>1. PICK g : mem' = [mem EXCEPT !.last = loc.snap, !.guard = g]
          BY <3>2 DEF Scored, InMemory
        <4>2. mem'.exit = mem.exit
          BY <4>1 DEF TypeInv, StateType, MetaType
        <4> QED
          BY <2>1, <4>2 DEF FlatInv
      <3>3. CASE Gone
        BY <3>3 DEF Gone, InMemory, Forgotten
      <3>4. CASE mem' = disk
        BY <2>1, <3>4 DEF FlatInv
      <3> QED
        BY <1>1, <3>1, <3>2, <3>3, <3>4, MetaShape
    <2>4. disk'.exit => pos' = 0
      BY <1>1, <2>1, <2>3, DiskStep DEF FlatInv
    <2> QED
      BY <2>2, <2>3, <2>4 DEF FlatInv
  <1>2. CASE UNCHANGED vars
    BY <1>2 DEF vars, FlatInv
  <1> QED
    BY <1>1, <1>2

LEMMA FlatInit == Init => FlatInv
BY DEF Init, FlatInv, Flat, Forgotten

(* For every quantity, chunk, threshold and number of faults and crashes:  *)
(* a position whose exit is requested, on disk or in memory, is flat.      *)
THEOREM ExitOnlyWhenFlat == Spec => []ExitRequestedMeansFlat
  <1>1. FlatInv => ExitRequestedMeansFlat
    BY DEF FlatInv, ExitRequestedMeansFlat
  <1> QED
    BY <1>1, FlatInit, FlatStep, TypeInvariant, PTL DEF Spec

-----------------------------------------------------------------------------

(***************************************************************************)
(* StopRetained.  A sync's snapshot is never smaller than the position, so *)
(* what it removes as disappeared is flat.                                 *)
(***************************************************************************)
ReviewInv ==
    /\ pc \in {"visible", "value", "peaks"} => pos <= loc.snap
    /\ pc \in {"visible", "value"} => loc.snap > 0 /\ mem.managed
    /\ pc = "gone" => pos = 0

(* The steps of a review: one starts with the quantity of the account, and *)
(* the next go on with it.                                                 *)
LEMMA ReviewReached ==
    TypeInv /\ Next =>
       /\ pc' = "visible" => \/ loc'.snap = pos /\ pos > 0 /\ mem.managed
                             \/ pc = "visible" /\ loc' = loc
       /\ pc' = "value" => /\ pc \in {"visible", "value"}
                           /\ loc'.snap = loc.snap
       /\ pc' = "peaks" => \/ loc'.snap = pos
                           \/ pc \in {"value", "peaks"} /\ loc'.snap = loc.snap
       /\ pc' = "gone" => \/ pc = "peaks" /\ loc.snap = 0
                          \/ pc = "gone"
  <1> DEFINE ReviewSteps ==
       /\ pc' = "visible" => \/ loc'.snap = pos /\ pos > 0 /\ mem.managed
                             \/ pc = "visible" /\ loc' = loc
       /\ pc' = "value" => /\ pc \in {"visible", "value"}
                           /\ loc'.snap = loc.snap
       /\ pc' = "peaks" => \/ loc'.snap = pos
                           \/ pc \in {"value", "peaks"} /\ loc'.snap = loc.snap
       /\ pc' = "gone" => \/ pc = "peaks" /\ loc.snap = 0
                          \/ pc = "gone"
  <1> SUFFICES ASSUME TypeInv, Next PROVE ReviewSteps
    OBVIOUS
  <1> DEFINE Steps == {"visible", "value", "peaks", "gone"}
  <1>0. loc \in LocType /\ NoLoc \in LocType /\ pos \in Nat
    BY EmptyTypes, QuantityAssumption DEF TypeInv, HandlerType, ExchangeType
  <1>1. CASE SyncBegin
    <2> DEFINE l == [NoLoc EXCEPT !.snap = pos,
                        !.expired = mem.fixed /\ due /\ ~mem.exit /\ pos > 0]
    <2>2. \/ Goto(IF ~mem.managed THEN "finish"
                  ELSE IF pos = 0 THEN "peaks" ELSE "visible", l)
          \/ Return
      BY <1>1 DEF SyncBegin, Saved
    <2>3. l.snap = pos
      BY <1>0 DEF LocType
    <2> HIDE DEF l
    <2>4. CASE Return \/ Goto("finish", l)
      BY <2>4 DEF Return, Goto
    <2>5. CASE pos = 0 /\ Goto("peaks", l)
      BY <2>3, <2>5 DEF Goto
    <2>6. CASE mem.managed /\ pos # 0 /\ Goto("visible", l)
      BY <1>0, <2>3, <2>6 DEF Goto
    <2> QED
      BY <2>2, <2>4, <2>5, <2>6
  <1>2. CASE SeeProtection
    <2>1. PICK s, c, t :
             Goto("value", [loc EXCEPT !.seen = s, !.covered = c, !.taken = t])
                \/ Return
      BY <1>2 DEF SeeProtection
    <2>2. [loc EXCEPT !.seen = s, !.covered = c, !.taken = t].snap = loc.snap
      BY <1>0 DEF LocType
    <2>3. pc = "visible"
      BY <1>2 DEF SeeProtection
    <2> QED
      BY <2>1, <2>2, <2>3 DEF Goto, Return
  <1>3. CASE Scored \/ Unscored
    <2>1. PICK d, r : \/ Goto("peaks", [loc EXCEPT !.desired = d])
                      \/ Goto("peaks", [loc EXCEPT !.why = r])
                      \/ Goto("peaks", loc)
      BY <1>3 DEF Scored, Unscored
    <2>2. /\ [loc EXCEPT !.desired = d].snap = loc.snap
          /\ [loc EXCEPT !.why = r].snap = loc.snap
      BY <1>0 DEF LocType
    <2>3. pc = "value"
      BY <1>3 DEF Scored, Unscored
    <2> QED
      BY <2>1, <2>2, <2>3 DEF Goto
  <1>4. CASE Peaks
    <2>1. pc' \in Steps => pc' = "gone" /\ pc = "peaks" /\ loc.snap = 0
      BY <1>4, AfterGoes, ReturnGoes DEF Peaks, Saved, Goto, Elsewhere
    <2> QED
      BY <2>1
  <1>5. Protect => pc' \notin Steps
    BY AfterGoes, CloseGoes, ReturnGoes
       DEF Protect, CancelStop, StopGone, PlaceStop, Through, Replaced,
           FlatSeen, Reread, Rearm, Saved, Goto, Elsewhere
  <1>6. CloseMarket => pc' \notin Steps
    BY AfterGoes, FailedGoes, ReturnGoes
       DEF CloseMarket, Withdraw, CloseRead, CloseSubmit, CloseReread,
           CloseConfirm, Sweep, Closed, Saved, Goto, Elsewhere
  <1>7. Gone \/ Finish \/ Crash \/ Connect => pc' \notin Steps
    BY ReturnGoes DEF Gone, Finish, Crash, Connect, Goto, Elsewhere
  <1>8. (\E why : RequestClose(why)) => pc' \notin Steps
    BY CloseGoes DEF RequestClose, Elsewhere
  <1>9. CASE UNCHANGED <<pc, loc>>
    BY <1>9
  <1> QED
    BY <1>1, <1>2, <1>3, <1>4, <1>5, <1>6, <1>7, <1>8, <1>9
       DEF Next, Sync, Review, Environment, Journal, TakeFills, StopTriggers,
           ClosedElsewhere, Deadline

LEMMA ReviewStep == TypeInv /\ ReviewInv /\ [Next]_vars => ReviewInv'
  <1> SUFFICES ASSUME TypeInv, ReviewInv, [Next]_vars PROVE ReviewInv'
    OBVIOUS
  <1>1. CASE Next
    <2>1. pos \in Nat /\ loc.snap \in Nat /\ pos' \in 0..pos
      BY <1>1, PositionShrinks, QuantityAssumption
         DEF TypeInv, ExchangeType, HandlerType, LocType
    <2>2. pc' \in {"visible", "value", "peaks"} => pos' <= loc'.snap
      BY <1>1, <2>1, ReviewReached DEF ReviewInv
    <2>3. pc' \in {"visible", "value"} => mem'.managed = mem.managed
      <3>1. CASE MetaKept
        BY <3>1 DEF MetaKept
      <3>2. Scored \/ Gone \/ Crash \/ Connect => pc' \notin {"visible", "value"}
        BY DEF Scored, Gone, Crash, Connect, Goto
      <3> QED
        BY <1>1, <3>1, <3>2, MetaShape
    <2>4. pc' \in {"visible", "value"} => loc'.snap > 0 /\ mem'.managed
      BY <1>1, <2>1, <2>3, ReviewReached DEF ReviewInv
    <2>5. pc' = "gone" => pos' = 0
      BY <1>1, <2>1, ReviewReached DEF ReviewInv
    <2> QED
      BY <2>2, <2>4, <2>5 DEF ReviewInv
  <1>2. CASE UNCHANGED vars
    BY <1>2 DEF vars, ReviewInv
  <1> QED
    BY <1>1, <1>2

LEMMA ReviewInit == Init => ReviewInv
BY DEF Init, ReviewInv

(* For every value of the constants: the hosted stop leaves the exchange   *)
(* only with the position, or while its own replacement is under way.      *)
THEOREM StopOnlyLeavesFlat == Spec => StopRetained
  <1> DEFINE Kept == hosted # {} /\ hosted' = {} => pos' = 0 \/ pc = "cancelstop"
  <1>1. TypeInv /\ FlatInv /\ ReviewInv /\ [Next]_vars => [Kept]_vars
    <2> SUFFICES ASSUME TypeInv, FlatInv, ReviewInv, Next, hosted # {},
                        hosted' = {}, pc # "cancelstop"
                 PROVE  pos' = 0
      OBVIOUS
    <2>1. CASE Gone \/ Sweep
      BY <2>1 DEF Gone, Sweep, FlatInv, Flat, ReviewInv
    <2>2. CASE StopTriggers
      BY <2>2 DEF StopTriggers
    <2>3. CASE PlaceStop
      BY <2>3 DEF PlaceStop
    <2>4. CASE Rearm
      BY <2>4 DEF Rearm
    <2>5. hosted' # hosted
      OBVIOUS
    <2> QED
      BY <2>1, <2>2, <2>3, <2>4, <2>5
         DEF Next, Sync, Review, Protect, CloseMarket, Environment, SyncBegin,
             SeeProtection, Scored, Unscored, Peaks, CancelStop, StopGone,
             Through, Replaced, FlatSeen, Reread, Connect, Withdraw, CloseRead,
             CloseSubmit, CloseReread, CloseConfirm, Closed, Finish,
             RequestClose, Journal, TakeFills, ClosedElsewhere, Deadline,
             Crash, exchange
  <1> QED
    BY <1>1, FlatInit, FlatStep, ReviewInit, ReviewStep, TypeInvariant, PTL
       DEF Spec, StopRetained

-----------------------------------------------------------------------------

(***************************************************************************)
(* FloorNeverLoosens.  Under(f, g): a floor of g is at least every floor   *)
(* of f.  The quantity a guard values only shrinks, so a guard in memory   *)
(* that values the quantity on disk again is a continuation of that one.   *)
(***************************************************************************)
Under(low, high) == \A f \in low : \E g \in high : g >= f

(* A quote of the same quantity leaves a floor at least as high.           *)
LEMMA ObserveRaises ==
    ASSUME NEW g \in GuardType, NEW net \in Int, NEW partial \in BOOLEAN
    PROVE  Under(g.floor, Observe(g, net, g.quantity, partial).floor)
  <1> DEFINE o == Observed(g, net, g.quantity)
             r == Remembered(o)
             s == Shielded(r, net, partial)
  <1>1. \A f \in SUBSET Int, to \in Int :
           Under(f, Raised(f, to)) /\ Raised(f, to) \in SUBSET Int
    BY DEF Under, Raised, AtLeast
  <1>2. o \in GuardType /\ o.floor = g.floor
    BY DEF Observed, GuardType, AtLeast
  <1>3. r \in GuardType /\ Under(o.floor, r.floor)
    <2>1. RememberedFloor(o) \in Int
      BY <1>2, ThresholdsAreReturns
         DEF RememberedFloor, AtLeast, AtMost, GuardType
    <2>2. o.floor \in SUBSET Int /\ Under(o.floor, o.floor)
      BY <1>2 DEF GuardType, Under
    <2> HIDE DEF o
    <2> QED
      BY <1>1, <1>2, <2>1, <2>2 DEF Remembered, GuardType
  <1>4. s \in GuardType /\ Under(r.floor, s.floor)
    <2>1. ShieldFloor(r) \in Int
      BY <1>3, ThresholdsAreReturns DEF ShieldFloor, AtLeast, GuardType
    <2>2. r.floor \in SUBSET Int /\ Under(r.floor, r.floor)
      BY <1>3 DEF GuardType, Under
    <2> HIDE DEF r
    <2> QED
      BY <1>1, <1>3, <2>1, <2>2 DEF Shielded, GuardType
  <1>5. g.floor \subseteq Int /\ r.floor \subseteq Int /\ s.floor \subseteq Int
    BY <1>3, <1>4 DEF GuardType
  <1> HIDE DEF r, s
  <1>6. Under(g.floor, s.floor)
    BY <1>2, <1>3, <1>4, <1>5 DEF Under
  <1> QED
    BY <1>6 DEF Observe, s, r

(* A quote leaves the guard with the quantity it valued.                   *)
LEMMA ObserveQuantity ==
    ASSUME NEW g \in GuardType, NEW net \in Int, NEW quantity \in Nat,
           NEW partial \in BOOLEAN
    PROVE  Observe(g, net, quantity, partial).quantity = quantity
  <1> DEFINE o == Observed(g, net, quantity)
             r == Remembered(o)
  <1>1. o \in GuardType /\ o.quantity = quantity
    BY DEF Observed, GuardType, AtLeast
  <1>2. r.quantity = quantity
    BY <1>1 DEF Remembered, GuardType
  <1>3. Shielded(r, net, partial).quantity = r.quantity
    <2>1. r = o \/ r = [o EXCEPT !.floor = Raised(@, RememberedFloor(o))]
      BY DEF Remembered
    <2>2. \A x : [r EXCEPT !.floor = x].quantity = r.quantity
      BY <1>1, <2>1 DEF GuardType
    <2> HIDE DEF r
    <2> QED
      BY <2>2 DEF Shielded
  <1> QED
    BY <1>2, <1>3 DEF Observe

FloorInv ==
    /\ disk.guard.quantity = mem.guard.quantity
          => Under(disk.guard.floor, mem.guard.floor)
    /\ disk.guard.quantity = 0 => disk.guard.floor = {}
    /\ mem.managed /\ disk.guard.quantity # 0 =>
          /\ mem.guard.quantity # 0
          /\ mem.guard.quantity <= disk.guard.quantity
    /\ mem.guard.quantity # 0 => pos <= mem.guard.quantity
    /\ disk.guard.quantity # 0 => pos <= disk.guard.quantity
    /\ pc \in {"visible", "value"} /\ mem.guard.quantity # 0
          => loc.snap <= mem.guard.quantity
    /\ mem.guard.quantity = 0 => mem.guard.floor = {}

(* What a scored review does to the guard.                                 *)
LEMMA ScoredGuard ==
    TypeInv /\ Scored =>
       /\ mem'.managed = mem.managed
       /\ mem'.guard.quantity = loc.snap
       /\ mem.guard.quantity = loc.snap => Under(mem.guard.floor, mem'.guard.floor)
       /\ pc = "value" /\ pc' = "peaks" /\ pos' = pos /\ disk' = disk
  <1> SUFFICES ASSUME TypeInv, Scored
               PROVE  /\ mem'.managed = mem.managed
                      /\ mem'.guard.quantity = loc.snap
                      /\ mem.guard.quantity = loc.snap
                            => Under(mem.guard.floor, mem'.guard.floor)
                      /\ pc = "value" /\ pc' = "peaks"
                      /\ pos' = pos /\ disk' = disk
    OBVIOUS
  <1>1. /\ mem \in MetaType /\ mem.guard \in GuardType
        /\ loc.snap \in Nat /\ PartialHit(loc) \in BOOLEAN
    BY QuantityAssumption
       DEF TypeInv, StateType, MetaType, HandlerType, LocType, PartialHit
  <1>2. PICK net \in -MaxLoss..MaxGain :
           LET g == Observe(mem.guard, net, loc.snap, PartialHit(loc))
           IN mem' = [mem EXCEPT !.last = loc.snap, !.guard = g]
    BY DEF Scored, InMemory
  <1> DEFINE g == Observe(mem.guard, net, loc.snap, PartialHit(loc))
  <1>3. net \in Int
    BY <1>2, ReturnAssumption
  <1>4. mem'.guard = g /\ mem'.managed = mem.managed
    BY <1>1, <1>2 DEF MetaType
  <1>5. g.quantity = loc.snap
    BY <1>1, <1>3, ObserveQuantity
  <1>6. mem.guard.quantity = loc.snap => Under(mem.guard.floor, g.floor)
    BY <1>1, <1>3, ObserveRaises
  <1>7. pc = "value" /\ pc' = "peaks" /\ pos' = pos /\ disk' = disk
    BY DEF Scored, InMemory, Goto, exchange
  <1> QED
    BY <1>4, <1>5, <1>6, <1>7

(* Memory never falls behind the disk: whenever a step leaves in memory a  *)
(* guard of the quantity on disk, it has at least the floor on disk.       *)
LEMMA MemoryAhead ==
    TypeInv /\ ReviewInv /\ FloorInv /\ Next =>
       (disk.guard.quantity = mem'.guard.quantity
           => Under(disk.guard.floor, mem'.guard.floor))
  <1> SUFFICES ASSUME TypeInv, ReviewInv, FloorInv, Next,
                      disk.guard.quantity = mem'.guard.quantity
               PROVE  Under(disk.guard.floor, mem'.guard.floor)
    OBVIOUS
  <1>1. /\ disk.guard.floor \subseteq Int /\ mem.guard.floor \subseteq Int
        /\ disk.guard.quantity \in Nat /\ mem.guard.quantity \in Nat
        /\ loc.snap \in Nat
    BY QuantityAssumption
       DEF TypeInv, StateType, MetaType, GuardType, HandlerType, LocType
  <1>2. CASE MetaKept
    BY <1>2 DEF MetaKept, FloorInv
  <1>3. CASE Scored
    <2>1. pc = "value" /\ loc.snap > 0 /\ mem.managed
      BY <1>3, ScoredGuard DEF ReviewInv
    <2>2. mem'.guard.quantity = loc.snap
      BY <1>3, ScoredGuard
    <2>3. mem.guard.quantity = loc.snap
      BY <1>1, <2>1, <2>2 DEF FloorInv
    <2>4. mem'.guard.floor \subseteq Int
      BY MetaStep DEF MetaType, GuardType
    <2>5. Under(mem.guard.floor, mem'.guard.floor)
      BY <1>3, <2>3, ScoredGuard
    <2>6. Under(disk.guard.floor, mem.guard.floor)
      BY <2>2, <2>3 DEF FloorInv
    <2> QED
      BY <1>1, <2>4, <2>5, <2>6 DEF Under
  <1>4. CASE Gone
    <2>1. mem'.guard.quantity = 0
      BY <1>4 DEF Gone, InMemory, Forgotten, NoGuard
    <2> QED
      BY <2>1 DEF FloorInv, Under
  <1>5. CASE mem' = disk
    BY <1>1, <1>5 DEF Under
  <1> QED
    BY <1>2, <1>3, <1>4, <1>5, MetaShape

LEMMA FloorStep == TypeInv /\ ReviewInv /\ FloorInv /\ [Next]_vars => FloorInv'
  <1> SUFFICES ASSUME TypeInv, ReviewInv, FloorInv, [Next]_vars PROVE FloorInv'
    OBVIOUS
  <1>1. CASE Next
    <2>1. /\ pos \in Nat /\ pos' \in 0..pos /\ loc.snap \in Nat
          /\ mem.guard.quantity \in Nat /\ disk.guard.quantity \in Nat
          /\ mem'.guard \in GuardType
      BY <1>1, PositionShrinks, MetaStep, QuantityAssumption
         DEF TypeInv, ExchangeType, StateType, MetaType, GuardType,
             HandlerType, LocType
    <2>2. mem'.guard.quantity = 0 => mem'.guard.floor = {}
      <3>1. CASE MetaKept
        BY <3>1 DEF MetaKept, FloorInv
      <3>2. CASE Scored
        BY <2>1, <3>2, ScoredGuard DEF ReviewInv
      <3>3. CASE Gone
        BY <3>3 DEF Gone, InMemory, Forgotten, NoGuard
      <3>4. CASE mem' = disk
        BY <3>4 DEF FloorInv
      <3> QED
        BY <1>1, <3>1, <3>2, <3>3, <3>4, MetaShape
    <2>3. mem'.guard.quantity # 0 => pos' <= mem'.guard.quantity
      <3>1. CASE MetaKept
        BY <2>1, <3>1 DEF MetaKept, FloorInv
      <3>2. CASE Scored
        BY <2>1, <3>2, ScoredGuard DEF ReviewInv
      <3>3. CASE Gone
        BY <3>3 DEF Gone, InMemory, Forgotten, NoGuard
      <3>4. CASE mem' = disk
        BY <2>1, <3>4 DEF FloorInv
      <3> QED
        BY <1>1, <3>1, <3>2, <3>3, <3>4, MetaShape
    <2>4. mem'.managed /\ disk.guard.quantity # 0 =>
             /\ mem'.guard.quantity # 0
             /\ mem'.guard.quantity <= disk.guard.quantity
      <3>1. CASE MetaKept
        BY <3>1 DEF MetaKept, FloorInv
      <3>2. CASE Scored
        BY <2>1, <3>2, ScoredGuard DEF ReviewInv, FloorInv
      <3>3. CASE Gone
        BY <3>3 DEF Gone, InMemory, Forgotten
      <3>4. CASE mem' = disk
        BY <2>1, <3>4
      <3> QED
        BY <1>1, <3>1, <3>2, <3>3, <3>4, MetaShape
    <2>5. pc' \in {"visible", "value"} /\ mem'.guard.quantity # 0
             => loc'.snap <= mem'.guard.quantity
      <3>1. CASE MetaKept
        BY <1>1, <2>1, <3>1, ReviewReached DEF MetaKept, FloorInv
      <3>2. Scored \/ Gone \/ Crash \/ Connect => pc' \notin {"visible", "value"}
        BY DEF Scored, Gone, Crash, Connect, Goto
      <3> QED
        BY <1>1, <3>1, <3>2, MetaShape
    <2>6. disk.guard.quantity = mem'.guard.quantity
             => Under(disk.guard.floor, mem'.guard.floor)
      BY <1>1, MemoryAhead
    <2>7. CASE disk' = disk
      BY <2>1, <2>2, <2>3, <2>4, <2>5, <2>6, <2>7 DEF FloorInv
    <2>8. CASE disk' = mem'
      <3>1. Under(mem'.guard.floor, mem'.guard.floor)
        BY <2>1 DEF Under, GuardType
      <3>2. mem'.guard.quantity \in Nat
        BY <2>1 DEF GuardType
      <3> QED
        BY <2>2, <2>3, <2>5, <2>8, <3>1, <3>2 DEF FloorInv
    <2> QED
      BY <1>1, <2>7, <2>8, DiskStep
  <1>2. CASE UNCHANGED vars
    BY <1>2 DEF vars, FloorInv
  <1> QED
    BY <1>1, <1>2

LEMMA FloorInit == Init => FloorInv
  <1> SUFFICES ASSUME Init PROVE FloorInv
    OBVIOUS
  <1>1. disk = mem /\ mem.guard = NoGuard /\ pc = "idle"
    BY DEF Init, Forgotten
  <1> QED
    BY <1>1 DEF FloorInv, NoGuard, Under

(* For every value of the thresholds and every quantity, through failed    *)
(* saves and restarts: while the quantity on disk stays the same, every    *)
(* floor written there is followed by one at least as high.                *)
THEOREM FloorOnlyRises == Spec => FloorNeverLoosens
  <1> DEFINE Rises ==
        disk'.guard.quantity = disk.guard.quantity =>
           \A f \in disk.guard.floor : \E g \in disk'.guard.floor : g >= f
  <1>1. TypeInv /\ ReviewInv /\ FloorInv /\ [Next]_vars => [Rises]_vars
    <2> SUFFICES ASSUME TypeInv, ReviewInv, FloorInv, Next PROVE Rises
      OBVIOUS
    <2>1. CASE disk' = disk
      BY <2>1 DEF TypeInv, StateType, MetaType, GuardType
    <2>2. CASE disk' = mem'
      BY <2>2, MemoryAhead DEF Under
    <2> QED
      BY <2>1, <2>2, DiskStep
  <1> QED
    BY <1>1, FloorInit, FloorStep, ReviewInit, ReviewStep, TypeInvariant, PTL
       DEF Spec, FloorNeverLoosens

-----------------------------------------------------------------------------

(***************************************************************************)
(* StopNeverLoosens.  The stop in memory is never below the one on disk,   *)
(* and a desired stop is one price, at or above the one in memory, as long *)
(* as there is a position.                                                 *)
(***************************************************************************)
StopInv ==
    /\ pc \notin {"idle", "down", "finish"} => mem.managed
    /\ mem.managed => mem.stop >= disk.stop
    /\ mem.managed => \A d \in loc.desired : d >= mem.stop
    /\ \A d, e \in loc.desired : d = e

(* The handlers carry the desired stop along or drop it.                   *)
LEMMA AfterCarries ==
    ASSUME NEW l \in LocType, NEW m, AfterUpdates(l, m) \/ AfterRearm(l, m)
    PROVE  loc'.desired = l.desired
BY DEF AfterUpdates, AfterRearm, Close, Goto, LocType

LEMMA ReturnDrops == Return => loc'.desired = {}
BY DEF Return, Goto, NoLoc

Carried == loc'.desired = loc.desired \/ loc'.desired = {}

LEMMA CarriedStep == TypeInv /\ Next => Carried \/ Scored \/ Unscored
  <1> SUFFICES ASSUME TypeInv, Next PROVE Carried \/ Scored \/ Unscored
    OBVIOUS
  <1> USE DEF Carried
  <1>1. /\ loc \in LocType /\ NoLoc \in LocType /\ NoLoc.desired = {}
        /\ \A b \in BOOLEAN : [loc EXCEPT !.covered = b] \in LocType
        /\ \A b \in BOOLEAN : [loc EXCEPT !.covered = b].desired = loc.desired
    BY EmptyTypes, LocTypes, LocKeeps DEF TypeInv, HandlerType, NoLoc
  <1>2. \A why : Close(why, loc) => Carried
    BY <1>1 DEF Close, Goto, LocType
  <1>3. \A label : Goto(label, loc) => Carried
    BY DEF Goto
  <1>4. \A m : AfterUpdates(loc, m) \/ AfterRearm(loc, m) => Carried
    BY <1>1, AfterCarries
  <1>5. \A m : AfterUpdates([loc EXCEPT !.covered = TRUE], m) => Carried
    BY <1>1, AfterCarries
  <1>6. CloseFailed => Carried
    BY <1>3, <1>4, ReturnDrops DEF CloseFailed
  <1>7. SyncBegin => Carried
    BY <1>1, ReturnDrops DEF SyncBegin, Saved, Goto, LocType
  <1>8. SeeProtection => Carried
    BY <1>1, ReturnDrops DEF SeeProtection, Goto, LocType
  <1>9. Peaks => Carried
    BY <1>3, <1>4, ReturnDrops DEF Peaks, Saved
  <1>10. CancelStop \/ StopGone \/ Through => Carried
    BY <1>2, <1>3 DEF CancelStop, StopGone, Through
  <1>11. PlaceStop => Carried
    BY <1>2, <1>3, <1>5 DEF PlaceStop
  <1>12. Replaced \/ FlatSeen => Carried
    BY <1>4, <1>5, ReturnDrops DEF Replaced, FlatSeen, Saved
  <1>13. Reread \/ Rearm => Carried
    BY <1>2, <1>3, <1>4, ReturnDrops DEF Reread, Rearm
  <1>14. Withdraw \/ CloseSubmit \/ CloseReread \/ CloseConfirm \/ Sweep => Carried
    BY <1>3, <1>6 DEF Withdraw, CloseSubmit, CloseReread, CloseConfirm, Sweep
  <1>15. CloseRead => Carried
    BY <1>1, <1>3, <1>6 DEF CloseRead, Goto, LocType
  <1>16. Closed => Carried
    BY <1>3, <1>4, ReturnDrops DEF Closed, Saved
  <1>17. Gone => Carried
    BY <1>1 DEF Gone, Goto, LocType
  <1>18. Finish \/ Crash \/ Connect => Carried
    BY ReturnDrops DEF Finish, Crash, Connect, Goto, NoLoc
  <1>19. (\E why : RequestClose(why)) => Carried
    BY <1>1 DEF RequestClose, Close, Goto, LocType
  <1>20. UNCHANGED loc => Carried
    OBVIOUS
  <1> QED
    BY <1>7, <1>8, <1>9, <1>10, <1>11, <1>12, <1>13, <1>14, <1>15, <1>16,
       <1>17, <1>18, <1>19, <1>20
       DEF Next, Sync, Review, Protect, CloseMarket, Environment, Journal,
           TakeFills, StopTriggers, ClosedElsewhere, Deadline

(* A review wants one stop at most, and only one that improves the stop.   *)
LEMMA BetterStopImproves ==
    ASSUME NEW m \in MetaType, NEW partial \in BOOLEAN
    PROVE  /\ \A d \in BetterStop(m, partial) : d >= m.stop
           /\ \A d, e \in BetterStop(m, partial) : d = e
  <1>1. m.stop \in Int /\ Tight \in Nat /\ Wanted(m, partial) \subseteq Int
    BY StopAssumption, ThresholdsAreReturns
       DEF MetaType, GuardType, Wanted
  <1> QED
    BY <1>1 DEF BetterStop

LEMMA ReviewDesires ==
    TypeInv /\ StopInv /\ (Scored \/ Unscored) =>
       /\ mem'.stop = mem.stop /\ disk' = disk
       /\ \A d \in loc'.desired : d >= mem.stop
       /\ \A d, e \in loc'.desired : d = e
  <1> SUFFICES ASSUME TypeInv, StopInv, Scored \/ Unscored
               PROVE  /\ mem'.stop = mem.stop /\ disk' = disk
                      /\ \A d \in loc'.desired : d >= mem.stop
                      /\ \A d, e \in loc'.desired : d = e
    OBVIOUS
  <1>1. /\ mem \in MetaType /\ mem.guard \in GuardType /\ mem.stop \in Int
        /\ loc \in LocType /\ loc.snap \in Nat /\ loc.snap \in 0..Q
        /\ PartialHit(loc) \in BOOLEAN
    BY QuantityAssumption
       DEF TypeInv, StateType, MetaType, HandlerType, LocType, PartialHit
  <1>0. mem.managed
    BY DEF Scored, Unscored, StopInv
  <1>2. mem'.stop = mem.stop /\ disk' = disk
    BY <1>1 DEF Scored, Unscored, InMemory, MetaType
  <1> DEFINE Improves(ds) == (\A d \in ds : d >= mem.stop) /\ (\A d, e \in ds : d = e)
  <1>3. Improves(loc.desired)
    BY <1>0 DEF StopInv
  <1>4. \A r : Goto("peaks", [loc EXCEPT !.why = r]) => loc'.desired = loc.desired
    BY <1>1 DEF Goto, LocType
  <1>5. \A ds : Goto("peaks", [loc EXCEPT !.desired = ds]) => loc'.desired = ds
    BY <1>1 DEF Goto, LocType
  <1>6. CASE Scored
    <2> DEFINE partial == PartialHit(loc)
               better(net) ==
                 BetterStop([mem EXCEPT !.last = loc.snap,
                                        !.guard = Observe(mem.guard, net, loc.snap, partial)],
                            partial)
    <2>1. PICK net \in -MaxLoss..MaxGain :
             \/ \E r : Goto("peaks", [loc EXCEPT !.why = r])
             \/ Goto("peaks", [loc EXCEPT !.desired = better(net)])
      BY <1>6 DEF Scored
    <2> DEFINE g == Observe(mem.guard, net, loc.snap, partial)
               m == [mem EXCEPT !.last = loc.snap, !.guard = g]
    <2>2. net \in Int
      BY <2>1, ReturnAssumption
    <2>3. g \in GuardType
      BY <1>1, <2>2, ObserveType
    <2> HIDE DEF g
    <2>4. m \in MetaType /\ m.stop = mem.stop
      BY <1>1, <2>3, MetaTypes DEF MetaType
    <2>5. Improves(BetterStop(m, partial))
      <3> HIDE DEF m, partial
      <3>1. PartialHit(loc) \in BOOLEAN /\ partial = PartialHit(loc)
        BY <1>1 DEF partial
      <3> QED
        BY <2>4, <3>1, BetterStopImproves
    <2>6. better(net) = BetterStop(m, partial)
      BY DEF g
    <2> HIDE DEF m, partial, better
    <2>7. loc'.desired = loc.desired \/ loc'.desired = BetterStop(m, partial)
      BY <1>4, <1>5, <2>1, <2>6
    <2>8. Improves(loc'.desired)
      BY <1>3, <2>5, <2>7
    <2> QED
      BY <1>2, <2>8
  <1>7. CASE Unscored
    <2>1. \/ \E r : Goto("peaks", [loc EXCEPT !.why = r])
          \/ Goto("peaks", loc)
          \/ BreakEvenDue /\ Goto("peaks", [loc EXCEPT !.desired = {Floor}])
      BY <1>7 DEF Unscored
    <2>2. BreakEvenDue => Improves({Floor})
      BY <1>1, StopAssumption, ThresholdsAreReturns DEF BreakEvenDue
    <2>3. Goto("peaks", loc) => loc'.desired = loc.desired
      BY DEF Goto
    <2>4. \/ loc'.desired = loc.desired
          \/ loc'.desired = {Floor} /\ Improves({Floor})
      BY <1>4, <1>5, <2>1, <2>2, <2>3
    <2>5. Improves(loc'.desired)
      BY <1>3, <2>4
    <2> QED
      BY <1>2, <2>5
  <1> QED
    BY <1>6, <1>7

(* The stop in memory stays, becomes the desired one, or goes with its     *)
(* position or with a restart.                                             *)
LEMMA StopShape ==
    TypeInv /\ Next =>
       \/ mem'.stop = mem.stop
       \/ mem'.stop \in loc.desired
       \/ Gone
       \/ (Crash \/ Connect) /\ mem' = disk
  <1> SUFFICES ASSUME TypeInv, Next, ~Gone, ~Crash, ~Connect
               PROVE  mem'.stop = mem.stop \/ mem'.stop \in loc.desired
    BY DEF Crash, Connect
  <1>1. mem \in MetaType
    BY DEF TypeInv, StateType
  <1>2. loc.why = "immediate" \/ pc = "replaced" => AtDesired(mem).stop \in loc.desired
    <2>1. loc.why = "immediate" \/ pc = "replaced" => loc.desired # {}
      BY DEF TypeInv, HandlerType, Replacing
    <2> QED
      BY <1>1, <2>1 DEF AtDesired, MetaType
  <1>3. CASE SyncBegin
    <2>1. mem' = mem \/ mem' = [mem EXCEPT !.reason = "max_hold"]
      BY <1>3 DEF SyncBegin, Saved
    <2> QED
      BY <1>1, <2>1 DEF MetaType
  <1>4. CASE Scored \/ Unscored
    BY <1>1, <1>4 DEF Scored, Unscored, InMemory, MetaType
  <1>5. CASE Replaced
    BY <1>2, <1>5 DEF Replaced, Saved
  <1>6. CASE FlatSeen
    <2>1. mem' = [mem EXCEPT !.exit = TRUE]
      BY <1>6 DEF FlatSeen, Saved
    <2> QED
      BY <1>1, <2>1 DEF MetaType
  <1>7. CASE Closed
    <2> DEFINE m == IF loc.why = "immediate" THEN AtDesired(mem) ELSE mem
    <2>1. mem' = [m EXCEPT !.exit = TRUE, !.reason = loc.why]
      BY <1>7 DEF Closed, Saved, SavedOk, InMemory
    <2>2. mem'.stop = m.stop
      BY <1>1, <2>1 DEF AtDesired, MetaType
    <2> QED
      BY <1>2, <2>2
  <1>8. CASE Peaks \/ Finish
    BY <1>8 DEF Peaks, Finish, Saved
  <1>9. CASE mem' = mem
    BY <1>9
  <1> QED
    BY <1>3, <1>4, <1>5, <1>6, <1>7, <1>8, <1>9
       DEF Next, Sync, Review, Protect, CloseMarket, Environment,
           SeeProtection, CancelStop, StopGone, PlaceStop, Through, Reread,
           Rearm, Withdraw, CloseRead, CloseSubmit, CloseReread,
           CloseConfirm, Sweep, RequestClose, Journal, TakeFills,
           StopTriggers, ClosedElsewhere, Deadline, runtime

(* A handler works on a managed position.                                  *)
LEMMA ManagedStep ==
    TypeInv /\ StopInv /\ Next => (pc' \notin {"idle", "down", "finish"} => mem'.managed)
  <1> SUFFICES ASSUME TypeInv, StopInv, Next, pc' \notin {"idle", "down", "finish"}
               PROVE  mem'.managed
    OBVIOUS
  <1>1. ~Gone /\ ~Crash /\ ~Connect /\ ~Finish
    BY DEF Gone, Crash, Connect, Finish, Return, Goto
  <1>2. mem.managed
    <2>1. pc = "idle" => mem.managed
      BY <1>1
         DEF Next, Sync, Review, Protect, CloseMarket, Environment, SyncBegin,
             SeeProtection, Scored, Unscored, Peaks, CancelStop, StopGone,
             PlaceStop, Through, Replaced, FlatSeen, Reread, Rearm, Withdraw,
             CloseRead, CloseSubmit, CloseReread, CloseConfirm, Sweep, Closed,
             RequestClose, Journal, TakeFills, StopTriggers, ClosedElsewhere,
             Deadline, Saved, Return, Goto
    <2>2. pc \notin {"down", "finish"}
      BY <1>1
         DEF Next, Sync, Review, Protect, CloseMarket, Environment, SyncBegin,
             SeeProtection, Scored, Unscored, Peaks, CancelStop, StopGone,
             PlaceStop, Through, Replaced, FlatSeen, Reread, Rearm, Withdraw,
             CloseRead, CloseSubmit, CloseReread, CloseConfirm, Sweep, Closed,
             RequestClose, Journal, TakeFills, StopTriggers, ClosedElsewhere,
             Deadline
    <2> QED
      BY <2>1, <2>2 DEF StopInv
  <1>3. CASE MetaKept
    BY <1>2, <1>3 DEF MetaKept
  <1>4. CASE Scored
    BY <1>2, <1>4, ScoredGuard
  <1> QED
    BY <1>1, <1>3, <1>4, MetaShape

LEMMA StopStep == TypeInv /\ StopInv /\ [Next]_vars => StopInv'
  <1> SUFFICES ASSUME TypeInv, StopInv, [Next]_vars PROVE StopInv'
    OBVIOUS
  <1>1. CASE Next
    <2>1. /\ mem.stop \in Int /\ disk.stop \in Int /\ mem'.stop \in Int
          /\ loc.desired \subseteq Int
      BY <1>1, MetaStep DEF TypeInv, StateType, MetaType, HandlerType, LocType
    <2>2. pc' \notin {"idle", "down", "finish"} => mem'.managed
      BY <1>1, ManagedStep
    <2>3. \A d, e \in loc'.desired : d = e
      BY <1>1, CarriedStep, ReviewDesires DEF Carried, StopInv
    <2>4. CASE Gone
      <3>1. ~mem'.managed
        BY <2>4 DEF Gone, InMemory, Forgotten
      <3> QED
        BY <2>2, <2>3, <3>1 DEF StopInv
    <2>5. CASE Crash \/ Connect
      <3>1. mem' = disk /\ disk' = disk /\ loc'.desired = {}
        BY <2>5 DEF Crash, Connect, Goto, NoLoc
      <3> QED
        BY <2>1, <2>2, <2>3, <3>1 DEF StopInv
    <2>6. CASE ~Gone /\ ~Crash /\ ~Connect
      <3>1. mem'.managed = mem.managed
        BY <1>1, <2>6, MetaShape, ScoredGuard DEF MetaKept
      <3>2. mem.managed => mem'.stop >= mem.stop
        BY <1>1, <2>1, <2>6, StopShape DEF StopInv
      <3>3. mem'.managed => mem'.stop >= disk'.stop
        BY <1>1, <2>1, <3>1, <3>2, DiskStep DEF StopInv
      <3>4. mem'.managed => \A d \in loc'.desired : d >= mem'.stop
        <4>1. CASE Scored \/ Unscored
          BY <4>1, ReviewDesires
        <4>2. CASE Carried
          BY <1>1, <2>1, <2>6, <3>1, <4>2, StopShape DEF Carried, StopInv
        <4> QED
          BY <1>1, <4>1, <4>2, CarriedStep
      <3> QED
        BY <2>2, <2>3, <3>3, <3>4 DEF StopInv
    <2> QED
      BY <2>4, <2>5, <2>6
  <1>2. CASE UNCHANGED vars
    BY <1>2 DEF vars, StopInv
  <1> QED
    BY <1>1, <1>2

LEMMA StopInit == Init => StopInv
  <1> SUFFICES ASSUME Init PROVE StopInv
    OBVIOUS
  <1>1. disk = mem /\ pc = "idle" /\ loc.desired = {} /\ mem.stop = -StopDistance
    BY DEF Init, Forgotten, NoLoc
  <1> QED
    BY <1>1, StopAssumption DEF StopInv

(* For every value of the constants: a stop placed for the position, by an *)
(* update, by a re-arm or after a restart, is never looser than the one    *)
(* that is on disk.                                                        *)
THEOREM StopOnlyTightens == Spec => StopNeverLoosens
  <1> DEFINE Tightens == \A p \in hosted' \ hosted : p >= disk.stop
  <1>1. TypeInv /\ StopInv /\ [Next]_vars => [Tightens]_vars
    <2> SUFFICES ASSUME TypeInv, StopInv, Next, NEW p \in hosted' \ hosted
                 PROVE  p >= disk.stop
      OBVIOUS
    <2>1. /\ mem.stop \in Int /\ disk.stop \in Int
          /\ loc.desired \subseteq Int
      BY DEF TypeInv, StateType, MetaType, HandlerType, LocType
    <2>2. CASE pc = "placestop" /\ hosted' = loc.desired
      BY <2>1, <2>2 DEF StopInv
    <2>3. CASE pc = "rearm" /\ hosted' = {mem.stop}
      BY <2>1, <2>3 DEF StopInv
    <2> QED
      BY <2>2, <2>3, HostedStep
  <1> QED
    BY <1>1, StopInit, StopStep, TypeInvariant, PTL DEF Spec, StopNeverLoosens

-----------------------------------------------------------------------------

(***************************************************************************)
(* FloorBacked and FirstExitRemembered, for every order of the thresholds. *)
(* A floor is set within the peak, or at the break-even base.  Memory may  *)
(* set one under the base, and the shield then raises it to the base       *)
(* without looking at the value: only then is a peak within its floor.     *)
(***************************************************************************)

(* A floor above the best value seen is the base.                          *)
Backed(g) == \A f \in g.floor : f <= AtLeast(g.peak, 0) \/ f = Base

(* Profit memory is active, and the value has never been above the floors  *)
(* that memory and the shield set.                                         *)
Squeezed(g) ==
    /\ Reached(MemActivation, g.peak)
    /\ g.peak <= Remembers /\ \A f \in g.floor : f <= Remembers

(* The trailing stop keeps no distance from the peak.                      *)
Touching(g) ==
    /\ Reached(TrailActivation, g.peak) /\ TrailDistance = 0
    /\ Base < g.peak /\ \A f \in g.floor : f <= g.peak

(* The floor is strictly below the best value, but for these two.          *)
Clear(g) ==
    g.floor # {} =>
        \/ Squeezed(g) \/ Touching(g)
        \/ Base < g.peak /\ \A f \in g.floor : f < g.peak

(* The guard between the steps of observe is well typed.                   *)
LEMMA ObserveSteps ==
    ASSUME NEW g \in GuardType, NEW net \in Int, NEW quantity \in Nat
    PROVE  /\ Observed(g, net, quantity) \in GuardType
           /\ Observed(g, net, quantity).peak >= net
           /\ Remembered(Observed(g, net, quantity)) \in GuardType
           /\ Remembered(Observed(g, net, quantity)).peak
                = Observed(g, net, quantity).peak
  <1> DEFINE o == Observed(g, net, quantity)
  <1>1. o \in GuardType /\ o.peak >= net
    BY DEF Observed, GuardType, AtLeast
  <1>2. RememberedFloor(o) \in Int
    BY <1>1, ThresholdsAreReturns
       DEF RememberedFloor, AtLeast, AtMost, GuardType
  <1> HIDE DEF o
  <1>3. Remembered(o) \in GuardType /\ Remembered(o).peak = o.peak
    BY <1>1, <1>2 DEF Remembered, Raised, GuardType, AtLeast
  <1> QED
    BY <1>1, <1>3 DEF o

(* What a raise leaves: a floor, none above what was below both.           *)
LEMMA RaisedBounds ==
    ASSUME NEW floor \in SUBSET Int, NEW to \in Int, NEW f \in Raised(floor, to)
    PROVE  f \in Int /\ (f = to \/ f \in floor)
BY DEF Raised, AtLeast

(* Memory's floor lies within the peak.                                    *)
LEMMA RememberedFloorBounds ==
    ASSUME NEW g \in GuardType
    PROVE  /\ RememberedFloor(g) \in Int
           /\ RememberedFloor(g) <= AtLeast(g.peak, 0)
           /\ RememberedFloor(g) <= AtLeast(MemFloor, 0)
BY ThresholdsAreReturns DEF RememberedFloor, AtLeast, AtMost, GuardType

LEMMA ShieldFloorBounds ==
    ASSUME NEW g \in GuardType
    PROVE  /\ ShieldFloor(g) \in Int /\ ShieldFloor(g) >= Base
           /\ \/ ShieldFloor(g) = Base
              \/ /\ TrailActivation # {}
                 /\ ShieldFloor(g) = g.peak - TrailDistance
BY ThresholdsAreReturns DEF ShieldFloor, Base, Reached, AtLeast, GuardType

(* What a higher peak has reached.                                         *)
LEMMA ReachedGrows ==
    ASSUME NEW t \in SUBSET Int, NEW p \in Int, NEW q \in Int, p <= q,
           Reached(t, p)
    PROVE  Reached(t, q)
BY ThresholdsAreReturns DEF Reached, AtLeast

LEMMA ObserveBacked ==
    ASSUME NEW g \in GuardType, Backed(g),
           NEW net \in Int, NEW quantity \in Nat, NEW partial \in BOOLEAN
    PROVE  Backed(Observe(g, net, quantity, partial))
  <1> DEFINE o == Observed(g, net, quantity)
             r == Remembered(o)
             s == Shielded(r, net, partial)
  <1>0. Base \in Int
    BY ThresholdsAreReturns DEF Base, AtLeast
  <1>1. o \in GuardType /\ r \in GuardType /\ r.peak = o.peak
    BY ObserveSteps
  <1>2. Backed(o)
    <2>1. CASE g.quantity = quantity
      <3>1. o.floor = g.floor /\ o.peak >= g.peak
        BY <2>1 DEF Observed, GuardType, AtLeast
      <3> QED
        BY <1>0, <1>1, <3>1 DEF Backed, AtLeast, GuardType
    <2>2. CASE g.quantity # quantity
      BY <2>2 DEF Observed, Backed
    <2> QED
      BY <2>1, <2>2
  <1> HIDE DEF o
  <1>3. Backed(r)
    <2>1. CASE Reached(MemActivation, o.peak)
      <3>1. r.floor = Raised(o.floor, RememberedFloor(o))
        BY <1>1, <2>1 DEF Remembered, GuardType
      <3>2. \A f \in r.floor : f = RememberedFloor(o) \/ f \in o.floor
        BY <1>1, <3>1, RememberedFloorBounds, RaisedBounds DEF GuardType
      <3> QED
        BY <1>1, <1>2, <3>2, RememberedFloorBounds DEF Backed
    <2>2. CASE ~Reached(MemActivation, o.peak)
      BY <1>2, <2>2 DEF Remembered
    <2> QED
      BY <2>1, <2>2
  <1> HIDE DEF r
  <1>4. Backed(s)
    <2>1. CASE /\ partial \/ Reached(Activation, r.peak)
               /\ r.floor # {} \/ net > ShieldFloor(r)
      <3>1. s.floor = Raised(r.floor, ShieldFloor(r)) /\ s.peak = r.peak
        BY <1>1, <2>1 DEF Shielded, GuardType
      <3>2. ShieldFloor(r) <= AtLeast(r.peak, 0) \/ ShieldFloor(r) = Base
        BY <1>1, ShieldFloorBounds, ThresholdsAreReturns DEF AtLeast, GuardType
      <3>3. \A f \in s.floor : f = ShieldFloor(r) \/ f \in r.floor
        BY <1>1, <3>1, ShieldFloorBounds, RaisedBounds DEF GuardType
      <3> QED
        BY <1>3, <3>1, <3>2, <3>3 DEF Backed
    <2>2. CASE ~(/\ partial \/ Reached(Activation, r.peak)
                 /\ r.floor # {} \/ net > ShieldFloor(r))
      BY <1>3, <2>2 DEF Shielded
    <2> QED
      BY <2>1, <2>2
  <1> QED
    BY <1>4 DEF Observe, s, r, o

(* A guard that is clear stays so under a higher peak.                     *)
LEMMA ClearGrows ==
    ASSUME NEW g \in GuardType, NEW h \in GuardType, Clear(g),
           h.floor = g.floor, h.peak >= g.peak
    PROVE  Clear(h)
  <1> SUFFICES ASSUME h.floor # {} PROVE Clear(h)
    BY DEF Clear
  <1>0. /\ Base \in Int /\ Remembers \in Int /\ Base <= Remembers
        /\ g.peak \in Int /\ h.peak \in Int /\ g.floor \subseteq Int
    BY ThresholdsAreReturns DEF Base, Remembers, AtLeast, GuardType
  <1>1. CASE Squeezed(g)
    <2>1. Reached(MemActivation, h.peak)
      BY <1>0, <1>1, ReachedGrows, ThresholdsAreReturns DEF Squeezed
    <2>2. CASE h.peak <= Remembers
      BY <1>1, <2>1, <2>2 DEF Clear, Squeezed
    <2>3. CASE h.peak > Remembers
      BY <1>0, <1>1, <2>3 DEF Clear, Squeezed
    <2> QED
      BY <1>0, <2>2, <2>3
  <1>2. CASE Touching(g)
    <2>1. Reached(TrailActivation, h.peak)
      BY <1>0, <1>2, ReachedGrows, ThresholdsAreReturns DEF Touching
    <2> QED
      BY <1>0, <1>2, <2>1 DEF Clear, Touching
  <1>3. CASE Base < g.peak /\ \A f \in g.floor : f < g.peak
    BY <1>0, <1>3 DEF Clear
  <1> QED
    BY <1>1, <1>2, <1>3 DEF Clear

LEMMA RememberedClear ==
    ASSUME NEW o \in GuardType, Clear(o)
    PROVE  Clear(Remembered(o))
  <1> DEFINE r == Remembered(o)
  <1> SUFFICES Clear(r)
    OBVIOUS
  <1>0. /\ Base \in Int /\ Remembers \in Int /\ Base <= Remembers
        /\ AtLeast(MemFloor, 0) <= Remembers
        /\ o.peak \in Int /\ o.floor \subseteq Int
    BY ThresholdsAreReturns DEF Base, Remembers, AtLeast, GuardType
  <1>1. CASE Reached(MemActivation, o.peak)
    <2>1. r.floor = Raised(o.floor, RememberedFloor(o)) /\ r.peak = o.peak
      BY <1>1 DEF Remembered, GuardType
    <2>2. /\ RememberedFloor(o) \in Int
          /\ RememberedFloor(o) <= Remembers
      BY <1>0, RememberedFloorBounds, ThresholdsAreReturns DEF AtLeast
    <2>3. \A f \in r.floor : f \in Int /\ (f = RememberedFloor(o) \/ f \in o.floor)
      BY <1>0, <2>1, <2>2, RaisedBounds
    <2> HIDE DEF r
    <2>4. CASE o.peak <= Remembers
      <3>1. \A f \in o.floor : f <= Remembers
        BY <1>0, <2>4 DEF Clear, Squeezed, Touching
      <3> QED
        BY <1>1, <2>1, <2>2, <2>3, <2>4, <3>1 DEF Clear, Squeezed
    <2>5. CASE o.peak > Remembers
      <3>1. RememberedFloor(o) < o.peak /\ Base < o.peak
        BY <1>0, <2>2, <2>5
      <3>2. CASE o.floor = {}
        BY <2>1, <2>3, <3>1, <3>2 DEF Clear
      <3>3. CASE Touching(o)
        BY <1>0, <2>1, <2>2, <2>3, <3>1, <3>3 DEF Clear, Touching
      <3>4. CASE \A f \in o.floor : f < o.peak
        BY <2>1, <2>3, <3>1, <3>4 DEF Clear
      <3> QED
        BY <2>5, <1>0, <3>2, <3>3, <3>4 DEF Clear, Squeezed
    <2> QED
      BY <1>0, <2>4, <2>5
  <1>2. CASE ~Reached(MemActivation, o.peak)
    BY <1>2 DEF Remembered
  <1> QED
    BY <1>1, <1>2

LEMMA ShieldedClear ==
    ASSUME NEW r \in GuardType, Clear(r),
           NEW net \in Int, r.peak >= net, NEW partial \in BOOLEAN
    PROVE  Clear(Shielded(r, net, partial))
  <1> DEFINE s == Shielded(r, net, partial)
  <1> SUFFICES Clear(s)
    OBVIOUS
  <1>0. /\ Base \in Int /\ Remembers \in Int /\ Base <= Remembers
        /\ r.peak \in Int /\ r.floor \subseteq Int /\ ShieldFloor(r) \in Int
    BY ThresholdsAreReturns, ShieldFloorBounds
       DEF Base, Remembers, AtLeast, GuardType
  <1>1. CASE /\ partial \/ Reached(Activation, r.peak)
             /\ r.floor # {} \/ net > ShieldFloor(r)
    <2>1. s.floor = Raised(r.floor, ShieldFloor(r)) /\ s.peak = r.peak
      BY <1>1 DEF Shielded, GuardType
    <2>2. \A f \in s.floor : f \in Int /\ (f = ShieldFloor(r) \/ f \in r.floor)
      BY <1>0, <2>1, RaisedBounds
    <2> HIDE DEF s
    <2>3. CASE r.floor = {}
      <3>1. ShieldFloor(r) < r.peak /\ Base < r.peak
        BY <1>0, <1>1, <2>3, ShieldFloorBounds
      <3> QED
        BY <2>1, <2>2, <2>3, <3>1 DEF Clear
    <2>4. CASE Squeezed(r)
      <3>1. ShieldFloor(r) <= Remembers
        BY <1>0, <2>4, ShieldFloorBounds, ThresholdsAreReturns DEF Squeezed
      <3> QED
        BY <2>1, <2>2, <2>4, <3>1 DEF Clear, Squeezed
    <2>5. CASE Base < r.peak /\ TrailDistance = 0 /\ Reached(TrailActivation, r.peak)
                 /\ \A f \in r.floor : f <= r.peak
      <3>1. ShieldFloor(r) <= r.peak
        BY <1>0, <2>5, ShieldFloorBounds, ThresholdsAreReturns
      <3> QED
        BY <2>1, <2>2, <2>5, <3>1 DEF Clear, Touching
    <2>6. CASE /\ Base < r.peak /\ \A f \in r.floor : f < r.peak
               /\ TrailDistance > 0 \/ ~Reached(TrailActivation, r.peak)
      <3>1. ShieldFloor(r) < r.peak
        <4>1. CASE TrailDistance > 0
          BY <1>0, <2>6, <4>1, ShieldFloorBounds, ThresholdsAreReturns
        <4>2. CASE ~Reached(TrailActivation, r.peak)
          BY <2>6, <4>2 DEF ShieldFloor, Base
        <4> QED
          BY <2>6, <4>1, <4>2
      <3> QED
        BY <2>1, <2>2, <2>6, <3>1 DEF Clear
    <2>7. CASE Base < r.peak /\ \A f \in r.floor : f < r.peak
      <3>1. \A f \in r.floor : f <= r.peak
        BY <1>0, <2>7
      <3> QED
        BY <2>5, <2>6, <2>7, <3>1, ThresholdsAreReturns
    <2> QED
      BY <2>3, <2>4, <2>5, <2>7 DEF Clear, Touching
  <1>2. CASE ~(/\ partial \/ Reached(Activation, r.peak)
               /\ r.floor # {} \/ net > ShieldFloor(r))
    BY <1>2 DEF Shielded
  <1> QED
    BY <1>1, <1>2

LEMMA ObserveClear ==
    ASSUME NEW g \in GuardType, Clear(g),
           NEW net \in Int, NEW quantity \in Nat, NEW partial \in BOOLEAN
    PROVE  Clear(Observe(g, net, quantity, partial))
  <1> DEFINE o == Observed(g, net, quantity)
             r == Remembered(o)
  <1>1. o \in GuardType /\ o.peak >= net /\ r \in GuardType /\ r.peak = o.peak
    BY ObserveSteps
  <1>2. Clear(o)
    <2>1. CASE g.quantity = quantity
      <3>1. o.floor = g.floor /\ o.peak >= g.peak
        BY <2>1 DEF Observed, GuardType, AtLeast
      <3> QED
        BY <1>1, <3>1, ClearGrows
    <2>2. CASE g.quantity # quantity
      BY <2>2 DEF Observed, Clear
    <2> QED
      BY <2>1, <2>2
  <1> HIDE DEF o
  <1>3. Clear(r)
    BY <1>1, <1>2, RememberedClear
  <1> HIDE DEF r
  <1>4. Clear(Shielded(r, net, partial))
    BY <1>1, <1>3, ShieldedClear
  <1> QED
    BY <1>4 DEF Observe, r, o

(* A step leaves in memory the guard it found, the guard of a fresh quote, *)
(* no guard, or the one on disk.                                           *)
LEMMA GuardStep ==
    TypeInv /\ Next =>
       \/ mem'.guard \in {mem.guard, disk.guard, NoGuard}
       \/ \E net \in Int, partial \in BOOLEAN :
             /\ loc.snap \in Nat
             /\ mem'.guard = Observe(mem.guard, net, loc.snap, partial)
  <1> SUFFICES ASSUME TypeInv, Next,
                      mem'.guard \notin {mem.guard, disk.guard, NoGuard}
               PROVE  \E net \in Int, partial \in BOOLEAN :
                        /\ loc.snap \in Nat
                        /\ mem'.guard = Observe(mem.guard, net, loc.snap, partial)
    OBVIOUS
  <1>1. Scored
    <2>1. Gone => mem' = Forgotten
      BY DEF Gone, InMemory
    <2>2. Forgotten.guard = NoGuard
      BY DEF Forgotten
    <2> QED
      BY <2>1, <2>2, MetaShape DEF MetaKept
  <1>2. /\ mem \in MetaType /\ loc.snap \in Nat /\ PartialHit(loc) \in BOOLEAN
    BY QuantityAssumption
       DEF TypeInv, StateType, HandlerType, LocType, PartialHit
  <1>3. PICK net \in -MaxLoss..MaxGain :
           LET g == Observe(mem.guard, net, loc.snap, PartialHit(loc))
           IN mem' = [mem EXCEPT !.last = loc.snap, !.guard = g]
    BY <1>1 DEF Scored, InMemory
  <1>4. net \in Int
    BY <1>3, ReturnAssumption
  <1>5. mem'.guard = Observe(mem.guard, net, loc.snap, PartialHit(loc))
    BY <1>2, <1>3 DEF MetaType
  <1> QED
    BY <1>2, <1>4, <1>5

GuardInv ==
    /\ Backed(mem.guard) /\ Backed(disk.guard)
    /\ Clear(mem.guard) /\ Clear(disk.guard)

LEMMA GuardInvStep == TypeInv /\ GuardInv /\ [Next]_vars => GuardInv'
  <1> SUFFICES ASSUME TypeInv, GuardInv, [Next]_vars PROVE GuardInv'
    OBVIOUS
  <1>1. CASE Next
    <2>1. mem.guard \in GuardType
      BY DEF TypeInv, StateType, MetaType
    <2>2. Backed(NoGuard) /\ Clear(NoGuard)
      BY DEF Backed, Clear, NoGuard
    <2>3. Backed(mem'.guard)
      BY <1>1, <2>1, <2>2, GuardStep, ObserveBacked DEF GuardInv
    <2>4. Clear(mem'.guard)
      BY <1>1, <2>1, <2>2, GuardStep, ObserveClear DEF GuardInv
    <2> QED
      BY <1>1, <2>3, <2>4, DiskStep DEF GuardInv
  <1>2. CASE UNCHANGED vars
    BY <1>2 DEF vars, GuardInv
  <1> QED
    BY <1>1, <1>2

(* No floor at the start.                                                  *)
LEMMA GuardInit == Init => GuardInv
BY DEF Init, Forgotten, NoGuard, GuardInv, Backed, Clear

(* For every setting, quantity and order of quotes, fills, failed saves    *)
(* and restarts: the floor never exceeds the best executable value of the  *)
(* quantity it protects, unless it is the break-even floor itself.         *)
THEOREM FloorIsBacked == Spec => []FloorBacked
  <1>1. GuardInv => FloorBacked
    BY DEF GuardInv, Backed, FloorBacked
  <1> QED
    BY <1>1, GuardInit, GuardInvStep, TypeInvariant, PTL DEF Spec

(* For every setting: the first quote of a new quantity, or the first look *)
(* at the guard after a restart, asks for an exit only if the profit       *)
(* memory is active and no value was ever above the floors that memory and *)
(* break-even set, or the trailing stop keeps no distance.                 *)
THEOREM FirstQuoteExits == Spec => FirstExitRemembered
  <1> DEFINE Squeeze ==
        /\ Reached(MemActivation, mem'.guard.peak)
        /\ mem'.guard.peak <= Remembers
      Touch == Reached(TrailActivation, mem'.guard.peak) /\ TrailDistance = 0
      Holds ==
        (/\ mem'.guard.quantity \notin {0, mem.guard.quantity}
         /\ AsksExit(mem'.guard, mem'.guard.peak)) => Squeeze \/ Touch
  <1>1. TypeInv /\ GuardInv /\ [Next]_vars => GuardInv'
    BY GuardInvStep
  <1>2. TypeInv /\ GuardInv /\ [Next]_vars => [Holds]_vars
    <2> SUFFICES ASSUME TypeInv, GuardInv, Next PROVE Holds
      OBVIOUS
    <2>1. mem'.guard \in GuardType /\ Clear(mem'.guard)
      BY <1>1, MetaStep DEF GuardInv, MetaType
    <2> QED
      BY <2>1 DEF Clear, Squeezed, Touching, AsksExit, GuardType
  <1> QED
    BY <1>1, <1>2, GuardInit, TypeInvariant, PTL DEF Spec, FirstExitRemembered

-----------------------------------------------------------------------------
(* What a step does to the locals that outlive a label: expired and exited *)
(* are carried or dropped; sync decides the one, the removal the other.    *)

Carries(l) == loc'.expired = l.expired /\ loc'.exited = l.exited

LEMMA AfterCarriesOn ==
    ASSUME NEW l \in LocType, NEW m, AfterUpdates(l, m) \/ AfterRearm(l, m)
    PROVE  Carries(l)
BY DEF Carries, AfterUpdates, AfterRearm, Close, Goto, LocType

LEMMA ReturnEnds == Return => Carries(NoLoc)
BY DEF Carries, Return, Goto

LEMMA FieldsStep ==
    TypeInv /\ Next =>
       \/ Carries(loc)
       \/ Carries(NoLoc)
       \/ SyncBegin /\ loc'.exited = NoReason
       \/ Gone
  <1> SUFFICES ASSUME TypeInv, Next, ~Carries(loc), ~Carries(NoLoc)
               PROVE  (SyncBegin /\ loc'.exited = NoReason) \/ Gone
    OBVIOUS
  <1> USE DEF Carries
  <1>1. /\ loc \in LocType /\ NoLoc \in LocType
        /\ \A b \in BOOLEAN : [loc EXCEPT !.covered = b] \in LocType
        /\ \A b \in BOOLEAN : [loc EXCEPT !.covered = b].expired = loc.expired
        /\ \A b \in BOOLEAN : [loc EXCEPT !.covered = b].exited = loc.exited
    <2>1. loc \in LocType /\ NoLoc \in LocType
      BY EmptyTypes DEF TypeInv, HandlerType
    <2>2. \A b \in BOOLEAN : /\ [loc EXCEPT !.covered = b].expired = loc.expired
                            /\ [loc EXCEPT !.covered = b].exited = loc.exited
      BY <2>1 DEF LocType
    <2> QED
      BY <2>1, <2>2, LocTypes
  <1>2. \A why : ~Close(why, loc) /\ ~Close(why, NoLoc)
    BY <1>1 DEF Close, Goto, LocType
  <1>3. \A label : ~Goto(label, loc)
    BY DEF Goto
  <1>4. \A m : ~AfterUpdates(loc, m) /\ ~AfterRearm(loc, m)
    BY <1>1, AfterCarriesOn
  <1>5. \A m : ~AfterUpdates([loc EXCEPT !.covered = TRUE], m)
    <2> SUFFICES ASSUME NEW m, AfterUpdates([loc EXCEPT !.covered = TRUE], m)
                 PROVE  FALSE
      OBVIOUS
    <2>1. Carries([loc EXCEPT !.covered = TRUE])
      BY <1>1, AfterCarriesOn
    <2> QED
      BY <1>1, <2>1
  <1>6. ~CloseFailed /\ ~Return
    BY <1>3, <1>4, ReturnEnds DEF CloseFailed
  <1>7. SyncBegin => loc'.exited = NoReason
    <2>1. \A q, e : [NoLoc EXCEPT !.snap = q, !.expired = e].exited = NoReason
      BY DEF NoLoc
    <2>2. SyncBegin => \E label, q, e :
                          Goto(label, [NoLoc EXCEPT !.snap = q, !.expired = e])
      BY <1>6 DEF SyncBegin, Saved
    <2> QED
      BY <2>1, <2>2 DEF Goto
  <1>8. ~SeeProtection
    BY <1>1, <1>6 DEF SeeProtection, Goto, LocType
  <1>9. ~Scored /\ ~Unscored
    BY <1>1 DEF Scored, Unscored, Goto, LocType
  <1>10. ~Peaks
    BY <1>3, <1>4, <1>6 DEF Peaks, Saved
  <1>11. ~CancelStop /\ ~StopGone /\ ~Through
    BY <1>2, <1>3 DEF CancelStop, StopGone, Through
  <1>12. ~PlaceStop
    BY <1>2, <1>3, <1>5 DEF PlaceStop
  <1>13. ~Replaced /\ ~FlatSeen
    BY <1>4, <1>5, <1>6 DEF Replaced, FlatSeen, Saved
  <1>14. ~Reread /\ ~Rearm
    BY <1>2, <1>3, <1>4, <1>6 DEF Reread, Rearm
  <1>15. ~Withdraw /\ ~CloseSubmit /\ ~CloseReread /\ ~CloseConfirm /\ ~Sweep
    BY <1>3, <1>6 DEF Withdraw, CloseSubmit, CloseReread, CloseConfirm, Sweep
  <1>16. ~CloseRead
    BY <1>1, <1>3, <1>6 DEF CloseRead, Goto, LocType
  <1>17. ~Closed
    BY <1>3, <1>4, <1>6 DEF Closed, Saved
  <1>18. ~Finish /\ ~Crash /\ ~Connect
    BY <1>6 DEF Finish, Crash, Connect, Goto
  <1>19. \A why : ~RequestClose(why)
    BY <1>2 DEF RequestClose
  <1>20. ~UNCHANGED loc
    OBVIOUS
  <1> QED
    BY <1>7, <1>8, <1>9, <1>10, <1>11, <1>12, <1>13, <1>14, <1>15, <1>16,
       <1>17, <1>18, <1>19, <1>20
       DEF Next, Sync, Review, Protect, CloseMarket, Environment, Journal,
           TakeFills, StopTriggers, ClosedElsewhere, Deadline

(* What a step does to the reason: it stays, unless sync marks the expiry, *)
(* a close records its own, the position is forgotten or the disk read.    *)
LEMMA ReasonStep ==
    TypeInv /\ Next =>
       \/ mem'.reason = mem.reason /\ (mem.exit => mem'.exit)
       \/ SyncBegin
       \/ mem'.exit
       \/ Gone \/ Crash \/ Connect
  <1> SUFFICES ASSUME TypeInv, Next, ~SyncBegin, ~Gone, ~Crash, ~Connect
               PROVE  \/ mem'.reason = mem.reason /\ (mem.exit => mem'.exit)
                      \/ mem'.exit
    OBVIOUS
  <1>1. mem \in MetaType
    BY DEF TypeInv, StateType
  <1>2. CASE mem' = mem
    BY <1>2
  <1>3. CASE Scored \/ Unscored
    BY <1>1, <1>3 DEF Scored, Unscored, InMemory, MetaType
  <1>4. CASE Replaced
    <2>1. mem' = AtDesired(mem)
      BY <1>4 DEF Replaced, Saved
    <2> QED
      BY <1>1, <2>1 DEF MetaType, AtDesired
  <1>5. CASE FlatSeen
    <2>1. mem' = [mem EXCEPT !.exit = TRUE]
      BY <1>5 DEF FlatSeen, Saved
    <2> QED
      BY <1>1, <2>1 DEF MetaType
  <1>6. CASE Closed
    <2> DEFINE m == IF loc.why = "immediate" THEN AtDesired(mem) ELSE mem
    <2>1. mem' = [m EXCEPT !.exit = TRUE, !.reason = loc.why]
      BY <1>6 DEF Closed, Saved, SavedOk, InMemory
    <2>2. mem'.exit
      BY <1>1, <2>1 DEF AtDesired, MetaType
    <2> QED
      BY <2>2
  <1>7. CASE Peaks \/ Finish
    BY <1>7 DEF Peaks, Finish, Saved
  <1> QED
    BY <1>2, <1>3, <1>4, <1>5, <1>6, <1>7
       DEF Next, Sync, Review, Protect, CloseMarket, Environment,
           SeeProtection, CancelStop, StopGone, PlaceStop, Through, Reread,
           Rearm, Withdraw, CloseRead, CloseSubmit, CloseReread,
           CloseConfirm, Sweep, RequestClose, Journal, TakeFills,
           StopTriggers, ClosedElsewhere, Deadline, runtime

-----------------------------------------------------------------------------

(***************************************************************************)
(* DecisionsOnDisk.  Between the mark of an expired position and its close *)
(* stands the save of the peaks, and so it does between the floor that     *)
(* asks for an exit and the exit: Unsaved are the labels before it.        *)
(***************************************************************************)
Ended == {"idle", "down", "finish"}
Unsaved == {"visible", "value", "peaks", "gone"} \cup Ended
DecisionInv ==
    /\ pc = "peaks" => loc.why # "max_hold"
    /\ pc = "peaks" /\ loc.why = "executable" => mem.guard.floor # {}
    /\ pc = "withdraw" /\ loc.why = "executable"
          => disk.guard = mem.guard /\ disk.guard.floor # {}
    /\ pc = "withdraw" /\ loc.why = "max_hold" => loc.expired /\ ~mem.exit
    /\ loc.expired /\ ~mem.exit /\ pc \notin Ended => mem.reason = "max_hold"
    /\ loc.expired /\ ~mem.exit /\ pc \notin Unsaved => disk.reason = "max_hold"

(* A close for the floor comes from the saved peaks, one for the expiry    *)
(* from an expired position whose exit nothing requested.                  *)
LEMMA AfterWithdraws ==
    ASSUME NEW l \in LocType, NEW m, AfterUpdates(l, m) \/ AfterRearm(l, m),
           pc' = "withdraw"
    PROVE  loc'.why = "max_hold" /\ loc'.expired /\ ~m.exit
BY DEF AfterUpdates, AfterRearm, Close, Goto, LocType

LEMMA WithdrawReached ==
    TypeInv /\ Next /\ pc' = "withdraw" =>
       \/ pc = "withdraw" /\ loc' = loc /\ UNCHANGED <<mem, disk>>
       \/ Peaks /\ loc' = loc /\ disk' = mem /\ mem' = mem
       \/ loc'.why \notin {"executable", "max_hold"}
       \/ loc'.why = "max_hold" /\ loc'.expired /\ ~mem'.exit
  <1> SUFFICES ASSUME TypeInv, Next, pc' = "withdraw",
                      ~(pc = "withdraw" /\ loc' = loc /\ UNCHANGED <<mem, disk>>),
                      ~(loc'.why \notin {"executable", "max_hold"}),
                      ~(loc'.why = "max_hold" /\ loc'.expired /\ ~mem'.exit)
               PROVE  Peaks /\ loc' = loc /\ disk' = mem /\ mem' = mem
    OBVIOUS
  <1> USE DEF runtime
  <1>1. /\ loc \in LocType /\ NoLoc \in LocType
        /\ [loc EXCEPT !.covered = TRUE] \in LocType
    BY EmptyTypes, LocTypes DEF TypeInv, HandlerType
  <1>2. \A why \in Reasons \ {"executable", "max_hold"} :
           ~Close(why, loc) /\ ~Close(why, NoLoc)
    BY <1>1 DEF Close, Goto, LocType
  <1>3. \A label : Goto(label, loc) => label = "withdraw"
    BY DEF Goto
  <1>4. ~Return
    BY DEF Return, Goto
  <1>5. ~AfterUpdates(loc, mem') /\ ~AfterRearm(loc, mem')
        /\ ~AfterUpdates([loc EXCEPT !.covered = TRUE], mem')
    BY <1>1, AfterWithdraws
  <1>6. mem' = mem => ~CloseFailed
    BY <1>3, <1>4, <1>5 DEF CloseFailed
  <1>7. ~SyncBegin /\ ~SeeProtection /\ ~Scored /\ ~Unscored
    BY <1>4 DEF SyncBegin, SeeProtection, Scored, Unscored, Saved, Goto
  <1>8. ~CancelStop /\ ~StopGone /\ ~Through
    BY <1>2, <1>3 DEF CancelStop, StopGone, Through, Reasons
  <1>9. ~PlaceStop
    BY <1>2, <1>3, <1>5 DEF PlaceStop, Reasons
  <1>10. ~Replaced /\ ~FlatSeen
    BY <1>4, <1>5 DEF Replaced, FlatSeen, Saved
  <1>11. ~Reread /\ ~Rearm
    BY <1>2, <1>3, <1>4, <1>5 DEF Reread, Rearm, Reasons
  <1>12. ~Withdraw /\ ~CloseReread /\ ~CloseConfirm
    BY <1>3, <1>6 DEF Withdraw, CloseReread, CloseConfirm
  <1>13. ~CloseRead /\ ~CloseSubmit /\ ~Sweep /\ ~Gone
    BY <1>3, <1>6 DEF CloseRead, CloseSubmit, Sweep, Gone, Goto
  <1>14. ~Closed
    BY <1>3, <1>4, <1>5 DEF Closed, Saved, SavedOk, InMemory
  <1>15. ~Finish /\ ~Crash /\ ~Connect
    BY <1>4 DEF Finish, Crash, Connect, Goto
  <1>16. ~RequestClose("operator") /\ ~RequestClose("intent")
    BY <1>2 DEF RequestClose, Reasons
  <1>17. ~Journal /\ ~TakeFills /\ ~StopTriggers /\ ~ClosedElsewhere /\ ~Deadline
    BY DEF Journal, TakeFills, StopTriggers, ClosedElsewhere, Deadline
  <1>18. Peaks
    BY <1>7, <1>8, <1>9, <1>10, <1>11, <1>12, <1>13, <1>14, <1>15, <1>16, <1>17
       DEF Next, Sync, Review, Protect, CloseMarket, Environment
  <1>19. mem' = mem /\ disk' = mem /\ Goto("withdraw", loc)
    BY <1>3, <1>4, <1>5, <1>18 DEF Peaks, Saved, Goto
  <1> QED
    BY <1>18, <1>19 DEF Goto

(* Only the save of the peaks, and a request from outside of sync, leave   *)
(* the labels before it.                                                   *)
LEMMA UnsavedLeft ==
    Next /\ pc \in Unsaved /\ pc' \notin Unsaved =>
       disk' = mem' \/ (\E why : RequestClose(why))
  <1> SUFFICES ASSUME Next, pc \in Unsaved, pc' \notin Unsaved,
                      \A why : ~RequestClose(why)
               PROVE  disk' = mem'
    OBVIOUS
  <1> USE DEF Unsaved, Ended
  <1>1. ~Return
    BY DEF Return, Goto
  <1>2. ~SyncBegin /\ ~SeeProtection /\ ~Scored /\ ~Unscored /\ ~Gone
    BY <1>1 DEF SyncBegin, SeeProtection, Scored, Unscored, Gone, Saved, Goto
  <1>3. ~Finish /\ ~Crash /\ ~Connect
    BY <1>1 DEF Finish, Crash, Connect, Goto
  <1>4. Peaks => disk' = mem'
    BY <1>1 DEF Peaks, Saved
  <1> QED
    BY <1>2, <1>3, <1>4
       DEF Next, Sync, Review, Protect, CloseMarket, Environment, CancelStop,
           StopGone, PlaceStop, Through, Replaced, FlatSeen, Reread, Rearm,
           Withdraw, CloseRead, CloseSubmit, CloseReread, CloseConfirm, Sweep,
           Closed, Journal, TakeFills, StopTriggers, ClosedElsewhere, Deadline

(* A review that asks for an exit at the floor has one.                    *)
LEMMA PeaksReached ==
    TypeInv /\ Next /\ pc' = "peaks" =>
       \/ pc = "peaks" /\ loc' = loc /\ mem' = mem
       \/ loc'.why \notin {"executable", "max_hold"}
       \/ loc'.why = "executable" /\ mem'.guard.floor # {}
  <1> SUFFICES ASSUME TypeInv, Next, pc' = "peaks",
                      loc'.why \in {"executable", "max_hold"},
                      ~(pc = "peaks" /\ loc' = loc /\ mem' = mem)
               PROVE  loc'.why = "executable" /\ mem'.guard.floor # {}
    OBVIOUS
  <1> USE DEF runtime
  <1>1. loc \in LocType /\ NoLoc \in LocType /\ NoLoc.why = NoReason
    BY EmptyTypes DEF TypeInv, HandlerType, NoLoc
  <1>2. ~SyncBegin
    BY <1>1 DEF SyncBegin, Saved, Return, Goto, LocType, NoLoc, NoReason
  <1>3. ~Unscored
    <2>1. loc.why = NoReason \/ pc # "value"
      BY DEF TypeInv, HandlerType, Reviewing
    <2> QED
      BY <1>1, <2>1 DEF Unscored, Goto, LocType, NoReason
  <1>4. ~SeeProtection /\ ~Peaks /\ ~Gone /\ ~Finish /\ ~Crash /\ ~Connect
    BY AfterGoes, ReturnGoes
       DEF SeeProtection, Peaks, Gone, Finish, Crash, Connect, Saved, Goto,
           Elsewhere
  <1>5. ~Protect
    BY AfterGoes, CloseGoes, ReturnGoes
       DEF Protect, CancelStop, StopGone, PlaceStop, Through, Replaced,
           FlatSeen, Reread, Rearm, Saved, Goto, Elsewhere
  <1>6. ~CloseMarket
    BY AfterGoes, FailedGoes, ReturnGoes
       DEF CloseMarket, Withdraw, CloseRead, CloseSubmit, CloseReread,
           CloseConfirm, Sweep, Closed, Saved, Goto, Elsewhere
  <1>7. \A why : ~RequestClose(why)
    BY CloseGoes DEF RequestClose, Elsewhere
  <1>8. ~Journal /\ ~TakeFills /\ ~StopTriggers /\ ~ClosedElsewhere /\ ~Deadline
    BY DEF Journal, TakeFills, StopTriggers, ClosedElsewhere, Deadline
  <1>9. Scored
    BY <1>2, <1>3, <1>4, <1>5, <1>6, <1>7, <1>8
       DEF Next, Sync, Review, Environment
  <1>10. PICK net \in -MaxLoss..MaxGain :
            LET partial == PartialHit(loc)
                g == Observe(mem.guard, net, loc.snap, partial)
                m == [mem EXCEPT !.last = loc.snap, !.guard = g]
            IN /\ mem' = m
               /\ \/ /\ AsksExit(g, net)
                     /\ Goto("peaks", [loc EXCEPT !.why = "executable"])
                  \/ Goto("peaks", [loc EXCEPT !.why = "early"])
                  \/ Goto("peaks", [loc EXCEPT !.desired = BetterStop(m, partial)])
    BY <1>9 DEF Scored, InMemory
  <1>11. loc.why = NoReason
    BY <1>9 DEF Scored, TypeInv, HandlerType, Reviewing
  <1>12. /\ \A d : ~Goto("peaks", [loc EXCEPT !.desired = d])
         /\ ~Goto("peaks", [loc EXCEPT !.why = "early"])
    BY <1>1, <1>11 DEF Goto, LocType, NoReason
  <1>13. /\ AsksExit(Observe(mem.guard, net, loc.snap, PartialHit(loc)), net)
         /\ Goto("peaks", [loc EXCEPT !.why = "executable"])
    BY <1>10, <1>12
  <1>14. mem'.guard = Observe(mem.guard, net, loc.snap, PartialHit(loc))
    BY <1>10 DEF TypeInv, StateType, MetaType
  <1>15. loc'.why = "executable"
    BY <1>1, <1>13 DEF Goto, LocType
  <1> QED
    BY <1>13, <1>14, <1>15 DEF AsksExit

(* Between handlers and at the end of one nothing is expired.              *)
LEMMA EndedLeft ==
    Next /\ pc \in Ended /\ pc' \notin Ended =>
       SyncBegin \/ (\E why : RequestClose(why))
BY ReturnGoes
   DEF Ended, Next, Sync, Review, Protect, CloseMarket, Environment,
       SeeProtection, Scored, Unscored, Peaks, CancelStop, StopGone, PlaceStop,
       Through, Replaced, FlatSeen, Reread, Rearm, Withdraw, CloseRead,
       CloseSubmit, CloseReread, CloseConfirm, Sweep, Closed, Gone, Finish,
       Saved, Return, Goto, Journal, TakeFills, StopTriggers, ClosedElsewhere,
       Deadline, Crash, Connect

LEMMA RequestExpires == ASSUME NEW why, RequestClose(why) PROVE ~loc'.expired
BY EmptyTypes DEF RequestClose, Close, Goto, NoLoc, LocType

(* An expired position is marked before the sync goes on.                  *)
LEMMA ExpiryMarked ==
    TypeInv /\ SyncBegin /\ loc'.expired => mem'.reason = "max_hold"
  <1> SUFFICES ASSUME TypeInv, SyncBegin, loc'.expired
               PROVE  mem'.reason = "max_hold"
    OBVIOUS
  <1> DEFINE expired == mem.fixed /\ due /\ ~mem.exit /\ pos > 0
             l == [NoLoc EXCEPT !.snap = pos, !.expired = expired]
             marked == [mem EXCEPT !.reason = "max_hold"]
  <1>1. ~Return
    BY DEF Return, Goto, NoLoc
  <1>2. loc' = l
    BY <1>1 DEF SyncBegin, Saved, Goto
  <1>3. expired
    BY <1>2, EmptyTypes DEF LocType
  <1>4. marked.reason = "max_hold"
    BY DEF TypeInv, StateType, MetaType
  <1>5. mem.reason # "max_hold" => mem' = marked
    BY <1>3 DEF SyncBegin, Saved
  <1>6. mem.reason = "max_hold" => mem' = mem
    BY <1>3 DEF SyncBegin
  <1> QED
    BY <1>4, <1>5, <1>6

LEMMA DecisionStep == TypeInv /\ DecisionInv /\ [Next]_vars => DecisionInv'
  <1> SUFFICES ASSUME TypeInv, DecisionInv, [Next]_vars PROVE DecisionInv'
    OBVIOUS
  <1>1. CASE Next
    <2>1. pc' = "peaks" /\ loc'.why = "executable" => mem'.guard.floor # {}
      BY <1>1, PeaksReached DEF DecisionInv
    <2>2. pc' = "withdraw" /\ loc'.why = "executable"
             => disk'.guard = mem'.guard /\ disk'.guard.floor # {}
      BY <1>1, WithdrawReached DEF DecisionInv, Peaks
    <2>3. pc' = "withdraw" /\ loc'.why = "max_hold" => loc'.expired /\ ~mem'.exit
      <3>1. Peaks => loc.why # "max_hold"
        BY DEF Peaks, DecisionInv
      <3> QED
        BY <1>1, <3>1, WithdrawReached DEF DecisionInv, NoReason
    <2>4. loc'.expired /\ ~mem'.exit /\ pc' \notin Ended => mem'.reason = "max_hold"
      <3> SUFFICES ASSUME loc'.expired, ~mem'.exit, pc' \notin Ended
                   PROVE  mem'.reason = "max_hold"
        OBVIOUS
      <3>1. CASE SyncBegin
        BY <3>1, ExpiryMarked
      <3>2. ~Gone /\ ~Crash /\ ~Connect
        BY DEF Gone, Crash, Connect, Goto, Ended
      <3>3. CASE ~SyncBegin
        <4>1. Carries(loc)
          BY <1>1, <3>2, <3>3, FieldsStep DEF Carries, NoLoc
        <4>2. loc.expired /\ pc \notin Ended
          BY <1>1, <3>3, <4>1, EndedLeft, RequestExpires DEF Carries
        <4>3. mem'.reason = mem.reason /\ ~mem.exit
          BY <1>1, <3>2, <3>3, ReasonStep
        <4> QED
          BY <4>2, <4>3 DEF DecisionInv
      <3> QED
        BY <3>1, <3>3
    <2>5. loc'.expired /\ ~mem'.exit /\ pc' \notin Unsaved => disk'.reason = "max_hold"
      <3> SUFFICES ASSUME loc'.expired, ~mem'.exit, pc' \notin Unsaved
                   PROVE  disk'.reason = "max_hold"
        OBVIOUS
      <3>1. mem'.reason = "max_hold"
        BY <2>4 DEF Unsaved
      <3>2. ~Gone /\ ~Crash /\ ~Connect /\ ~SyncBegin
        BY DEF Gone, Crash, Connect, SyncBegin, Saved, Return, Goto, Unsaved, Ended
      <3>3. CASE pc \in Unsaved
        BY <1>1, <3>1, <3>3, UnsavedLeft, RequestExpires
      <3>4. CASE pc \notin Unsaved
        <4>1. loc.expired
          BY <1>1, <3>2, FieldsStep DEF Carries, NoLoc
        <4>2. ~mem.exit
          BY <1>1, <3>2, ReasonStep
        <4>3. disk.reason = "max_hold"
          BY <3>4, <4>1, <4>2 DEF DecisionInv
        <4> QED
          BY <1>1, <3>1, <4>3, DiskStep
      <3> QED
        BY <3>3, <3>4
    <2>6. pc' = "peaks" => loc'.why # "max_hold"
      BY <1>1, PeaksReached DEF DecisionInv
    <2> QED
      BY <2>1, <2>2, <2>3, <2>4, <2>5, <2>6 DEF DecisionInv
  <1>2. CASE UNCHANGED vars
    BY <1>2 DEF vars, DecisionInv
  <1> QED
    BY <1>1, <1>2

LEMMA DecisionInit == Init => DecisionInv
BY DEF Init, DecisionInv, NoLoc, Ended

(* For every value of the constants, through failed calls and saves and    *)
(* restarts at any await: a close for the floor is issued with that floor  *)
(* on disk, a close for the expiry with its reason on disk.                *)
THEOREM DecisionsSurvive == Spec => []DecisionsOnDisk
  <1>1. DecisionInv => DecisionsOnDisk
    BY DEF DecisionInv, DecisionsOnDisk, Unsaved, Ended
  <1> QED
    BY <1>1, DecisionInit, DecisionStep, TypeInvariant, PTL DEF Spec

-----------------------------------------------------------------------------

(***************************************************************************)
(* ExitReasonFinal.  A close, a replacement and a re-arm are under way     *)
(* only while no exit is requested, so nothing but the removal of the      *)
(* position, or a restart, touches an exit once it is requested; what the  *)
(* removal leaves in memory is a position no handler works on again.       *)
(***************************************************************************)
Acting == Closing \cup Replacing \cup {"flatseen", "rearm"}
FinalInv ==
    /\ pc \in Acting => ~mem.exit
    /\ pc = "peaks" /\ (loc.why # NoReason \/ loc.desired # {}) => ~mem.exit
    /\ pc \in Reviewing => loc.desired = {}
    /\ ~mem.managed => mem = Forgotten
    /\ ~disk.managed => disk = Forgotten
    /\ loc.exited # NoReason => pc = "finish" /\ ~mem.managed
    /\ sent # NoReason => ~mem.managed /\ ~disk.managed
    /\ disk.exit => \/ mem.exit /\ mem.reason = disk.reason
                    \/ ~mem.managed /\ loc.exited \in {NoReason, Event(disk)}

(* The rest of sync acts on a position only to close it, and only if no    *)
(* exit is requested in what it finds.                                     *)
LEMMA AfterActs ==
    ASSUME NEW l \in LocType, NEW m, AfterUpdates(l, m) \/ AfterRearm(l, m),
           pc' \in Acting
    PROVE  ~m.exit
  <1>1. pc' = "withdraw"
    BY AfterGoes DEF Elsewhere, Acting, Closing, Replacing
  <1> QED
    BY <1>1, AfterWithdraws

LEMMA ActingReached ==
    TypeInv /\ FlatInv /\ FinalInv /\ Next /\ pc' \in Acting => ~mem'.exit
  <1> SUFFICES ASSUME TypeInv, FlatInv, FinalInv, Next, pc' \in Acting, mem'.exit
               PROVE  FALSE
    OBVIOUS
  <1> USE DEF runtime
  <1>1. /\ mem \in MetaType /\ loc \in LocType
        /\ [loc EXCEPT !.covered = TRUE] \in LocType
    BY LocTypes DEF TypeInv, StateType, HandlerType
  <1>2. ~Return
    BY DEF Return, Goto, Acting, Closing, Replacing
  <1>3. ~AfterUpdates(loc, mem') /\ ~AfterRearm(loc, mem')
        /\ ~AfterUpdates([loc EXCEPT !.covered = TRUE], mem')
    BY <1>1, AfterActs
  <1>4. ~SyncBegin /\ ~SeeProtection /\ ~Scored /\ ~Unscored /\ ~Gone
    BY <1>2
       DEF SyncBegin, SeeProtection, Scored, Unscored, Gone, Saved, Goto,
           Acting, Closing, Replacing
  <1>5. ~Finish /\ ~Crash /\ ~Connect
    BY <1>2 DEF Finish, Crash, Connect, Goto, Acting, Closing, Replacing
  <1>6. ~Peaks
    BY <1>2, <1>3
       DEF Peaks, Saved, Goto, FinalInv, Acting, Closing, Replacing
  <1>7. pc \in Acting => mem' # mem
    BY DEF FinalInv
  <1>8. ~CancelStop /\ ~StopGone /\ ~PlaceStop /\ ~Through /\ ~Rearm
    BY <1>7
       DEF CancelStop, StopGone, PlaceStop, Through, Rearm, Acting, Replacing
  <1>9. ~Withdraw /\ ~CloseRead /\ ~CloseSubmit /\ ~CloseReread
        /\ ~CloseConfirm /\ ~Sweep
    BY <1>7
       DEF Withdraw, CloseRead, CloseSubmit, CloseReread, CloseConfirm, Sweep,
           Acting, Closing
  <1>10. ~Replaced
    BY <1>2, <1>3 DEF Replaced, Saved
  <1>11. ~FlatSeen
    BY <1>2, <1>3 DEF FlatSeen, Saved
  <1>12. ~Reread
    BY <1>2, <1>3 DEF Reread, FlatInv
  <1>13. ~Closed
    BY <1>2, <1>3
       DEF Closed, Saved, SavedOk, InMemory, Goto, Acting, Closing, Replacing
  <1>14. ~RequestClose("operator") /\ ~RequestClose("intent")
    BY DEF RequestClose
  <1>15. ~Journal /\ ~TakeFills /\ ~StopTriggers /\ ~ClosedElsewhere /\ ~Deadline
    BY <1>7 DEF Journal, TakeFills, StopTriggers, ClosedElsewhere, Deadline
  <1> QED
    BY <1>4, <1>5, <1>6, <1>8, <1>9, <1>10, <1>11, <1>12, <1>13, <1>14, <1>15
       DEF Next, Sync, Review, Protect, CloseMarket, Environment

(* A review finds no desired stop, and wants one only if it may act.       *)
LEMMA ReviewActs ==
    TypeInv /\ FinalInv /\ Next =>
       /\ pc' \in Reviewing => loc'.desired = {}
       /\ pc' = "peaks" /\ (loc'.why # NoReason \/ loc'.desired # {}) => ~mem'.exit
  <1> SUFFICES ASSUME TypeInv, FinalInv, Next, pc' \in Reviewing \cup {"peaks"}
               PROVE  /\ pc' \in Reviewing => loc'.desired = {}
                      /\ \/ loc'.why = NoReason /\ loc'.desired = {}
                         \/ ~mem'.exit
                         \/ pc' # "peaks"
    OBVIOUS
  <1> USE DEF Reviewing, runtime
  <1>1. mem \in MetaType /\ loc \in LocType
    BY DEF TypeInv, StateType, HandlerType
  <1>2. ~Return
    BY DEF Return, Goto
  <1>3. CASE SyncBegin
    <2>1. PICK q, e, label : Goto(label, [NoLoc EXCEPT !.snap = q, !.expired = e])
      BY <1>2, <1>3 DEF SyncBegin, Saved
    <2> QED
      BY <2>1 DEF Goto, NoLoc
  <1>4. CASE SeeProtection
    BY <1>1, <1>2, <1>4
       DEF SeeProtection, Goto, FinalInv, LocType, TypeInv, HandlerType
  <1>5. CASE Scored
    <2>1. mem'.exit = mem.exit
      BY <1>1, <1>5 DEF Scored, InMemory, MetaType
    <2> QED
      BY <1>5, <2>1 DEF Scored, Goto, MetaType
  <1>6. CASE Unscored
    <2>1. mem'.exit = mem.exit
      BY <1>1, <1>6 DEF Unscored, InMemory, MetaType
    <2>2. loc.why = NoReason /\ loc.desired = {}
      BY <1>6 DEF Unscored, FinalInv, TypeInv, HandlerType
    <2> QED
      BY <1>6, <2>1, <2>2 DEF Unscored, Goto
  <1>7. CASE Journal \/ TakeFills \/ StopTriggers \/ ClosedElsewhere \/ Deadline
    BY <1>7
       DEF FinalInv, Journal, TakeFills, StopTriggers, ClosedElsewhere, Deadline
  <1>8. ~Peaks /\ ~Gone /\ ~Finish /\ ~Crash /\ ~Connect
    BY AfterGoes, <1>2
       DEF Peaks, Gone, Finish, Crash, Connect, Saved, Goto, Elsewhere
  <1>9. ~Protect
    BY AfterGoes, CloseGoes, <1>2
       DEF Protect, CancelStop, StopGone, PlaceStop, Through, Replaced,
           FlatSeen, Reread, Rearm, Saved, Goto, Elsewhere
  <1>10. ~CloseMarket
    BY AfterGoes, FailedGoes, <1>2
       DEF CloseMarket, Withdraw, CloseRead, CloseSubmit, CloseReread,
           CloseConfirm, Sweep, Closed, Saved, Goto, Elsewhere
  <1>11. ~RequestClose("operator") /\ ~RequestClose("intent")
    BY CloseGoes DEF RequestClose, Elsewhere
  <1> QED
    BY <1>3, <1>4, <1>5, <1>6, <1>7, <1>8, <1>9, <1>10, <1>11
       DEF Next, Sync, Review, Environment

(* An exit that is requested keeps its reason until the position leaves    *)
(* memory, or memory is read from disk again.                              *)
LEMMA ExitKept ==
    TypeInv /\ FinalInv /\ Next /\ mem.exit =>
       \/ mem'.exit /\ mem'.reason = mem.reason
       \/ Gone
       \/ (Crash \/ Connect) /\ mem' = disk
  <1> SUFFICES ASSUME TypeInv, FinalInv, Next, mem.exit, ~Gone, ~Crash, ~Connect
               PROVE  mem'.exit /\ mem'.reason = mem.reason
    BY DEF Crash, Connect
  <1>1. mem \in MetaType
    BY DEF TypeInv, StateType
  <1>2. CASE mem' = mem
    BY <1>2
  <1>3. CASE SyncBegin \/ Peaks \/ Finish
    BY <1>3 DEF SyncBegin, Peaks, Finish, Saved
  <1>4. CASE Scored \/ Unscored
    BY <1>1, <1>4 DEF Scored, Unscored, InMemory, MetaType
  <1>5. ~Replaced /\ ~FlatSeen /\ ~Closed
    BY DEF Replaced, FlatSeen, Closed, FinalInv, Acting, Closing, Replacing
  <1> QED
    BY <1>2, <1>3, <1>4, <1>5
       DEF Next, Sync, Review, Protect, CloseMarket, Environment,
           SeeProtection, CancelStop, StopGone, PlaceStop, Through, Reread,
           Rearm, Withdraw, CloseRead, CloseSubmit, CloseReread,
           CloseConfirm, Sweep, RequestClose, Journal, TakeFills,
           StopTriggers, ClosedElsewhere, Deadline, runtime

(* Nothing works on a position that was forgotten: it stays so, or is      *)
(* found on disk again by a restart.                                       *)
LEMMA ForgottenKept ==
    StopInv /\ FinalInv /\ Next /\ ~mem.managed =>
       /\ ~Gone
       /\ mem' = mem \/ ((Crash \/ Connect) /\ mem' = disk)
       /\ pc = "finish" => \/ loc'.exited = NoReason
                           \/ UNCHANGED <<pc, loc>> /\ mem' = mem
  <1> SUFFICES ASSUME StopInv, FinalInv, Next, ~mem.managed
               PROVE  /\ ~Gone
                      /\ mem' = mem \/ ((Crash \/ Connect) /\ mem' = disk)
                      /\ pc = "finish" => \/ loc'.exited = NoReason
                                          \/ UNCHANGED <<pc, loc>> /\ mem' = mem
    OBVIOUS
  <1> USE DEF runtime
  <1>1. pc \in {"idle", "down", "finish"} /\ ~mem.fixed
    BY DEF StopInv, FinalInv, Forgotten
  <1>2. ~Gone
    BY <1>1 DEF Gone
  <1>3. CASE SyncBegin
    <2>1. mem' = mem /\ pc = "idle"
      BY <1>1, <1>3 DEF SyncBegin
    <2> QED
      BY <1>2, <2>1
  <1>4. CASE Finish \/ Crash \/ Connect
    <2>1. loc' = NoLoc
      BY <1>4 DEF Finish, Crash, Connect, Return, Goto
    <2>2. mem' = mem \/ ((Crash \/ Connect) /\ mem' = disk)
      BY <1>4 DEF Finish, Crash, Connect
    <2> QED
      BY <1>2, <2>1, <2>2 DEF NoLoc
  <1>5. CASE Journal \/ TakeFills \/ StopTriggers \/ ClosedElsewhere \/ Deadline
    BY <1>2, <1>5
       DEF Journal, TakeFills, StopTriggers, ClosedElsewhere, Deadline
  <1>6. ~RequestClose("operator") /\ ~RequestClose("intent")
    BY DEF RequestClose
  <1> QED
    BY <1>1, <1>2, <1>3, <1>4, <1>5, <1>6
       DEF Next, Sync, Review, Protect, CloseMarket, Environment,
           SeeProtection, Scored, Unscored, Peaks, CancelStop, StopGone,
           PlaceStop, Through, Replaced, FlatSeen, Reread, Rearm, Withdraw,
           CloseRead, CloseSubmit, CloseReread, CloseConfirm, Sweep, Closed

(* What leaves sync: the event of a removal that is on disk.               *)
LEMMA SentStep ==
    Next => \/ sent' \in {sent, NoReason}
            \/ Finish /\ loc.exited # NoReason /\ disk' = mem
                  /\ mem' = mem /\ sent' = loc.exited
  <1> USE DEF runtime, journal
  <1>1. CASE Finish
    BY <1>1 DEF Finish
  <1>2. CASE Journal \/ Crash
    BY <1>2 DEF Journal, Crash
  <1> QED
    BY <1>1, <1>2
       DEF Next, Sync, Review, Protect, CloseMarket, Environment, SyncBegin,
           SeeProtection, Scored, Unscored, Peaks, CancelStop, StopGone,
           PlaceStop, Through, Replaced, FlatSeen, Reread, Rearm, Gone,
           Connect, Withdraw, CloseRead, CloseSubmit, CloseReread,
           CloseConfirm, Sweep, Closed, RequestClose, TakeFills, StopTriggers,
           ClosedElsewhere, Deadline

(* An exit on disk: memory holds it, or the sync that forgot it will send  *)
(* its event.                                                              *)
LEMMA FinalDisk ==
    TypeInv /\ StopInv /\ FinalInv /\ Next /\ disk.exit =>
       \/ mem'.exit /\ mem'.reason = disk.reason
       \/ ~mem'.managed /\ loc'.exited \in {NoReason, Event(disk)}
  <1> SUFFICES ASSUME TypeInv, StopInv, FinalInv, Next, disk.exit
               PROVE  \/ mem'.exit /\ mem'.reason = disk.reason
                      \/ ~mem'.managed /\ loc'.exited \in {NoReason, Event(disk)}
    OBVIOUS
  <1>1. loc \in LocType
    BY DEF TypeInv, HandlerType
  <1>2. CASE mem.exit /\ mem.reason = disk.reason
    <2>1. CASE Gone
      <3>1. mem' = Forgotten /\ loc'.exited = Event(mem)
        BY <1>1, <2>1 DEF Gone, InMemory, Goto, LocType
      <3> QED
        BY <1>2, <3>1 DEF Forgotten, Event
    <2> QED
      BY <1>2, <2>1, ExitKept
  <1>3. CASE ~mem.managed /\ loc.exited \in {NoReason, Event(disk)}
    <2>1. CASE mem' = disk
      BY <2>1
    <2>2. CASE mem' = mem
      <3>1. ~Gone
        BY <1>3, ForgottenKept
      <3>2. loc'.exited \in {loc.exited, NoReason}
        BY <3>1, FieldsStep DEF Carries, NoLoc
      <3> QED
        BY <1>3, <2>2, <3>2
    <2> QED
      BY <1>3, <2>1, <2>2, ForgottenKept
  <1> QED
    BY <1>2, <1>3 DEF FinalInv

LEMMA FinalStep ==
    TypeInv /\ FlatInv /\ StopInv /\ FinalInv /\ [Next]_vars => FinalInv'
  <1> SUFFICES ASSUME TypeInv, FlatInv, StopInv, FinalInv, [Next]_vars
               PROVE  FinalInv'
    OBVIOUS
  <1>1. CASE Next
    <2>1. pc' \in Acting => ~mem'.exit
      BY <1>1, ActingReached
    <2>2. /\ pc' = "peaks" /\ (loc'.why # NoReason \/ loc'.desired # {}) => ~mem'.exit
          /\ pc' \in Reviewing => loc'.desired = {}
      BY <1>1, ReviewActs
    <2>3. ~mem'.managed => mem' = Forgotten
      <3>1. CASE mem.managed
        <4>1. CASE Gone
          BY <4>1 DEF Gone, InMemory
        <4>2. CASE Scored
          BY <3>1, <4>2, ScoredGuard
        <4> QED
          BY <1>1, <3>1, <4>1, <4>2, MetaShape DEF MetaKept, FinalInv
      <3>2. CASE ~mem.managed
        BY <1>1, <3>2, ForgottenKept DEF FinalInv
      <3> QED
        BY <3>1, <3>2
    <2>4. ~disk'.managed => disk' = Forgotten
      BY <1>1, <2>3, DiskStep DEF FinalInv
    <2>5. loc'.exited # NoReason => pc' = "finish" /\ ~mem'.managed
      <3> SUFFICES ASSUME loc'.exited # NoReason
                   PROVE  pc' = "finish" /\ ~mem'.managed
        OBVIOUS
      <3>1. CASE Gone
        BY <3>1 DEF Gone, InMemory, Forgotten, Goto
      <3>2. CASE ~Gone
        <4>1. loc.exited # NoReason
          BY <1>1, <3>2, FieldsStep DEF Carries, NoLoc
        <4> QED
          BY <1>1, <4>1, ForgottenKept DEF FinalInv
      <3> QED
        BY <3>1, <3>2
    <2>6. sent' # NoReason => ~mem'.managed /\ ~disk'.managed
      <3>1. CASE sent # NoReason
        BY <1>1, <3>1, ForgottenKept, DiskStep DEF FinalInv
      <3>2. CASE sent = NoReason
        BY <1>1, <3>2, SentStep DEF FinalInv
      <3> QED
        BY <3>1, <3>2
    <2>7. disk'.exit => \/ mem'.exit /\ mem'.reason = disk'.reason
                        \/ ~mem'.managed /\ loc'.exited \in {NoReason, Event(disk')}
      <3>1. CASE disk' = disk
        BY <1>1, <3>1, FinalDisk
      <3> QED
        BY <1>1, <3>1, DiskStep
    <2> QED
      BY <2>1, <2>2, <2>3, <2>4, <2>5, <2>6, <2>7 DEF FinalInv
  <1>2. CASE UNCHANGED vars
    BY <1>2 DEF vars, FinalInv, Event
  <1> QED
    BY <1>1, <1>2

LEMMA FinalInit == Init => FinalInv
  <1> SUFFICES ASSUME Init PROVE FinalInv
    OBVIOUS
  <1>1. mem.managed /\ ~mem.exit /\ disk = mem
    BY DEF Init, Forgotten
  <1> QED
    BY <1>1 DEF Init, FinalInv, NoLoc, Acting, Closing, Replacing, Reviewing

(* For every value of the constants, through failed calls and saves and    *)
(* restarts at any await: an exit on disk keeps its reason as long as the  *)
(* position is on disk, and no event with another reason leaves sync.      *)
THEOREM ReasonIsFinal == Spec => ExitReasonFinal
  <1> DEFINE Final ==
        disk.exit => /\ disk'.managed => disk'.exit /\ disk'.reason = disk.reason
                     /\ sent' \in {NoReason, Event(disk)}
  <1>1. TypeInv /\ StopInv /\ FinalInv /\ [Next]_vars => [Final]_vars
    <2> SUFFICES ASSUME TypeInv, StopInv, FinalInv, Next, disk.exit
                 PROVE  /\ disk'.managed => disk'.exit /\ disk'.reason = disk.reason
                        /\ sent' \in {NoReason, Event(disk)}
      OBVIOUS
    <2>1. disk'.managed => disk'.exit /\ disk'.reason = disk.reason
      BY FinalDisk, DiskStep
    <2>2. disk.managed /\ sent = NoReason
      BY DEF FinalInv, Forgotten
    <2>3. loc.exited \in {NoReason, Event(disk)}
      BY DEF FinalInv, Forgotten
    <2> QED
      BY <2>1, <2>2, <2>3, SentStep
  <1> QED
    BY <1>1, FinalInit, FinalStep, FlatInit, FlatStep, StopInit, StopStep,
       TypeInvariant, PTL DEF Spec, ExitReasonFinal

=============================================================================
