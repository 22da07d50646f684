------------------------- MODULE PendingEntryTypes -------------------------
(***************************************************************************)
(* Type correctness of PendingEntry, for every value of its constants.     *)
(***************************************************************************)
EXTENDS PendingEntry, TLAPS


(* Every id the runtime makes is an id, and none of them is NoId.          *)
LEMMA IdFacts ==
    /\ EntryId \in Ids
    /\ MarginId \in Ids
    /\ FallbackId \in Ids
    /\ \A n \in 1..MaxReprices : RepriceId(n) \in Ids
    /\ NoId \notin Ids
BY DEF Ids, EntryId, MarginId, FallbackId, RepriceId, NoId

(* The empty pending entry and the idle handler's locals are well typed.   *)
LEMMA EmptyTypes == NoEntry \in EntryType /\ NoLoc \in LocType
BY QAssumption, BoundAssumption DEF NoEntry, EntryType, NoLoc, LocType

(***************************************************************************)
(* TypeInv is TypeOK made inductive: an order that may still fill is not   *)
(* full, the position is part of what was bought, a handler at work holds  *)
(* the id of an order, a reprice is within MAX_MAKER_REPRICES, and a race  *)
(* is flattened only for a fill beyond the round trip.                     *)
(***************************************************************************)
ExchangeType ==
    /\ orders \in [Ids -> [status : {"none", "live", "done"}, executed : 0..Q]]
    /\ pos \in Nat
    /\ bought \in Nat
    /\ pos <= bought
    /\ stops \subseteq {"pendingstop", "stop"}
    /\ \A i \in Ids : orders[i].status = "none" => orders[i].executed = 0
    /\ \A i \in Ids : orders[i].status = "live" => orders[i].executed < Q
StatesType == mem \in StateType /\ disk \in StateType
HandlerType ==
    /\ pc \in Labels
    /\ loc \in LocType
    /\ pc # "idle" => loc.entry.id \in Ids
    /\ pc = "rpcancel" => loc.entry.tries < MaxReprices
    /\ pc = "flatrace" => loc.out < loc.exec
CountType ==
    /\ late \in BOOLEAN
    /\ faults \in 0..MaxFaults
    /\ crashes \in 0..MaxCrashes
TypeInv == ExchangeType /\ StatesType /\ HandlerType /\ CountType

(* A step that goes on with well-typed locals leaves the handler well      *)
(* typed.                                                                  *)
LEMMA GotoType ==
    ASSUME NEW label \in Labels, NEW l \in LocType,
           l.entry.id \in Ids \/ label = "idle",
           label = "rpcancel" => l.entry.tries < MaxReprices,
           label = "flatrace" => l.out < l.exec,
           Goto(label, l)
    PROVE  HandlerType'
BY DEF Goto, HandlerType

(* A handler that returns leaves the idle handler.                         *)
LEMMA ReturnType == Return => HandlerType'
BY EmptyTypes DEF Return, Goto, HandlerType, Labels

(* What the handlers do to their locals keeps them well typed and leaves   *)
(* them with an order id: a new id,                                        *)
LEMMA LocId ==
    ASSUME NEW l \in LocType, NEW i \in Ids, NEW n \in 0..MaxReprices
    PROVE  /\ [l EXCEPT !.entry.id = i] \in LocType
           /\ [l EXCEPT !.entry.id = i].entry.id \in Ids
           /\ [l EXCEPT !.entry.id = i, !.retried = TRUE] \in LocType
           /\ [l EXCEPT !.entry.id = i, !.retried = TRUE].entry.id \in Ids
           /\ [l EXCEPT !.entry.tries = n, !.entry.id = i] \in LocType
           /\ [l EXCEPT !.entry.tries = n, !.entry.id = i].entry.id \in Ids
BY DEF LocType, EntryType

(* an executed quantity,                                                   *)
LEMMA LocExec ==
    ASSUME NEW l \in LocType, NEW e \in 0..Q, NEW b \in BOOLEAN
    PROVE  /\ [l EXCEPT !.exec = e] \in LocType
           /\ [l EXCEPT !.exec = e].entry.id = l.entry.id
           /\ [l EXCEPT !.exec = e, !.done = b] \in LocType
           /\ [l EXCEPT !.exec = e, !.done = b].entry.id = l.entry.id
           /\ [l EXCEPT !.exec = e, !.entry.filled = @ \/ b] \in LocType
           /\ [l EXCEPT !.exec = e, !.entry.filled = @ \/ b].entry.id = l.entry.id
           /\ [WithFill(l) EXCEPT !.exec = e] \in LocType
           /\ [WithFill(l) EXCEPT !.exec = e].entry.id = l.entry.id
           /\ [WithFill(l) EXCEPT !.exec = e, !.halting = TRUE] \in LocType
           /\ [WithFill(l) EXCEPT !.exec = e, !.halting = TRUE].entry.id = l.entry.id
BY DEF LocType, EntryType, WithFill

(* a flag,                                                                 *)
LEMMA LocFlags ==
    ASSUME NEW l \in LocType, NEW n \in Nat, NEW b \in BOOLEAN, NEW d \in BOOLEAN
    PROVE  /\ WithFill(l) \in LocType
           /\ WithFill(l).entry.id = l.entry.id
           /\ [l EXCEPT !.entry.stop = TRUE] \in LocType
           /\ [l EXCEPT !.entry.stop = TRUE].entry.id = l.entry.id
           /\ [l EXCEPT !.out = n, !.proven = TRUE] \in LocType
           /\ [l EXCEPT !.out = n, !.proven = TRUE].entry.id = l.entry.id
           /\ [l EXCEPT !.inv = b, !.due = d] \in LocType
           /\ [l EXCEPT !.inv = b, !.due = d].entry = l.entry
BY DEF LocType, EntryType, WithFill

(* or the locals of a new handler.                                         *)
LEMMA LocFresh ==
    ASSUME NEW e \in EntryType, NEW b \in BOOLEAN
    PROVE  /\ [NoLoc EXCEPT !.entry = e, !.snap = b] \in LocType
           /\ [NoLoc EXCEPT !.entry = e, !.snap = b].entry.id = e.id
           /\ [NoLoc EXCEPT !.entry = e] \in LocType
           /\ [NoLoc EXCEPT !.entry = e].entry.id = e.id
BY EmptyTypes DEF LocType, NoLoc

(* An executed quantity and the larger of two are at most Q.               *)
LEMMA ExecType ==
    ASSUME ExchangeType, NEW i \in Ids, NEW e \in 0..Q
    PROVE  /\ orders[i].executed \in 0..Q
           /\ Larger(e, orders[i].executed) \in 0..Q
BY DEF ExchangeType, Larger

(* Every step keeps the handler well typed, one case per group of actions. *)
LEMMA HandlerStep == TypeInv /\ Next => HandlerType'
  <1> SUFFICES ASSUME TypeInv, Next PROVE HandlerType'
    OBVIOUS
  <1> USE DEF Labels
  <1>id. loc \in LocType /\ pc \in Labels /\ (pc # "idle" => loc.entry.id \in Ids)
    BY DEF TypeInv, HandlerType
  <1>exec. loc.exec \in 0..Q /\ loc.entry.tries \in 0..MaxReprices
    BY <1>id DEF LocType, EntryType
  <1>read. pc # "idle" => /\ orders[loc.entry.id].executed \in 0..Q
                          /\ Larger(loc.exec, orders[loc.entry.id].executed) \in 0..Q
    BY <1>id, <1>exec, ExecType DEF TypeInv
  <1>1. CASE Claim
    <2> DEFINE l == [NoLoc EXCEPT !.entry.id = EntryId]
    <2>1. l \in LocType /\ l.entry.id \in Ids
      <3>1. 0 \in 0..MaxReprices
        BY BoundAssumption
      <3> QED
        BY <3>1, EmptyTypes, IdFacts, LocId
    <2>2. Goto("persist", l) \/ Return
      BY <1>1 DEF Claim
    <2> HIDE DEF l
    <2> QED
      BY <2>1, <2>2, ReturnType, GotoType
  <1>2. CASE Persist \/ PostAccepted \/ PostLost \/ StartKeep \/ StartSave
             \/ UndoFlatten \/ UndoDrop \/ FirstFill \/ Drop \/ Forget \/ Halt
             \/ RpSubmit \/ Tail \/ Promote \/ Clean \/ Account
    BY <1>2, <1>id, ReturnType, GotoType
       DEF Persist, PostAccepted, PostLost, StartKeep, StartSave, UndoFlatten,
           UndoDrop, FirstFill, Drop, Forget, Halt, RpSubmit, Tail, Promote,
           Clean, Account, SaveOr, FinishErr
  <1>3. CASE PostRefused
    <2> DEFINE retry == [loc EXCEPT !.entry.id = MarginId, !.retried = TRUE]
               next == [loc EXCEPT !.entry.tries = @ + 1,
                                   !.entry.id = RepriceId(loc.entry.tries + 1)]
    <2>1. retry \in LocType /\ retry.entry.id \in Ids
      BY <1>id, <1>exec, IdFacts, LocId
    <2>2. ASSUME loc.entry.tries < MaxReprices
          PROVE  next \in LocType /\ next.entry.id \in Ids
      <3>1. /\ loc.entry.tries + 1 \in 1..MaxReprices
            /\ loc.entry.tries + 1 \in 0..MaxReprices
        BY <2>2, <1>exec, BoundAssumption
      <3>2. RepriceId(loc.entry.tries + 1) \in Ids
        BY <3>1, IdFacts
      <3> QED
        BY <3>1, <3>2, <1>id, LocId
    <2>3. \/ Goto("forget", loc) \/ Goto("persist", retry) \/ Return
          \/ loc.entry.tries < MaxReprices /\ Goto("persist", next)
      BY <1>3 DEF PostRefused
    <2>4. pc # "idle"
      BY <1>3 DEF PostRefused
    <2> HIDE DEF retry, next
    <2> QED
      BY <2>1, <2>2, <2>3, <2>4, <1>id, ReturnType, GotoType
  <1>4. CASE ReadBack
    BY <1>4, <1>id, <1>read, ReturnType, GotoType, LocExec DEF ReadBack
  <1>5. CASE StartStop \/ UndoStop \/ ProvStop
    BY <1>5, <1>id, ReturnType, GotoType, LocFlags
       DEF StartStop, UndoStop, ProvStop
  <1>6. CASE StartCancel \/ Undo \/ PsCancel
    BY <1>6, <1>id, <1>read, ReturnType, GotoType, LocExec
       DEF StartCancel, Undo, PsCancel
  <1>20. CASE FlatCancel
    <2> DEFINE e == Larger(loc.exec, orders[loc.entry.id].executed)
               l == [loc EXCEPT !.exec = e]
    <2>1. pc # "idle"
      BY <1>20 DEF FlatCancel
    <2>2. l \in LocType /\ l.entry.id \in Ids /\ l.exec = e /\ l.out = loc.out
      BY <2>1, <1>id, <1>read, LocExec DEF LocType
    <2>3. Return \/ Goto("flatcheck", l) \/ (e > loc.out /\ Goto("flatrace", l))
      BY <1>20 DEF FlatCancel
    <2>4. e > loc.out => loc.out < e
      BY <2>1, <1>id, <1>read DEF LocType
    <2> HIDE DEF l
    <2> QED
      BY <2>2, <2>3, <2>4, ReturnType, GotoType
  <1>7. CASE SyncBegin
    <2> DEFINE seen == [NoLoc EXCEPT !.entry = mem.entry, !.snap = pos > 0]
               missed == [NoLoc EXCEPT !.entry = mem.entry]
    <2>1. mem.entry \in EntryType /\ mem.entry.id \in Ids
      BY <1>7 DEF SyncBegin, Tracked, TypeInv, StatesType, StateType, EntryType
    <2>2. (pos > 0) \in BOOLEAN
      OBVIOUS
    <2>3. /\ seen \in LocType /\ seen.entry.id \in Ids
          /\ missed \in LocType /\ missed.entry.id \in Ids
      BY <2>1, <2>2, LocFresh
    <2>4. Goto("read", seen) \/ Goto("read", missed)
      BY <1>7 DEF SyncBegin
    <2> HIDE DEF seen, missed
    <2> QED
      BY <2>3, <2>4, GotoType
  <1>8. CASE ReadOrder \/ Resubmit
    <2> DEFINE o == orders[loc.entry.id]
               l == [loc EXCEPT !.exec = o.executed, !.done = o.status = "done"]
    <2>1. pc # "idle"
      BY <1>8 DEF ReadOrder, Resubmit
    <2>2. l \in LocType /\ l.entry.id \in Ids
      <3>1. (o.status = "done") \in BOOLEAN
        OBVIOUS
      <3> HIDE DEF o
      <3> QED
        BY <3>1, <2>1, <1>id, <1>read DEF LocType, o
    <2>3. \/ Return \/ Goto("resubmit", loc) \/ Goto("decide", loc)
          \/ Goto("firstfill", WithFill(l)) \/ Goto("decide", l)
      BY <1>8 DEF ReadOrder, Resubmit, Observe
    <2> HIDE DEF l
    <2>4. WithFill(l) \in LocType /\ WithFill(l).entry.id \in Ids
      BY <2>2, LocFlags
    <2> QED
      BY <2>1, <2>2, <2>3, <2>4, <1>id, ReturnType, GotoType
  <1>9. CASE DecideFlat
    <2> DEFINE l == [loc EXCEPT !.out = bought - pos, !.proven = TRUE]
    <2>1. bought - pos \in Nat
      BY DEF TypeInv, ExchangeType
    <2>2. pc # "idle"
      BY <1>9 DEF DecideFlat
    <2>3. l \in LocType /\ l.entry.id \in Ids
      BY <2>1, <2>2, <1>id, LocFlags
    <2>4. Goto("clean", l) \/ Goto("flatcancel", l)
      BY <1>9 DEF DecideFlat
    <2> HIDE DEF l
    <2> QED
      BY <2>3, <2>4, GotoType
  <1>10. CASE Decide
    BY <1>10, <1>id, ReturnType, GotoType, LocFlags
       DEF Decide, TypeInv, CountType
  <1>11. CASE FlatRace \/ FlatCheck
    BY <1>11, <1>id, ReturnType, GotoType DEF FlatRace, FlatCheck
  <1>12. CASE Freeze
    <2> DEFINE e == Larger(loc.exec, orders[loc.entry.id].executed)
               l == [loc EXCEPT !.exec = e, !.entry.filled = @ \/ e > 0]
    <2>1. pc # "idle"
      BY <1>12 DEF Freeze
    <2>2. e \in 0..Q
      BY <2>1, <1>read
    <2>3. l \in LocType /\ l.entry.id \in Ids
      <3> HIDE DEF e
      <3> QED
        BY <2>1, <2>2, <1>id DEF LocType, EntryType
    <2>4. Goto("settle", l) \/ Return
      BY <1>12 DEF Freeze
    <2> HIDE DEF l
    <2> QED
      BY <2>3, <2>4, ReturnType, GotoType
  <1>13. CASE SettleFallback \/ Settle
    BY <1>13, <1>id, ReturnType, GotoType DEF SettleFallback, Settle, Conclude
  <1>14. CASE Fallback
    <2>1. pc # "idle"
      BY <1>14 DEF Fallback
    <2>2. ASSUME NEW e \in 0..Q, FallbackDone(e) PROVE HandlerType'
      <3> DEFINE l == [WithFill(loc) EXCEPT !.exec = e]
      <3>1. l \in LocType /\ l.entry.id \in Ids
        BY <2>1, <1>id, LocExec
      <3>2. Goto("drop", l) \/ Goto("finalize", l) \/ Goto("fincancel", l)
        BY <2>2 DEF FallbackDone
      <3> HIDE DEF l
      <3> QED
        BY <3>1, <3>2, GotoType
    <2>3. orders[FallbackId].executed \in 0..Q
      BY IdFacts DEF TypeInv, ExchangeType
    <2>4. Return \/ \E e \in 0..Q : FallbackDone(e)
      BY <1>14, <2>3 DEF Fallback
    <2> QED
      BY <2>2, <2>4, ReturnType
  <1>15. CASE PsKeep
    BY <1>15, <1>id, ReturnType, GotoType DEF PsKeep, SaveOr
  <1>16. CASE RpCancel
    <2> DEFINE e == Larger(loc.exec, orders[loc.entry.id].executed)
               n == loc.entry.tries + 1
               raced == [WithFill(loc) EXCEPT !.exec = e]
               next == [loc EXCEPT !.entry.tries = n, !.entry.id = RepriceId(n)]
    <2>1. pc # "idle"
      BY <1>16 DEF RpCancel
    <2>2. raced \in LocType /\ raced.entry.id \in Ids
      BY <2>1, <1>id, <1>read, LocExec
    <2>3. Return \/ Conclude(raced) \/ Goto("rpsubmit", next)
      BY <1>16 DEF RpCancel
    <2>4. next \in LocType /\ next.entry.id \in Ids
      <3>1. loc.entry.tries < MaxReprices
        BY <1>16 DEF RpCancel, TypeInv, HandlerType
      <3>2. n \in 1..MaxReprices /\ n \in 0..MaxReprices
        BY <3>1, <1>exec, BoundAssumption
      <3>3. RepriceId(n) \in Ids
        BY <3>2, IdFacts
      <3> QED
        BY <2>1, <3>2, <3>3, <1>id, LocId
    <2> HIDE DEF raced, next
    <2> QED
      BY <2>2, <2>3, <2>4, ReturnType, GotoType DEF Conclude
  <1>17. CASE Finalize \/ Takes \/ FinCancel \/ FinFlatten
    BY <1>17, <1>id, ReturnType, GotoType
       DEF Finalize, Takes, FinCancel, FinFlatten, FinishErr
  <1>18. CASE AccountLate
    BY <1>18, <1>id DEF AccountLate, HandlerType
  <1>19. CASE Environment
    <2>1. CASE Crash
      BY <2>1, ReturnType DEF Crash
    <2>2. CASE UNCHANGED <<pc, loc>>
      BY <2>2 DEF TypeInv, HandlerType
    <2> QED
      BY <1>19, <2>1, <2>2
         DEF Environment, Fill, ExchangeEnds, StopTriggers, OperatorCloses,
             Deadline
  <1> QED
    BY <1>1, <1>2, <1>3, <1>4, <1>5, <1>6, <1>20, <1>7, <1>8, <1>9, <1>10,
       <1>11, <1>12, <1>13, <1>14, <1>15, <1>16, <1>17, <1>18, <1>19
       DEF Next, Submission, Progress, Conclusion

(* Every step keeps the exchange well typed: no order executes more than   *)
(* its quantity and the position is never more than what was bought.       *)
LEMMA ExchangeStep == TypeInv /\ Next => ExchangeType'
  <1> SUFFICES ASSUME TypeInv, Next PROVE ExchangeType'
    OBVIOUS
  <1>t. /\ orders \in [Ids -> [status : {"none", "live", "done"}, executed : 0..Q]]
        /\ pos \in Nat /\ bought \in Nat /\ pos <= bought
        /\ stops \subseteq {"pendingstop", "stop"}
        /\ \A i \in Ids : orders[i].status = "none" => orders[i].executed = 0
        /\ \A i \in Ids : orders[i].status = "live" => orders[i].executed < Q
    BY DEF TypeInv, ExchangeType
  <1>n. \A i \in Ids : orders[i].status = "none" => orders[i].executed = 0
    BY <1>t
  <1>id. /\ loc \in LocType /\ (pc # "idle" => loc.entry.id \in Ids)
         /\ loc.exec \in Nat
    BY QAssumption DEF TypeInv, HandlerType, LocType
  <1>1. CASE UNCHANGED <<orders, pos, bought, stops>>
    BY <1>1, <1>t DEF ExchangeType
  <1>2. CASE PostAccepted \/ PostLost \/ Resubmit \/ RpSubmit \/ StartCancel
             \/ Undo \/ FlatCancel \/ Freeze \/ PsCancel \/ RpCancel
    <2>1. pc # "idle" /\ UNCHANGED <<pos, bought, stops>>
      BY <1>2
         DEF PostAccepted, PostLost, Resubmit, RpSubmit, StartCancel, Undo,
             FlatCancel, Freeze, PsCancel, RpCancel
    <2>2. UNCHANGED orders \/ Accepted(loc.entry.id) \/ Canceled(loc.entry.id)
      BY <1>2
         DEF PostAccepted, PostLost, Resubmit, RpSubmit, StartCancel, Undo,
             FlatCancel, Freeze, PsCancel, RpCancel, Lost, Known, Refused,
             Observe, Frozen, NotFrozen
    <2> DEFINE i == loc.entry.id
    <2>3. i \in Ids
      BY <2>1, <1>id
    <2>4. CASE UNCHANGED orders
      BY <2>1, <2>4, <1>1
    <2> HIDE DEF i
    <2>5. CASE Accepted(i)
      <3>0. orders[i].status = "none" /\ orders' = [orders EXCEPT ![i].status = "live"]
        BY <2>5 DEF Accepted
      <3>1. orders[i].executed = 0
        BY <2>3, <3>0, <1>n
      <3>2. orders' \in [Ids -> [status : {"none", "live", "done"}, executed : 0..Q]]
        BY <3>0, <1>t
      <3>3. /\ \A j \in Ids : orders'[j].status = "none" => orders'[j].executed = 0
            /\ \A j \in Ids : orders'[j].status = "live" => orders'[j].executed < Q
        BY <2>3, <3>0, <3>1, <1>t, QAssumption
      <3> QED
        BY <2>1, <3>2, <3>3, <1>t DEF ExchangeType
    <2>6. CASE Canceled(i)
      <3> DEFINE s == IF orders[i].status = "none" THEN "none" ELSE "done"
      <3>1. orders' = [orders EXCEPT ![i].status = s]
        BY <2>6 DEF Canceled
      <3>2. s \in {"none", "done"} /\ (s = "none" => orders[i].status = "none")
        OBVIOUS
      <3> HIDE DEF s
      <3>3. orders' \in [Ids -> [status : {"none", "live", "done"}, executed : 0..Q]]
        BY <2>3, <3>1, <3>2, <1>t
      <3>4. /\ \A j \in Ids : orders'[j].status = "none" => orders'[j].executed = 0
            /\ \A j \in Ids : orders'[j].status = "live" => orders'[j].executed < Q
        BY <2>3, <3>1, <3>2, <1>t
      <3> QED
        BY <2>1, <3>3, <3>4, <1>t DEF ExchangeType
    <2> QED
      BY <2>2, <2>4, <2>5, <2>6 DEF i
  <1>3. CASE FinCancel \/ Clean
    <2>1. UNCHANGED orders \/ AllCanceled
      BY <1>3 DEF FinCancel, Clean
    <2>2. UNCHANGED <<pos, bought>> /\ stops' \in {stops, {}}
      BY <1>3 DEF FinCancel, Clean
    <2> QED
      BY <2>1, <2>2, <1>t DEF ExchangeType, AllCanceled
  <1>4. CASE StartStop \/ UndoStop \/ ProvStop \/ Finalize \/ Drop \/ UndoDrop
    <2>1. UNCHANGED <<orders, pos, bought>>
      BY <1>4 DEF StartStop, UndoStop, ProvStop, Finalize, Drop, UndoDrop
    <2>2. stops' \subseteq {"pendingstop", "stop"}
      BY <1>4, <1>t
         DEF StartStop, UndoStop, ProvStop, Finalize, Drop, UndoDrop,
             StopPlaced, StopFailed
    <2> QED
      BY <2>1, <2>2, <1>t DEF ExchangeType
  <1>5. CASE UndoFlatten \/ FlatRace \/ FinFlatten
    <2>1. UNCHANGED <<orders, bought, stops>>
      BY <1>5 DEF UndoFlatten, FlatRace, FinFlatten
    <2>2. CASE UndoFlatten
      BY <2>1, <2>2, <1>t, <1>id DEF UndoFlatten, Less, ExchangeType
    <2>3. CASE FlatRace
      <3>1. loc.exec - loc.out \in Nat
        BY <1>id, <2>3 DEF FlatRace, TypeInv, HandlerType, LocType
      <3> QED
      BY <2>1, <2>3, <1>t, <3>1 DEF FlatRace, Less, ExchangeType
    <2>4. CASE FinFlatten
      BY <2>1, <2>4, <1>t, <1>id DEF FinFlatten, Less, ExchangeType
    <2> QED
      BY <1>5, <2>2, <2>3, <2>4
  <1>6. CASE Fallback
    <2>1. CASE UNCHANGED <<orders, pos, bought>>
      BY <2>1, <1>6, <1>1 DEF Fallback
    <2>2. ASSUME NEW e \in 0..Q,
                 orders' = [orders EXCEPT ![FallbackId] = [status |-> "done", executed |-> e]],
                 pos' = pos + e, bought' = bought + e
          PROVE  ExchangeType'
      <3>1. e \in Nat /\ FallbackId \in Ids
        BY QAssumption, IdFacts
      <3>2. stops' = stops
        BY <1>6 DEF Fallback
      <3>3. orders' \in [Ids -> [status : {"none", "live", "done"}, executed : 0..Q]]
        BY <2>2, <3>1, <1>t
      <3>4. /\ \A j \in Ids : orders'[j].status = "none" => orders'[j].executed = 0
            /\ \A j \in Ids : orders'[j].status = "live" => orders'[j].executed < Q
        BY <2>2, <3>1, <1>t
      <3> QED
        BY <2>2, <3>1, <3>2, <3>3, <3>4, <1>t DEF ExchangeType
    <2> QED
      BY <1>6, <2>1, <2>2 DEF Fallback, Refused, Known
  <1>7. ASSUME NEW i \in Ids, Fill(i) \/ ExchangeEnds(i) PROVE ExchangeType'
    <2>1. CASE Fill(i)
      <3> DEFINE e == orders[i].executed + 1
      <3>1. orders[i].status = "live" /\ orders[i].executed \in 0..Q
        BY <2>1, <1>t DEF Fill
      <3>2. e \in 1..Q /\ (e # Q => e < Q)
        BY <3>1, <1>t, QAssumption
      <3>3. orders' = [orders EXCEPT ![i] =
                  [status |-> IF e = Q THEN "done" ELSE "live", executed |-> e]]
        BY <2>1 DEF Fill
      <3> HIDE DEF e
      <3>4. orders' \in [Ids -> [status : {"none", "live", "done"}, executed : 0..Q]]
        BY <3>2, <3>3, <1>t
      <3>5. /\ \A j \in Ids : orders'[j].status = "none" => orders'[j].executed = 0
            /\ \A j \in Ids : orders'[j].status = "live" => orders'[j].executed < Q
        BY <3>2, <3>3, <1>t
      <3> QED
        BY <2>1, <3>4, <3>5, <1>t DEF Fill, ExchangeType
    <2>2. CASE ExchangeEnds(i)
      BY <2>2, <1>t DEF ExchangeEnds, ExchangeType
    <2> QED
      BY <1>7, <2>1, <2>2
  <1>8. ASSUME OperatorCloses \/ \E s \in stops : StopTriggers(s)
        PROVE  ExchangeType'
    <2>1. UNCHANGED <<orders, bought>> /\ pos' = 0 /\ stops' \subseteq stops
      BY <1>8 DEF OperatorCloses, StopTriggers
    <2> QED
      BY <2>1, <1>t DEF ExchangeType
  <1>9. CASE Submission
    BY <1>9, <1>1, <1>2, <1>4, <1>5
       DEF Submission, exchange, Persist, PostRefused, Refused, ReadBack,
           StartKeep, StartSave
  <1>10. CASE Progress
    BY <1>10, <1>1, <1>2, <1>4, <1>5, <1>6
       DEF Progress, exchange, SyncBegin, ReadOrder, FirstFill, DecideFlat,
           Decide, FlatCheck, SettleFallback, Settle, Forget, PsKeep, Halt,
           Tail
  <1>11. CASE Claim \/ Conclusion
    BY <1>11, <1>1, <1>3, <1>4, <1>5
       DEF Conclusion, exchange, Claim, Takes, Promote, Account, AccountLate
  <1>12. CASE Environment
    BY <1>12, <1>1, <1>7, <1>8 DEF Environment, exchange, Deadline, Crash
  <1> QED
    BY <1>9, <1>10, <1>11, <1>12 DEF Next

(* Every step keeps DemoState well typed, in memory and on disk.           *)
LEMMA StatesStep == TypeInv /\ Next => StatesType'
  <1> SUFFICES ASSUME TypeInv, Next PROVE StatesType'
    OBVIOUS
  <1>t. mem \in StateType /\ disk \in StateType /\ loc.entry \in EntryType /\ loc.exec \in 0..Q
    BY DEF TypeInv, StatesType, HandlerType, LocType
  <1>1. CASE UNCHANGED <<mem, disk>>
    BY <1>1, <1>t DEF StatesType
  <1>2. CASE Crash
    BY <1>2, <1>t DEF Crash, StatesType
  <1>3. ASSUME mem' \in StateType, disk' \in {disk, mem'} PROVE StatesType'
    BY <1>3, <1>t DEF StatesType
  <1>4. CASE Claim
    BY <1>4, <1>3, <1>t DEF Claim, SaveOk, StateType
  <1>5. CASE Persist \/ StartKeep \/ StartSave \/ FirstFill \/ PsKeep \/ Tail
    <2>1. [mem EXCEPT !.entry = loc.entry] \in StateType
      BY <1>t DEF StateType
    <2> QED
    BY <2>1, <1>5, <1>3, <1>t
       DEF Persist, StartKeep, StartSave, FirstFill, PsKeep, Tail, SaveOk,
           SaveOr
  <1>6. CASE UndoDrop \/ Forget
    <2>1. [mem EXCEPT !.entry = NoEntry] \in StateType
      BY <1>t, EmptyTypes DEF StateType
    <2> QED
    BY <2>1, <1>6, <1>3, <1>t DEF UndoDrop, Forget, SaveOk
  <1>7. CASE Halt \/ Promote
    <2>1. /\ [mem EXCEPT !.halted = TRUE, !.entry = IF loc.halting THEN @ ELSE loc.entry]
               \in StateType
          /\ [mem EXCEPT !.managed = TRUE, !.entry = NoEntry] \in StateType
      BY <1>t, EmptyTypes DEF StateType
    <2> QED
    BY <2>1, <1>7, <1>3, <1>t DEF Halt, Promote, SaveOk
  <1>8. CASE Account
    <2> DEFINE s(r, n) == [mem EXCEPT !.entry = NoEntry, !.outcome = r, !.owed = n]
    <2>1. \A r \in {"recorded", "owed"} : \A n \in 0..Q : s(r, n) \in StateType
      BY <1>t, EmptyTypes DEF StateType
    <2>2. \E r \in {"recorded", "owed"} :
             mem' = s(r, IF r = "owed" THEN loc.exec ELSE 0)
      BY <1>8 DEF Account
    <2>3. PICK r \in {"recorded", "owed"} :
             mem' = s(r, IF r = "owed" THEN loc.exec ELSE 0)
      BY <2>2, Zenon
    <2>4. (IF r = "owed" THEN loc.exec ELSE 0) \in 0..Q
      BY <1>t, QAssumption
    <2> HIDE DEF s
    <2>5. s(r, IF r = "owed" THEN loc.exec ELSE 0) \in StateType
      BY <2>1, <2>4
    <2>6. disk' \in {disk, mem'}
      BY <1>8, Zenon DEF Account
    <2> QED
      BY <2>3, <2>5, <2>6, <1>3
  <1>9. CASE AccountLate
    <2>0. 0 \in 0..Q
      BY QAssumption
    <2>1. [mem EXCEPT !.outcome = "recorded", !.owed = 0] \in StateType
      BY <2>0, <1>t DEF StateType
    <2> QED
    BY <2>1, <1>9, <1>3, <1>t DEF AccountLate, SaveOk
  <1> QED
    BY <1>1, <1>2, <1>4, <1>5, <1>6, <1>7, <1>8, <1>9
       DEF Next, Submission, Progress, Conclusion, Environment, state,
           PostAccepted, PostLost, PostRefused, ReadBack, StartStop,
           StartCancel, Undo, UndoStop, UndoFlatten, SyncBegin, ReadOrder,
           Resubmit, DecideFlat, Decide, FlatCancel, FlatRace, FlatCheck,
           Freeze, SettleFallback, Settle, Fallback, Drop, ProvStop, PsCancel,
           RpCancel, RpSubmit, Finalize, Takes, FinCancel, FinFlatten, Clean,
           Fill, ExchangeEnds, StopTriggers, OperatorCloses, Deadline

(* Every step keeps the bounded counters within their bounds.              *)
LEMMA CountStep == TypeInv /\ Next => CountType'
  <1> SUFFICES ASSUME TypeInv, Next PROVE CountType'
    OBVIOUS
  <1>t. late \in BOOLEAN /\ faults \in 0..MaxFaults /\ crashes \in 0..MaxCrashes
    BY DEF TypeInv, CountType
  <1>1. faults' \in 0..MaxFaults
    <2>1. Fine => faults' \in 0..MaxFaults
      BY <1>t DEF Fine
    <2>2. Fails => faults' \in 0..MaxFaults
      BY <1>t, BoundAssumption DEF Fails
    <2>3. CASE Claim \/ Submission
      BY <2>1, <2>2, <2>3
         DEF Claim, Submission, Persist, PostAccepted, PostLost, PostRefused,
             ReadBack, StartStop, StartCancel, StartKeep, StartSave, Undo,
             UndoStop, UndoFlatten, UndoDrop, SaveOk, SaveOr, Lost, Frozen,
             NotFrozen, StopPlaced, StopFailed
    <2>4. CASE Progress
      BY <2>1, <2>2, <2>4
         DEF Progress, SyncBegin, ReadOrder, Observe, Resubmit, FirstFill,
             DecideFlat, Decide, FlatCancel, FlatRace, FlatCheck, Freeze,
             SettleFallback, Settle, Fallback, Drop, Forget, ProvStop,
             PsCancel, PsKeep, Halt, RpCancel, RpSubmit, Tail, SaveOk, SaveOr,
             Lost, Frozen, NotFrozen, StopPlaced, StopFailed
    <2>5. CASE Conclusion
      BY <2>1, <2>2, <2>5
         DEF Conclusion, Finalize, Takes, Promote, FinCancel, FinFlatten,
             Clean, Account, AccountLate, SaveOk, StopPlaced, StopFailed
    <2>6. CASE Environment
      BY <2>6, <1>t
         DEF Environment, Fill, ExchangeEnds, StopTriggers, OperatorCloses,
             Deadline, Crash
    <2> QED
      BY <2>3, <2>4, <2>5, <2>6 DEF Next
  <1>2. late' \in BOOLEAN /\ crashes' \in 0..MaxCrashes
    <2>1. CASE UNCHANGED <<late, crashes>>
      BY <2>1, <1>t
    <2>2. CASE Deadline
      BY <2>2, <1>t DEF Deadline
    <2>3. CASE Crash
      BY <2>3, <1>t, BoundAssumption DEF Crash
    <2> QED
      BY <2>1, <2>2, <2>3
         DEF Next, Submission, Progress, Conclusion, Environment, clock, Claim,
             Persist, PostAccepted, PostLost, PostRefused, ReadBack, StartStop,
             StartCancel, StartKeep, StartSave, Undo, UndoStop, UndoFlatten,
             UndoDrop, SyncBegin, ReadOrder, Resubmit, FirstFill, DecideFlat,
             Decide, FlatCancel, FlatRace, FlatCheck, Freeze, SettleFallback,
             Settle, Fallback, Drop, Forget, ProvStop, PsCancel, PsKeep, Halt,
             RpCancel, RpSubmit, Tail, Finalize, Takes, Promote, FinCancel,
             FinFlatten, Clean, Account, AccountLate, Fill, ExchangeEnds,
             StopTriggers, OperatorCloses
  <1> QED
    BY <1>1, <1>2 DEF CountType

(* The initial states are well typed.                                      *)
LEMMA TypeInit == Init => TypeInv
  <1> SUFFICES ASSUME Init PROVE TypeInv
    OBVIOUS
  <1>1. ExchangeType
    <2>1. 0 \in 0..Q
      BY QAssumption
    <2>2. orders \in [Ids -> [status : {"none", "live", "done"}, executed : 0..Q]]
      BY <2>1 DEF Init
    <2>3. \A i \in Ids : orders[i].status = "none" /\ orders[i].executed = 0
      BY DEF Init
    <2> QED
      BY <2>2, <2>3 DEF Init, ExchangeType
  <1>2. StatesType
    <2>1. 0 \in 0..Q
      BY QAssumption
    <2> QED
      BY <2>1, EmptyTypes DEF Init, StatesType, StateType
  <1>3. HandlerType
    BY EmptyTypes DEF Init, HandlerType, Labels
  <1>4. CountType
    <2>1. 0 \in 0..MaxFaults /\ 0 \in 0..MaxCrashes
      BY BoundAssumption
    <2> QED
      BY <2>1 DEF Init, CountType
  <1> QED
    BY <1>1, <1>2, <1>3, <1>4 DEF TypeInv

(* TypeInv is inductive.                                                   *)
LEMMA TypeStep == TypeInv /\ [Next]_vars => TypeInv'
  <1>1. CASE Next
    BY <1>1, ExchangeStep, StatesStep, HandlerStep, CountStep DEF TypeInv
  <1>2. CASE UNCHANGED vars
    BY <1>2 DEF vars, TypeInv, ExchangeType, StatesType, HandlerType, CountType
  <1> QED
    BY <1>1, <1>2

(* TypeInv holds in every reachable state.                                 *)
THEOREM TypeInvariant == Spec => []TypeInv
BY TypeInit, TypeStep, PTL DEF Spec

(* Type correctness of the maker-entry lifecycle: in particular no order   *)
(* id outside the candidate's finite set is ever used and no reprice       *)
(* exceeds MAX_MAKER_REPRICES.                                             *)
THEOREM TypeCorrect == Spec => []TypeOK
  <1>1. TypeInv => TypeOK
    BY DEF TypeInv, TypeOK, ExchangeType, StatesType, HandlerType, CountType
  <1> QED
    BY <1>1, TypeInvariant, PTL

=============================================================================
