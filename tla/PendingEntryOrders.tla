------------------------- MODULE PendingEntryOrders -------------------------
(***************************************************************************)
(* There is never a second entry: the proofs, for every value of the       *)
(* constants and every interleaving of fills, failures and crashes, that   *)
(* at most one entry order of a candidate rests on the exchange, that none *)
(* is submitted before its claim is on disk, and that all orders of a      *)
(* candidate together execute no more than the quantity sized for it.      *)
(***************************************************************************)
EXTENDS PendingEntryTypes

(***************************************************************************)
(* The inductive invariant, in parts.  Where save() succeeds, memory and   *)
(* disk agree and the undo path is never entered (SavedInv); whatever      *)
(* reached the exchange was claimed before (ClaimInv); a new id is only    *)
(* ever submitted while no order rests (LiveInv); and the pending entry    *)
(* names an order the exchange knows, unless it is about to be submitted   *)
(* (WorkInv), so a resubmission after a failed read adds no second order.  *)
(***************************************************************************)
UndoLabels == {"undo", "undostop", "undoflatten", "undodrop"}
Unplaced == {"idle", "persist", "post", "read", "resubmit", "forget"}

(* A restart forgets nothing if save() succeeds, and there is none if no   *)
(* process dies.                                                           *)
Durable == "save" \notin Faults \/ MaxCrashes = 0

SavedInv == "save" \notin Faults => disk = mem /\ pc \notin UndoLabels

ClaimInv ==
    /\ \A i \in Ids : orders[i].status # "none" => mem.seen
    /\ pc # "idle" => mem.seen
    /\ Tracked(mem) => mem.seen

LiveInv ==
    /\ SingleLiveOrder
    /\ pc \in {"persist", "post", "rpsubmit"} => Live = {}
    /\ Tracked(mem) /\ orders[mem.entry.id].status = "none" => Live = {}
    /\ pc \in {"firstfill", "decide", "rpcancel"} /\ ~loc.done => Live \subseteq {loc.entry.id}
    /\ pc = "rpcancel" => ~loc.done

WorkInv ==
    /\ pc \in {"post", "read", "resubmit"} => mem.entry.id = loc.entry.id
    /\ pc \notin Unplaced \cup {"halt"} =>
          Tracked(mem) /\ orders[mem.entry.id].status # "none"
    /\ pc \notin Unplaced \cup {"rpsubmit"} => orders[loc.entry.id].status # "none"

IInv == TypeInv /\ SavedInv /\ ClaimInv /\ LiveInv /\ WorkInv

(* When saves succeed every step leaves memory and disk equal.             *)
LEMMA SavedStep == SavedInv /\ Next => SavedInv'
  <1> SUFFICES ASSUME SavedInv, Next, "save" \notin Faults PROVE SavedInv'
    BY DEF SavedInv
  <1> USE DEF SavedInv, UndoLabels, Goto
  <1>r. Return => pc' \notin UndoLabels
    BY DEF Return
  <1>1. CASE UNCHANGED <<mem, disk>> /\ pc' \notin UndoLabels
    BY <1>1
  <1>2. CASE Claim \/ Persist \/ StartKeep \/ StartSave
    BY <1>2, <1>r DEF Claim, Persist, StartKeep, StartSave, SaveOk, SaveOr
  <1>3. CASE FirstFill \/ Forget \/ PsKeep \/ Halt \/ Tail
    BY <1>3, <1>r DEF FirstFill, Forget, PsKeep, Halt, Tail, SaveOk, SaveOr
  <1>4. CASE Promote \/ Account \/ AccountLate
    BY <1>4, <1>r DEF Promote, Account, AccountLate, SaveOk
  <1>5. CASE PostAccepted \/ PostLost \/ PostRefused \/ ReadBack \/ StartStop
             \/ StartCancel
    BY <1>5, <1>1, <1>r
       DEF PostAccepted, PostLost, PostRefused, ReadBack, StartStop,
           StartCancel, state
  <1>6. CASE Undo \/ UndoStop \/ UndoFlatten \/ UndoDrop
    BY <1>6 DEF Undo, UndoStop, UndoFlatten, UndoDrop
  <1>7. CASE SyncBegin \/ ReadOrder \/ Resubmit \/ DecideFlat \/ Decide
    BY <1>7, <1>1, <1>r
       DEF SyncBegin, ReadOrder, Resubmit, Observe, DecideFlat, Decide, state
  <1>8. CASE FlatCancel \/ FlatRace \/ FlatCheck \/ Freeze \/ SettleFallback
             \/ Settle
    BY <1>8, <1>1, <1>r
       DEF FlatCancel, FlatRace, FlatCheck, Freeze, SettleFallback, Settle,
           Conclude, state
  <1>9. CASE Fallback \/ Drop \/ ProvStop \/ PsCancel \/ RpCancel \/ RpSubmit
    BY <1>9, <1>1, <1>r
       DEF Fallback, FallbackDone, Drop, ProvStop, PsCancel, RpCancel,
           RpSubmit, Conclude, state
  <1>10. CASE Finalize \/ Takes \/ FinCancel \/ FinFlatten \/ Clean
    BY <1>10, <1>1, <1>r
       DEF Finalize, Takes, FinCancel, FinFlatten, FinishErr, Clean, state
  <1>11. CASE Environment
    BY <1>11, <1>1, <1>r
       DEF Environment, Fill, ExchangeEnds, StopTriggers, OperatorCloses,
           Deadline, Crash, state
  <1> QED
    BY <1>2, <1>3, <1>4, <1>5, <1>6, <1>7, <1>8, <1>9, <1>10, <1>11
       DEF Next, Submission, Progress, Conclusion

(* A crash finds on disk what memory held.                                 *)
LEMMA NoCrash ==
    ASSUME Durable
    PROVE  TypeInv /\ SavedInv /\ Crash => disk = mem
BY BoundAssumption DEF Durable, SavedInv, TypeInv, CountType, Crash

(***************************************************************************)
(* What a step may do to the orders and to what was bought: nothing,       *)
(* accept the order the handler submits, end some orders, fill one by one  *)
(* unit, or execute the taker fallback.                                    *)
(***************************************************************************)
OrdersEnd ==
    /\ UNCHANGED bought
    /\ \A i \in Ids : /\ orders'[i].executed = orders[i].executed
                      /\ orders'[i].status \in {orders[i].status, "done"}
                      /\ orders[i].status = "none" <=> orders'[i].status = "none"

OrderFills(i) ==
    /\ orders[i].status = "live" /\ orders'[i].status \in {"live", "done"}
    /\ orders'[i].executed = orders[i].executed + 1
    /\ bought' = bought + 1
    /\ \A j \in Ids \ {i} : orders'[j] = orders[j]

FallbackFills(e) ==
    /\ pc = "fallback" /\ orders[FallbackId].status = "none"
    /\ orders' = [orders EXCEPT ![FallbackId] = [status |-> "done", executed |-> e]]
    /\ bought' = bought + e

OrdersMove ==
    \/ UNCHANGED <<orders, bought>>
    \/ /\ pc \in {"post", "resubmit", "rpsubmit"}
       /\ Accepted(loc.entry.id) /\ UNCHANGED bought
    \/ OrdersEnd
    \/ \E i \in Ids : OrderFills(i)
    \/ \E e \in 0..Q : FallbackFills(e)

(* Every step moves the orders as OrdersMove says.                         *)
LEMMA MoveOfOrders == TypeInv /\ Next => OrdersMove
  <1> SUFFICES ASSUME TypeInv, Next PROVE OrdersMove
    OBVIOUS
  <1>t. orders \in [Ids -> [status : {"none", "live", "done"}, executed : 0..Q]]
    BY DEF TypeInv, ExchangeType
  <1>c. ASSUME NEW i \in Ids, Canceled(i), UNCHANGED bought PROVE OrdersMove
    BY <1>c, <1>t DEF Canceled, OrdersEnd, OrdersMove
  <1>a. ASSUME AllCanceled, UNCHANGED bought PROVE OrdersMove
    BY <1>a, <1>t DEF AllCanceled, OrdersEnd, OrdersMove
  <1>id. pc # "idle" => loc.entry.id \in Ids
    BY DEF TypeInv, HandlerType
  <1>1. CASE UNCHANGED <<orders, bought>>
    BY <1>1 DEF OrdersMove
  <1>2. CASE PostAccepted \/ PostLost \/ Resubmit \/ RpSubmit
    BY <1>2
       DEF PostAccepted, PostLost, Resubmit, RpSubmit, Lost, Known, Refused,
           Observe, OrdersMove
  <1>3. CASE StartCancel \/ Undo \/ FlatCancel \/ Freeze \/ PsCancel
             \/ RpCancel
    BY <1>3, <1>1, <1>c, <1>id
       DEF StartCancel, Undo, FlatCancel, Freeze, PsCancel, RpCancel, Frozen,
           NotFrozen
  <1>4. CASE FinCancel \/ Clean
    BY <1>4, <1>1, <1>a DEF FinCancel, Clean
  <1>5. CASE Fallback
    <2>1. UNCHANGED <<orders, bought>> \/ \E e \in 0..Q : FallbackFills(e)
      BY <1>5 DEF Fallback, FallbackFills, Refused, Known
    <2> QED
      BY <2>1, <1>1 DEF OrdersMove
  <1>6. ASSUME NEW i \in Ids, Fill(i) PROVE OrdersMove
    <2>1. OrderFills(i)
      BY <1>6, <1>t DEF Fill, OrderFills
    <2> QED
      BY <2>1 DEF OrdersMove
  <1>7. ASSUME NEW i \in Ids, ExchangeEnds(i) PROVE OrdersMove
    BY <1>7, <1>t DEF ExchangeEnds, OrdersEnd, OrdersMove
  <1>8. CASE Claim \/ Submission
    BY <1>8, <1>1, <1>2, <1>3
       DEF Claim, Submission, exchange, Persist, PostRefused, Refused,
           ReadBack, StartStop, StartKeep, StartSave, UndoStop, UndoFlatten,
           UndoDrop
  <1>9. CASE Progress
    BY <1>9, <1>1, <1>2, <1>3, <1>5
       DEF Progress, exchange, SyncBegin, ReadOrder, FirstFill, DecideFlat,
           Decide, FlatRace, FlatCheck, SettleFallback, Settle, Drop, Forget,
           ProvStop, PsKeep, Halt, Tail
  <1>10. CASE Conclusion
    BY <1>10, <1>1, <1>4
       DEF Conclusion, exchange, Finalize, Takes, Promote, FinFlatten, Account,
           AccountLate
  <1>11. CASE Environment
    BY <1>11, <1>1, <1>6, <1>7
       DEF Environment, exchange, StopTriggers, OperatorCloses, Deadline, Crash
  <1> QED
    BY <1>8, <1>9, <1>10, <1>11 DEF Next

(* An order done stays as it is, and no order is unknown again.            *)
LEMMA OrdersLast == TypeInv /\ OrdersMove =>
    \A i \in Ids :
       /\ orders[i].status # "none" => orders'[i].status # "none"
       /\ orders[i].status = "done" =>
             orders'[i].status = "done" /\ orders'[i].executed = orders[i].executed
  <1> SUFFICES ASSUME TypeInv, OrdersMove, NEW i \in Ids
      PROVE  /\ orders[i].status # "none" => orders'[i].status # "none"
             /\ orders[i].status = "done" =>
                   orders'[i].status = "done" /\ orders'[i].executed = orders[i].executed
    OBVIOUS
  <1>t. orders \in [Ids -> [status : {"none", "live", "done"}, executed : 0..Q]]
    BY DEF TypeInv, ExchangeType
  <1>1. CASE UNCHANGED orders
    BY <1>1
  <1>2. CASE Accepted(loc.entry.id)
    BY <1>2, <1>t DEF Accepted
  <1>3. CASE OrdersEnd
    BY <1>3 DEF OrdersEnd
  <1>4. ASSUME NEW j \in Ids, OrderFills(j)
        PROVE  /\ orders[i].status # "none" => orders'[i].status # "none"
               /\ orders[i].status = "done" => orders'[i] = orders[i]
    BY <1>4 DEF OrderFills
  <1>5. ASSUME NEW e \in 0..Q, FallbackFills(e)
        PROVE  /\ orders[i].status # "none" => orders'[i].status # "none"
               /\ orders[i].status = "done" => orders'[i] = orders[i]
    BY <1>5, <1>t, IdFacts DEF FallbackFills
  <1> QED
    BY <1>1, <1>2, <1>3, <1>4, <1>5 DEF OrdersMove

(***************************************************************************)
(* How a step moves the handler, its order id and the pending entry.  At a *)
(* Steady label the pending entry may name an id the exchange has not seen.*)
(***************************************************************************)
Steady == {"idle", "persist", "post", "read", "resubmit", "forget", "rpsubmit"}

Flow ==
    \/ /\ pc' = "idle" /\ mem'.entry \in {mem.entry, NoEntry}
       /\ pc = "tail" => MaxCrashes # 0
       /\ pc = "rpsubmit" => UNCHANGED orders \/ "lost" \in Faults
    \/ /\ pc = "persist" \/ pc \notin Steady
       /\ pc = "halt" => ~loc.halting
       /\ pc' = "idle" /\ mem'.entry = loc.entry /\ UNCHANGED orders
    \/ UNCHANGED <<pc, loc>> /\ mem'.entry = mem.entry /\ Live' \subseteq Live
    \/ /\ pc = "idle" /\ pc' = "persist" /\ loc'.entry.id # FallbackId
       /\ UNCHANGED orders /\ mem'.entry = mem.entry /\ ~mem.seen
    \/ pc = "idle" /\ pc' = "read" /\ loc'.entry = mem.entry /\ UNCHANGED <<orders, mem>>
    \/ pc = "persist" /\ pc' = "post" /\ UNCHANGED <<orders, loc>> /\ mem'.entry = loc.entry
    \/ /\ pc = "post" /\ pc' = "persist" /\ loc'.entry.id # FallbackId
       /\ UNCHANGED <<orders, mem>>
    \/ pc = "post" /\ pc' = "forget" /\ UNCHANGED <<mem, loc>>
    \/ /\ pc = "post" /\ pc' = "readback" /\ UNCHANGED <<mem, loc>>
       /\ orders'[loc.entry.id].status # "none"
    \/ pc = "read" /\ pc' = "resubmit" /\ UNCHANGED <<mem, loc, orders>>
    \/ /\ pc \in {"read", "resubmit"} /\ pc' \in {"firstfill", "decide"}
       /\ UNCHANGED <<mem, orders>>
       /\ loc'.entry.id = loc.entry.id /\ orders[loc.entry.id].status # "none"
       /\ loc'.done = (orders[loc.entry.id].status = "done")
    \/ pc = "resubmit" /\ pc' = "decide" /\ UNCHANGED <<mem, loc>> /\ Accepted(loc.entry.id)
    \/ pc = "firstfill" /\ pc' = "decide" /\ UNCHANGED <<orders, loc>> /\ mem'.entry = loc.entry
    \/ /\ pc = "decide" /\ pc' = "rpcancel" /\ UNCHANGED <<mem, orders>>
       /\ loc'.entry = loc.entry /\ ~loc.done /\ ~loc'.done
    \/ /\ pc = "rpcancel" /\ pc' = "rpsubmit" /\ loc'.entry.id # FallbackId
       /\ loc.entry.tries < MaxReprices /\ UNCHANGED mem
       /\ Canceled(loc.entry.id) /\ orders[loc.entry.id].executed = 0
    \/ /\ pc = "rpsubmit" /\ pc' = "tail" /\ UNCHANGED <<mem, loc>>
       /\ orders'[loc.entry.id].status # "none"
    \/ /\ pc = "settle" /\ pc' = "fallback" /\ UNCHANGED <<orders, mem, loc>>
       /\ loc.exec = 0 /\ TakerFallback
    \/ /\ pc = "account" /\ pc' = "halt" /\ loc.halting
       /\ mem'.entry = NoEntry /\ UNCHANGED <<orders, loc>>
    \/ /\ pc \notin Steady \cup {"halt", "tail"}
       /\ pc' \notin (Steady \ {"forget"}) \cup {"firstfill", "decide", "rpcancel", "fallback"}
       /\ loc'.entry.id = loc.entry.id
       /\ \/ mem'.entry = mem.entry
          \/ mem'.entry = loc.entry /\ UNCHANGED orders

(* Every step flows as Flow says if no restart forgets anything.           *)
LEMMA FlowStep ==
    ASSUME Durable
    PROVE  TypeInv /\ SavedInv /\ Next => Flow
  <1> SUFFICES ASSUME TypeInv, SavedInv, Next PROVE Flow
    OBVIOUS
  <1> USE DEF Steady
  <1>t. loc \in LocType /\ mem \in StateType
    BY DEF TypeInv, HandlerType, StatesType
  <1>o. orders \in [Ids -> [status : {"none", "live", "done"}, executed : 0..Q]]
    BY DEF TypeInv, ExchangeType
  <1>id. pc # "idle" => loc.entry.id \in Ids
    BY DEF TypeInv, HandlerType
  <1>d. Crash => disk = mem /\ MaxCrashes # 0 /\ UNCHANGED orders
    <2>1. crashes \in 0..MaxCrashes
      BY DEF TypeInv, CountType
    <2> QED
      BY <2>1, NoCrash, BoundAssumption DEF Crash, exchange
  <1>p. ASSUME pc # "idle", Accepted(loc.entry.id) \/ Known(loc.entry.id)
        PROVE  orders'[loc.entry.id].status # "none"
    BY <1>p, <1>o, <1>id DEF Accepted, Known
  <1>e. /\ \A e \in 0..Q : [loc EXCEPT !.exec = e].entry = loc.entry
        /\ WithFill(loc).entry.id = loc.entry.id
        /\ \A e \in 0..Q : [WithFill(loc) EXCEPT !.exec = e].entry.id = loc.entry.id
        /\ \A e \in 0..Q :
              [WithFill(loc) EXCEPT !.exec = e, !.halting = TRUE].entry.id = loc.entry.id
        /\ [loc EXCEPT !.entry.stop = TRUE].entry.id = loc.entry.id
    BY <1>t DEF LocType, EntryType, WithFill
  <1>x. pc # "idle" => /\ orders[loc.entry.id].executed \in 0..Q
                       /\ Larger(loc.exec, orders[loc.entry.id].executed) \in 0..Q
    BY <1>t, <1>id, ExecType DEF TypeInv, LocType
  <1>m. /\ \A b \in BOOLEAN : [mem EXCEPT !.seen = b].entry = mem.entry
        /\ \A e \in {loc.entry, NoEntry} : [mem EXCEPT !.entry = e].entry = e
        /\ [mem EXCEPT !.halted = TRUE,
                       !.entry = IF loc.halting THEN @ ELSE loc.entry].entry
              \in {mem.entry, loc.entry}
        /\ [mem EXCEPT !.managed = TRUE, !.entry = NoEntry].entry = NoEntry
    BY <1>t DEF StateType
  <1>v. ASSUME pc # "idle", Observe
        PROVE  /\ pc' \in {"firstfill", "decide"}
               /\ loc'.entry.id = loc.entry.id
               /\ orders[loc.entry.id].status # "none"
               /\ loc'.done = (orders[loc.entry.id].status = "done")
    <2> DEFINE o == orders[loc.entry.id]
               l == [loc EXCEPT !.exec = o.executed, !.done = o.status = "done"]
    <2>1. l.entry.id = loc.entry.id /\ l.done = (o.status = "done")
      BY <1>t DEF LocType
    <2>2. l \in LocType
      <3>1. (o.status = "done") \in BOOLEAN
        OBVIOUS
      <3> HIDE DEF o
      <3> QED
        BY <1>v, <3>1, <1>t, <1>x DEF LocType, o
    <2>3. o.status # "none" /\ (Goto("firstfill", WithFill(l)) \/ Goto("decide", l))
      BY <1>v DEF Observe
    <2> HIDE DEF l
    <2>4. \/ pc' = "firstfill" /\ loc' = WithFill(l)
          \/ pc' = "decide" /\ loc' = l
      BY <2>3 DEF Goto
    <2>5. WithFill(l).entry.id = l.entry.id /\ WithFill(l).done = l.done
      BY <2>2 DEF WithFill, LocType, EntryType
    <2> QED
      BY <2>1, <2>3, <2>4, <2>5
  <1>1. CASE Claim
    <2>1. [NoLoc EXCEPT !.entry.id = EntryId].entry.id # FallbackId
      BY DEF NoLoc, NoEntry, EntryId, FallbackId
    <2> QED
      BY <2>1, <1>1, <1>m DEF Claim, SaveOk, Goto, Return, Flow, exchange
  <1>2. CASE Persist
    BY <1>2, <1>m DEF Persist, SaveOr, Goto, Return, Flow, exchange
  <1>3. CASE PostAccepted \/ PostLost \/ PostRefused
    <2>1. CASE PostAccepted
      BY <2>1, <1>p DEF PostAccepted, Goto, Return, Flow, state
    <2>2. CASE PostLost
      BY <2>2 DEF PostLost, Goto, Return, Flow, state
    <2>3. CASE PostRefused
      <3> DEFINE retry == [loc EXCEPT !.entry.id = MarginId, !.retried = TRUE]
                 next == [loc EXCEPT !.entry.tries = @ + 1,
                                     !.entry.id = RepriceId(loc.entry.tries + 1)]
      <3>1. /\ pc = "post" /\ UNCHANGED <<orders, mem>>
            /\ \/ Return \/ Goto("forget", loc)
               \/ Goto("persist", retry) \/ Goto("persist", next)
        BY <2>3 DEF PostRefused, Refused, state
      <3>2. retry.entry.id = MarginId /\ next.entry.id = RepriceId(loc.entry.tries + 1)
        BY <1>t DEF LocType, EntryType
      <3>3. MarginId # FallbackId /\ \A n : RepriceId(n) # FallbackId
        BY DEF MarginId, RepriceId, FallbackId
      <3> HIDE DEF retry, next
      <3> QED
        BY <3>1, <3>2, <3>3 DEF Flow, Goto, Return
    <2> QED
      BY <1>3, <2>1, <2>2, <2>3
  <1>4. CASE ReadBack \/ StartStop \/ StartCancel
    <2>1. CASE ReadBack
      BY <2>1, <1>e, <1>x DEF ReadBack, Goto, Return, Flow, state
    <2>2. CASE StartStop
      BY <2>2, <1>e DEF StartStop, Goto, Return, Flow, state
    <2>3. CASE StartCancel
      BY <2>3, <1>e, <1>x DEF StartCancel, Goto, Return, Flow, state
    <2> QED
      BY <1>4, <2>1, <2>2, <2>3
  <1>5. CASE StartKeep \/ StartSave
    BY <1>5, <1>m
       DEF StartKeep, StartSave, SaveOk, Goto, Return, Flow, exchange
  <1>6. CASE Undo \/ UndoStop \/ UndoFlatten \/ UndoDrop
    <2>1. CASE Undo
      BY <2>1, <1>e, <1>x DEF Undo, Goto, Return, Flow, state
    <2>2. CASE UndoStop \/ UndoFlatten
      BY <2>2, <1>e DEF UndoStop, UndoFlatten, Goto, Return, Flow, state
    <2>3. CASE UndoDrop
      BY <2>3, <1>m DEF UndoDrop, Goto, Return, Flow
    <2> QED
      BY <1>6, <2>1, <2>2, <2>3
  <1>7. CASE SyncBegin
    BY <1>7 DEF SyncBegin, Goto, Return, Flow, exchange, state, NoLoc
  <1>8. CASE ReadOrder
    BY <1>8, <1>v DEF ReadOrder, Goto, Return, Flow, exchange, state
  <1>9. CASE Resubmit
    BY <1>9, <1>v DEF Resubmit, Goto, Return, Flow, state
  <1>10. CASE FirstFill
    BY <1>10, <1>m DEF FirstFill, SaveOr, Goto, Return, Flow, exchange
  <1>11. CASE DecideFlat
    BY <1>11, <1>t DEF DecideFlat, Goto, Return, Flow, state, LocType
  <1>12. CASE Decide
    BY <1>12, <1>t DEF Decide, Concludes, Goto, Flow, exchange, state, LocType
  <1>13. CASE FlatCancel \/ FlatRace \/ FlatCheck \/ Freeze
    <2>1. CASE FlatCancel
      BY <2>1, <1>e, <1>x DEF FlatCancel, Goto, Return, Flow, state
    <2>2. CASE FlatRace \/ FlatCheck
      BY <2>2 DEF FlatRace, FlatCheck, Goto, Return, Flow, exchange, state
    <2>3. CASE Freeze
      <3> DEFINE e == Larger(loc.exec, orders[loc.entry.id].executed)
                 l == [loc EXCEPT !.exec = e, !.entry.filled = @ \/ e > 0]
      <3>1. l.entry.id = loc.entry.id
        BY <1>t DEF LocType, EntryType
      <3>2. pc = "freeze" /\ UNCHANGED mem /\ (Goto("settle", l) \/ Return)
        BY <2>3 DEF Freeze, state
      <3> HIDE DEF l
      <3> QED
        BY <3>1, <3>2 DEF Goto, Return, Flow
    <2> QED
      BY <1>13, <2>1, <2>2, <2>3
  <1>14. CASE SettleFallback \/ Settle \/ Drop
    BY <1>14, <1>t
       DEF SettleFallback, Settle, Drop, Conclude, Goto, Return, Flow,
           exchange, state
  <1>15. CASE Fallback
    <2>1. orders[FallbackId].executed \in 0..Q
      BY <1>o, IdFacts
    <2>2. /\ pc = "fallback" /\ UNCHANGED mem
          /\ Return \/ \E e \in 0..Q : FallbackDone(e)
      BY <1>15, <2>1 DEF Fallback, state
    <2> QED
      BY <2>2, <1>e DEF FallbackDone, Goto, Return, Flow
  <1>16. CASE Forget \/ PsKeep \/ Halt \/ Tail
    <2>1. CASE Forget \/ PsKeep \/ Tail
      BY <2>1, <1>m
         DEF Forget, PsKeep, Tail, SaveOk, SaveOr, Goto, Return, Flow, exchange
    <2>2. CASE Halt
      <3>1. /\ pc = "halt" /\ UNCHANGED orders /\ pc' = "idle"
            /\ mem' = [mem EXCEPT !.halted = TRUE,
                          !.entry = IF loc.halting THEN @ ELSE loc.entry]
        BY <2>2 DEF Halt, SaveOk, Return, Goto, exchange
      <3>2. mem'.entry = IF loc.halting THEN mem.entry ELSE loc.entry
        BY <3>1, <1>t DEF StateType
      <3> QED
        BY <3>1, <3>2 DEF Flow
    <2> QED
      BY <1>16, <2>1, <2>2
  <1>17. CASE ProvStop \/ PsCancel
    BY <1>17, <1>t
       DEF ProvStop, PsCancel, Goto, Return, Flow, state, LocType, EntryType
  <1>18. CASE RpCancel
    <2> DEFINE e == Larger(loc.exec, orders[loc.entry.id].executed)
               n == loc.entry.tries + 1
               next == [loc EXCEPT !.entry.tries = n, !.entry.id = RepriceId(n)]
    <2>1. /\ pc = "rpcancel" /\ UNCHANGED mem
          /\ \/ pc' = "idle"
             \/ pc' \in {"finalize", "fincancel"} /\ loc' = [WithFill(loc) EXCEPT !.exec = e]
             \/ ~(e > 0) /\ pc' = "rpsubmit" /\ loc' = next /\ Canceled(loc.entry.id)
      BY <1>18 DEF RpCancel, Frozen, Conclude, Goto, Return, state
    <2>2. [WithFill(loc) EXCEPT !.exec = e].entry.id = loc.entry.id
      BY <2>1, <1>e, <1>x
    <2>3. ~(e > 0) => orders[loc.entry.id].executed = 0
      BY <2>1, <1>x, <1>t DEF Larger, LocType
    <2>4. next.entry.id = RepriceId(n)
      BY <1>t DEF LocType, EntryType
    <2>5. RepriceId(n) # FallbackId
      BY DEF RepriceId, FallbackId
    <2>6. loc.entry.tries < MaxReprices
      BY <2>1 DEF TypeInv, HandlerType
    <2> HIDE DEF e, n, next
    <2> QED
      BY <2>1, <2>2, <2>3, <2>4, <2>5, <2>6 DEF Flow
  <1>19. CASE RpSubmit
    <2>1. pc = "rpsubmit" /\ UNCHANGED mem
      BY <1>19 DEF RpSubmit, state
    <2>2. \/ Return /\ (UNCHANGED orders \/ "lost" \in Faults)
          \/ Goto("tail", loc) /\ (Accepted(loc.entry.id) \/ Known(loc.entry.id))
      BY <1>19 DEF RpSubmit, Lost, Known, Refused
    <2> QED
      BY <2>1, <2>2, <1>p DEF Goto, Return, Flow
  <1>20. CASE Finalize \/ Takes \/ FinCancel \/ FinFlatten \/ Clean
    BY <1>20
       DEF Finalize, Takes, FinCancel, FinFlatten, FinishErr, Clean, Goto,
           Return, Flow, exchange, state
  <1>21. CASE Promote \/ Account \/ AccountLate
    <2>1. CASE Promote \/ AccountLate
      BY <2>1, <1>t, <1>m
         DEF Promote, AccountLate, SaveOk, Goto, Return, Flow, exchange,
             StateType
    <2>2. CASE Account
      <3>1. pc = "account" /\ UNCHANGED orders /\ (Return \/ FinishErr)
        BY <2>2, Zenon DEF Account, exchange
      <3>4. pc' = "halt" => loc.halting /\ UNCHANGED loc
        BY <3>1 DEF FinishErr, Return, Goto
      <3>5. pc' \in {"idle", "halt"}
        BY <3>1 DEF FinishErr, Return, Goto
      <3>2. PICK r \in {"recorded", "owed"} :
               mem' = [mem EXCEPT !.entry = NoEntry, !.outcome = r,
                                  !.owed = IF r = "owed" THEN loc.exec ELSE 0]
        BY <2>2, Zenon DEF Account
      <3>3. mem'.entry = NoEntry
        BY <3>2, <1>t DEF StateType
      <3> QED
        BY <3>1, <3>3, <3>4, <3>5 DEF Flow
    <2> QED
      BY <1>21, <2>1, <2>2
  <1>22. CASE Environment
    <2>1. CASE Crash
      BY <2>1, <1>d DEF Crash, Return, Goto, Flow
    <2>2. CASE UNCHANGED <<pc, loc, mem>> /\ Live' \subseteq Live
      BY <2>2 DEF Flow
    <2>3. ASSUME NEW i \in Ids, Fill(i) \/ ExchangeEnds(i) PROVE Live' \subseteq Live
      <3>1. orders[i].status = "live" /\ \A j \in Ids \ {i} : orders'[j] = orders[j]
        BY <2>3, <1>o DEF Fill, ExchangeEnds
      <3> QED
        BY <3>1 DEF Live
    <2>4. UNCHANGED orders => Live' \subseteq Live
      BY DEF Live
    <2> QED
      BY <1>22, <2>1, <2>2, <2>3, <2>4
         DEF Environment, Fill, ExchangeEnds, StopTriggers, OperatorCloses,
             Deadline, state, exchange
  <1> QED
    BY <1>1, <1>2, <1>3, <1>4, <1>5, <1>6, <1>7, <1>8, <1>9, <1>10, <1>11,
       <1>12, <1>13, <1>14, 
       <1>15, <1>16, <1>17, <1>18, <1>19, <1>20, <1>21, <1>22
       DEF Next, Submission, Progress, Conclusion

(* ClaimInv is preserved: no restart loses the claim.                      *)
LEMMA ClaimStep ==
    ASSUME Durable
    PROVE  TypeInv /\ SavedInv /\ ClaimInv /\ Next => ClaimInv'
  <1> SUFFICES ASSUME TypeInv, SavedInv, ClaimInv, Next PROVE ClaimInv'
    OBVIOUS
  <1>t. mem \in StateType
    BY DEF TypeInv, StatesType
  <1>1. mem.seen => mem'.seen
    <2>1. CASE mem' = mem \/ Crash
      BY <2>1, NoCrash DEF Crash
    <2>2. CASE Claim \/ Submission
      BY <2>1, <2>2, <1>t
         DEF Claim, Submission, state, Persist, PostAccepted, PostLost,
             PostRefused, ReadBack, StartStop, StartCancel, StartKeep,
             StartSave, Undo, UndoStop, UndoFlatten, UndoDrop, SaveOk, SaveOr,
             StateType
    <2>3. CASE Progress
      BY <2>1, <2>3, <1>t
         DEF Progress, state, SyncBegin, ReadOrder, Resubmit, FirstFill,
             DecideFlat, Decide, FlatCancel, FlatRace, FlatCheck, Freeze,
             SettleFallback, Settle, Fallback, Drop, Forget, ProvStop,
             PsCancel, PsKeep, Halt, RpCancel, RpSubmit, Tail, SaveOk, SaveOr,
             StateType
    <2>4. CASE Conclusion
      BY <2>1, <2>4, <1>t
         DEF Conclusion, state, Finalize, Takes, Promote, FinCancel,
             FinFlatten, Clean, Account, AccountLate, SaveOk, StateType
    <2>5. CASE Environment
      BY <2>1, <2>5
         DEF Environment, state, Fill, ExchangeEnds, StopTriggers,
             OperatorCloses, Deadline
    <2> QED
      BY <2>2, <2>3, <2>4, <2>5 DEF Next
  <1>2. CASE mem.seen
    BY <1>1, <1>2 DEF ClaimInv
  <1>3. CASE ~mem.seen
    <2>1. pc = "idle" /\ ~Tracked(mem) /\ \A i \in Ids : orders[i].status = "none"
      BY <1>3 DEF ClaimInv
    <2>2. CASE Claim
      <3>1. mem'.seen
        BY <2>2, <1>t DEF Claim, SaveOk, StateType
      <3> QED
        BY <3>1 DEF ClaimInv
    <2>3. CASE AccountLate
      BY <2>3, <1>t, <2>1
         DEF AccountLate, SaveOk, StateType, exchange, ClaimInv, Tracked
    <2>4. CASE Environment
      BY <2>4, <2>1, <1>3, NoCrash
         DEF Environment, state, exchange, Fill, ExchangeEnds, StopTriggers,
             OperatorCloses, Deadline, Crash, Return, Goto, ClaimInv, Tracked
    <2> QED
      BY <2>1, <2>2, <2>3, <2>4
         DEF Next, Submission, Progress, Conclusion, Persist, PostAccepted,
             PostLost, PostRefused, ReadBack, StartStop, StartCancel,
             StartKeep, StartSave, Undo, UndoStop, UndoFlatten, UndoDrop,
             SyncBegin, ReadOrder, Resubmit, FirstFill, DecideFlat, Decide,
             FlatCancel, FlatRace, FlatCheck, Freeze, SettleFallback, Settle,
             Fallback, Drop, Forget, ProvStop, PsCancel, PsKeep, Halt,
             RpCancel, RpSubmit, Tail, Finalize, Takes, Promote, FinCancel,
             FinFlatten, Clean, Account
  <1> QED
    BY <1>2, <1>3

(* A new order becomes live only while none is, and no order ever becomes  *)
(* unknown to the exchange again.                                          *)
LEMMA LiveMove ==
    TypeInv /\ LiveInv /\ WorkInv /\ OrdersMove =>
        /\ \A i \in Ids : orders[i].status # "none" => orders'[i].status # "none"
        /\ \/ Live' \subseteq Live
           \/ /\ Live = {} /\ Live' = {loc.entry.id} /\ orders'[loc.entry.id].status # "none"
              /\ pc \in {"post", "resubmit", "rpsubmit"}
  <1> SUFFICES ASSUME TypeInv, LiveInv, WorkInv, OrdersMove
      PROVE  /\ \A i \in Ids : orders[i].status # "none" => orders'[i].status # "none"
             /\ \/ Live' \subseteq Live
                \/ /\ Live = {} /\ Live' = {loc.entry.id} /\ orders'[loc.entry.id].status # "none"
                   /\ pc \in {"post", "resubmit", "rpsubmit"}
    OBVIOUS
  <1>o. orders \in [Ids -> [status : {"none", "live", "done"}, executed : 0..Q]]
    BY DEF TypeInv, ExchangeType
  <1>1. CASE UNCHANGED orders
    BY <1>1 DEF Live
  <1>2. CASE pc \in {"post", "resubmit", "rpsubmit"} /\ Accepted(loc.entry.id)
    <2>1. loc.entry.id \in Ids
      BY <1>2 DEF TypeInv, HandlerType
    <2>2. Live = {}
      BY <1>2, <2>1, IdFacts DEF LiveInv, WorkInv, Accepted, Tracked
    <2>3. /\ orders'[loc.entry.id].status = "live"
          /\ \A i \in Ids \ {loc.entry.id} : orders'[i] = orders[i]
      BY <1>2, <2>1, <1>o DEF Accepted
    <2>4. Live' = {loc.entry.id}
      BY <2>1, <2>2, <2>3 DEF Live
    <2> QED
      BY <1>2, <2>2, <2>3, <2>4
  <1>3. CASE OrdersEnd
    BY <1>3 DEF OrdersEnd, Live
  <1>4. ASSUME NEW i \in Ids, OrderFills(i) PROVE Live' \subseteq Live
    BY <1>4 DEF OrderFills, Live
  <1>5. ASSUME NEW e \in 0..Q, FallbackFills(e) PROVE Live' \subseteq Live
    BY <1>5, <1>o, IdFacts DEF FallbackFills, Live
  <1>6. \A i \in Ids : orders[i].status # "none" => orders'[i].status # "none"
    BY OrdersLast
  <1> QED
    BY <1>1, <1>2, <1>3, <1>4, <1>5, <1>6 DEF OrdersMove

(* An accepted order is known to the exchange.                             *)
LEMMA AcceptedPlaced ==
    TypeInv /\ pc # "idle" /\ Accepted(loc.entry.id) => orders'[loc.entry.id].status # "none"
BY DEF TypeInv, ExchangeType, HandlerType, Accepted

(* WorkInv is preserved: the pending entry names an order the exchange     *)
(* knows as soon as the submission returned.                               *)
LEMMA WorkStep ==
    ASSUME Durable
    PROVE  TypeInv /\ SavedInv /\ LiveInv /\ WorkInv /\ Next => WorkInv'
  <1> SUFFICES ASSUME TypeInv, SavedInv, LiveInv, WorkInv, Next PROVE WorkInv'
    OBVIOUS
  <1>1. Flow /\ OrdersMove
    BY FlowStep, MoveOfOrders
  <1>2. \A i \in Ids : orders[i].status # "none" => orders'[i].status # "none"
    BY <1>1, LiveMove
  <1>3. /\ pc # "idle" => loc.entry.id \in Ids
        /\ mem.entry.id \in Ids \cup {NoId}
    BY DEF TypeInv, HandlerType, StatesType, StateType, EntryType
  <1>4. /\ Tracked(mem) <=> mem.entry.id # NoId
        /\ Tracked(mem)' <=> mem'.entry.id # NoId
    BY DEF Tracked
  <1>5. NoId \notin Ids /\ NoEntry.id = NoId
    BY IdFacts DEF NoEntry
  <1> USE DEF Steady, Unplaced
  <1>6. pc' \in {"post", "read", "resubmit"} => mem'.entry.id = loc'.entry.id
    BY <1>1 DEF Flow, WorkInv
  <1>7. pc' \notin Unplaced \cup {"halt"} => Tracked(mem)' /\ orders'[mem'.entry.id].status # "none"
    <2>1. CASE pc \in {"idle", "persist", "forget"}
      BY <2>1, <1>1, <1>2, <1>3, <1>4, <1>5 DEF Flow, WorkInv
    <2>2. CASE pc \in {"post", "read", "resubmit"}
      <3>1. pc' \notin Unplaced => mem'.entry = mem.entry /\ orders'[loc.entry.id].status # "none"
        BY <2>2, <1>1, <1>2, <1>3, AcceptedPlaced DEF Flow
      <3> QED
        BY <3>1, <2>2, <1>3, <1>4, <1>5 DEF WorkInv
    <2>3. CASE pc \notin Unplaced
      <3>0. pc = "halt" => pc' \in {"idle", "halt"}
        BY <1>1 DEF Flow
      <3>1. pc' \notin Unplaced \cup {"halt"} =>
               \/ mem'.entry = mem.entry
               \/ mem'.entry = loc.entry /\ pc # "rpsubmit"
        BY <2>3, <1>1 DEF Flow
      <3> QED
        BY <3>0, <3>1, <2>3, <1>2, <1>3, <1>4, <1>5 DEF WorkInv
    <2> QED
      BY <2>1, <2>2, <2>3
  <1>8. pc' \notin Unplaced \cup {"rpsubmit"} => orders'[loc'.entry.id].status # "none"
    <2>1. CASE pc \in {"idle", "persist", "forget"}
      BY <2>1, <1>1, <1>2, <1>3 DEF Flow, WorkInv
    <2>2. CASE pc \in {"post", "read", "resubmit", "rpsubmit"}
      BY <2>2, <1>1, <1>2, <1>3, AcceptedPlaced DEF Flow, WorkInv
    <2>3. CASE pc \notin Unplaced \cup {"rpsubmit"}
      <3>1. pc' \notin Unplaced \cup {"rpsubmit"} => loc'.entry.id = loc.entry.id
        BY <2>3, <1>1 DEF Flow
      <3> QED
        BY <3>1, <2>3, <1>2, <1>3 DEF WorkInv
    <2> QED
      BY <2>1, <2>2, <2>3
  <1> QED
    BY <1>6, <1>7, <1>8 DEF WorkInv, Tracked

(* LiveInv is preserved: a new id is submitted only once the order before  *)
(* it is terminal.                                                         *)
LEMMA LiveStep ==
    ASSUME Durable
    PROVE  TypeInv /\ SavedInv /\ ClaimInv /\ LiveInv /\ WorkInv /\ Next => LiveInv'
  <1> SUFFICES ASSUME TypeInv, SavedInv, ClaimInv, LiveInv, WorkInv, Next PROVE LiveInv'
    OBVIOUS
  <1>1. Flow /\ OrdersMove
    BY FlowStep, MoveOfOrders
  <1>2. \A i \in Ids : orders[i].status # "none" => orders'[i].status # "none"
    BY <1>1, LiveMove
  <1>3. \/ Live' \subseteq Live
        \/ /\ Live = {} /\ Live' = {loc.entry.id} /\ orders'[loc.entry.id].status # "none"
           /\ pc \in {"post", "resubmit", "rpsubmit"}
    BY <1>1, LiveMove
  <1>4. /\ pc # "idle" => loc.entry.id \in Ids
        /\ mem.entry.id \in Ids \cup {NoId}
    BY DEF TypeInv, HandlerType, StatesType, StateType, EntryType
  <1>5. /\ Tracked(mem) <=> mem.entry.id # NoId
        /\ Tracked(mem)' <=> mem'.entry.id # NoId
    BY DEF Tracked
  <1>6. NoId \notin Ids /\ NoEntry.id = NoId
    BY IdFacts DEF NoEntry
  <1>7. UNCHANGED orders => Live' = Live
    BY DEF Live
  <1> USE DEF Steady, Unplaced
  <1>a. SingleLiveOrder'
    BY <1>3 DEF LiveInv, SingleLiveOrder
  <1>b. pc' \in {"persist", "post", "rpsubmit"} => Live' = {}
    <2>1. CASE pc = "idle"
      <3>1. ~mem.seen => Live = {}
        BY DEF ClaimInv, Live
      <3> QED
        BY <2>1, <3>1, <1>1, <1>7 DEF Flow
    <2>2. CASE pc = "rpcancel"
      <3>1. Canceled(loc.entry.id) => Live' \subseteq Live \ {loc.entry.id}
        BY <2>2, <1>4 DEF TypeInv, ExchangeType, Canceled, Live
      <3>2. Live \subseteq {loc.entry.id}
        BY <2>2 DEF LiveInv
      <3>3. pc' = "rpsubmit" => Canceled(loc.entry.id) \/ UNCHANGED pc
        BY <2>2, <1>1 DEF Flow
      <3>4. pc' \in {"persist", "post"} => FALSE
        BY <2>2, <1>1 DEF Flow
      <3> QED
        BY <2>2, <3>1, <3>2, <3>3, <3>4
    <2>3. CASE pc \in {"persist", "post", "rpsubmit"}
      BY <2>3, <1>1, <1>7 DEF Flow, LiveInv
    <2>4. CASE pc \notin {"idle", "rpcancel", "persist", "post", "rpsubmit"}
      BY <2>4, <1>1 DEF Flow
    <2> QED
      BY <2>1, <2>2, <2>3, <2>4
  <1>c. Tracked(mem)' /\ orders'[mem'.entry.id].status = "none" => Live' = {}
    BY <1>1, <1>2, <1>3, <1>4, <1>5, <1>6, <1>7 DEF Flow, LiveInv, WorkInv
  <1>d. pc' \in {"firstfill", "decide", "rpcancel"} /\ ~loc'.done => Live' \subseteq {loc'.entry.id}
    <2>1. CASE pc = "read" \/ pc = "resubmit"
      <3>1. orders[loc.entry.id].status \in {"none", "live", "done"}
        BY <2>1, <1>4 DEF TypeInv, ExchangeType
      <3>2. orders[loc.entry.id].status = "live" => Live \subseteq {loc.entry.id}
        BY <2>1, <1>4 DEF LiveInv, SingleLiveOrder, Live
      <3>3. Accepted(loc.entry.id) => Live' = {loc.entry.id}
        BY <2>1, <1>3, <1>4, AcceptedPlaced
           DEF Accepted, TypeInv, ExchangeType, Live
      <3> QED
        BY <2>1, <3>1, <3>2, <3>3, <1>1, <1>7 DEF Flow
    <2>2. CASE pc \in {"firstfill", "decide", "rpcancel"}
      BY <2>2, <1>1, <1>3, <1>7 DEF Flow, LiveInv
    <2>3. CASE pc \notin {"read", "resubmit", "firstfill", "decide", "rpcancel"}
      BY <2>3, <1>1 DEF Flow
    <2> QED
      BY <2>1, <2>2, <2>3
  <1>e. pc' = "rpcancel" => ~loc'.done
    BY <1>1 DEF Flow, LiveInv
  <1> QED
    BY <1>a, <1>b, <1>c, <1>d, <1>e DEF LiveInv, Tracked

(* The initial states satisfy the inductive invariant.                     *)
LEMMA IInvInit == Init => IInv
  <1> SUFFICES ASSUME Init PROVE IInv
    OBVIOUS
  <1>1. \A i \in Ids : orders[i].status = "none"
    BY DEF Init
  <1>2. ~Tracked(mem) /\ pc = "idle" /\ disk = mem
    BY DEF Init, Tracked, NoEntry
  <1>3. Live = {}
    BY <1>1 DEF Live
  <1> QED
    BY <1>1, <1>2, <1>3, TypeInit
       DEF IInv, SavedInv, UndoLabels, ClaimInv, LiveInv, WorkInv, Unplaced,
           SingleLiveOrder

(* IInv is inductive if no restart forgets anything.                       *)
LEMMA IInvStep ==
    ASSUME Durable
    PROVE  IInv /\ [Next]_vars => IInv'
  <1>1. CASE Next
    BY <1>1, TypeStep, SavedStep, ClaimStep, LiveStep, WorkStep DEF IInv
  <1>2. CASE UNCHANGED vars
    BY <1>2, TypeStep
       DEF vars, IInv, SavedInv, ClaimInv, LiveInv, WorkInv, Live,
           SingleLiveOrder, Tracked
  <1> QED
    BY <1>1, <1>2

(* At most one entry order of a candidate rests on the exchange, for every *)
(* number of reprices, faults and lost answers, provided that save()       *)
(* succeeds or no process dies (start_pending_entry and                    *)
(* progress_pending_entries, 3966-4970).                                   *)
THEOREM AtMostOneEntryOrder ==
    ASSUME Durable
    PROVE  Spec => []SingleLiveOrder
  <1>1. Init => IInv
    BY IInvInit
  <1>2. IInv /\ [Next]_vars => IInv'
    BY IInvStep
  <1>3. IInv => SingleLiveOrder
    BY DEF IInv, LiveInv
  <1> QED
    BY <1>1, <1>2, <1>3, PTL DEF Spec

(* An order reaches the exchange only after its candidate is in seen on    *)
(* disk, for every number of crashes, provided that save() succeeds: no    *)
(* restart attempts the candidate again (apply_plans, 3441-3443).          *)
THEOREM ClaimBeforeOrder ==
    ASSUME "save" \notin Faults
    PROVE  Spec => []ClaimedOnDisk
  <1>1. Init => IInv
    BY IInvInit
  <1>2. IInv /\ [Next]_vars => IInv'
    BY IInvStep DEF Durable
  <1>3. IInv => ClaimedOnDisk
    BY DEF IInv, SavedInv, ClaimInv, ClaimedOnDisk
  <1> QED
    BY <1>1, <1>2, <1>3, PTL DEF Spec

-----------------------------------------------------------------------------
(***************************************************************************)
(* The quantity: an order is active once it may have filled or has.  Only  *)
(* the taker fallback could add a second active order, and only after an   *)
(* order its pending entry does not name: one accepted by a reprice whose  *)
(* answer, or whose process, was lost (RepricesOwned excludes it).         *)
(***************************************************************************)
Active == {i \in Ids : orders[i].status = "live" \/ orders[i].executed > 0}

RepricesOwned == MaxReprices = 0 \/ (MaxCrashes = 0 /\ "lost" \notin Faults)

(* The fallback's id is the fallback's alone.                              *)
IdInv ==
    /\ pc # "idle" => loc.entry.id # FallbackId
    /\ mem.entry.id # FallbackId
    /\ orders[FallbackId].status # "live"
    /\ ~TakerFallback => orders[FallbackId].status = "none" /\ pc # "fallback"
    /\ MaxReprices = 0 => pc # "rpsubmit"

ActiveInv ==
    /\ \A i, j \in Active : i = j
    /\ pc \in {"persist", "post", "rpsubmit"} => Active = {}
    /\ Tracked(mem) /\ orders[mem.entry.id].status = "none" => Active = {}
    /\ pc \in {"firstfill", "decide", "rpcancel"} /\ ~loc.done => Active \subseteq {loc.entry.id}
    /\ pc = "fallback" => Active \subseteq {FallbackId}

(* What was bought is what the active order executed.                      *)
SumInv ==
    /\ \A i \in Active : orders[i].executed = bought
    /\ Active = {} => bought = 0

(* The pending entry names the active order, unless it is the fallback.    *)
Named == IF pc = "tail" THEN loc.entry.id ELSE mem.entry.id
OwnInv ==
    /\ pc \notin {"idle", "persist", "rpsubmit", "tail", "halt"} =>
          mem.entry.id = loc.entry.id
    /\ pc = "tail" /\ MaxReprices = 0 => mem.entry.id = loc.entry.id
    /\ pc = "halt" /\ ~loc.halting => mem.entry.id = loc.entry.id
    /\ Tracked(mem) => Active \subseteq {FallbackId, Named}

(* IdInv is preserved: no handler makes the id of the fallback its own.    *)
LEMMA IdStep ==
    ASSUME Durable
    PROVE  TypeInv /\ SavedInv /\ IdInv /\ Next => IdInv'
  <1> SUFFICES ASSUME TypeInv, SavedInv, IdInv, Next PROVE IdInv'
    OBVIOUS
  <1>1. Flow /\ OrdersMove
    BY FlowStep, MoveOfOrders
  <1>2. NoEntry.id # FallbackId
    BY DEF NoEntry, NoId, FallbackId
  <1> USE DEF Steady
  <1>3. mem'.entry.id # FallbackId
    BY <1>1, <1>2 DEF Flow, IdInv
  <1>4. pc' # "idle" => loc'.entry.id # FallbackId
    BY <1>1, <1>3 DEF Flow, IdInv
  <1>5. /\ orders'[FallbackId].status # "live"
        /\ ~TakerFallback => orders'[FallbackId].status = "none"
    <2>t. orders \in [Ids -> [status : {"none", "live", "done"}, executed : 0..Q]]
      BY DEF TypeInv, ExchangeType
    <2>1. CASE UNCHANGED orders
      BY <2>1 DEF IdInv
    <2>2. CASE pc \in {"post", "resubmit", "rpsubmit"} /\ Accepted(loc.entry.id)
      <3>1. loc.entry.id # FallbackId
        BY <2>2 DEF IdInv
      <3>2. orders'[FallbackId] = orders[FallbackId]
        BY <2>2, <3>1, <2>t, IdFacts DEF Accepted
      <3> QED
        BY <3>2 DEF IdInv
    <2>3. CASE OrdersEnd
      BY <2>3, IdFacts DEF OrdersEnd, IdInv
    <2>4. ASSUME NEW i \in Ids, OrderFills(i)
          PROVE  orders'[FallbackId] = orders[FallbackId]
      BY <2>4, IdFacts DEF OrderFills, IdInv
    <2>5. ASSUME NEW e \in 0..Q, FallbackFills(e)
          PROVE  orders'[FallbackId].status = "done" /\ TakerFallback
      BY <2>5, <2>t, IdFacts DEF FallbackFills, IdInv
    <2> QED
      BY <1>1, <2>1, <2>2, <2>3, <2>4, <2>5 DEF OrdersMove, IdInv
  <1>6. ~TakerFallback => pc' # "fallback"
    BY <1>1 DEF Flow, IdInv
  <1>7. MaxReprices = 0 => pc' # "rpsubmit"
    <2>1. loc.entry.tries \in Nat
      BY BoundAssumption DEF TypeInv, HandlerType, LocType, EntryType
    <2> QED
      BY <2>1, <1>1 DEF Flow, IdInv
  <1> QED
    BY <1>3, <1>4, <1>5, <1>6, <1>7 DEF IdInv

(* How a step changes which orders are active.                             *)
LEMMA ActiveMove ==
    TypeInv /\ WorkInv /\ ActiveInv /\ OrdersMove =>
        \/ Active' \subseteq Active
        \/ /\ Active = {} /\ Active' = {loc.entry.id}
           /\ pc \in {"post", "resubmit", "rpsubmit"} /\ Accepted(loc.entry.id)
        \/ pc = "fallback" /\ Active' \subseteq {FallbackId}
  <1> SUFFICES ASSUME TypeInv, WorkInv, ActiveInv, OrdersMove
      PROVE  \/ Active' \subseteq Active
             \/ /\ Active = {} /\ Active' = {loc.entry.id}
                /\ pc \in {"post", "resubmit", "rpsubmit"} /\ Accepted(loc.entry.id)
             \/ pc = "fallback" /\ Active' \subseteq {FallbackId}
    OBVIOUS
  <1>o. orders \in [Ids -> [status : {"none", "live", "done"}, executed : 0..Q]]
    BY DEF TypeInv, ExchangeType
  <1>1. CASE UNCHANGED orders
    BY <1>1 DEF Active
  <1>2. CASE pc \in {"post", "resubmit", "rpsubmit"} /\ Accepted(loc.entry.id)
    <2>1. loc.entry.id \in Ids
      BY <1>2 DEF TypeInv, HandlerType
    <2>2. Active = {}
      BY <1>2, <2>1, IdFacts DEF ActiveInv, WorkInv, Accepted, Tracked
    <2>3. /\ orders'[loc.entry.id].status = "live"
          /\ \A i \in Ids \ {loc.entry.id} : orders'[i] = orders[i]
      BY <1>2, <2>1, <1>o DEF Accepted
    <2>4. Active' = {loc.entry.id}
      BY <2>1, <2>2, <2>3 DEF Active
    <2> QED
      BY <1>2, <2>2, <2>4
  <1>3. CASE OrdersEnd
    BY <1>3 DEF OrdersEnd, Active
  <1>4. ASSUME NEW i \in Ids, OrderFills(i) PROVE Active' \subseteq Active
    BY <1>4 DEF OrderFills, Active
  <1>5. ASSUME NEW e \in 0..Q, FallbackFills(e)
        PROVE  pc = "fallback" /\ Active' \subseteq {FallbackId}
    <2>1. \A i \in Ids \ {FallbackId} : orders'[i] = orders[i]
      BY <1>5, <1>o DEF FallbackFills
    <2>2. pc = "fallback" /\ Active \subseteq {FallbackId}
      BY <1>5 DEF FallbackFills, ActiveInv
    <2> QED
      BY <2>1, <2>2 DEF Active
  <1> QED
    BY <1>1, <1>2, <1>3, <1>4, <1>5 DEF OrdersMove

(* SumInv is preserved: whatever is bought, the one active order executed. *)
LEMMA SumStep ==
    TypeInv /\ WorkInv /\ ActiveInv /\ SumInv /\ OrdersMove => SumInv'
  <1> SUFFICES ASSUME TypeInv, WorkInv, ActiveInv, SumInv, OrdersMove PROVE SumInv'
    OBVIOUS
  <1>o. orders \in [Ids -> [status : {"none", "live", "done"}, executed : 0..Q]]
    BY DEF TypeInv, ExchangeType
  <1>n. /\ bought \in Nat
        /\ \A i \in Ids : orders[i].status = "none" => orders[i].executed = 0
    BY DEF TypeInv, ExchangeType
  <1>1. CASE UNCHANGED <<orders, bought>>
    BY <1>1 DEF SumInv, Active
  <1>2. CASE pc \in {"post", "resubmit", "rpsubmit"} /\ Accepted(loc.entry.id) /\ UNCHANGED bought
    <2>1. loc.entry.id \in Ids
      BY <1>2 DEF TypeInv, HandlerType
    <2>2. Active = {}
      BY <1>2, <2>1, IdFacts DEF ActiveInv, WorkInv, Accepted, Tracked
    <2>3. bought' = 0
      BY <1>2, <2>2 DEF SumInv
    <2>4. /\ orders[loc.entry.id].executed = 0
          /\ orders'[loc.entry.id].executed = orders[loc.entry.id].executed
          /\ \A i \in Ids \ {loc.entry.id} : orders'[i] = orders[i]
      BY <1>2, <2>1, <1>o, <1>n DEF Accepted
    <2>5. Active' \subseteq {loc.entry.id}
      BY <2>2, <2>4 DEF Active
    <2> QED
      BY <2>3, <2>4, <2>5 DEF SumInv
  <1>3. CASE OrdersEnd
    <2>1. Active' \subseteq Active
      BY <1>3 DEF OrdersEnd, Active
    <2>2. \A i \in Active' : orders'[i].executed = bought'
      BY <1>3, <2>1 DEF OrdersEnd, SumInv, Active
    <2>3. ASSUME Active' = {} PROVE bought' = 0
      <3>1. \A i \in Ids : ~(orders[i].executed > 0)
        BY <1>3, <2>3 DEF OrdersEnd, Active
      <3>2. CASE Active = {}
        BY <3>2, <1>3 DEF OrdersEnd, SumInv
      <3>3. ASSUME NEW i \in Active PROVE bought' = 0
        <4>1. orders[i].executed = bought /\ ~(orders[i].executed > 0)
          BY <3>1, <3>3 DEF SumInv, Active
        <4> QED
          BY <4>1, <1>n, <1>3 DEF OrdersEnd
      <3> QED
        BY <3>2, <3>3
    <2> QED
      BY <2>2, <2>3 DEF SumInv
  <1>4. ASSUME NEW i \in Ids, OrderFills(i) PROVE SumInv'
    <2>1. i \in Active
      BY <1>4 DEF OrderFills, Active
    <2>2. Active = {i}
      BY <2>1 DEF ActiveInv
    <2>3. orders'[i].executed = bought'
      BY <1>4, <2>1 DEF OrderFills, SumInv
    <2>4. Active' \subseteq {i}
      BY <1>4, <2>2 DEF OrderFills, Active
    <2>5. orders'[i].executed > 0
      BY <1>4, <1>o DEF OrderFills
    <2>6. i \in Active'
      BY <2>5 DEF Active
    <2> QED
      BY <2>3, <2>4, <2>6 DEF SumInv
  <1>5. ASSUME NEW e \in 0..Q, FallbackFills(e) PROVE SumInv'
    <2>1. Active \subseteq {FallbackId}
      BY <1>5 DEF FallbackFills, ActiveInv
    <2>2. orders[FallbackId].executed = 0
      BY <1>5, <1>n, IdFacts DEF FallbackFills
    <2>3. FallbackId \notin Active
      BY <1>5, <2>2 DEF FallbackFills, Active
    <2>4. bought = 0
      BY <2>1, <2>3 DEF SumInv
    <2>5. /\ \A i \in Ids \ {FallbackId} : orders'[i] = orders[i]
          /\ orders'[FallbackId].status = "done" /\ orders'[FallbackId].executed = e
      BY <1>5, <1>o, IdFacts DEF FallbackFills
    <2>6. bought' = e /\ e \in Nat
      BY <1>5, <2>4, QAssumption DEF FallbackFills
    <2>7. Active' \subseteq {FallbackId}
      BY <2>1, <2>5 DEF Active
    <2>8. Active' = {} => ~(e > 0)
      BY <2>5, IdFacts DEF Active
    <2> QED
      BY <2>5, <2>6, <2>7, <2>8 DEF SumInv
  <1> QED
    BY <1>1, <1>2, <1>3, <1>4, <1>5 DEF OrdersMove

-----------------------------------------------------------------------------
(***************************************************************************)
(* The quantity the handler holds: never more than its order executed, and *)
(* all of it once that order is done.                                      *)
(***************************************************************************)
Reading == {"readback", "startstop", "startcancel", "startsave", "undo",
            "firstfill", "decide", "flatcancel", "freeze", "provstop",
            "pscancel", "rpcancel"}
Concluding == {"startkeep", "undostop", "undoflatten", "flatrace", "flatcheck",
               "drop", "pskeep", "finalize", "takes", "promote", "fincancel",
               "finflatten", "clean", "account"}
Final == /\ orders[loc.entry.id].status = "done"
         /\ loc.exec = orders[loc.entry.id].executed
TermInv ==
    /\ pc \in {"persist", "post", "read", "resubmit"} => loc.exec = 0 /\ ~loc.done
    /\ pc \in Reading => loc.exec <= orders[loc.entry.id].executed
    /\ pc \in {"firstfill", "decide"} /\ loc.done => Final
    /\ pc = "settle" => Final
    /\ pc \in Concluding /\ ~TakerFallback => Final

(* An executed quantity never shrinks.                                     *)
LEMMA OrdersGrow == TypeInv /\ OrdersMove =>
    \A i \in Ids : orders[i].executed <= orders'[i].executed
  <1> SUFFICES ASSUME TypeInv, OrdersMove, NEW i \in Ids
      PROVE  orders[i].executed <= orders'[i].executed
    OBVIOUS
  <1>t. orders \in [Ids -> [status : {"none", "live", "done"}, executed : 0..Q]]
    BY DEF TypeInv, ExchangeType
  <1>n. /\ orders[i].executed \in Nat
        /\ \A j \in Ids : orders[j].status = "none" => orders[j].executed = 0
    BY <1>t, QAssumption DEF TypeInv, ExchangeType
  <1>1. CASE orders'[i].executed = orders[i].executed
    BY <1>1, <1>n
  <1>2. CASE UNCHANGED orders
    BY <1>1, <1>2
  <1>3. CASE Accepted(loc.entry.id)
    BY <1>3, <1>1, <1>t DEF Accepted
  <1>4. CASE OrdersEnd
    BY <1>4, <1>1 DEF OrdersEnd
  <1>5. ASSUME NEW j \in Ids, OrderFills(j)
        PROVE  orders[i].executed <= orders'[i].executed
    BY <1>5, <1>n DEF OrderFills
  <1>6. ASSUME NEW e \in 0..Q, FallbackFills(e)
        PROVE  orders[i].executed <= orders'[i].executed
    BY <1>6, <1>t, <1>n, IdFacts, QAssumption DEF FallbackFills
  <1> QED
    BY <1>2, <1>3, <1>4, <1>5, <1>6 DEF OrdersMove

(* A canceled order is done with what it executed.                         *)
LEMMA CanceledFinal ==
    ASSUME TypeInv, NEW i \in Ids, orders[i].status # "none", Canceled(i)
    PROVE  orders'[i].status = "done" /\ orders'[i].executed = orders[i].executed
BY DEF TypeInv, ExchangeType, Canceled

(* TermInv is preserved: quantities are read from orders, and a canceled   *)
(* order is done.                                                          *)
LEMMA TermStep == TypeInv /\ IdInv /\ TermInv /\ Next => TermInv'
  <1> SUFFICES ASSUME TypeInv, IdInv, TermInv, Next PROVE TermInv'
    OBVIOUS
  <1> USE DEF Reading, Concluding
  <1>t. /\ loc \in LocType /\ loc.exec \in 0..Q /\ loc.exec \in Nat
        /\ pc # "idle" => loc.entry.id \in Ids
    BY QAssumption DEF TypeInv, HandlerType, LocType
  <1>n. /\ \A i \in Ids : orders[i].executed \in 0..Q /\ orders[i].executed \in Nat
        /\ \A i \in Ids : orders'[i].executed \in Nat
    BY TypeStep, QAssumption DEF TypeInv, ExchangeType
  <1>g. \A i \in Ids : /\ orders[i].executed <= orders'[i].executed
                       /\ orders[i].status = "done" =>
                            /\ orders'[i].status = "done"
                            /\ orders'[i].executed = orders[i].executed
    BY MoveOfOrders, OrdersGrow, OrdersLast
  <1> DEFINE o == orders[loc.entry.id]
             larger == Larger(loc.exec, o.executed)
  <1>l. pc \in Reading => larger = o.executed /\ larger \in 0..Q /\ larger \in Nat
    BY <1>t, <1>n DEF Larger, TermInv
  <1>c. ASSUME pc # "idle", Frozen(loc.entry.id)
        PROVE  /\ orders'[loc.entry.id].status = "done"
               /\ orders'[loc.entry.id].executed = o.executed
    BY <1>c, <1>t, CanceledFinal DEF Frozen
  <1>0. Return => TermInv'
    BY DEF Return, Goto, TermInv
  <1>1. CASE Claim
    BY <1>1, <1>0 DEF Claim, Goto, NoLoc, TermInv
  <1>2. CASE Persist \/ PostAccepted \/ PostLost
    BY <1>2, <1>0, <1>t, <1>n, <1>g
       DEF Persist, PostAccepted, PostLost, SaveOr, Goto, TermInv
  <1>3. CASE PostRefused
    <2> DEFINE retry == [loc EXCEPT !.entry.id = MarginId, !.retried = TRUE]
               next == [loc EXCEPT !.entry.tries = @ + 1,
                                   !.entry.id = RepriceId(loc.entry.tries + 1)]
    <2>1. /\ retry.exec = loc.exec /\ next.exec = loc.exec
          /\ retry.done = loc.done /\ next.done = loc.done
      BY <1>t DEF LocType, EntryType
    <2>2. /\ pc = "post"
          /\ \/ Goto("forget", loc) \/ Return
             \/ Goto("persist", retry) \/ Goto("persist", next)
      BY <1>3 DEF PostRefused
    <2> HIDE DEF retry, next
    <2> QED
      BY <2>1, <2>2, <1>0, <1>t DEF Goto, TermInv
  <1>4. CASE ReadBack
    <2> DEFINE l == [loc EXCEPT !.exec = o.executed]
    <2>1. pc = "readback" /\ (Goto("startstop", l) \/ Goto("startsave", loc))
      BY <1>4 DEF ReadBack
    <2>2. l.exec = o.executed /\ l.entry.id = loc.entry.id
      BY <1>t DEF LocType
    <2> HIDE DEF l
    <2> QED
      BY <2>1, <2>2, <1>t, <1>n, <1>g DEF Goto, TermInv
  <1>5. CASE StartStop \/ UndoStop \/ ProvStop
    <2> DEFINE l == [loc EXCEPT !.entry.stop = TRUE]
    <2>1. l.exec = loc.exec /\ l.entry.id = loc.entry.id
      BY <1>t DEF LocType, EntryType
    <2>2. \/ pc = "startstop" /\ (Goto("startsave", l) \/ Goto("startcancel", loc))
          \/ pc = "undostop" /\ (Goto("undoflatten", l) \/ Return)
          \/ pc = "provstop" /\ (Goto("tail", l) \/ Goto("pscancel", loc))
      BY <1>5 DEF StartStop, UndoStop, ProvStop
    <2> HIDE DEF l
    <2> QED
      BY <2>1, <2>2, <1>0, <1>t, <1>n, <1>g DEF Goto, TermInv, Final
  <1>6. CASE StartCancel
    <2> DEFINE l == [WithFill(loc) EXCEPT !.exec = o.executed, !.halting = TRUE]
    <2>1. /\ pc = "startcancel"
          /\ Return \/ Frozen(loc.entry.id)
          /\ Return \/ Goto("startkeep", l)
      BY <1>6 DEF StartCancel
    <2>2. l.exec = o.executed /\ l.entry.id = loc.entry.id
      BY <1>t DEF LocType, EntryType, WithFill
    <2> HIDE DEF l
    <2> QED
      BY <2>1, <2>2, <1>0, <1>c DEF Goto, TermInv, Final
  <1>7. CASE StartKeep \/ StartSave \/ FirstFill \/ PsKeep
    BY <1>7, <1>0, <1>t, <1>n, <1>g
       DEF StartKeep, StartSave, FirstFill, PsKeep, SaveOr, Goto, TermInv,
           Final
  <1>8. CASE Undo
    <2> DEFINE l == [loc EXCEPT !.exec = o.executed]
    <2>1. /\ pc = "undo"
          /\ \/ Return
             \/ Frozen(loc.entry.id) /\ (Goto("undodrop", l) \/ Goto("undoflatten", l) \/ Goto("undostop", l))
      BY <1>8 DEF Undo
    <2>2. l.exec = o.executed /\ l.entry.id = loc.entry.id
      BY <1>t DEF LocType
    <2> HIDE DEF l
    <2> QED
      BY <2>1, <2>2, <1>0, <1>c DEF Goto, TermInv, Final
  <1>9. CASE UndoFlatten \/ UndoDrop \/ Drop \/ Forget \/ Halt \/ RpSubmit \/ Tail
    BY <1>9, <1>0, <1>t, <1>g
       DEF UndoFlatten, UndoDrop, Drop, Forget, Halt, RpSubmit, Tail, Goto,
           TermInv, Final
  <1>10. CASE SyncBegin
    <2>1. pc' = "read" /\ loc'.exec = 0 /\ ~loc'.done
      BY <1>10 DEF SyncBegin, Goto, NoLoc
    <2> QED
      BY <2>1 DEF TermInv
  <1>11. CASE ReadOrder \/ Resubmit
    <2> DEFINE l == [loc EXCEPT !.exec = o.executed, !.done = o.status = "done"]
    <2>1. pc \in {"read", "resubmit"} /\ loc.entry.id \in Ids
      BY <1>11, <1>t DEF ReadOrder, Resubmit
    <2>2. /\ l.exec = o.executed /\ l.entry = loc.entry
          /\ l.done = (o.status = "done")
          /\ WithFill(l).exec = o.executed
          /\ WithFill(l).entry.id = loc.entry.id
          /\ WithFill(l).done = (o.status = "done")
      BY <1>t DEF LocType, EntryType, WithFill
    <2>3. \/ Return \/ Goto("resubmit", loc)
          \/ Goto("decide", loc) /\ Accepted(loc.entry.id)
          \/ Goto("firstfill", WithFill(l))
          \/ Goto("decide", l)
      BY <1>11 DEF ReadOrder, Resubmit, Observe
    <2>6. /\ l.done => o.status = "done"
          /\ WithFill(l).done => o.status = "done"
      BY <2>2
    <2>7. /\ o.executed \in Nat
          /\ orders'[loc.entry.id].executed \in Nat
          /\ o.executed <= orders'[loc.entry.id].executed
          /\ o.status = "done" => orders'[loc.entry.id].status = "done"
          /\ o.status = "done" => orders'[loc.entry.id].executed = o.executed
      BY <2>1, <1>n, <1>g
    <2>8. loc.exec = 0 /\ ~loc.done
      BY <2>1 DEF TermInv
    <2> HIDE DEF l, o
    <2>9. CASE Return
      BY <2>9, <1>0
    <2>10. CASE Goto("resubmit", loc)
      BY <2>10, <2>8 DEF Goto, TermInv
    <2>11. CASE Goto("decide", loc)
      BY <2>11, <2>7, <2>8 DEF Goto, TermInv
    <2>12. CASE Goto("decide", l) \/ Goto("firstfill", WithFill(l))
      BY <2>12, <2>2, <2>6, <2>7 DEF Goto, TermInv, Final
    <2> QED
      BY <2>3, <2>9, <2>10, <2>11, <2>12
  <1>12. CASE DecideFlat
    <2> DEFINE l == [loc EXCEPT !.out = bought - pos, !.proven = TRUE]
    <2>1. /\ pc = "decide"
          /\ loc.done => Goto("clean", l)
          /\ ~loc.done => Goto("flatcancel", l)
      BY <1>12, <1>t DEF DecideFlat, LocType
    <2>2. l.exec = loc.exec /\ l.entry = loc.entry /\ l.done = loc.done
      BY <1>t DEF LocType
    <2> HIDE DEF l
    <2> QED
      BY <2>1, <2>2, <1>t, <1>n, <1>g DEF Goto, TermInv, Final
  <1>13. CASE Decide
    <2>0. late \in BOOLEAN
      BY DEF TypeInv, CountType
    <2>1. PICK inv \in BOOLEAN :
             LET l == [loc EXCEPT !.inv = inv, !.due = late] IN
             IF Concludes(l)
             THEN Goto(IF loc.done THEN "settle" ELSE "freeze", l)
             ELSE IF loc.exec > 0
             THEN Goto(IF loc.entry.stop THEN "tail" ELSE "provstop", l)
             ELSE \/ Goto("tail", l)
                  \/ loc.entry.tries < MaxReprices /\ Goto("rpcancel", l)
      BY <1>13, Zenon DEF Decide
    <2> DEFINE l == [loc EXCEPT !.inv = inv, !.due = late]
    <2>2. l.exec = loc.exec /\ l.entry = loc.entry
      BY <2>0, <1>t DEF LocType
    <2>3. /\ pc = "decide" /\ loc' = l
          /\ pc' \in {"settle", "freeze", "tail", "provstop", "rpcancel"}
          /\ pc' = "settle" => loc.done
      BY <1>13, <2>1 DEF Decide, Goto
    <2> HIDE DEF l
    <2> QED
      BY <2>2, <2>3, <1>t, <1>n, <1>g DEF TermInv, Final
  <1>14. CASE FlatCancel
    <2> DEFINE l == [loc EXCEPT !.exec = larger]
    <2>1. /\ pc = "flatcancel"
          /\ Return \/ Frozen(loc.entry.id)
          /\ Return \/ Goto("flatrace", l) \/ Goto("flatcheck", l)
      BY <1>14 DEF FlatCancel
    <2> HIDE DEF larger
    <2>2. l.exec = larger /\ l.entry.id = loc.entry.id
      BY <1>t DEF LocType
    <2> HIDE DEF l
    <2> QED
      BY <2>1, <2>2, <1>0, <1>c, <1>l DEF Goto, TermInv, Final
  <1>15. CASE FlatRace \/ FlatCheck
    BY <1>15, <1>0, <1>t, <1>g DEF FlatRace, FlatCheck, Goto, TermInv, Final
  <1>16. CASE Freeze
    <2> DEFINE l == [loc EXCEPT !.exec = larger, !.entry.filled = @ \/ larger > 0]
    <2>1. /\ pc = "freeze"
          /\ Return \/ Frozen(loc.entry.id)
          /\ Return \/ Goto("settle", l)
      BY <1>16 DEF Freeze
    <2> HIDE DEF larger
    <2>2. l.exec = larger /\ l.entry.id = loc.entry.id
      BY <1>t DEF LocType, EntryType
    <2> HIDE DEF l
    <2> QED
      BY <2>1, <2>2, <1>0, <1>c, <1>l DEF Goto, TermInv, Final
  <1>17. CASE SettleFallback \/ Settle
    BY <1>17, <1>0, <1>t, <1>g
       DEF SettleFallback, Settle, Conclude, Goto, TermInv, Final
  <1>18. CASE Fallback
    <2>1. pc = "fallback" /\ pc' \in {"idle", "drop", "finalize", "fincancel"}
      BY <1>18 DEF Fallback, FallbackDone, Goto, Return
    <2> QED
      BY <2>1 DEF TermInv, IdInv
  <1>19. CASE PsCancel
    <2> DEFINE l == [loc EXCEPT !.exec = larger]
    <2>1. /\ pc = "pscancel"
          /\ Goto("halt", loc) \/ Frozen(loc.entry.id)
          /\ Goto("halt", loc) \/ Goto("pskeep", l)
      BY <1>19 DEF PsCancel
    <2> HIDE DEF larger
    <2>2. l.exec = larger /\ l.entry.id = loc.entry.id
      BY <1>t DEF LocType
    <2> HIDE DEF l
    <2> QED
      BY <2>1, <2>2, <1>0, <1>c, <1>l DEF Goto, TermInv, Final
  <1>20. CASE RpCancel
    <2> DEFINE l == [WithFill(loc) EXCEPT !.exec = larger]
    <2>1. /\ pc = "rpcancel"
          /\ Return \/ Frozen(loc.entry.id)
          /\ Return \/ pc' = "rpsubmit" \/ Goto("finalize", l) \/ Goto("fincancel", l)
      BY <1>20 DEF RpCancel, Conclude, Goto
    <2> HIDE DEF larger
    <2>2. l.exec = larger /\ l.entry.id = loc.entry.id
      BY <1>t DEF LocType, EntryType, WithFill
    <2> HIDE DEF l
    <2> QED
      BY <2>1, <2>2, <1>0, <1>c, <1>l DEF Goto, TermInv, Final
  <1>21. CASE Finalize \/ Takes \/ Promote \/ FinCancel \/ FinFlatten \/ Clean \/ Account
    <2>1. /\ pc \in {"finalize", "takes", "promote", "fincancel", "finflatten", "clean", "account"}
          /\ \/ pc' \in {"takes", "fincancel", "promote", "finflatten", "clean", "account"} /\ UNCHANGED loc
             \/ pc' \in {"idle", "halt"}
      BY <1>21
         DEF Finalize, Takes, Promote, FinCancel, FinFlatten, Clean, Account,
             FinishErr, Goto, Return
    <2> QED
      BY <2>1, <1>t, <1>g DEF TermInv, Final
  <1>22. CASE UNCHANGED <<pc, loc>>
    BY <1>22, <1>t, <1>n, <1>g DEF TermInv, Final
  <1>23. CASE Environment \/ AccountLate
    BY <1>23, <1>0, <1>22
       DEF Environment, Fill, ExchangeEnds, StopTriggers, OperatorCloses,
           Deadline, Crash, AccountLate
  <1> QED
    BY <1>1, <1>2, <1>3, <1>4, <1>5, <1>6, <1>7, <1>8, <1>9, <1>10, <1>11,
       <1>12, <1>13, <1>14, <1>15, <1>16, <1>17, <1>18, <1>19, <1>20, <1>21,
       <1>23
       DEF Next, Submission, Progress, Conclusion

-----------------------------------------------------------------------------
(* The pending entry keeps naming the active order.                        *)
LEMMA OwnStep ==
    ASSUME Durable, RepricesOwned
    PROVE  TypeInv /\ SavedInv /\ WorkInv /\ IdInv /\ ActiveInv /\ OwnInv /\ Next => OwnInv'
  <1> SUFFICES ASSUME TypeInv, SavedInv, WorkInv, IdInv, ActiveInv, OwnInv, Next
               PROVE  OwnInv'
    OBVIOUS
  <1>1. Flow /\ OrdersMove
    BY FlowStep, MoveOfOrders
  <1>2. \/ Active' \subseteq Active
        \/ /\ Active = {} /\ Active' = {loc.entry.id}
           /\ pc \in {"post", "resubmit", "rpsubmit"} /\ Accepted(loc.entry.id)
        \/ pc = "fallback" /\ Active' \subseteq {FallbackId}
    BY <1>1, ActiveMove
  <1>3. NoId \notin Ids /\ NoEntry.id = NoId
    BY IdFacts DEF NoEntry
  <1>4. /\ Tracked(mem) <=> mem.entry.id # NoId
        /\ Tracked(mem)' <=> mem'.entry.id # NoId
    BY DEF Tracked
  <1> USE DEF Steady, Unplaced
  <1>a. pc' \notin {"idle", "persist", "rpsubmit", "tail", "halt"} =>
            mem'.entry.id = loc'.entry.id
    BY <1>1 DEF Flow, OwnInv, WorkInv
  <1>b. pc' = "tail" /\ MaxReprices = 0 => mem'.entry.id = loc'.entry.id
    BY <1>1 DEF Flow, OwnInv, IdInv
  <1>c. pc' = "halt" /\ ~loc'.halting => mem'.entry.id = loc'.entry.id
    BY <1>1 DEF Flow, OwnInv
  <1>d. ASSUME Tracked(mem)' PROVE Active' \subseteq {FallbackId, Named'}
    <2>1. CASE Active = {} /\ Active' = {loc.entry.id}
               /\ pc \in {"post", "resubmit", "rpsubmit"} /\ Accepted(loc.entry.id)
      <3>1. CASE pc \in {"post", "resubmit"}
        <4>1. mem.entry.id = loc.entry.id
          BY <3>1 DEF WorkInv
        <4>2. pc' # "tail" /\ mem'.entry \in {mem.entry, NoEntry}
          BY <3>1, <1>1 DEF Flow
        <4> QED
          BY <2>1, <4>1, <4>2, <1>d, <1>3, <1>4 DEF Named
      <3>2. CASE pc = "rpsubmit"
        <4>1. loc.entry.id \in Live' /\ loc.entry.id \notin Live
          BY <2>1, <3>2, Zenon DEF TypeInv, HandlerType, ExchangeType, Accepted, Live
        <4>2. orders' # orders
          BY <4>1 DEF Live
        <4>3. pc' # "rpsubmit" \/ ~(Live' \subseteq Live)
          BY <4>1
        <4>4. MaxReprices # 0 /\ "lost" \notin Faults
          BY <3>2 DEF IdInv, RepricesOwned
        <4>5. pc' = "tail" /\ UNCHANGED loc
          BY <3>2, <4>1, <4>2, <4>4, <1>1 DEF Flow
        <4> QED
          BY <2>1, <4>5 DEF Named
      <3> QED
        BY <2>1, <3>1, <3>2
    <2>2. CASE Active' \subseteq Active
      <3>1. CASE pc = "tail"
        <4>1. Tracked(mem)
          BY <3>1 DEF WorkInv
        <4>2. Active \subseteq {FallbackId, loc.entry.id}
          BY <3>1, <4>1 DEF OwnInv, Named
        <4>3. CASE pc' = "tail"
          <5>1. UNCHANGED loc
            BY <3>1, <4>3, <1>1 DEF Flow
          <5> QED
            BY <2>2, <4>2, <4>3, <5>1 DEF Named
        <4>4. CASE pc' # "tail"
          <5>1. pc' = "idle"
            BY <3>1, <4>4, <1>1 DEF Flow
          <5>2. \/ mem'.entry = loc.entry
                \/ mem'.entry \in {mem.entry, NoEntry} /\ MaxCrashes # 0
            BY <3>1, <4>4, <1>1 DEF Flow
          <5>3. mem'.entry.id = loc.entry.id
            BY <3>1, <5>2, <1>d, <1>3, <1>4 DEF RepricesOwned, OwnInv
          <5> QED
            BY <2>2, <4>2, <5>1, <5>3 DEF Named
        <4> QED
          BY <4>3, <4>4
      <3>2. CASE pc \in {"persist", "post", "rpsubmit"}
        BY <3>2, <2>2 DEF ActiveInv
      <3>3. CASE pc \notin {"persist", "post", "rpsubmit", "tail"}
        <4>1. mem'.entry.id = mem.entry.id
          <5>1. \/ mem'.entry \in {mem.entry, NoEntry}
                \/ mem'.entry = loc.entry /\ pc # "idle" /\ (pc = "halt" => ~loc.halting)
            BY <3>3, <1>1 DEF Flow
          <5> QED
            BY <5>1, <3>3, <1>d, <1>3, <1>4 DEF OwnInv
        <4>2. Active \subseteq {FallbackId, mem.entry.id}
          BY <3>3, <4>1, <1>d, <1>4 DEF OwnInv, Named
        <4>3. CASE pc' = "tail"
          <5>1. loc'.entry.id = loc.entry.id /\ mem.entry.id = loc.entry.id
            BY <3>3, <4>3, <1>1 DEF Flow, OwnInv
          <5> QED
            BY <2>2, <4>2, <4>3, <5>1 DEF Named
        <4> QED
          BY <2>2, <4>1, <4>2, <4>3 DEF Named
      <3> QED
        BY <3>1, <3>2, <3>3
    <2> QED
      BY <1>2, <2>1, <2>2
  <1> QED
    BY <1>a, <1>b, <1>c, <1>d DEF OwnInv, Tracked, Named

(* A second order never becomes active.                                    *)
LEMMA ActiveStep ==
    ASSUME Durable, ~TakerFallback \/ RepricesOwned
    PROVE  /\ TypeInv /\ SavedInv /\ ClaimInv /\ LiveInv /\ WorkInv /\ ActiveInv /\ TermInv
           /\ RepricesOwned => OwnInv
           /\ Next
           => ActiveInv'
  <1> SUFFICES ASSUME TypeInv, SavedInv, ClaimInv, LiveInv, WorkInv, ActiveInv, TermInv,
                      RepricesOwned => OwnInv, Next
               PROVE  ActiveInv'
    OBVIOUS
  <1>1. Flow /\ OrdersMove
    BY FlowStep, MoveOfOrders
  <1>2. \A i \in Ids : orders[i].status # "none" => orders'[i].status # "none"
    BY <1>1, OrdersLast
  <1>3. \/ Active' \subseteq Active
        \/ /\ Active = {} /\ Active' = {loc.entry.id}
           /\ pc \in {"post", "resubmit", "rpsubmit"} /\ Accepted(loc.entry.id)
        \/ pc = "fallback" /\ Active' \subseteq {FallbackId}
    BY <1>1, ActiveMove
  <1>4. /\ pc # "idle" => loc.entry.id \in Ids
        /\ mem.entry.id \in Ids \cup {NoId}
    BY DEF TypeInv, HandlerType, StatesType, StateType, EntryType
  <1>5. /\ Tracked(mem) <=> mem.entry.id # NoId
        /\ Tracked(mem)' <=> mem'.entry.id # NoId
    BY DEF Tracked
  <1>6. NoId \notin Ids /\ NoEntry.id = NoId
    BY IdFacts DEF NoEntry
  <1>7. UNCHANGED orders => Active' = Active
    BY DEF Active
  <1>8. pc # "idle" /\ Accepted(loc.entry.id) => orders'[loc.entry.id].status # "none"
    BY AcceptedPlaced
  <1> USE DEF Steady, Unplaced
  <1>a. \A i, j \in Active' : i = j
    BY <1>3 DEF ActiveInv
  <1>b. pc' \in {"persist", "post", "rpsubmit"} => Active' = {}
    <2>1. CASE pc = "idle"
      <3>1. ~mem.seen => Active = {}
        BY DEF ClaimInv, TypeInv, ExchangeType, Active
      <3> QED
        BY <2>1, <3>1, <1>1, <1>7 DEF Flow
    <2>2. CASE pc = "rpcancel"
      <3>1. Canceled(loc.entry.id) /\ orders[loc.entry.id].executed = 0 =>
               Active' \subseteq Active \ {loc.entry.id}
        BY <2>2, <1>4 DEF TypeInv, ExchangeType, Canceled, Active
      <3>2. Active \subseteq {loc.entry.id}
        BY <2>2 DEF ActiveInv, LiveInv
      <3>3. pc' = "rpsubmit" => Canceled(loc.entry.id) /\ orders[loc.entry.id].executed = 0
        BY <2>2, <1>1 DEF Flow
      <3>4. pc' \in {"persist", "post"} => FALSE
        BY <2>2, <1>1 DEF Flow
      <3> QED
        BY <2>2, <3>1, <3>2, <3>3, <3>4
    <2>3. CASE pc \in {"persist", "post"}
      <3>1. pc' \in {"persist", "post", "rpsubmit"} =>
               UNCHANGED orders \/ Live' \subseteq Live
        BY <2>3, <1>1 DEF Flow
      <3>2. ASSUME Accepted(loc.entry.id) PROVE ~(Live' \subseteq Live)
        BY <2>3, <3>2, <1>4 DEF Accepted, Live, TypeInv, ExchangeType
      <3> QED
        BY <2>3, <3>1, <3>2, <1>3, <1>7 DEF ActiveInv
    <2>4. CASE pc = "rpsubmit"
      <3>1. pc' \in {"persist", "post", "rpsubmit"} => Live' \subseteq Live
        BY <2>4, <1>1 DEF Flow
      <3>2. ASSUME Accepted(loc.entry.id) PROVE ~(Live' \subseteq Live)
        BY <2>4, <3>2, <1>4 DEF Accepted, Live, TypeInv, ExchangeType
      <3> QED
        BY <2>4, <3>1, <3>2, <1>3 DEF ActiveInv
    <2>5. CASE pc \notin {"idle", "rpcancel", "persist", "post", "rpsubmit"}
      BY <2>5, <1>1 DEF Flow
    <2> QED
      BY <2>1, <2>2, <2>3, <2>4, <2>5
  <1>c. ASSUME Tracked(mem)', orders'[mem'.entry.id].status = "none" PROVE Active' = {}
    <2>1. mem'.entry.id \in Ids
      BY TypeStep, <1>c, <1>5 DEF TypeInv, StatesType, StateType, EntryType
    <2>2. orders[mem'.entry.id].status = "none"
      BY <1>2, <1>c, <2>1
    <2>3. \/ mem'.entry = mem.entry
          \/ mem'.entry = loc.entry /\ UNCHANGED orders /\ pc # "idle"
             /\ (pc = "persist" \/ pc \notin Steady)
      BY <1>1, <1>c, <1>5, <1>6 DEF Flow
    <2>4. CASE mem'.entry = mem.entry
      <3>1. Active = {}
        BY <2>2, <2>4, <1>c, <1>5 DEF ActiveInv
      <3>2. pc # "fallback"
        BY <2>2, <2>4 DEF WorkInv
      <3>3. ~(pc \in {"post", "resubmit"} /\ Accepted(loc.entry.id))
        BY <1>c, <2>4, <1>8 DEF WorkInv
      <3>4. pc # "rpsubmit"
        BY <2>2, <2>4 DEF WorkInv
      <3> QED
        BY <3>1, <3>2, <3>3, <3>4, <1>3
    <2>5. CASE /\ mem'.entry = loc.entry /\ UNCHANGED orders /\ pc # "idle"
               /\ (pc = "persist" \/ pc \notin Steady)
      BY <2>2, <2>5, <1>7 DEF WorkInv, ActiveInv
    <2> QED
      BY <2>3, <2>4, <2>5
  <1>d. pc' \in {"firstfill", "decide", "rpcancel"} /\ ~loc'.done => Active' \subseteq {loc'.entry.id}
    <2>1. CASE pc = "read" \/ pc = "resubmit"
      <3>1. orders[loc.entry.id].status \in {"none", "live", "done"}
        BY <2>1, <1>4 DEF TypeInv, ExchangeType
      <3>2. orders[loc.entry.id].status = "live" => Active \subseteq {loc.entry.id}
        BY <2>1, <1>4 DEF ActiveInv, Active
      <3>3. Accepted(loc.entry.id) => Active' \subseteq {loc.entry.id}
        <4>1. Accepted(loc.entry.id) => Active = {}
          BY <2>1, <1>4, <1>5, <1>6 DEF ActiveInv, WorkInv, Accepted
        <4> QED
          BY <4>1, <2>1, <1>3
      <3> QED
        BY <2>1, <3>1, <3>2, <3>3, <1>1, <1>7 DEF Flow
    <2>2. CASE pc \in {"firstfill", "decide", "rpcancel"}
      BY <2>2, <1>1, <1>3, <1>7 DEF Flow, ActiveInv
    <2>3. CASE pc \notin {"read", "resubmit", "firstfill", "decide", "rpcancel"}
      BY <2>3, <1>1 DEF Flow
    <2> QED
      BY <2>1, <2>2, <2>3
  <1>e. pc' = "fallback" => Active' \subseteq {FallbackId}
    <2>1. CASE pc = "settle"
      <3>1. pc' = "fallback" => UNCHANGED orders /\ loc.exec = 0 /\ TakerFallback
        BY <2>1, <1>1 DEF Flow
      <3>2. ASSUME pc' = "fallback" PROVE loc.entry.id \notin Active
        BY <2>1, <3>1, <3>2 DEF TermInv, Final, Active
      <3>3. ASSUME pc' = "fallback" PROVE Active \subseteq {FallbackId, loc.entry.id}
        BY <2>1, <3>1, <3>3 DEF OwnInv, Named, WorkInv
      <3> QED
        BY <3>1, <3>2, <3>3, <1>7
    <2>2. CASE pc = "fallback"
      BY <2>2, <1>3 DEF ActiveInv
    <2>3. CASE pc \notin {"settle", "fallback"}
      BY <2>3, <1>1 DEF Flow
    <2> QED
      BY <2>1, <2>2, <2>3
  <1> QED
    BY <1>a, <1>b, <1>c, <1>d, <1>e DEF ActiveInv, Tracked

(***************************************************************************)
(* The inductive invariant behind the quantity.                            *)
(***************************************************************************)
QInv == /\ IInv /\ IdInv /\ ActiveInv /\ SumInv /\ TermInv
        /\ RepricesOwned => OwnInv

(* It holds initially,                                                     *)
LEMMA QInvInit == Init => QInv
  <1> SUFFICES ASSUME Init PROVE QInv
    OBVIOUS
  <1>1. IInv
    BY IInvInit
  <1>2. /\ \A i \in Ids : orders[i].status = "none" /\ orders[i].executed = 0
        /\ pc = "idle" /\ ~Tracked(mem) /\ mem.entry.id = NoId /\ bought = 0
    BY DEF Init, Tracked, NoEntry
  <1>3. Active = {}
    BY <1>2 DEF Active
  <1>4. IdInv
    BY <1>2, IdFacts DEF IdInv, NoId, FallbackId
  <1>5. ActiveInv /\ SumInv
    BY <1>2, <1>3 DEF ActiveInv, SumInv
  <1>6. TermInv /\ OwnInv
    BY <1>2 DEF TermInv, OwnInv, Reading, Concluding
  <1> QED
    BY <1>1, <1>4, <1>5, <1>6 DEF QInv

(* and every step preserves it.                                            *)
LEMMA QInvStep ==
    ASSUME Durable, ~TakerFallback \/ RepricesOwned
    PROVE  QInv /\ [Next]_vars => QInv'
  <1> SUFFICES ASSUME QInv, [Next]_vars PROVE QInv'
    OBVIOUS
  <1>0. IInv'
    BY IInvStep DEF QInv
  <1>1. CASE Next
    <2>1. OrdersMove
      BY <1>1, MoveOfOrders DEF QInv, IInv
    <2>2. IdInv' /\ TermInv'
      BY <1>1, IdStep, TermStep DEF QInv, IInv
    <2>3. SumInv'
      BY <2>1, SumStep DEF QInv, IInv
    <2>4. ActiveInv'
      BY <1>1, ActiveStep DEF QInv, IInv
    <2>5. RepricesOwned => OwnInv'
      BY <1>1, OwnStep DEF QInv, IInv
    <2> QED
      BY <1>0, <2>2, <2>3, <2>4, <2>5 DEF QInv, RepricesOwned
  <1>2. CASE UNCHANGED vars
    <2>1. UNCHANGED <<IdInv, TermInv>>
      BY <1>2 DEF vars, IdInv, TermInv, Final
    <2>2. UNCHANGED <<ActiveInv, SumInv, OwnInv>>
      BY <1>2 DEF vars, ActiveInv, SumInv, OwnInv, Named, Active, Tracked
    <2> QED
      BY <1>0, <2>1, <2>2 DEF QInv, RepricesOwned
  <1> QED
    BY <1>1, <1>2

(* All orders of one candidate together never execute more than the        *)
(* quantity sized for it (apply_plans), through every reprice, margin      *)
(* retry, fallback, failure and restart.  Assumed: save() succeeds or no   *)
(* process dies, and a plan with a taker fallback has no reprice that a    *)
(* crash or a lost answer can leave unnamed.                               *)
THEOREM QuantityBought ==
    ASSUME Durable, ~TakerFallback \/ RepricesOwned
    PROVE  Spec => []NoDoubleFill
  <1>1. Init => QInv
    BY QInvInit
  <1>2. QInv /\ [Next]_vars => QInv'
    BY QInvStep
  <1>3. QInv => NoDoubleFill
    <2> SUFFICES ASSUME QInv PROVE bought <= Q
      BY DEF NoDoubleFill
    <2>1. CASE Active = {}
      BY <2>1, QAssumption DEF QInv, SumInv
    <2>2. ASSUME NEW i \in Active PROVE bought <= Q
      <3>1. orders[i].executed \in 0..Q
        BY <2>2 DEF QInv, IInv, TypeInv, ExchangeType, Active
      <3>2. orders[i].executed = bought
        BY <2>2 DEF QInv, SumInv
      <3> QED
        BY <3>1, <3>2
    <2> QED
      BY <2>1, <2>2
  <1> QED
    BY <1>1, <1>2, <1>3, PTL DEF Spec

=============================================================================
